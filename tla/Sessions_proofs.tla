--------------------------- MODULE Sessions_proofs ---------------------------
(***************************************************************************)
(* Safety of Sessions for any number of tabs, any windows and latency, and *)
(* any workload.                                                           *)
(***************************************************************************)
EXTENDS Sessions, TLAPS

\* A cookie of a session that was let in within an idle window of its expiry, that
\* was not signed out of, and that no change of password has left behind.
Sound(c) ==
  c # NoCookie =>
    /\ c.start \in DOMAIN served /\ c.exp <= served[c.start] + IdleMs
    /\ c.start \notin ended
    /\ kept <= c.epoch /\ c.epoch <= epoch

\* What the answer to a request is: a handler that issues its own cookie sends that
\* one alone.
RequestOK(r) ==
  /\ Sound(r.cookie) /\ \A c \in r.setCookies : Sound(c)
  /\ r.verdict = "awaited" => r.setCookies = {}
  /\ r.kind # "login" /\ r.verdict \in {"ok", "terminated"} => r.cookie # NoCookie
  /\ r.kind = "logout" /\ r.verdict = "ok" => r.setCookies = {NoCookie}
  /\ r.kind = "changePassword" /\ r.verdict = "ok" =>
       /\ r.cookie.epoch < epoch
       /\ r.setCookies # {}
       /\ \A c \in r.setCookies : c # NoCookie /\ r.cookie.epoch < c.epoch

\* One sign-in at most is under way, and it begins a session of its own.
LoginInv ==
  \A r \in requests : r.kind = "login" =>
    /\ \A q \in requests : q.kind = "login" => q = r
    /\ r.verdict = "awaited" => \A s \in DOMAIN served : s < time

SessionInv ==
  /\ TypeOK
  /\ Sound(jar)
  /\ \A r \in requests : RequestOK(r)
  /\ LoginInv
-----------------------------------------------------------------------------
(* What the model's operators return.                                      *)

LEMMA WindowTypes ==
  ASSUME Parameters
  PROVE  pingInterval \in Nat /\ FirstMoment \in Nat
<1>1. IdleMs \div 3 \in Nat BY DEF Parameters
<1>2. QED BY <1>1 DEF Parameters, pingInterval, FirstMoment, Least, Greatest

LEMMA AskType ==
  ASSUME NEW t \in Tabs, NEW kind \in Kinds, NEW cookie \in Cookie, time \in Nat
  PROVE  /\ Ask(t, kind, cookie) \in Request
         /\ Ask(t, kind, cookie).kind = kind /\ Ask(t, kind, cookie).cookie = cookie
         /\ Ask(t, kind, cookie).verdict = "awaited"
         /\ Ask(t, kind, cookie).setCookies = {}
BY DEF Ask, Request

AnswerTo(r, verdict, S) == [r EXCEPT !.verdict = verdict, !.setCookies = S]

LEMMA AnsweredType ==
  ASSUME NEW r \in Request, NEW verdict \in {"ok", "unauthorized", "terminated"},
         NEW S \in SUBSET Cookie,
         NEW a, a = AnswerTo(r, verdict, S)
  PROVE  /\ a \in Request /\ a.verdict = verdict /\ a.setCookies = S
         /\ a.kind = r.kind /\ a.cookie = r.cookie /\ a.tab = r.tab /\ a.sentAt = r.sentAt
<1> DEFINE b == [r EXCEPT !.verdict = verdict]
<1>1. /\ b \in Request /\ b.verdict = verdict /\ b.tab = r.tab /\ b.kind = r.kind
      /\ b.cookie = r.cookie /\ b.sentAt = r.sentAt
  BY DEF Request
<1>2. a = [b EXCEPT !.setCookies = S]
  BY DEF AnswerTo
<1> HIDE DEF b
<1>3. QED BY <1>1, <1>2 DEF Request

\* The cookies the proxy and the handlers make are tokens, and expire within the
\* idle window from now.
LEMMA TokenTypes ==
  ASSUME Parameters, time \in Nat, NEW token \in Token, NEW e \in Nat
  PROVE  /\ Slid(token) \in Token /\ Slid(token).start = token.start
         /\ Slid(token).epoch = token.epoch /\ Slid(token).exp <= time + IdleMs
         /\ createToken(token.start, e) \in Token
         /\ createToken(token.start, e).start = token.start
         /\ createToken(token.start, e).epoch = e
         /\ createToken(token.start, e).exp = time + IdleMs
<1>1. /\ IdleMs \in Nat /\ AbsoluteMs \in Nat /\ time + IdleMs \in Nat
      /\ token.start \in Nat /\ token.exp \in Nat /\ token.epoch \in Nat
      /\ token.start + AbsoluteMs \in Nat
  BY DEF Parameters, Token
<1> DEFINE exp == Least(time + IdleMs, absoluteDeadline(token))
<1>2. exp \in Nat /\ exp <= time + IdleMs BY <1>1 DEF Least, absoluteDeadline
<1>3. Slid(token) = [start |-> token.start, exp |-> exp, epoch |-> token.epoch]
  BY DEF Slid, Token
<1> HIDE DEF exp
<1>4. QED BY <1>1, <1>2, <1>3 DEF createToken, Token

LEMMA TabTypes ==
  ASSUME NEW u \in Tab
  PROVE  Disowned(u) \in Tab /\ Closed \in Tab
BY DEF Disowned, Closed, Tab

LEMMA InitInv ==
  ASSUME Parameters PROVE Init => SessionInv
<1> SUFFICES ASSUME Init PROVE SessionInv
  OBVIOUS
<1>1. time \in Nat BY WindowTypes DEF Init
<1>2. workload \in Workload BY DEF Init, Parameters
<1>3. chosen \in 0..workload.often BY <1>2 DEF Init, Workload
<1>4. tabs \in [Tabs -> Tab] BY DEF Init, Closed, Tab
<1>5. DOMAIN served = {} BY DEF Init
<1>6. TypeOK BY <1>1, <1>3, <1>4, <1>5 DEF Init, TypeOK, Cookie
<1>7. QED BY <1>6 DEF Init, SessionInv, Sound, LoginInv
-----------------------------------------------------------------------------
(* Steps that send requests, and steps that answer one.                    *)

\* A cookie stays sound while sessions are let in and the epoch grows.
LEMMA SoundStays ==
  ASSUME TypeOK, TypeOK', UNCHANGED <<kept, ended>>, epoch <= epoch',
         NEW c \in Cookie, Sound(c), Parameters,
         \A s \in DOMAIN served : s \in DOMAIN served' /\ served[s] <= served'[s]
  PROVE  Sound(c)'
<1> SUFFICES ASSUME c # NoCookie PROVE Sound(c)'
  BY DEF Sound
<1>1. c.start \in Nat /\ c.exp \in Nat /\ c.epoch \in Nat BY DEF Cookie, Token
<1>2. served[c.start] \in Nat /\ served'[c.start] \in Nat /\ IdleMs \in Nat
      /\ epoch \in Nat /\ epoch' \in Nat /\ time \in Nat /\ time' \in Nat
      /\ served[c.start] <= served'[c.start] /\ c.start \in DOMAIN served'
  BY <1>1 DEF Sound, TypeOK, Parameters
<1>3. QED BY <1>1, <1>2 DEF Sound

LEMMA AnswerStays ==
  ASSUME TypeOK, TypeOK', UNCHANGED <<kept, ended>>, epoch <= epoch',
         NEW r \in Request, RequestOK(r), Parameters,
         \A s \in DOMAIN served : s \in DOMAIN served' /\ served[s] <= served'[s]
  PROVE  RequestOK(r)'
<1>1. r.cookie \in Cookie /\ r.setCookies \subseteq Cookie BY DEF Request
<1>2. Sound(r.cookie)' /\ \A c \in r.setCookies : Sound(c)'
  BY <1>1, SoundStays DEF RequestOK
<1>3. epoch \in Nat /\ epoch' \in Nat BY DEF TypeOK
<1>4. r.cookie # NoCookie => r.cookie.epoch \in Nat BY <1>1 DEF Cookie, Token
<1>5. QED BY <1>2, <1>3, <1>4 DEF RequestOK

\* Whatever was sent with the jar's cookie and nobody has answered.
Sent(a) ==
  a \in Request /\ a.cookie = jar /\ a.verdict = "awaited" /\ a.setCookies = {}

LEMMA SendStep ==
  ASSUME SessionInv, Parameters, TypeOK', UNCHANGED <<kept, ended, jar, served>>,
         epoch <= epoch', time <= time', NEW asked, \A a \in asked : Sent(a),
         requests' = requests \cup asked,
         \A a \in asked : a.kind = "login" =>
           /\ asked = {a} /\ \A q \in requests : q.kind # "login"
           /\ \A s \in DOMAIN served : s < time'
  PROVE  SessionInv'
<1> USE DEF SessionInv
<1>1. Sound(jar)'
  <2>1. jar \in Cookie BY DEF TypeOK
  <2>2. \A s \in DOMAIN served : served[s] <= served[s]
    BY DEF TypeOK
  <2>3. QED BY <2>1, <2>2, SoundStays DEF TypeOK
<1>2. ASSUME NEW r \in requests' PROVE RequestOK(r)'
  <2>1. CASE r \in requests
    <3>1. r \in Request BY <2>1 DEF TypeOK
    <3>2. \A s \in DOMAIN served : served[s] <= served[s]
      BY DEF TypeOK
    <3>3. QED BY <2>1, <3>1, <3>2, AnswerStays
  <2>2. CASE r \in asked
    BY <1>1, <2>2 DEF Sent, RequestOK
  <2>3. QED BY <2>1, <2>2
<1>3. LoginInv'
  <2>1. \A s \in DOMAIN served : s \in Nat BY DEF TypeOK
  <2>2. time \in Nat /\ time' \in Nat BY DEF TypeOK
  <2>3. QED BY <2>1, <2>2 DEF LoginInv
<1>4. QED BY <1>1, <1>2, <1>3

\* The request r is answered, with cookies that are sound.
LEMMA AnswerStep ==
  ASSUME SessionInv, Parameters, TypeOK', UNCHANGED <<kept, ended, jar>>,
         epoch <= epoch', NEW r \in requests, NEW a \in Request,
         \A s \in DOMAIN served : s \in DOMAIN served' /\ served[s] <= served'[s],
         requests' = (requests \ {r}) \cup {a},
         a.verdict # "awaited", a.kind = r.kind, RequestOK(a)',
         time' = time, DOMAIN served' = DOMAIN served \/ r.kind = "login"
  PROVE  SessionInv'
<1> USE DEF SessionInv
<1>1. Sound(jar)'
  <2>1. jar \in Cookie BY DEF TypeOK
  <2>2. QED BY <2>1, SoundStays
<1>2. ASSUME NEW q \in requests' PROVE RequestOK(q)'
  <2>1. CASE q = a BY <2>1
  <2>2. CASE q \in requests
    <3>1. q \in Request BY <2>2 DEF TypeOK
    <3>2. QED BY <2>2, <3>1, AnswerStays
  <2>3. QED BY <2>1, <2>2
<1>3. LoginInv'
  <2>1. \A q \in requests' : q = a \/ (q \in requests /\ q # r) OBVIOUS
  <2>2. \A q \in requests : q.kind = "login" /\ r.kind = "login" => q = r
    BY DEF LoginInv
  <2>3. QED BY <2>1, <2>2 DEF LoginInv
<1>4. QED BY <1>1, <1>2, <1>3
-----------------------------------------------------------------------------
(* The server's answers.                                                   *)

LEMMA LoginStep ==
  ASSUME SessionInv, Parameters, NEW r \in requests, Login(r) PROVE SessionInv'
<1> USE DEF SessionInv
<1> PICK c : c = createToken(time, epoch)
  OBVIOUS
<1> PICK a : a = AnswerTo(r, "ok", {c})
  OBVIOUS
<1>1. /\ r \in Request /\ time \in Nat /\ epoch \in Nat /\ IdleMs \in Nat
      /\ r.cookie \in Cookie
  BY DEF TypeOK, Parameters, Request
<1>2. /\ c \in Token /\ c.start = time /\ c.exp = time + IdleMs /\ c.epoch = epoch
      /\ c # NoCookie
  BY <1>1 DEF createToken, Token, Parameters
<1>3. requests' = (requests \ {r}) \cup {a}
  BY DEF Login, Answered, AnswerTo
<1>4. /\ a \in Request /\ a.verdict = "ok" /\ a.setCookies = {c} /\ a.kind = "login"
      /\ a.cookie = r.cookie
  <2>1. {c} \in SUBSET Cookie BY <1>2 DEF Cookie
  <2>2. QED BY <1>1, <2>1, AnsweredType DEF Login
<1>5. /\ UNCHANGED <<workload, chosen, time, epoch, jar, tabs, kept, ended>>
      /\ r.kind = "login" /\ \A s \in DOMAIN served : s < time
  BY DEF Login, LoginInv
<1>6. /\ DOMAIN served' = DOMAIN served \cup {time} /\ served'[time] = time
      /\ \A s \in DOMAIN served : served'[s] = served[s]
  BY <1>1, <1>5 DEF Login, TypeOK
<1>7. TypeOK'
  BY <1>1, <1>3, <1>4, <1>5, <1>6 DEF TypeOK
<1>8. \A s \in DOMAIN served : s \in DOMAIN served' /\ served[s] <= served'[s]
  BY <1>6 DEF TypeOK
<1>9. epoch <= epoch' BY <1>1, <1>5
<1>10. Sound(c)'
  BY <1>1, <1>2, <1>5, <1>6 DEF Sound, TypeOK
<1>11. Sound(r.cookie)'
  BY <1>1, <1>5, <1>7, <1>8, <1>9, SoundStays DEF RequestOK
<1>12. RequestOK(a)'
  BY <1>4, <1>10, <1>11 DEF RequestOK
<1>13. QED BY <1>1, <1>3, <1>4, <1>5, <1>7, <1>8, <1>9, <1>12, AnswerStep

LEMMA UnauthorizedStep ==
  ASSUME SessionInv, Parameters, NEW r \in requests, Unauthorized(r) PROVE SessionInv'
<1> USE DEF SessionInv
<1> DEFINE S == IF r.kind = "load" /\ r.cookie # NoCookie THEN {NoCookie} ELSE {}
<1> PICK a : a = AnswerTo(r, "unauthorized", S)
  OBVIOUS
<1>1. /\ r \in Request /\ epoch \in Nat /\ S \in SUBSET Cookie /\ \A c \in S : Sound(c)'
  BY DEF TypeOK, Cookie, Sound
<1>2. requests' = (requests \ {r}) \cup {a}
  BY DEF Unauthorized, Answered, AnswerTo
<1> HIDE DEF S
<1>3. /\ a \in Request /\ a.verdict = "unauthorized" /\ a.setCookies = S
      /\ a.kind = r.kind /\ a.cookie = r.cookie
  BY <1>1, AnsweredType
<1>4. UNCHANGED <<workload, chosen, time, epoch, jar, tabs, served, kept, ended>>
  BY DEF Unauthorized
<1>5. TypeOK' BY <1>1, <1>2, <1>3, <1>4 DEF TypeOK
<1>6. epoch <= epoch' BY <1>1, <1>4
<1>7. \A s \in DOMAIN served : s \in DOMAIN served' /\ served[s] <= served'[s]
  BY <1>4 DEF TypeOK
<1>8. Sound(r.cookie)'
  BY <1>4 DEF RequestOK, Sound
<1>9. RequestOK(a)' BY <1>1, <1>3, <1>8 DEF RequestOK
<1>10. QED BY <1>2, <1>3, <1>4, <1>5, <1>6, <1>7, <1>9, AnswerStep

\* What the proxy and the handler give to a request that the proxy admits is of
\* the same session, and no older.
LEMMA ServeStep ==
  ASSUME SessionInv, Parameters, NEW r \in requests, r.kind # "login",
         Admitted(r.cookie), served' = [served EXCEPT ![r.cookie.start] = time],
         UNCHANGED <<workload, chosen, time, jar, kept, ended>>,
         epoch' \in Nat, epoch <= epoch', tabs' \in [Tabs -> Tab],
         NEW verdict \in {"ok", "terminated"}, NEW S \in SUBSET Cookie,
         Answered(r, verdict, S),
         \A c \in S : c # NoCookie =>
           /\ c.start = r.cookie.start /\ c.exp <= time + IdleMs
           /\ r.cookie.epoch <= c.epoch /\ c.epoch <= epoch',
         r.kind = "logout" /\ verdict = "ok" => S = {NoCookie},
         r.kind = "changePassword" /\ verdict = "ok" =>
           /\ r.cookie.epoch < epoch' /\ S # {}
           /\ \A c \in S : c # NoCookie /\ r.cookie.epoch < c.epoch
  PROVE  SessionInv'
<1> USE DEF SessionInv
<1> DEFINE start == r.cookie.start
<1> PICK a : a = AnswerTo(r, verdict, S)
  OBVIOUS
<1>1. /\ r \in Request /\ r.cookie \in Token /\ r.cookie # NoCookie
      /\ time \in Nat /\ IdleMs \in Nat
  BY DEF Admitted, Verified, TypeOK, Request, Cookie, Parameters
<1>2. /\ start \in Nat /\ start \in DOMAIN served /\ start \notin ended
      /\ kept <= r.cookie.epoch /\ r.cookie.epoch \in Nat /\ start <= time
  BY <1>1 DEF RequestOK, Sound, Token, TypeOK
<1>3. requests' = (requests \ {r}) \cup {a}
  BY DEF Answered, AnswerTo
<1>4. /\ a \in Request /\ a.verdict = verdict /\ a.setCookies = S
      /\ a.kind = r.kind /\ a.cookie = r.cookie
  BY <1>1, AnsweredType
<1>5. /\ DOMAIN served' = DOMAIN served /\ served'[start] = time
      /\ \A s \in DOMAIN served : s # start => served'[s] = served[s]
  BY <1>2
<1>6. TypeOK'
  <2>1. kept' \in 0..epoch' BY DEF TypeOK
  <2>2. requests' \subseteq Request BY <1>3, <1>4 DEF TypeOK
  <2>3. /\ DOMAIN served' \subseteq 0..time' /\ ended' \subseteq DOMAIN served'
        /\ \A s \in DOMAIN served' : served'[s] \in s..time'
    BY <1>1, <1>2, <1>5 DEF TypeOK
  <2>4. QED BY <2>1, <2>2, <2>3 DEF TypeOK
<1>7. \A s \in DOMAIN served : s \in DOMAIN served' /\ served[s] <= served'[s]
  BY <1>1, <1>5 DEF TypeOK
<1>8. ASSUME NEW c \in S PROVE Sound(c)'
  <2>1. SUFFICES ASSUME c # NoCookie PROVE Sound(c)'
    BY DEF Sound
  <2>2. c.epoch \in Nat /\ kept \in Nat BY <2>1 DEF Cookie, Token, TypeOK
  <2>3. QED BY <1>1, <1>2, <1>5, <2>1, <2>2 DEF Sound
<1>9. Sound(r.cookie)'
  BY <1>1, <1>6, <1>7, SoundStays DEF RequestOK, Cookie
<1>10. RequestOK(a)'
  BY <1>1, <1>4, <1>8, <1>9 DEF RequestOK
<1>11. QED BY <1>3, <1>4, <1>5, <1>6, <1>7, <1>10, AnswerStep

LEMMA ServesStep ==
  ASSUME SessionInv, Parameters, NEW r \in requests, Serve(r) PROVE SessionInv'
<1> USE DEF SessionInv
<1> DEFINE slid == Slides(r.cookie, r.kind)
           stale == r.kind \notin {"load", "logout"} /\ isSessionEpochStale(r.cookie)
           own == createToken(r.cookie.start, epoch + 1)
<1>1. /\ r.kind # "login" /\ Admitted(r.cookie)
      /\ served' = [served EXCEPT ![r.cookie.start] = time]
      /\ UNCHANGED <<workload, chosen, time, jar, kept, ended>>
  BY DEF Serve
<1>2. /\ r \in Request /\ r.cookie \in Token /\ r.cookie # NoCookie
      /\ time \in Nat /\ epoch \in Nat /\ tabs \in [Tabs -> Tab]
  BY <1>1 DEF Admitted, Verified, TypeOK, Request, Cookie
<1>3. r.cookie.epoch \in Nat /\ r.cookie.epoch <= epoch
  BY <1>2 DEF RequestOK, Sound, Token
<1>4. /\ slid \in SUBSET Cookie
      /\ \A c \in slid : c # NoCookie =>
           /\ c.start = r.cookie.start /\ c.exp <= time + IdleMs
           /\ c.epoch = r.cookie.epoch
      /\ r.kind \in {"logout", "changePassword"} => slid = {}
  <2>1. \A c \in slid : c = Slid(r.cookie) BY DEF Slides
  <2>2. Slid(r.cookie) \in Token /\ Slid(r.cookie).start = r.cookie.start
        /\ Slid(r.cookie).epoch = r.cookie.epoch /\ Slid(r.cookie).exp <= time + IdleMs
    BY <1>2, TokenTypes
  <2>3. r.kind \in {"logout", "changePassword"} => slid = {}
    BY DEF Slides, issuesOwnAuthCookie
  <2>4. QED BY <2>1, <2>2, <2>3 DEF Cookie
<1>5. /\ own \in Cookie /\ own # NoCookie /\ own.start = r.cookie.start
      /\ own.epoch = epoch + 1 /\ own.exp = time + IdleMs
  BY <1>2, TokenTypes DEF Cookie, Parameters
<1>6. time + IdleMs \in Nat BY <1>2 DEF Parameters
<1> HIDE DEF own
<1>7. \/ /\ stale /\ Answered(r, "terminated", slid)
         /\ UNCHANGED <<epoch, tabs>>
      \/ /\ ~stale /\ r.kind = "logout" /\ Answered(r, "ok", slid \cup {NoCookie})
         /\ UNCHANGED <<epoch, tabs>>
      \/ /\ ~stale /\ r.kind = "changePassword" /\ epoch' = epoch + 1
         /\ Answered(r, "ok", slid \cup {own})
         /\ tabs' = IF requests = {r} THEN tabs ELSE [t \in Tabs |-> Disowned(tabs[t])]
      \/ /\ ~stale /\ r.kind \notin {"logout", "changePassword"}
         /\ Answered(r, "ok", slid)
         /\ UNCHANGED <<epoch, tabs>>
  BY Zenon DEF Serve, own
<1> HIDE DEF slid, stale
<1> DEFINE Fit(c) ==
      /\ c.start = r.cookie.start /\ c.exp <= time + IdleMs
      /\ r.cookie.epoch <= c.epoch /\ c.epoch <= epoch'
<1>8. ASSUME UNCHANGED <<epoch, tabs>>
      PROVE  /\ epoch' \in Nat /\ epoch <= epoch' /\ tabs' \in [Tabs -> Tab]
             /\ \A c \in slid : c # NoCookie => Fit(c)
  BY <1>2, <1>3, <1>4, <1>8
<1>13. CASE stale /\ Answered(r, "terminated", slid) /\ UNCHANGED <<epoch, tabs>>
  <2>1. \A c \in slid : c # NoCookie => Fit(c) BY <1>8, <1>13
  <2>2. QED BY <1>1, <1>4, <1>8, <1>13, <2>1, ServeStep
<1>9. CASE /\ r.kind = "logout" /\ Answered(r, "ok", slid \cup {NoCookie})
           /\ UNCHANGED <<epoch, tabs>>
  <2>1. slid \cup {NoCookie} = {NoCookie} BY <1>4, <1>9
  <2>2. Answered(r, "ok", {NoCookie}) BY <1>9, <2>1
  <2>3. {NoCookie} \in SUBSET Cookie BY DEF Cookie
  <2>4. \A c \in {NoCookie} : c # NoCookie => Fit(c) OBVIOUS
  <2>5. QED BY <1>1, <1>8, <1>9, <2>2, <2>3, <2>4, ServeStep
<1>10. CASE /\ r.kind = "changePassword" /\ epoch' = epoch + 1
            /\ Answered(r, "ok", slid \cup {own})
            /\ tabs' = IF requests = {r} THEN tabs
                       ELSE [t \in Tabs |-> Disowned(tabs[t])]
  <2>1. slid \cup {own} = {own} BY <1>4, <1>10
  <2>2. Answered(r, "ok", {own}) BY <1>10, <2>1
  <2>3. tabs' \in [Tabs -> Tab] BY <1>2, <1>10, TabTypes
  <2>4. /\ {own} \in SUBSET Cookie
        /\ \A c \in {own} :
             /\ c # NoCookie /\ c.start = r.cookie.start /\ c.exp <= time + IdleMs
             /\ r.cookie.epoch < c.epoch /\ r.cookie.epoch <= c.epoch
             /\ c.epoch <= epoch'
    BY <1>2, <1>3, <1>5, <1>6, <1>10
  <2>5. epoch' \in Nat /\ epoch <= epoch' /\ r.cookie.epoch < epoch'
    BY <1>2, <1>3, <1>10
  <2>6. QED BY <1>1, <1>10, <2>2, <2>3, <2>4, <2>5, ServeStep
<1>11. CASE /\ r.kind \notin {"logout", "changePassword"} /\ Answered(r, "ok", slid)
            /\ UNCHANGED <<epoch, tabs>>
  <2>1. \A c \in slid : c # NoCookie => Fit(c) BY <1>8, <1>11
  <2>2. QED BY <1>1, <1>4, <1>8, <1>11, <2>1, ServeStep
<1>12. QED BY <1>7, <1>9, <1>10, <1>11, <1>13
-----------------------------------------------------------------------------
(* What the clock, the administrators and the tabs ask for.                *)

LEMMA AskSent ==
  ASSUME TypeOK, NEW t \in Tabs, NEW kind \in Kinds
  PROVE  Sent(Ask(t, kind, jar)) /\ Ask(t, kind, jar).kind = kind
BY AskType DEF Sent, TypeOK

\* A step that asks for nothing, or for things other than a sign-in.
LEMMA AskStep ==
  ASSUME SessionInv, Parameters, TypeOK', UNCHANGED <<kept, ended, jar, served>>,
         epoch <= epoch', time <= time', NEW asked,
         \A a \in asked : Sent(a) /\ a.kind # "login",
         requests' = requests \cup asked
  PROVE  SessionInv'
BY SendStep

LEMMA RevokeStep == ASSUME SessionInv, Parameters, Revoke PROVE SessionInv'
<1> USE DEF SessionInv
<1>1. /\ epoch' = epoch + 1 /\ requests' = requests
      /\ UNCHANGED <<workload, time, jar, served, kept, ended>>
      /\ chosen' = chosen + 1 /\ chosen < workload.often
  BY DEF Revoke, Chooses
<1>2. tabs' \in [Tabs -> Tab]
  BY TabTypes DEF Revoke, TypeOK
<1>3. workload.often \in Nat BY DEF TypeOK, Parameters, Workload
<1>4. TypeOK' BY <1>1, <1>2, <1>3 DEF TypeOK
<1>5. epoch <= epoch' /\ time <= time' BY <1>1 DEF TypeOK
<1> PICK asked : asked = {}
  OBVIOUS
<1>6. requests' = requests \cup asked BY <1>1
<1>7. QED BY <1>1, <1>4, <1>5, <1>6, AskStep

LEMMA TickStep == ASSUME SessionInv, Parameters, Tick PROVE SessionInv'
<1> USE DEF SessionInv
<1> DEFINE now == time + 1
           idleFor(t) == now - tabs[t].lastActivity
           entered == {t \in Tabs : tabs[t].mode = "in"}
           leaving == {t \in entered : now >= tabs[t].deadline \/ idleFor(t) >= IdleMs}
           asked == {[r EXCEPT !.sentAt = now] : r \in Leave(leaving)}
<1>1. /\ time' = now /\ requests' = requests \cup asked
      /\ UNCHANGED <<workload, chosen, epoch, jar, served, kept, ended>>
  BY DEF Tick
<1>2. time \in Nat /\ now \in Nat /\ time <= now /\ epoch \in Nat BY DEF TypeOK
<1>3. tabs' \in [Tabs -> Tab]
  <2> DEFINE W(t) == IF t \in leaving THEN tabs[t].warning
                     ELSE idleFor(t) >= IdleMs - warningMs
             A(t) == /\ tabs[t].attentive /\ leaving = {}
                     /\ 2 * idleFor(t) + Patience < IdleMs
  <2>1. tabs' = [t \in Tabs |->
                  IF t \notin entered THEN tabs[t]
                  ELSE [tabs[t] EXCEPT !.warning = W(t), !.attentive = A(t)]]
    BY DEF Tick
  <2>2. ASSUME NEW t \in Tabs PROVE tabs[t] \in Tab /\ W(t) \in BOOLEAN /\ A(t) \in BOOLEAN
    <3>1. tabs[t] \in Tab BY DEF TypeOK
    <3>2. tabs[t].warning \in BOOLEAN BY <3>1 DEF Tab
    <3>6. (idleFor(t) >= IdleMs - warningMs) \in BOOLEAN OBVIOUS
    <3>3. W(t) \in BOOLEAN BY <3>2, <3>6, Zenon
    <3>4. A(t) \in BOOLEAN OBVIOUS
    <3>5. QED BY <3>1, <3>3, <3>4
  <2> HIDE DEF W, A
  <2>3. ASSUME NEW u \in Tab, NEW w \in BOOLEAN, NEW a \in BOOLEAN
        PROVE  [u EXCEPT !.warning = w, !.attentive = a] \in Tab
    BY DEF Tab
  <2>4. \A t \in Tabs : [tabs[t] EXCEPT !.warning = W(t), !.attentive = A(t)] \in Tab
    BY <2>2, <2>3
  <2>5. QED BY <2>1, <2>2, <2>4
<1>4. leaving \subseteq Tabs OBVIOUS
<1> HIDE DEF leaving
<1>5. ASSUME NEW a \in asked PROVE Sent(a) /\ a.kind # "login"
  <2>1. PICK t \in Tabs : a = [Ask(t, "logout", jar) EXCEPT !.sentAt = now]
    BY <1>4 DEF Leave
  <2>2. Sent(Ask(t, "logout", jar)) /\ Ask(t, "logout", jar).kind = "logout"
    BY AskSent DEF Kinds
  <2>3. QED BY <1>2, <2>1, <2>2 DEF Sent, Request
<1>6. TypeOK'
  BY <1>1, <1>2, <1>3, <1>5 DEF TypeOK, Sent
<1>7. time <= time' /\ epoch <= epoch' BY <1>1, <1>2
<1>8. QED BY <1>1, <1>5, <1>6, <1>7, AskStep

LEMMA SignInStep ==
  ASSUME SessionInv, Parameters, NEW t \in Tabs, SignIn(t) PROVE SessionInv'
<1> USE DEF SessionInv
<1> DEFINE a == Ask(t, "login", jar)
<1>1. /\ requests' = requests \cup {a} /\ time \notin DOMAIN served
      /\ \A q \in requests : q.kind # "login"
      /\ UNCHANGED <<workload, time, epoch, jar, tabs, served, kept, ended>>
      /\ chosen' = chosen + 1 /\ chosen < workload.often
  BY DEF SignIn, Chooses
<1>2. workload.often \in Nat BY DEF TypeOK, Parameters, Workload
<1>3. Sent(a) BY AskSent DEF Kinds
<1> HIDE DEF a
<1>4. TypeOK' BY <1>1, <1>2, <1>3 DEF TypeOK, Sent
<1>5. epoch <= epoch' /\ time <= time' BY <1>1 DEF TypeOK
<1>6. \A s \in DOMAIN served : s < time' BY <1>1 DEF TypeOK
<1> PICK asked : asked = {a}
  OBVIOUS
<1>7. /\ requests' = requests \cup asked /\ \A q \in asked : Sent(q)
      /\ \A q \in asked : asked = {q}
  BY <1>1, <1>3
<1>8. QED BY <1>1, <1>4, <1>5, <1>6, <1>7, SendStep

\* Somebody chooses to do something that sends requests from tabs.
LEMMA ChosenStep ==
  ASSUME SessionInv, Parameters, NEW what, Chooses(what),
         UNCHANGED <<workload, time, epoch, jar, served, kept, ended>>,
         tabs' \in [Tabs -> Tab], NEW asked,
         \A a \in asked : Sent(a) /\ a.kind # "login",
         requests' = requests \cup asked
  PROVE  SessionInv'
<1> USE DEF SessionInv
<1>1. workload.often \in Nat BY DEF TypeOK, Parameters, Workload
<1>2. TypeOK' BY <1>1 DEF TypeOK, Sent, Chooses
<1>3. epoch <= epoch' /\ time <= time' BY DEF TypeOK
<1>4. QED BY <1>2, <1>3, AskStep

LEMMA OpenStep ==
  ASSUME SessionInv, Parameters, NEW t \in Tabs, Open(t) PROVE SessionInv'
<1>1. tabs' \in [Tabs -> Tab] BY TabTypes DEF SessionInv, TypeOK, Open, Tab, Closed
<1>2. Sent(Ask(t, "load", jar)) /\ Ask(t, "load", jar).kind = "load"
  BY AskSent DEF SessionInv, Kinds
<1> PICK asked : asked = {Ask(t, "load", jar)}
  OBVIOUS
<1>3. requests' = requests \cup asked /\ \A a \in asked : Sent(a) /\ a.kind # "login"
  BY <1>2 DEF Open
<1>4. QED BY <1>1, <1>3, ChosenStep DEF Open

LEMMA WorkStep ==
  ASSUME SessionInv, Parameters, NEW t \in Tabs, NEW kind \in {"work", "changePassword"},
         Work(t, kind)
  PROVE  SessionInv'
<1>1. tabs' \in [Tabs -> Tab] BY DEF SessionInv, TypeOK, Work
<1>2. Sent(Ask(t, kind, jar)) /\ Ask(t, kind, jar).kind = kind
  BY AskSent DEF SessionInv, Kinds
<1> PICK asked : asked = {Ask(t, kind, jar)}
  OBVIOUS
<1>3. requests' = requests \cup asked /\ \A a \in asked : Sent(a) /\ a.kind # "login"
  BY <1>2 DEF Work
<1>4. QED BY <1>1, <1>3, ChosenStep DEF Work

LEMMA SignOutStep ==
  ASSUME SessionInv, Parameters, NEW t \in Tabs, SignOut(t) PROVE SessionInv'
<1>1. tabs' \in [Tabs -> Tab] BY TabTypes DEF SessionInv, TypeOK, SignOut
<1>2. Sent(Ask(t, "logout", jar)) /\ Ask(t, "logout", jar).kind = "logout"
  BY AskSent DEF SessionInv, Kinds
<1> PICK asked : asked = Leave({t})
  OBVIOUS
<1>3. requests' = requests \cup asked /\ \A a \in asked : Sent(a) /\ a.kind # "login"
  BY <1>2 DEF SignOut, Leave
<1>4. QED BY <1>1, <1>3, ChosenStep DEF SignOut

\* A ping, which nobody chooses.
LEMMA PingStep ==
  ASSUME SessionInv, Parameters, NEW t \in Tabs,
         UNCHANGED <<workload, chosen, time, epoch, jar, served, kept, ended>>,
         tabs' \in [Tabs -> Tab], NEW asked, asked \subseteq {Ask(t, "ping", jar)},
         requests' = requests \cup asked
  PROVE  SessionInv'
<1> USE DEF SessionInv
<1>1. Sent(Ask(t, "ping", jar)) /\ Ask(t, "ping", jar).kind = "ping"
  BY AskSent DEF Kinds
<1>2. \A a \in asked : Sent(a) /\ a.kind # "login" BY <1>1
<1>3. TypeOK' BY <1>2 DEF TypeOK, Sent
<1>4. epoch <= epoch' /\ time <= time' BY DEF TypeOK
<1>5. QED BY <1>2, <1>3, <1>4, AskStep

LEMMA ActivityStep ==
  ASSUME SessionInv, Parameters, NEW t \in Tabs, onActivity(t) PROVE SessionInv'
<1> USE DEF SessionInv
<1> PICK pings : pings = (time - tabs[t].lastPing > pingInterval /\ MaySend(t, "ping"))
  OBVIOUS
<1> PICK asked : asked = IF pings THEN {Ask(t, "ping", jar)} ELSE {}
  OBVIOUS
<1> DEFINE last == IF pings THEN time ELSE tabs[t].lastPing
<1>1. /\ requests' = requests \cup asked
      /\ UNCHANGED <<workload, chosen, time, epoch, jar, served, kept, ended>>
      /\ tabs' = [tabs EXCEPT ![t].lastActivity = time, ![t].lastPing = last]
  BY DEF onActivity
<1>2. time \in Nat /\ last \in Nat BY DEF TypeOK, Tab
<1> HIDE DEF last
<1> PICK row : row = [tabs[t] EXCEPT !.lastActivity = time, !.lastPing = last]
  OBVIOUS
<1>3. tabs \in [Tabs -> Tab] BY DEF TypeOK
<1>4. row \in Tab
  <2>1. tabs[t] \in Tab BY <1>3
  <2>2. QED BY <1>2, <2>1 DEF Tab
<1>5. tabs' = [tabs EXCEPT ![t] = row]
  <2> PICK moved : moved = [tabs[t] EXCEPT !.lastActivity = time] OBVIOUS
  <2>1. row = [moved EXCEPT !.lastPing = last] OBVIOUS
  <2>2. QED BY <1>1, <1>3, <2>1
<1>6. tabs' \in [Tabs -> Tab] BY <1>3, <1>4, <1>5
<1>7. QED BY <1>1, <1>6, PingStep

LEMMA StayStep ==
  ASSUME SessionInv, Parameters, NEW t \in Tabs, stayAlive(t) PROVE SessionInv'
<1> USE DEF SessionInv
<1> PICK asked : asked = {Ask(t, "ping", jar)}
  OBVIOUS
<1>1. /\ requests' = requests \cup asked
      /\ UNCHANGED <<workload, chosen, time, epoch, jar, served, kept, ended>>
      /\ tabs' = [tabs EXCEPT ![t].lastActivity = time, ![t].lastPing = time,
                              ![t].warning = FALSE]
  BY DEF stayAlive
<1>2. tabs' \in [Tabs -> Tab]
  <2>1. time \in Nat /\ tabs[t] \in Tab BY DEF TypeOK
  <2> DEFINE u == [tabs[t] EXCEPT !.lastActivity = time, !.lastPing = time,
                                  !.warning = FALSE]
  <2>2. u \in Tab BY <2>1 DEF Tab
  <2>3. tabs' = [tabs EXCEPT ![t] = u] BY <1>1 DEF TypeOK
  <2> HIDE DEF u
  <2>4. QED BY <2>2, <2>3 DEF TypeOK
<1>3. QED BY <1>1, <1>2, PingStep
-----------------------------------------------------------------------------
(* The responses arrive.                                                   *)

\* Every cookie a response may leave behind was sound before it came.  Of the two
\* that end something one leaves no cookie, and the other a cookie of its own.
LEMMA ArriveStep ==
  ASSUME SessionInv, Parameters, NEW r \in requests, r.verdict # "awaited",
         NEW cookie \in LastCookies(r), NEW tab \in Tab, NEW asked,
         \A a \in asked :
           /\ a \in Request /\ a.cookie = cookie /\ a.verdict = "awaited"
           /\ a.setCookies = {} /\ a.kind # "login",
         Arrives(r, cookie, tab, asked)
  PROVE  SessionInv'
<1> USE DEF SessionInv
<1> DEFINE alone == requests = {r} /\ r.verdict = "ok"
<1>1. /\ r \in Request /\ RequestOK(r) /\ cookie \in Cookie /\ Sound(cookie)
      /\ r.cookie \in Cookie
  BY DEF LastCookies, RequestOK, TypeOK, Request
<1>2. /\ jar' = cookie /\ requests' = (requests \ {r}) \cup asked
      /\ UNCHANGED <<workload, chosen, time, epoch, served>>
      /\ ended' = IF r.kind = "logout" /\ alone THEN ended \cup SessionIn(r.cookie)
                  ELSE ended
      /\ kept' = IF r.kind = "changePassword" /\ alone THEN r.cookie.epoch + 1 ELSE kept
  BY DEF Arrives
<1>3. tabs' \in [Tabs -> Tab]
  <2>1. \A u \in Tabs : tabs[u] \in Tab /\ Disowned(tabs[u]) \in Tab
    BY TabTypes DEF TypeOK
  <2>2. QED BY <2>1 DEF Arrives
<1>4. r.cookie # NoCookie =>
        /\ r.cookie.epoch \in Nat /\ r.cookie.start \in DOMAIN served
  BY <1>1 DEF RequestOK, Sound, Cookie, Token
<1>5. TypeOK'
  <2>1. ended' \subseteq DOMAIN served'
    BY <1>1, <1>2, <1>4 DEF TypeOK, SessionIn
  <2>2. kept' \in 0..epoch'
    <3>1. epoch \in Nat BY DEF TypeOK
    <3>2. CASE r.kind = "changePassword" /\ alone
      BY <1>1, <1>2, <1>4, <3>1, <3>2 DEF RequestOK
    <3>3. CASE ~(r.kind = "changePassword" /\ alone)
      BY <1>2, <3>3 DEF TypeOK
    <3>4. QED BY <3>2, <3>3
  <2>3. requests' \subseteq Request BY <1>2 DEF TypeOK
  <2>4. QED BY <1>1, <1>2, <1>3, <2>1, <2>2, <2>3 DEF TypeOK
<1>6. \A s \in DOMAIN served : s \in DOMAIN served' /\ served[s] <= served'[s]
  BY <1>2 DEF TypeOK
<1>7. epoch <= epoch' BY <1>2 DEF TypeOK
<1>8. Sound(cookie)'
  <2>1. CASE r.kind = "logout" /\ alone
    BY <1>1, <2>1 DEF RequestOK, LastCookies, Sound
  <2>2. CASE r.kind = "changePassword" /\ alone
    <3>1. cookie # NoCookie /\ r.cookie.epoch < cookie.epoch /\ r.cookie # NoCookie
      BY <1>1, <2>2 DEF RequestOK, LastCookies
    <3>2. cookie.epoch \in Nat /\ r.cookie.epoch \in Nat
      BY <1>1, <3>1 DEF Cookie, Token
    <3>3. kept' <= cookie.epoch /\ ended' = ended
      BY <1>2, <2>2, <3>1, <3>2
    <3>4. QED BY <1>1, <1>2, <3>1, <3>3 DEF Sound
  <2>3. CASE ~(r.kind = "logout" /\ alone) /\ ~(r.kind = "changePassword" /\ alone)
    BY <1>1, <1>2, <2>3 DEF Sound
  <2>4. QED BY <2>1, <2>2, <2>3
<1>9. ASSUME NEW q \in requests' PROVE RequestOK(q)'
  <2>1. CASE q \in asked
    BY <1>8, <2>1 DEF RequestOK
  <2>2. CASE q \in requests /\ q # r
    <3>1. ~alone BY <2>2
    <3>2. UNCHANGED <<kept, ended>> BY <1>2, <3>1
    <3>3. q \in Request BY <2>2 DEF TypeOK
    <3>4. QED BY <1>5, <1>6, <1>7, <2>2, <3>2, <3>3, AnswerStays
  <2>3. QED BY <1>2, <2>1, <2>2
<1>10. LoginInv' BY <1>2 DEF LoginInv
<1>11. QED BY <1>2, <1>5, <1>8, <1>9, <1>10

LEMMA GoingType ==
  ASSUME TypeOK, NEW r \in Request, NEW cookie
  PROVE  Going(r, cookie) \in Tab
BY TabTypes DEF Going, TypeOK, Request

LEMMA BeginStep ==
  ASSUME SessionInv, Parameters, NEW r \in requests, Begin(r) PROVE SessionInv'
<1> PICK cookie \in LastCookies(r) :
      Arrives(r, cookie, [Closed EXCEPT !.mode = "loading", !.ours = TRUE],
              {Ask(r.tab, "me", cookie)})
  BY DEF Begin
<1> PICK tab : tab = [Closed EXCEPT !.mode = "loading", !.ours = TRUE]
  OBVIOUS
<1> PICK asked : asked = {Ask(r.tab, "me", cookie)}
  OBVIOUS
<1>1. tab \in Tab BY DEF Closed, Tab
<1>2. r.tab \in Tabs /\ cookie \in Cookie /\ time \in Nat
  BY DEF SessionInv, TypeOK, Request, LastCookies
<1>3. \A a \in asked :
        /\ a \in Request /\ a.cookie = cookie /\ a.verdict = "awaited"
        /\ a.setCookies = {} /\ a.kind # "login"
  BY <1>2, AskType DEF Kinds
<1>4. Arrives(r, cookie, tab, asked) OBVIOUS
<1>5. r.verdict # "awaited" BY DEF Begin
<1>6. QED BY <1>1, <1>3, <1>4, <1>5, ArriveStep

LEMMA EnterStep ==
  ASSUME SessionInv, Parameters, NEW r \in requests, Enter(r) PROVE SessionInv'
<1> PICK cookie \in LastCookies(r) :
      Arrives(r, cookie, [Going(r, cookie) EXCEPT
                            !.mode = "in", !.lastActivity = time,
                            !.deadline = absoluteDeadline(r.cookie),
                            !.attentive = TRUE], {})
  BY DEF Enter
<1> PICK tab : tab = [Going(r, cookie) EXCEPT
                        !.mode = "in", !.lastActivity = time,
                        !.deadline = absoluteDeadline(r.cookie), !.attentive = TRUE]
  OBVIOUS
<1> PICK asked : asked = {}
  OBVIOUS
<1>1. /\ r \in Request /\ time \in Nat /\ r.cookie \in Cookie /\ r.cookie # NoCookie
      /\ TypeOK
  BY DEF SessionInv, TypeOK, Request, RequestOK, Enter
<1>2. absoluteDeadline(r.cookie) \in Nat
  BY <1>1 DEF absoluteDeadline, Cookie, Token, Parameters
<1>3. Going(r, cookie) \in Tab BY <1>1, GoingType
<1>4. tab \in Tab BY <1>1, <1>2, <1>3 DEF Tab
<1>5. Arrives(r, cookie, tab, asked) OBVIOUS
<1>6. r.verdict # "awaited" BY DEF Enter
<1>7. QED BY <1>4, <1>5, <1>6, ArriveStep

LEMMA DepartStep ==
  ASSUME SessionInv, Parameters, NEW r \in requests, Depart(r) PROVE SessionInv'
<1> PICK cookie \in LastCookies(r) : Arrives(r, cookie, Closed, {})
  BY DEF Depart
<1> PICK asked : asked = {}
  OBVIOUS
<1>1. Closed \in Tab BY DEF Closed, Tab
<1>2. Arrives(r, cookie, Closed, asked) OBVIOUS
<1>3. r.verdict # "awaited" BY DEF Depart
<1>4. QED BY <1>1, <1>2, <1>3, ArriveStep

LEMMA EvictStep ==
  ASSUME SessionInv, Parameters, NEW r \in requests, Evict(r) PROVE SessionInv'
<1> DEFINE Gone == IF r.kind = "me" THEN Closed ELSE Disowned(tabs[r.tab])
           Out(cookie) == IF Asking(r.tab, "logout") THEN {}
                          ELSE {Ask(r.tab, "logout", cookie)}
<1> PICK cookie \in LastCookies(r) : Arrives(r, cookie, Gone, Out(cookie))
  BY DEF Evict
<1> PICK tab : tab = Gone
  OBVIOUS
<1> PICK asked : asked = Out(cookie)
  OBVIOUS
<1>1. r.tab \in Tabs /\ cookie \in Cookie /\ time \in Nat /\ tabs[r.tab] \in Tab
  BY DEF SessionInv, TypeOK, Request, LastCookies
<1>2. tab \in Tab BY <1>1, TabTypes DEF Closed, Tab
<1>3. \A a \in asked :
        /\ a \in Request /\ a.cookie = cookie /\ a.verdict = "awaited"
        /\ a.setCookies = {} /\ a.kind # "login"
  BY <1>1, AskType DEF Kinds
<1>4. Arrives(r, cookie, tab, asked) OBVIOUS
<1>5. r.verdict # "awaited" BY DEF Evict
<1>6. QED BY <1>2, <1>3, <1>4, <1>5, ArriveStep

LEMMA ProceedStep ==
  ASSUME SessionInv, Parameters, NEW r \in requests, Proceed(r) PROVE SessionInv'
<1> PICK cookie \in LastCookies(r) : Arrives(r, cookie, Going(r, cookie), {})
  BY DEF Proceed
<1> PICK tab : tab = Going(r, cookie)
  OBVIOUS
<1> PICK asked : asked = {}
  OBVIOUS
<1>1. tab \in Tab BY GoingType DEF SessionInv, TypeOK
<1>2. Arrives(r, cookie, tab, asked) OBVIOUS
<1>3. r.verdict # "awaited" BY DEF Proceed
<1>4. QED BY <1>1, <1>2, <1>3, ArriveStep
-----------------------------------------------------------------------------
(* The theorems.                                                           *)

LEMMA SessionStep ==
  ASSUME SessionInv, Parameters, [Next]_vars PROVE SessionInv'
<1>1. CASE UNCHANGED vars
  BY <1>1 DEF vars, SessionInv, TypeOK, Sound, RequestOK, LoginInv
<1>2. CASE Tick BY <1>2, TickStep
<1>3. CASE Revoke BY <1>3, RevokeStep
<1>4. ASSUME NEW r \in requests,
             Login(r) \/ Unauthorized(r) \/ Serve(r) \/ Receive(r)
      PROVE  SessionInv'
  BY <1>4, LoginStep, UnauthorizedStep, ServesStep, BeginStep, EnterStep, DepartStep,
     EvictStep, ProceedStep DEF Receive
<1>5. ASSUME NEW t \in Tabs,
             SignIn(t) \/ Open(t) \/ onActivity(t) \/ stayAlive(t) \/ SignOut(t)
      PROVE  SessionInv'
  BY <1>5, SignInStep, OpenStep, ActivityStep, StayStep, SignOutStep
<1>6. ASSUME NEW t \in Tabs, NEW kind \in {"work", "changePassword"}, Work(t, kind)
      PROVE  SessionInv'
  BY <1>6, WorkStep
<1>7. QED BY <1>1, <1>2, <1>3, <1>4, <1>5, <1>6 DEF Next

LEMMA InvEnds == ASSUME SessionInv, Parameters PROVE SessionsEnd
<1> USE DEF SessionInv
<1>1. ASSUME NEW c \in Cookies PROVE c \in Token /\ c # NoCookie /\ Sound(c)
  BY DEF Cookies, RequestOK, TypeOK, Request, Cookie
<1>2. ASSUME NEW c \in Cookies, Admitted(c)
      PROVE  time < c.start + AbsoluteMs /\ time < served[c.start] + IdleMs
  <2>1. /\ c \in Token /\ c # NoCookie /\ c.start \in DOMAIN served
        /\ c.exp <= served[c.start] + IdleMs
    BY <1>1, <1>2 DEF Sound
  <2>2. time < c.exp /\ time < c.start + AbsoluteMs
    BY <1>2 DEF Admitted, Verified, absoluteDeadline
  <2>3. /\ time \in Nat /\ c.exp \in Nat /\ served[c.start] \in Nat /\ IdleMs \in Nat
        /\ c.start \in Nat
    BY <2>1 DEF TypeOK, Token, Parameters
  <2>4. QED BY <2>1, <2>2, <2>3
<1>3. jar # NoCookie => jar.start \notin ended /\ jar.epoch >= kept
  BY DEF Sound, TypeOK, Cookie, Token
<1>4. QED BY <1>2, <1>3 DEF SessionsEnd

\* Whichever responses are on their way and whichever comes last, the model's state
\* has its type, no cookie a proxy would let in has outlived its session's idle
\* window or cap, and the browser holds no cookie of a session it was signed out of
\* with nothing else under way, nor one older than its own change of password.
THEOREM SessionsEndInTime ==
  ASSUME Parameters PROVE Spec => [](TypeOK /\ SessionsEnd)
<1>1. Init => SessionInv BY InitInv
<1>2. SessionInv /\ [Next]_vars => SessionInv' BY SessionStep
<1>3. SessionInv => TypeOK /\ SessionsEnd BY InvEnds DEF SessionInv
<1>4. QED BY <1>1, <1>2, <1>3, PTL DEF Spec
-----------------------------------------------------------------------------
(* Activity keeps the session.                                             *)

AtCap(c) == c.start + AbsoluteMs <= c.exp

\* The cookie lasts up to a moment, or as long as its session may.
Lasts(c, moment) == moment <= c.exp \/ AtCap(c)

\* So does one that was not due when a request of the moment was let in.
HalfLasts(c, moment) == IdleMs + 2 * moment <= 2 * c.exp \/ AtCap(c)

\* No request has been under way for longer than a request may.
Punctual ==
  /\ FirstMoment <= time
  /\ \A r \in requests :
       FirstMoment <= r.sentAt /\ r.sentAt <= time /\ time <= r.sentAt + Latency

\* What opens a tab is its only request, and the tab has not pinged.
Opens == {"login", "load", "me"}

OpensAlone ==
  \A r \in requests : r.kind \in Opens =>
    /\ \A q \in requests : q.tab = r.tab => q = r
    /\ tabs[r.tab].mode = IF r.kind = "me" THEN "loading" ELSE "away"
    /\ r.kind = "me" => tabs[r.tab].lastPing = 0

\* A cookie on its way lasts an idle window from its request; and if the question,
\* or the ping, was not given one its own was not due.
AnswerLasts(r) ==
  /\ \A c \in r.setCookies : c # NoCookie => Lasts(c, r.sentAt + IdleMs)
  /\ r.kind \in {"me", "ping"} /\ r.verdict = "ok" /\ r.setCookies = {} =>
       r.cookie # NoCookie /\ HalfLasts(r.cookie, r.sentAt)

AnswersLast == \A r \in requests : AnswerLasts(r)

\* The jar has what the request was sent with, or what has arrived since.
SentOrLater(r) ==
  \/ jar = r.cookie
  \/ jar # NoCookie /\ (r.sentAt + IdleMs <= jar.exp + Latency \/ AtCap(jar))

\* A tab that asks who is signed in, and that nobody has disturbed, will be told of
\* the session in the jar.
LoadingOK(r) ==
  /\ r.verdict = "awaited" =>
       \/ jar = NoCookie /\ r.cookie = NoCookie
       \/ /\ jar # NoCookie /\ r.cookie # NoCookie
          /\ jar.start = r.cookie.start /\ r.cookie.epoch <= jar.epoch
  /\ r.verdict = "ok" => jar # NoCookie /\ jar.start = r.cookie.start /\ jar.epoch = epoch
  /\ SentOrLater(r)

LoadingInv == \A r \in requests : r.kind = "me" /\ tabs[r.tab].ours => LoadingOK(r)

\* The tabs the property is about.
Lively(t) ==
  tabs[t].mode = "in" /\ tabs[t].ours /\ tabs[t].attentive /\ time < tabs[t].deadline

Pings(t) == {r \in requests : r.tab = t /\ r.kind = "ping"}

\* A ping that is under way will be let in, and the jar lasts until it is answered.
PingOK(r) ==
  /\ r.sentAt = tabs[r.tab].lastPing /\ r.verdict # "unauthorized"
  /\ r.cookie # NoCookie /\ r.cookie.start = jar.start
  /\ Lasts(r.cookie, r.sentAt + Latency + 1) /\ Lasts(jar, r.sentAt + Latency + 1)
  /\ SentOrLater(r)

\* The cookie in the jar is of the tab's session, and of the account's epoch or
\* about to be.
SameAccount(t) ==
  /\ jar # NoCookie /\ tabs[t].deadline = jar.start + AbsoluteMs
  /\ \/ jar.epoch = epoch
     \/ \E r \in requests : /\ r.kind = "changePassword" /\ r.verdict = "ok"
                            /\ \A c \in r.setCookies : c.epoch = epoch

\* The last ping, or the opening of the tab, was not long before the last activity.
Paced(t) ==
  /\ tabs[t].lastActivity <= time
  /\ 2 * (time - tabs[t].lastActivity) + Patience < IdleMs
  /\ tabs[t].lastPing <= tabs[t].lastActivity
  /\ tabs[t].lastPing = 0 \/ tabs[t].lastActivity <= tabs[t].lastPing + pingInterval

\* And the jar lasts for half a window from it.
Refreshed(t) ==
  IF tabs[t].lastPing = 0
  THEN IdleMs + 2 * tabs[t].lastActivity <= 2 * jar.exp + 2 * Latency \/ AtCap(jar)
  ELSE HalfLasts(jar, tabs[t].lastPing)

LivelyOK(t) ==
  /\ SameAccount(t) /\ Paced(t)
  /\ \A r \in Pings(t) : PingOK(r)
  /\ Pings(t) = {} => Refreshed(t)

LivelyInv == \A t \in Tabs : Lively(t) => LivelyOK(t)

ActiveInv ==
  SessionInv /\ Punctual /\ OpensAlone /\ AnswersLast /\ LoadingInv /\ LivelyInv

LEMMA Windows ==
  ASSUME Parameters, Timely
  PROVE  /\ pingInterval \in Nat /\ Latency \in Nat /\ IdleMs \in Nat /\ AbsoluteMs \in Nat
         /\ FirstMoment = pingInterval + 1 /\ Latency <= pingInterval
         /\ Patience = 2 * pingInterval + 2 * Latency
         /\ 2 * pingInterval + 2 * Latency < IdleMs
BY WindowTypes DEF Parameters, Timely, FirstMoment, Patience

LEMMA CookieTypes ==
  ASSUME NEW c \in Cookie, c # NoCookie
  PROVE  c \in Token /\ c.start \in Nat /\ c.exp \in Nat /\ c.epoch \in Nat
BY DEF Cookie, Token

LEMMA RequestTypes ==
  ASSUME TypeOK, NEW r \in requests
  PROVE  /\ r \in Request /\ r.tab \in Tabs /\ r.kind \in Kinds /\ r.cookie \in Cookie
         /\ r.sentAt \in Nat /\ r.setCookies \subseteq Cookie
         /\ r.verdict \in {"awaited", "ok", "unauthorized", "terminated"}
BY DEF TypeOK, Request

LEMMA StateTypes ==
  ASSUME TypeOK
  PROVE  /\ time \in Nat /\ epoch \in Nat /\ jar \in Cookie
         /\ tabs \in [Tabs -> Tab]
         /\ \A t \in Tabs : /\ tabs[t].lastActivity \in Nat /\ tabs[t].lastPing \in Nat
                            /\ tabs[t].deadline \in Nat
                            /\ {tabs[t].ours, tabs[t].attentive} \subseteq BOOLEAN
BY DEF TypeOK, Tab

\* A lively tab's jar lasts beyond now; and as long as a request may take, when no
\* ping of the tab is under way.
LEMMA LivelyLasts ==
  ASSUME ActiveInv, Parameters, Timely, NEW t \in Tabs, Lively(t)
  PROVE  /\ Lasts(jar, time + 1) /\ Admitted(jar)
         /\ Pings(t) = {} => Lasts(jar, time + Latency + 1)
<1> DEFINE tab == tabs[t]
<1>1. /\ LivelyOK(t) /\ TypeOK /\ Punctual
  BY DEF ActiveInv, LivelyInv, SessionInv
<1>2. /\ time \in Nat /\ tab.lastActivity \in Nat /\ tab.lastPing \in Nat
      /\ jar # NoCookie /\ jar.exp \in Nat /\ jar.start \in Nat
  BY <1>1, StateTypes, CookieTypes DEF LivelyOK, SameAccount
<1>3. /\ tab.lastActivity <= time
      /\ 2 * (time - tab.lastActivity) + (2 * pingInterval + 2 * Latency) < IdleMs
      /\ tab.lastPing = 0 \/ tab.lastActivity <= tab.lastPing + pingInterval
  BY <1>1, Windows DEF LivelyOK, Paced
<1>4. /\ pingInterval \in Nat /\ Latency \in Nat /\ IdleMs \in Nat /\ AbsoluteMs \in Nat
      /\ Latency <= pingInterval
  BY Windows
<1>5. ASSUME Pings(t) = {} PROVE Lasts(jar, time + Latency + 1)
  <2>1. Refreshed(t)
    BY <1>1, <1>5 DEF LivelyOK
  <2>2. CASE AtCap(jar)
    BY <2>2 DEF Lasts
  <2>3. CASE tab.lastPing = 0 /\ IdleMs + 2 * tab.lastActivity <= 2 * jar.exp + 2 * Latency
    BY <1>2, <1>3, <1>4, <2>3 DEF Lasts
  <2>4. CASE tab.lastPing # 0 /\ IdleMs + 2 * tab.lastPing <= 2 * jar.exp
    BY <1>2, <1>3, <1>4, <2>4 DEF Lasts
  <2>5. QED BY <2>1, <2>2, <2>3, <2>4 DEF Refreshed, HalfLasts
<1>6. Lasts(jar, time + 1)
  <2>1. CASE Pings(t) = {}
    BY <1>2, <1>4, <1>5, <2>1 DEF Lasts
  <2>2. CASE Pings(t) # {}
    <3>1. PICK r \in Pings(t) : PingOK(r)
      BY <1>1, <2>2 DEF LivelyOK
    <3>2. r \in requests /\ r.sentAt \in Nat /\ time <= r.sentAt + Latency
      BY <1>1, <3>1, RequestTypes DEF Pings, Punctual
    <3>3. QED BY <1>2, <1>4, <3>1, <3>2 DEF PingOK, Lasts
  <2>3. QED BY <2>1, <2>2
<1>7. Admitted(jar)
  <2>1. time < jar.start + AbsoluteMs
    BY <1>1 DEF Lively, LivelyOK, SameAccount
  <2>2. time < jar.exp
    BY <1>2, <1>4, <1>6, <2>1 DEF Lasts, AtCap
  <2>3. QED BY <1>2, <2>1, <2>2 DEF Admitted, Verified, absoluteDeadline
<1>8. QED BY <1>5, <1>6, <1>7
-----------------------------------------------------------------------------
(* A request is answered.                                                  *)

\* What the answer leaves of the tabs: all as they were, the account's epoch with
\* them or raised by the only request there is; or nothing is theirs any more.
LEMMA AnsweredActive ==
  ASSUME ActiveInv, SessionInv', Parameters, Timely, NEW r \in requests, NEW a \in Request,
         r.verdict = "awaited", a.verdict # "awaited",
         a.kind = r.kind, a.tab = r.tab, a.cookie = r.cookie, a.sentAt = r.sentAt,
         requests' = (requests \ {r}) \cup {a}, UNCHANGED <<time, jar>>, AnswerLasts(a),
         \/ epoch' = epoch /\ tabs' = tabs
         \/ \A u \in Tabs : tabs'[u] = Disowned(tabs[u])
         \/ /\ requests = {r} /\ tabs' = tabs
            /\ r.kind = "changePassword" /\ a.verdict = "ok"
            /\ \A c \in a.setCookies : c.epoch = epoch',
         r.kind = "me" /\ a.verdict = "ok" =>
           r.cookie # NoCookie /\ epoch' = epoch /\ epoch <= r.cookie.epoch,
         a.verdict = "unauthorized" => ~Admitted(r.cookie)
  PROVE  ActiveInv'
<1> DEFINE moved(q) == IF q = a THEN r ELSE q
<1>1. /\ TypeOK /\ TypeOK' /\ Punctual /\ OpensAlone /\ AnswersLast /\ LoadingInv
      /\ LivelyInv /\ Sound(jar)
  BY DEF ActiveInv, SessionInv
<1>2. ASSUME NEW q \in requests'
      PROVE  /\ moved(q) \in requests /\ moved(q).kind = q.kind /\ moved(q).tab = q.tab
             /\ moved(q).cookie = q.cookie /\ moved(q).sentAt = q.sentAt
             /\ q # a => moved(q) = q /\ q # r
  OBVIOUS
<1>3. /\ \A q \in requests : q.tab \in Tabs
      /\ \A u \in Tabs : /\ tabs'[u].mode = tabs[u].mode
                         /\ tabs'[u].lastPing = tabs[u].lastPing
                         /\ tabs'[u] = tabs[u] \/ tabs'[u].ours = FALSE
  <2>1. \A u \in Tabs : tabs[u] \in Tab
    BY <1>1 DEF TypeOK
  <2>2. \A u \in Tab : /\ Disowned(u).mode = u.mode /\ Disowned(u).lastPing = u.lastPing
                       /\ Disowned(u).ours = FALSE
    BY DEF Disowned, Tab
  <2>3. QED BY <1>1, <2>1, <2>2, RequestTypes
<1> HIDE DEF moved
<1>4. Punctual'
  BY <1>1, <1>2 DEF Punctual, FirstMoment, pingInterval
<1>5. OpensAlone'
  <2> SUFFICES ASSUME NEW q \in requests', q.kind \in Opens
               PROVE  /\ \A p \in requests' : p.tab = q.tab => p = q
                      /\ tabs'[q.tab].mode = IF q.kind = "me" THEN "loading" ELSE "away"
                      /\ q.kind = "me" => tabs'[q.tab].lastPing = 0
    BY DEF OpensAlone, Opens
  <2>1. /\ moved(q) \in requests /\ moved(q).kind = q.kind /\ moved(q).tab = q.tab
    BY <1>2
  <2>2. ASSUME NEW p \in requests', p.tab = q.tab PROVE p = q
    <3>1. moved(p) = moved(q)
      BY <1>1, <1>2, <2>1, <2>2 DEF OpensAlone
    <3>2. QED BY <1>2, <3>1 DEF moved
  <2>3. QED BY <1>1, <1>3, <2>1, <2>2 DEF OpensAlone
<1>6. AnswersLast'
  BY <1>1 DEF AnswersLast, AnswerLasts, HalfLasts, Lasts, AtCap
<1>7. LoadingInv'
  <2> SUFFICES ASSUME NEW m \in requests', m.kind = "me", tabs'[m.tab].ours
               PROVE  LoadingOK(m)'
    BY DEF LoadingInv
  <2>1. /\ moved(m) \in requests /\ moved(m).kind = "me" /\ tabs' = tabs /\ epoch' = epoch
    <3>1. moved(m) \in requests /\ moved(m).kind = "me" /\ moved(m).tab = m.tab
      BY <1>2
    <3>2. ~(requests = {r} /\ r.kind = "changePassword")
      BY <3>1
    <3>3. ~(\A u \in Tabs : tabs'[u] = Disowned(tabs[u]))
      <4>1. m.tab \in Tabs /\ tabs[m.tab] \in Tab
        BY <1>1, <1>3, <3>1 DEF TypeOK
      <4>2. Disowned(tabs[m.tab]).ours = FALSE
        BY <4>1 DEF Disowned, Tab
      <4>3. QED BY <4>1, <4>2
    <3>4. QED BY <3>1, <3>2, <3>3
  <2>2. LoadingOK(moved(m))
    BY <1>1, <1>2, <2>1 DEF LoadingInv
  <2>3. CASE m # a
    BY <1>2, <2>1, <2>2, <2>3 DEF LoadingOK, SentOrLater, AtCap
  <2>4. CASE m = a
    <3>1. LoadingOK(r) /\ r.kind = "me"
      BY <2>1, <2>2, <2>4 DEF moved
    <3>2. SentOrLater(a)'
      BY <3>1 DEF LoadingOK, SentOrLater, AtCap
    <3>3. a.verdict = "ok" => jar # NoCookie /\ jar.start = r.cookie.start /\ jar.epoch = epoch
      <4> SUFFICES ASSUME a.verdict = "ok"
                   PROVE  jar # NoCookie /\ jar.start = r.cookie.start /\ jar.epoch = epoch
        OBVIOUS
      <4>1. /\ r.cookie # NoCookie /\ epoch <= r.cookie.epoch
            /\ jar # NoCookie /\ jar.start = r.cookie.start /\ r.cookie.epoch <= jar.epoch
        BY <3>1 DEF LoadingOK
      <4>2. /\ epoch \in Nat /\ jar.epoch \in Nat /\ r.cookie.epoch \in Nat
            /\ jar.epoch <= epoch
        BY <1>1, <4>1, StateTypes, RequestTypes, CookieTypes DEF Sound
      <4>3. QED BY <4>1, <4>2
    <3>4. QED BY <2>1, <2>4, <3>2, <3>3 DEF LoadingOK
  <2>5. QED BY <2>3, <2>4
<1>8. LivelyInv'
  <2> SUFFICES ASSUME NEW t \in Tabs, Lively(t)'
               PROVE  LivelyOK(t)'
    BY DEF LivelyInv
  <2>1. tabs'[t] = tabs[t] /\ Lively(t) /\ LivelyOK(t)
    BY <1>1, <1>3 DEF Lively, LivelyInv
  <2>2. SameAccount(t)'
    <3>1. CASE epoch' = epoch /\ jar.epoch = epoch
      BY <2>1, <3>1 DEF LivelyOK, SameAccount
    <3>2. CASE epoch' = epoch /\ jar.epoch # epoch
      <4>1. PICK p \in requests :
              /\ p.kind = "changePassword" /\ p.verdict = "ok"
              /\ \A c \in p.setCookies : c.epoch = epoch
        BY <2>1, <3>2 DEF LivelyOK, SameAccount
      <4>2. p \in requests'
        BY <4>1
      <4>3. QED BY <2>1, <3>2, <4>1, <4>2 DEF LivelyOK, SameAccount
    <3>3. CASE /\ a.kind = "changePassword" /\ a.verdict = "ok"
               /\ \A c \in a.setCookies : c.epoch = epoch'
      BY <2>1, <3>3 DEF LivelyOK, SameAccount
    <3>4. tabs[t].ours /\ Disowned(tabs[t]).ours = FALSE
      BY <1>1, <2>1 DEF Lively, Disowned, TypeOK, Tab
    <3>5. QED BY <2>1, <3>1, <3>2, <3>3, <3>4
  <2>3. Paced(t)'
    BY <2>1 DEF LivelyOK, Paced, Patience, pingInterval
  <2>4. ASSUME NEW q \in Pings(t)' PROVE PingOK(q)'
    <3>1. moved(q) \in Pings(t) /\ q \in requests'
      BY <1>2 DEF Pings
    <3>2. PingOK(moved(q)) /\ q.tab = t
      BY <2>1, <3>1 DEF LivelyOK, Pings
    <3>3. q.verdict # "unauthorized"
      <4>1. CASE q # a
        BY <1>2, <3>1, <3>2, <4>1 DEF PingOK
      <4>2. CASE q = a
        <5>1. PingOK(r) /\ r.tab = t /\ r.cookie # NoCookie /\ r.cookie.start = jar.start
          BY <3>2, <4>2 DEF moved, PingOK
        <5>2. /\ time < jar.start + AbsoluteMs /\ time <= r.sentAt + Latency
          BY <1>1, <2>1 DEF Lively, LivelyOK, SameAccount, Punctual
        <5>3. Lasts(r.cookie, r.sentAt + Latency + 1)
          BY <5>1 DEF PingOK
        <5>4. time < r.cookie.exp
          <6>1. /\ time \in Nat /\ r.sentAt \in Nat /\ Latency \in Nat
                /\ r.cookie.exp \in Nat /\ r.cookie.start \in Nat /\ AbsoluteMs \in Nat
            BY <1>1, <5>1, StateTypes, RequestTypes, CookieTypes, Windows
          <6>2. QED BY <5>1, <5>2, <5>3, <6>1 DEF Lasts, AtCap
        <5>5. Admitted(r.cookie)
          BY <5>1, <5>2, <5>4 DEF Admitted, Verified, absoluteDeadline
        <5>6. QED BY <4>2, <5>5
      <4>3. QED BY <4>1, <4>2
    <3>4. QED BY <1>2, <2>1, <3>1, <3>2, <3>3 DEF PingOK, SentOrLater, Lasts, AtCap
  <2>5. Pings(t)' = {} => Refreshed(t)'
    <3> SUFFICES ASSUME Pings(t)' = {} PROVE Refreshed(t)'
      OBVIOUS
    <3>1. ASSUME NEW q \in Pings(t) PROVE FALSE
      <4>1. q \in requests /\ q.tab = t /\ q.kind = "ping"
        BY DEF Pings
      <4>2. CASE q = r
        BY <4>1, <4>2 DEF Pings
      <4>3. CASE q # r
        BY <4>1, <4>3 DEF Pings
      <4>4. QED BY <4>2, <4>3
    <3>2. Refreshed(t)
      BY <2>1, <3>1 DEF LivelyOK
    <3>3. QED BY <2>1, <3>2 DEF Refreshed, HalfLasts, AtCap
  <2>6. QED BY <2>2, <2>3, <2>4, <2>5 DEF LivelyOK
<1>9. QED BY <1>4, <1>5, <1>6, <1>7, <1>8 DEF ActiveInv

LEMMA NewCookies ==
  ASSUME Parameters, time \in Nat, NEW token \in Token, NEW e \in Nat,
         NEW moment \in Nat, moment <= time
  PROVE  /\ Lasts(Slid(token), moment + IdleMs)
         /\ Lasts(createToken(token.start, e), moment + IdleMs)
<1>1. /\ IdleMs \in Nat /\ AbsoluteMs \in Nat /\ token.start \in Nat
      /\ time + IdleMs \in Nat /\ token.start + AbsoluteMs \in Nat
  BY DEF Parameters, Token
<1>2. /\ Slid(token).exp = Least(time + IdleMs, token.start + AbsoluteMs)
      /\ Slid(token).start = token.start
  BY DEF Slid, Token, absoluteDeadline
<1>3. moment + IdleMs <= Slid(token).exp \/ token.start + AbsoluteMs <= Slid(token).exp
  BY <1>1, <1>2 DEF Least
<1>4. createToken(token.start, e).exp = time + IdleMs
  BY DEF createToken
<1>5. QED BY <1>1, <1>2, <1>3, <1>4 DEF Lasts, AtCap

LEMMA LoginActive ==
  ASSUME ActiveInv, SessionInv', Parameters, Timely, NEW r \in requests, Login(r)
  PROVE  ActiveInv'
<1> PICK c : c = createToken(time, epoch)
  OBVIOUS
<1> PICK a : a = AnswerTo(r, "ok", {c})
  OBVIOUS
<1>1. /\ TypeOK /\ Punctual
  BY DEF ActiveInv, SessionInv
<1>2. /\ r \in Request /\ time \in Nat /\ epoch \in Nat /\ IdleMs \in Nat /\ r.sentAt \in Nat
      /\ r.sentAt <= time
  BY <1>1, RequestTypes, StateTypes, Windows DEF Punctual
<1>3. /\ c \in Token /\ c.exp = time + IdleMs
  BY <1>2 DEF createToken, Token
<1>4. /\ requests' = (requests \ {r}) \cup {a}
      /\ UNCHANGED <<time, epoch, jar, tabs>> /\ r.kind = "login" /\ r.verdict = "awaited"
  BY DEF Login, Answered, AnswerTo
<1>5. /\ a \in Request /\ a.verdict = "ok" /\ a.setCookies = {c} /\ a.kind = r.kind
      /\ a.cookie = r.cookie /\ a.tab = r.tab /\ a.sentAt = r.sentAt
  <2>1. {c} \in SUBSET Cookie BY <1>3 DEF Cookie
  <2>2. QED BY <1>2, <2>1, AnsweredType
<1>6. AnswerLasts(a)
  <2>1. Lasts(c, r.sentAt + IdleMs)
    BY <1>2, <1>3 DEF Lasts
  <2>2. QED BY <1>4, <1>5, <2>1 DEF AnswerLasts
<1>7. QED BY <1>4, <1>5, <1>6, AnsweredActive

LEMMA UnauthorizedActive ==
  ASSUME ActiveInv, SessionInv', Parameters, Timely, NEW r \in requests, Unauthorized(r)
  PROVE  ActiveInv'
<1> PICK S : S = IF r.kind = "load" /\ r.cookie # NoCookie THEN {NoCookie} ELSE {}
  OBVIOUS
<1> PICK a : a = AnswerTo(r, "unauthorized", S)
  OBVIOUS
<1>1. r \in Request /\ S \in SUBSET Cookie /\ \A c \in S : c = NoCookie
  BY RequestTypes DEF ActiveInv, SessionInv, Cookie
<1>2. /\ requests' = (requests \ {r}) \cup {a} /\ ~Admitted(r.cookie)
      /\ UNCHANGED <<time, epoch, jar, tabs>> /\ r.verdict = "awaited"
  BY DEF Unauthorized, Answered, AnswerTo
<1>3. /\ a \in Request /\ a.verdict = "unauthorized" /\ a.setCookies = S
      /\ a.kind = r.kind /\ a.tab = r.tab /\ a.cookie = r.cookie /\ a.sentAt = r.sentAt
  BY <1>1, AnsweredType
<1>4. AnswerLasts(a) BY <1>1, <1>3 DEF AnswerLasts
<1>5. QED BY <1>2, <1>3, <1>4, AnsweredActive

LEMMA ServeActive ==
  ASSUME ActiveInv, SessionInv', Parameters, Timely, NEW r \in requests, Serve(r)
  PROVE  ActiveInv'
<1> DEFINE slid == Slides(r.cookie, r.kind)
           stale == r.kind \notin {"load", "logout"} /\ isSessionEpochStale(r.cookie)
           own == createToken(r.cookie.start, epoch + 1)
<1>1. /\ TypeOK /\ Punctual /\ r.kind # "login" /\ r.verdict = "awaited"
      /\ Admitted(r.cookie) /\ UNCHANGED <<time, jar>>
  BY DEF ActiveInv, SessionInv, Serve
<1>2. /\ r \in Request /\ time \in Nat /\ epoch \in Nat /\ r.sentAt \in Nat
      /\ r.sentAt <= time /\ r.cookie # NoCookie /\ r.cookie \in Token
      /\ r.cookie.exp \in Nat /\ r.cookie.epoch \in Nat /\ IdleMs \in Nat
  BY <1>1, RequestTypes, StateTypes, CookieTypes, Windows DEF Punctual, Admitted, Verified
<1>3. /\ slid \in SUBSET Cookie /\ own \in Cookie /\ own.epoch = epoch + 1
      /\ Lasts(own, r.sentAt + IdleMs)
      /\ \A c \in slid : Lasts(c, r.sentAt + IdleMs)
      /\ r.kind \in {"logout", "changePassword"} => slid = {}
  <2>1. \A c \in slid : c = Slid(r.cookie) BY DEF Slides
  <2>2. r.kind \in {"logout", "changePassword"} => slid = {}
    BY DEF Slides, issuesOwnAuthCookie
  <2>3. epoch + 1 \in Nat BY <1>2
  <2>4. QED BY <1>2, <2>1, <2>2, <2>3, TokenTypes, NewCookies DEF Cookie
<1>4. r.kind \in {"me", "ping"} /\ slid = {} => HalfLasts(r.cookie, r.sentAt)
  <2> SUFFICES ASSUME r.kind \in {"me", "ping"}, slid = {} PROVE HalfLasts(r.cookie, r.sentAt)
    OBVIOUS
  <2>1. ~Due(r.cookie)
    BY DEF Slides, issuesOwnAuthCookie
  <2>2. IdleMs + 2 * r.sentAt <= 2 * r.cookie.exp
    BY <1>2, <2>1 DEF Due
  <2>3. QED BY <2>2 DEF HalfLasts
<1>5. \/ /\ stale /\ Answered(r, "terminated", slid) /\ UNCHANGED <<epoch, tabs>>
      \/ /\ ~stale /\ r.kind = "logout" /\ Answered(r, "ok", slid \cup {NoCookie})
         /\ UNCHANGED <<epoch, tabs>>
      \/ /\ ~stale /\ r.kind = "changePassword" /\ epoch' = epoch + 1
         /\ Answered(r, "ok", slid \cup {own})
         /\ tabs' = IF requests = {r} THEN tabs ELSE [t \in Tabs |-> Disowned(tabs[t])]
      \/ /\ ~stale /\ r.kind \notin {"logout", "changePassword"}
         /\ Answered(r, "ok", slid) /\ UNCHANGED <<epoch, tabs>>
  BY Zenon DEF Serve
<1> HIDE DEF slid, own
<1>6. ASSUME NEW verdict \in {"ok", "terminated"}, NEW S \in SUBSET Cookie,
             Answered(r, verdict, S),
             \A c \in S : c = NoCookie \/ Lasts(c, r.sentAt + IdleMs),
             r.kind \in {"me", "ping"} => S = slid,
             \/ UNCHANGED <<epoch, tabs>>
             \/ /\ r.kind = "changePassword" /\ verdict = "ok" /\ S = {own}
                /\ epoch' = epoch + 1
                /\ tabs' = IF requests = {r} THEN tabs
                           ELSE [t \in Tabs |-> Disowned(tabs[t])],
             r.kind = "me" /\ verdict = "ok" => ~stale
      PROVE  ActiveInv'
  <2> PICK a : a = AnswerTo(r, verdict, S)
    OBVIOUS
  <2>1. /\ a \in Request /\ a.verdict = verdict /\ a.setCookies = S
        /\ a.kind = r.kind /\ a.tab = r.tab /\ a.cookie = r.cookie /\ a.sentAt = r.sentAt
    BY <1>2, AnsweredType
  <2>2. requests' = (requests \ {r}) \cup {a}
    BY <1>6 DEF Answered, AnswerTo
  <2>3. AnswerLasts(a)
    BY <1>2, <1>4, <1>6, <2>1 DEF AnswerLasts
  <2>4. \/ epoch' = epoch /\ tabs' = tabs
        \/ \A u \in Tabs : tabs'[u] = Disowned(tabs[u])
        \/ /\ requests = {r} /\ tabs' = tabs
           /\ r.kind = "changePassword" /\ a.verdict = "ok"
           /\ \A c \in a.setCookies : c.epoch = epoch'
    BY <1>3, <1>6, <2>1
  <2>5. r.kind = "me" /\ a.verdict = "ok" =>
          r.cookie # NoCookie /\ epoch' = epoch /\ epoch <= r.cookie.epoch
    BY <1>2, <1>6, <2>1 DEF isSessionEpochStale
  <2>6. QED BY <1>1, <2>1, <2>2, <2>3, <2>4, <2>5, AnsweredActive
<1> HIDE DEF stale
<1>7. CASE stale /\ Answered(r, "terminated", slid) /\ UNCHANGED <<epoch, tabs>>
  BY <1>3, <1>6, <1>7
<1>8. CASE /\ r.kind = "logout" /\ Answered(r, "ok", slid \cup {NoCookie})
           /\ UNCHANGED <<epoch, tabs>>
  <2>1. /\ slid \cup {NoCookie} \in SUBSET Cookie
        /\ \A c \in slid \cup {NoCookie} : c = NoCookie \/ Lasts(c, r.sentAt + IdleMs)
    BY <1>3 DEF Cookie
  <2>2. QED BY <1>6, <1>8, <2>1
<1>9. CASE /\ r.kind = "changePassword" /\ epoch' = epoch + 1
           /\ Answered(r, "ok", slid \cup {own})
           /\ tabs' = IF requests = {r} THEN tabs ELSE [t \in Tabs |-> Disowned(tabs[t])]
  <2>1. slid \cup {own} = {own} BY <1>3, <1>9
  <2>2. Answered(r, "ok", {own}) BY <1>9, <2>1
  <2>3. {own} \in SUBSET Cookie /\ \A c \in {own} : Lasts(c, r.sentAt + IdleMs)
    BY <1>3
  <2>4. QED BY <1>6, <1>9, <2>2, <2>3
<1>10. CASE /\ ~stale /\ r.kind \notin {"logout", "changePassword"}
            /\ Answered(r, "ok", slid) /\ UNCHANGED <<epoch, tabs>>
  BY <1>3, <1>6, <1>10
<1>11. QED BY <1>5, <1>7, <1>8, <1>9, <1>10
-----------------------------------------------------------------------------
(* Requests are sent.                                                      *)

\* Nothing but requests, sent by tabs that are in or by one tab that opens.
LEMMA AskedActive ==
  ASSUME ActiveInv, SessionInv', Parameters, Timely, NEW asked,
         requests' = requests \cup asked, UNCHANGED jar,
         \A a \in asked :
           /\ a \in Request /\ a.sentAt = time' /\ a.verdict = "awaited"
           /\ a.setCookies = {} /\ a.kind # "me"
           /\ a.kind \notin Opens => tabs[a.tab].mode = "in"
           /\ a.kind \in Opens =>
                /\ asked = {a} /\ \A q \in requests : q.tab # a.tab
                /\ tabs'[a.tab].mode = "away",
         time <= time', \A r \in requests : time' <= r.sentAt + Latency,
         \A u \in Tabs :
           \/ /\ tabs'[u].mode = tabs[u].mode
              /\ tabs'[u].lastPing = tabs[u].lastPing \/ tabs[u].mode = "in"
           \/ \A q \in requests : q.tab # u,
         \A u \in Tabs : tabs'[u].ours => tabs[u].ours /\ epoch' = epoch,
         \A t \in Tabs : Lively(t)' => LivelyOK(t)'
  PROVE  ActiveInv'
<1>1. /\ TypeOK /\ TypeOK' /\ Punctual /\ OpensAlone /\ AnswersLast /\ LoadingInv
  BY DEF ActiveInv, SessionInv
<1>2. /\ \A r \in requests' : r.sentAt \in Nat /\ r.tab \in Tabs
      /\ time \in Nat /\ time' \in Nat /\ Latency \in Nat /\ FirstMoment \in Nat
  <2>1. \A r \in requests' : r.sentAt \in Nat /\ r.tab \in Tabs
    BY <1>1 DEF TypeOK, Request
  <2>2. time \in Nat /\ time' \in Nat
    BY <1>1 DEF TypeOK
  <2>3. Latency \in Nat /\ FirstMoment \in Nat
    BY Windows
  <2>4. QED BY <2>1, <2>2, <2>3
<1>3. Punctual'
  <2>1. FirstMoment <= time /\ FirstMoment <= time'
    BY <1>1, <1>2 DEF Punctual
  <2> SUFFICES ASSUME NEW r \in requests'
               PROVE  FirstMoment <= r.sentAt /\ r.sentAt <= time' /\ time' <= r.sentAt + Latency
    BY <2>1 DEF Punctual, FirstMoment, pingInterval
  <2>2. CASE r \in requests BY <1>1, <1>2, <2>2 DEF Punctual
  <2>3. CASE r \in asked BY <1>2, <2>1, <2>3
  <2>4. QED BY <2>2, <2>3
<1>4. OpensAlone'
  <2> SUFFICES ASSUME NEW r \in requests', r.kind \in Opens
               PROVE  /\ \A q \in requests' : q.tab = r.tab => q = r
                      /\ tabs'[r.tab].mode = IF r.kind = "me" THEN "loading" ELSE "away"
                      /\ r.kind = "me" => tabs'[r.tab].lastPing = 0
    BY DEF OpensAlone, Opens
  <2>1. CASE r \in asked
    BY <2>1
  <2>2. CASE r \in requests
    <3>1. /\ \A q \in requests : q.tab = r.tab => q = r
          /\ tabs[r.tab].mode = IF r.kind = "me" THEN "loading" ELSE "away"
          /\ r.kind = "me" => tabs[r.tab].lastPing = 0
      BY <1>1, <2>2 DEF OpensAlone
    <3>2. ASSUME NEW q \in asked PROVE q.tab # r.tab
      BY <2>2, <3>1
    <3>3. tabs'[r.tab].mode = tabs[r.tab].mode
          /\ (r.kind = "me" => tabs'[r.tab].lastPing = 0)
      BY <1>2, <2>2, <3>1
    <3>4. QED BY <3>1, <3>2, <3>3
  <2>3. QED BY <2>1, <2>2
<1>5. AnswersLast'
  <2> SUFFICES ASSUME NEW r \in requests' PROVE AnswerLasts(r)'
    BY DEF AnswersLast
  <2>1. CASE r \in requests
    BY <1>1, <2>1 DEF AnswersLast, AnswerLasts, HalfLasts, Lasts, AtCap
  <2>2. CASE r \in asked
    BY <2>2 DEF AnswerLasts
  <2>3. QED BY <2>1, <2>2
<1>6. LoadingInv'
  <2> SUFFICES ASSUME NEW m \in requests', m.kind = "me", tabs'[m.tab].ours
               PROVE  LoadingOK(m)'
    BY DEF LoadingInv
  <2>1. m \in requests /\ tabs[m.tab].ours /\ epoch' = epoch
    BY <1>2
  <2>2. LoadingOK(m)
    BY <1>1, <2>1 DEF LoadingInv
  <2>3. QED BY <2>1, <2>2 DEF LoadingOK, SentOrLater, AtCap
<1>7. QED BY <1>3, <1>4, <1>5, <1>6 DEF ActiveInv, LivelyInv

LEMMA LivelyStays ==
  ASSUME ActiveInv, NEW t \in Tabs, Lively(t), UNCHANGED <<jar, epoch>>,
         requests \subseteq requests',
         \A q \in requests' : q.tab = t /\ q.kind = "ping" => q \in requests,
         tabs'[t].deadline = tabs[t].deadline, tabs'[t].lastPing = tabs[t].lastPing,
         tabs'[t].lastActivity = tabs[t].lastActivity, Paced(t)'
  PROVE  LivelyOK(t)'
<1>1. LivelyOK(t)
  BY DEF ActiveInv, LivelyInv
<1>2. Pings(t)' = Pings(t)
  BY DEF Pings
<1>3. SameAccount(t)'
  BY <1>1 DEF LivelyOK, SameAccount
<1>4. ASSUME NEW r \in Pings(t) PROVE PingOK(r)'
  <2>1. PingOK(r) /\ r.tab = t
    BY <1>1 DEF LivelyOK, Pings
  <2>2. QED BY <2>1 DEF PingOK, SentOrLater, Lasts, AtCap
<1>5. Pings(t) = {} => Refreshed(t)'
  BY <1>1 DEF LivelyOK, Refreshed, HalfLasts, AtCap
<1>6. QED BY <1>2, <1>3, <1>4, <1>5 DEF LivelyOK

LEMMA PacedStays ==
  ASSUME NEW t \in Tabs, Paced(t), time' = time, tabs'[t].lastPing = tabs[t].lastPing,
         tabs'[t].lastActivity = tabs[t].lastActivity
  PROVE  Paced(t)'
BY DEF Paced, Patience, pingInterval

\* A tab that pings: nothing of it was under way, so the jar lasts until the answer.
LEMMA LivelyPings ==
  ASSUME ActiveInv, Parameters, Timely, NEW t \in Tabs, Lively(t), Pings(t) = {},
         UNCHANGED <<time, jar, epoch>>, requests' = requests \cup {Ask(t, "ping", jar)},
         tabs'[t].deadline = tabs[t].deadline, tabs'[t].lastPing = time,
         tabs'[t].lastActivity = time
  PROVE  LivelyOK(t)'
<1>1. /\ LivelyOK(t) /\ TypeOK /\ Punctual
  BY DEF ActiveInv, LivelyInv, SessionInv
<1>2. /\ time \in Nat /\ jar \in Cookie /\ jar # NoCookie
  BY <1>1, StateTypes DEF LivelyOK, SameAccount
<1> PICK a : a = Ask(t, "ping", jar)
  OBVIOUS
<1>3. /\ a.tab = t /\ a.kind = "ping" /\ a.cookie = jar /\ a.sentAt = time
      /\ a.verdict = "awaited"
  BY DEF Ask
<1>4. Pings(t)' = {a}
  BY <1>3 DEF Pings
<1>5. SameAccount(t)'
  BY <1>1 DEF LivelyOK, SameAccount
<1>6. Paced(t)'
  <2>1. /\ pingInterval \in Nat /\ Patience \in Nat /\ Patience < IdleMs
    BY Windows
  <2>2. time - time = 0 /\ time <= time /\ time <= time + pingInterval
    BY <1>2, <2>1
  <2>3. Patience' = Patience /\ pingInterval' = pingInterval
    BY DEF Patience, pingInterval
  <2>4. 2 * (time - time) + Patience < IdleMs
    BY <2>1, <2>2
  <2>5. QED BY <2>2, <2>3, <2>4 DEF Paced
<1>7. PingOK(a)'
  <2>1. Lasts(jar, time + Latency + 1)
    BY LivelyLasts
  <2>2. QED BY <1>2, <1>3, <2>1 DEF PingOK, Lasts, AtCap, SentOrLater
<1>8. QED BY <1>4, <1>5, <1>6, <1>7 DEF LivelyOK

\* Activity that sends no ping: the last one was a short while ago, or is under way.
LEMMA LivelyMoves ==
  ASSUME ActiveInv, Parameters, Timely, NEW t \in Tabs, Lively(t),
         ~(time - tabs[t].lastPing > pingInterval /\ MaySend(t, "ping")),
         UNCHANGED <<time, jar, epoch, requests>>,
         tabs'[t].deadline = tabs[t].deadline, tabs'[t].lastPing = tabs[t].lastPing,
         tabs'[t].lastActivity = time
  PROVE  LivelyOK(t)'
<1> DEFINE ping == tabs[t].lastPing
<1>1. /\ LivelyOK(t) /\ TypeOK /\ Punctual /\ OpensAlone
  BY DEF ActiveInv, LivelyInv, SessionInv
<1>2. /\ time \in Nat /\ ping \in Nat /\ tabs[t].lastActivity \in Nat /\ FirstMoment <= time
      /\ pingInterval \in Nat /\ Latency \in Nat /\ FirstMoment = pingInterval + 1
      /\ Latency <= pingInterval /\ ping <= time
      /\ Patience \in Nat /\ Patience < IdleMs
  <2>1. ping <= tabs[t].lastActivity /\ tabs[t].lastActivity <= time
    BY <1>1 DEF LivelyOK, Paced
  <2>2. time \in Nat /\ ping \in Nat /\ tabs[t].lastActivity \in Nat /\ FirstMoment <= time
    BY <1>1, StateTypes DEF Punctual
  <2>3. /\ pingInterval \in Nat /\ Latency \in Nat /\ FirstMoment = pingInterval + 1
        /\ Latency <= pingInterval /\ Patience \in Nat /\ Patience < IdleMs
    BY Windows
  <2>4. QED BY <2>1, <2>2, <2>3
<1>3. ping # 0 /\ time <= ping + pingInterval
  <2>1. CASE ~(time - ping > pingInterval)
    BY <1>2, <2>1
  <2>2. CASE ~MaySend(t, "ping")
    <3>1. ~Asking(t, "load")
      BY <1>1 DEF Asking, OpensAlone, Opens, Lively
    <3>2. PICK r \in requests : r.tab = t /\ r.kind = "ping"
      BY <2>2, <3>1 DEF MaySend, Asking
    <3>3. PingOK(r)
      BY <1>1, <3>2 DEF LivelyOK, Pings
    <3>4. /\ r.sentAt = ping /\ FirstMoment <= ping /\ time <= ping + Latency
      BY <1>1, <3>2, <3>3 DEF PingOK, Punctual
    <3>5. QED BY <1>2, <3>4
  <2>3. QED BY <2>1, <2>2
<1>4. Pings(t)' = Pings(t)
  BY DEF Pings
<1>5. SameAccount(t)'
  BY <1>1 DEF LivelyOK, SameAccount
<1>6. Paced(t)'
  <2>1. Patience' = Patience /\ pingInterval' = pingInterval
    BY DEF Patience, pingInterval
  <2>2. 2 * (time - time) + Patience < IdleMs
    BY <1>2
  <2>3. time <= time
    BY <1>2
  <2>4. QED BY <1>2, <1>3, <2>1, <2>2, <2>3 DEF Paced
<1>7. ASSUME NEW r \in Pings(t) PROVE PingOK(r)'
  <2>1. PingOK(r) /\ r.tab = t
    BY <1>1 DEF LivelyOK, Pings
  <2>2. QED BY <2>1 DEF PingOK, SentOrLater, Lasts, AtCap
<1>8. Pings(t) = {} => Refreshed(t)'
  BY <1>1, <1>3 DEF LivelyOK, Refreshed, HalfLasts, AtCap
<1>9. QED BY <1>4, <1>5, <1>6, <1>7, <1>8 DEF LivelyOK

\* A step that sends no ping and leaves every tab as it was, or nothing of it ours.
LEMMA StillActive ==
  ASSUME ActiveInv, SessionInv', Parameters, Timely, NEW asked,
         requests' = requests \cup asked, UNCHANGED <<jar, time>>,
         \A a \in asked :
           /\ a \in Request /\ a.sentAt = time /\ a.verdict = "awaited"
           /\ a.setCookies = {} /\ a.kind \notin {"me", "ping"}
           /\ a.kind \notin Opens => tabs[a.tab].mode = "in"
           /\ a.kind \in Opens =>
                /\ asked = {a} /\ \A q \in requests : q.tab # a.tab
                /\ tabs'[a.tab].mode = "away",
         \A u \in Tabs :
           \/ tabs'[u] = tabs[u] /\ epoch' = epoch
           \/ /\ tabs'[u].ours = FALSE
              /\ \/ tabs'[u].mode = tabs[u].mode /\ tabs'[u].lastPing = tabs[u].lastPing
                 \/ \A q \in requests : q.tab # u
  PROVE  ActiveInv'
<1>1. /\ TypeOK /\ TypeOK' /\ Punctual /\ LivelyInv /\ time \in Nat
  BY StateTypes DEF ActiveInv, SessionInv
<1>2. time <= time' /\ \A r \in requests : time' <= r.sentAt + Latency
  BY <1>1 DEF Punctual
<1>3. ASSUME NEW t \in Tabs, Lively(t)' PROVE LivelyOK(t)'
  <2>1. tabs'[t] = tabs[t] /\ epoch' = epoch
    BY <1>3 DEF Lively
  <2>2. Lively(t) /\ Paced(t)
    BY <1>1, <1>3, <2>1 DEF Lively, LivelyInv, LivelyOK
  <2>3. Paced(t)'
    BY <2>1, <2>2, PacedStays
  <2>4. QED BY <2>1, <2>2, <2>3, LivelyStays
<1>4. QED BY <1>2, <1>3, AskedActive

LEMMA AskActive ==
  ASSUME TypeOK, NEW t \in Tabs, NEW kind \in Kinds, NEW a, a = Ask(t, kind, jar)
  PROVE  /\ a \in Request /\ a.sentAt = time /\ a.verdict = "awaited"
         /\ a.setCookies = {} /\ a.kind = kind /\ a.tab = t
BY StateTypes, AskType DEF Ask

LEMMA DisownedFacts ==
  ASSUME TypeOK, NEW u \in Tabs
  PROVE  /\ Disowned(tabs[u]).ours = FALSE /\ Disowned(tabs[u]).mode = tabs[u].mode
         /\ Disowned(tabs[u]).lastPing = tabs[u].lastPing
<1>1. tabs[u] \in Tab
  BY DEF TypeOK
<1>2. QED BY <1>1 DEF Disowned, Tab

LEMMA RevokeActive ==
  ASSUME ActiveInv, SessionInv', Parameters, Timely, Revoke PROVE ActiveInv'
<1>1. TypeOK
  BY DEF ActiveInv, SessionInv
<1> PICK asked : asked = {}
  OBVIOUS
<1>2. requests' = requests \cup asked /\ UNCHANGED <<jar, time>>
  BY DEF Revoke
<1>3. \A u \in Tabs : tabs'[u] = Disowned(tabs[u])
  BY DEF Revoke
<1>4. \A u \in Tabs : /\ tabs'[u].ours = FALSE /\ tabs'[u].mode = tabs[u].mode
                       /\ tabs'[u].lastPing = tabs[u].lastPing
  BY <1>1, <1>3, DisownedFacts
<1>5. asked = {}
  OBVIOUS
<1>6. QED BY <1>2, <1>4, <1>5, StillActive

LEMMA SignInActive ==
  ASSUME ActiveInv, SessionInv', Parameters, Timely, NEW t \in Tabs, SignIn(t)
  PROVE  ActiveInv'
<1>1. TypeOK
  BY DEF ActiveInv, SessionInv
<1> PICK a : a = Ask(t, "login", jar)
  OBVIOUS
<1> PICK asked : asked = {a}
  OBVIOUS
<1>2. /\ requests' = requests \cup asked /\ UNCHANGED <<jar, time, epoch, tabs>>
      /\ tabs[t].mode = "away" /\ \A r \in requests : r.tab # t
  BY DEF SignIn
<1>3. /\ a \in Request /\ a.sentAt = time /\ a.verdict = "awaited"
      /\ a.setCookies = {} /\ a.kind = "login" /\ a.tab = t
  BY <1>1, AskActive DEF Kinds
<1>4. QED BY <1>2, <1>3, StillActive DEF Opens

LEMMA OpenActive ==
  ASSUME ActiveInv, SessionInv', Parameters, Timely, NEW t \in Tabs, Open(t)
  PROVE  ActiveInv'
<1>1. TypeOK
  BY DEF ActiveInv, SessionInv
<1> PICK a : a = Ask(t, "load", jar)
  OBVIOUS
<1> PICK asked : asked = {a}
  OBVIOUS
<1>2. /\ requests' = requests \cup asked /\ UNCHANGED <<jar, time, epoch>>
      /\ \A r \in requests : r.tab # t
      /\ tabs' = [tabs EXCEPT ![t] = Closed]
  BY DEF Open
<1>3. /\ a \in Request /\ a.sentAt = time /\ a.verdict = "awaited"
      /\ a.setCookies = {} /\ a.kind = "load" /\ a.tab = t
  BY <1>1, AskActive DEF Kinds
<1>4. \A u \in Tabs : tabs'[u] = IF u = t THEN Closed ELSE tabs[u]
  BY <1>1, <1>2 DEF TypeOK
<1>5. Closed.ours = FALSE /\ Closed.mode = "away"
  BY DEF Closed
<1>6. \A u \in Tabs :
        \/ tabs'[u] = tabs[u] /\ epoch' = epoch
        \/ tabs'[u].ours = FALSE /\ \A q \in requests : q.tab # u
  BY <1>2, <1>4, <1>5
<1>7. tabs'[t].mode = "away"
  BY <1>4, <1>5
<1>8. ASSUME NEW b \in asked
      PROVE  /\ b \in Request /\ b.sentAt = time /\ b.verdict = "awaited"
             /\ b.setCookies = {} /\ b.kind \notin {"me", "ping"} /\ b.kind \in Opens
             /\ asked = {b} /\ \A q \in requests : q.tab # b.tab
             /\ tabs'[b.tab].mode = "away"
  BY <1>2, <1>3, <1>7 DEF Opens
<1>9. requests' = requests \cup asked /\ UNCHANGED <<jar, time>>
  BY <1>2
<1>10. QED BY <1>6, <1>8, <1>9, StillActive

LEMMA WorkActive ==
  ASSUME ActiveInv, SessionInv', Parameters, Timely, NEW t \in Tabs,
         NEW kind \in {"work", "changePassword"}, Work(t, kind)
  PROVE  ActiveInv'
<1>1. TypeOK
  BY DEF ActiveInv, SessionInv
<1> PICK a : a = Ask(t, kind, jar)
  OBVIOUS
<1> PICK asked : asked = {a}
  OBVIOUS
<1>2. /\ requests' = requests \cup asked /\ UNCHANGED <<jar, time, epoch, tabs>>
      /\ tabs[t].mode = "in"
  BY DEF Work
<1>3. /\ a \in Request /\ a.sentAt = time /\ a.verdict = "awaited"
      /\ a.setCookies = {} /\ a.kind = kind /\ a.tab = t
  BY <1>1, AskActive DEF Kinds
<1>4. QED BY <1>2, <1>3, StillActive DEF Opens

LEMMA SignOutActive ==
  ASSUME ActiveInv, SessionInv', Parameters, Timely, NEW t \in Tabs, SignOut(t)
  PROVE  ActiveInv'
<1>1. TypeOK
  BY DEF ActiveInv, SessionInv
<1> PICK asked : asked = Leave({t})
  OBVIOUS
<1>2. /\ requests' = requests \cup asked /\ UNCHANGED <<jar, time, epoch>>
      /\ tabs[t].mode = "in" /\ \A u \in Tabs : tabs'[u] = Disowned(tabs[u])
  BY DEF SignOut
<1>3. ASSUME NEW a \in asked
      PROVE  /\ a \in Request /\ a.sentAt = time /\ a.verdict = "awaited"
             /\ a.setCookies = {} /\ a.kind = "logout" /\ a.tab = t
  <2>1. a = Ask(t, "logout", jar)
    BY DEF Leave
  <2>2. QED BY <1>1, <2>1, AskActive DEF Kinds
<1>4. \A u \in Tabs : /\ tabs'[u].ours = FALSE /\ tabs'[u].mode = tabs[u].mode
                       /\ tabs'[u].lastPing = tabs[u].lastPing
  BY <1>1, <1>2, DisownedFacts
<1>5. ASSUME NEW a \in asked
      PROVE  /\ a \in Request /\ a.sentAt = time /\ a.verdict = "awaited"
             /\ a.setCookies = {} /\ a.kind \notin {"me", "ping"}
             /\ a.kind \notin Opens /\ tabs[a.tab].mode = "in"
  BY <1>2, <1>3 DEF Opens
<1>6. requests' = requests \cup asked /\ UNCHANGED <<jar, time>>
  BY <1>2
<1>7. QED BY <1>4, <1>5, <1>6, StillActive

\* A tab's user is active, and the tab pings or it does not.
LEMMA MovedActive ==
  ASSUME ActiveInv, SessionInv', Parameters, Timely, NEW t \in Tabs, tabs[t].mode = "in",
         UNCHANGED <<time, epoch, jar>>,
         \A u \in Tabs \ {t} : tabs'[u] = tabs[u],
         tabs'[t].mode = "in", tabs'[t].ours = tabs[t].ours,
         tabs'[t].attentive = tabs[t].attentive, tabs'[t].deadline = tabs[t].deadline,
         tabs'[t].lastActivity = time,
         \/ /\ MaySend(t, "ping") /\ requests' = requests \cup {Ask(t, "ping", jar)}
            /\ tabs'[t].lastPing = time
         \/ /\ ~(time - tabs[t].lastPing > pingInterval /\ MaySend(t, "ping"))
            /\ requests' = requests /\ tabs'[t].lastPing = tabs[t].lastPing
  PROVE  ActiveInv'
<1>1. /\ TypeOK /\ Punctual /\ LivelyInv /\ time \in Nat
  BY StateTypes DEF ActiveInv, SessionInv
<1> PICK a : a = Ask(t, "ping", jar)
  OBVIOUS
<1>2. /\ a \in Request /\ a.sentAt = time /\ a.verdict = "awaited"
      /\ a.setCookies = {} /\ a.kind = "ping" /\ a.tab = t
  BY <1>1, AskActive DEF Kinds
<1> PICK asked : asked = IF requests' = requests THEN {} ELSE {a}
  OBVIOUS
<1>3. asked \subseteq {a} /\ requests' = requests \cup asked
  OBVIOUS
<1>4. ASSUME NEW u \in Tabs, Lively(u)' PROVE LivelyOK(u)'
  <2>1. CASE u = t
    <3>1. Lively(t)
      BY <1>4, <2>1 DEF Lively
    <3>2. CASE /\ MaySend(t, "ping") /\ requests' = requests \cup {a}
               /\ tabs'[t].lastPing = time
      <4>1. Pings(t) = {}
        BY <3>2 DEF Pings, MaySend, Asking
      <4>2. QED BY <2>1, <3>1, <3>2, <4>1, LivelyPings
    <3>3. CASE /\ ~(time - tabs[t].lastPing > pingInterval /\ MaySend(t, "ping"))
               /\ requests' = requests /\ tabs'[t].lastPing = tabs[t].lastPing
      BY <2>1, <3>1, <3>3, LivelyMoves
    <3>4. QED BY <3>2, <3>3
  <2>2. CASE u # t
    <3>1. tabs'[u] = tabs[u] /\ Lively(u)
      BY <1>4, <2>2 DEF Lively
    <3>2. Paced(u)'
      <4>1. Paced(u)
        BY <1>1, <3>1 DEF LivelyInv, LivelyOK
      <4>2. QED BY <3>1, <4>1, PacedStays
    <3>3. \A q \in requests' : q.tab = u /\ q.kind = "ping" => q \in requests
      BY <1>2, <1>3, <2>2
    <3>4. QED BY <1>3, <3>1, <3>2, <3>3, LivelyStays
  <2>3. QED BY <2>1, <2>2
<1>5. /\ \A b \in asked :
           /\ b \in Request /\ b.sentAt = time' /\ b.verdict = "awaited"
           /\ b.setCookies = {} /\ b.kind = "ping" /\ b.tab = t
      /\ "ping" \notin Opens
  BY <1>2, <1>3 DEF Opens
<1>6. time <= time' /\ \A r \in requests : time' <= r.sentAt + Latency
  BY <1>1 DEF Punctual
<1>7. \A u \in Tabs :
        /\ tabs'[u].mode = tabs[u].mode
        /\ tabs'[u].lastPing = tabs[u].lastPing \/ tabs[u].mode = "in"
        /\ tabs'[u].ours = tabs[u].ours
  OBVIOUS
<1>8. QED BY <1>3, <1>4, <1>5, <1>6, <1>7, AskedActive

LEMMA RowTypes ==
  ASSUME TypeOK, NEW t \in Tabs, NEW last \in Nat, NEW w \in BOOLEAN,
         tabs' = [tabs EXCEPT ![t].lastActivity = time, ![t].lastPing = last,
                              ![t].warning = w]
  PROVE  /\ \A u \in Tabs \ {t} : tabs'[u] = tabs[u]
         /\ tabs'[t].mode = tabs[t].mode /\ tabs'[t].ours = tabs[t].ours
         /\ tabs'[t].attentive = tabs[t].attentive
         /\ tabs'[t].deadline = tabs[t].deadline /\ tabs'[t].lastActivity = time
         /\ tabs'[t].lastPing = last
<1>1. tabs \in [Tabs -> Tab] /\ tabs[t] \in Tab
  BY DEF TypeOK
<1> PICK moved : moved = [tabs[t] EXCEPT !.lastActivity = time]
  OBVIOUS
<1> PICK pinged : pinged = [moved EXCEPT !.lastPing = last]
  OBVIOUS
<1> PICK row : row = [pinged EXCEPT !.warning = w]
  OBVIOUS
<1>2. tabs' = [tabs EXCEPT ![t] = row]
  BY <1>1
<1>3. /\ row.mode = tabs[t].mode /\ row.ours = tabs[t].ours
      /\ row.attentive = tabs[t].attentive /\ row.deadline = tabs[t].deadline
      /\ row.lastActivity = time /\ row.lastPing = last
  BY <1>1 DEF Tab
<1>4. QED BY <1>1, <1>2, <1>3

LEMMA ActivityActive ==
  ASSUME ActiveInv, SessionInv', Parameters, Timely, NEW t \in Tabs, onActivity(t)
  PROVE  ActiveInv'
<1>1. TypeOK /\ time \in Nat /\ tabs \in [Tabs -> Tab] /\ tabs[t].lastPing \in Nat
  BY StateTypes DEF ActiveInv, SessionInv
<1> PICK pings : pings = (time - tabs[t].lastPing > pingInterval /\ MaySend(t, "ping"))
  OBVIOUS
<1> PICK last : last = IF pings THEN time ELSE tabs[t].lastPing
  OBVIOUS
<1>2. /\ tabs[t].mode = "in" /\ UNCHANGED <<time, epoch, jar>>
      /\ requests' = requests \cup (IF pings THEN {Ask(t, "ping", jar)} ELSE {})
      /\ tabs' = [tabs EXCEPT ![t].lastActivity = time, ![t].lastPing = last]
  BY DEF onActivity
<1>3. last \in Nat /\ tabs[t] \in Tab
  BY <1>1 DEF TypeOK
<1>4. tabs' = [tabs EXCEPT ![t].lastActivity = time, ![t].lastPing = last,
                           ![t].warning = tabs[t].warning]
  <2> PICK moved : moved = [tabs[t] EXCEPT !.lastActivity = time]
    OBVIOUS
  <2> PICK row : row = [moved EXCEPT !.lastPing = last]
    OBVIOUS
  <2>1. tabs' = [tabs EXCEPT ![t] = row]
    BY <1>1, <1>2
  <2>2. row = [row EXCEPT !.warning = tabs[t].warning]
    BY <1>3 DEF Tab
  <2>3. QED BY <1>1, <2>1, <2>2
<1>5. PICK w \in BOOLEAN :
        tabs' = [tabs EXCEPT ![t].lastActivity = time, ![t].lastPing = last,
                             ![t].warning = w]
  <2>1. tabs[t].warning \in BOOLEAN
    BY <1>3 DEF Tab
  <2>2. QED BY <1>4, <2>1
<1>6. /\ \A u \in Tabs \ {t} : tabs'[u] = tabs[u]
      /\ tabs'[t].mode = tabs[t].mode /\ tabs'[t].ours = tabs[t].ours
      /\ tabs'[t].attentive = tabs[t].attentive
      /\ tabs'[t].deadline = tabs[t].deadline /\ tabs'[t].lastActivity = time
      /\ tabs'[t].lastPing = last
  BY <1>1, <1>3, <1>5, RowTypes
<1>7. CASE pings
  <2>1. MaySend(t, "ping") /\ last = time
    BY <1>7
  <2>2. QED BY <1>2, <1>6, <1>7, <2>1, MovedActive
<1>8. CASE ~pings
  <2>1. ~(time - tabs[t].lastPing > pingInterval /\ MaySend(t, "ping"))
        /\ last = tabs[t].lastPing /\ requests' = requests
    BY <1>2, <1>8
  <2>2. QED BY <1>2, <1>6, <2>1, MovedActive
<1>9. QED BY <1>7, <1>8

LEMMA StayActive ==
  ASSUME ActiveInv, SessionInv', Parameters, Timely, NEW t \in Tabs, stayAlive(t)
  PROVE  ActiveInv'
<1>1. TypeOK /\ time \in Nat
  BY StateTypes DEF ActiveInv, SessionInv
<1>2. /\ tabs[t].mode = "in" /\ UNCHANGED <<time, epoch, jar>> /\ MaySend(t, "ping")
      /\ requests' = requests \cup {Ask(t, "ping", jar)}
      /\ tabs' = [tabs EXCEPT ![t].lastActivity = time, ![t].lastPing = time,
                              ![t].warning = FALSE]
  BY DEF stayAlive
<1>3. /\ \A u \in Tabs \ {t} : tabs'[u] = tabs[u]
      /\ tabs'[t].mode = tabs[t].mode /\ tabs'[t].ours = tabs[t].ours
      /\ tabs'[t].attentive = tabs[t].attentive
      /\ tabs'[t].deadline = tabs[t].deadline /\ tabs'[t].lastActivity = time
      /\ tabs'[t].lastPing = time
  BY <1>1, <1>2, RowTypes
<1>4. QED BY <1>2, <1>3, MovedActive

LEMMA TickActive ==
  ASSUME ActiveInv, SessionInv', Parameters, Timely, Tick PROVE ActiveInv'
<1> DEFINE now == time + 1
           idleFor(t) == now - tabs[t].lastActivity
           entered == {t \in Tabs : tabs[t].mode = "in"}
           leaving == {t \in entered : now >= tabs[t].deadline \/ idleFor(t) >= IdleMs}
           W(t) == IF t \in leaving THEN tabs[t].warning
                   ELSE idleFor(t) >= IdleMs - warningMs
           A(t) == /\ tabs[t].attentive /\ leaving = {}
                   /\ 2 * idleFor(t) + Patience < IdleMs
           row(t) == [tabs[t] EXCEPT !.warning = W(t), !.attentive = A(t)]
<1> PICK asked : asked = {[r EXCEPT !.sentAt = now] : r \in Leave(leaving)}
  OBVIOUS
<1>1. /\ TypeOK /\ Punctual /\ LivelyInv /\ time \in Nat
      /\ \A t \in Tabs : tabs[t].lastActivity \in Nat /\ tabs[t].deadline \in Nat
      /\ \A r \in requests : r.sentAt \in Nat
  BY StateTypes, RequestTypes DEF ActiveInv, SessionInv
<1>2. /\ time' = now /\ requests' = requests \cup asked /\ UNCHANGED <<jar, epoch>>
      /\ \A r \in requests : time < r.sentAt + Latency
      /\ tabs' = [t \in Tabs |-> IF t \notin entered THEN tabs[t] ELSE row(t)]
  BY DEF Tick
<1>3. ASSUME NEW t \in Tabs
      PROVE  /\ tabs'[t].mode = tabs[t].mode /\ tabs'[t].ours = tabs[t].ours
             /\ tabs'[t].deadline = tabs[t].deadline
             /\ tabs'[t].lastPing = tabs[t].lastPing
             /\ tabs'[t].lastActivity = tabs[t].lastActivity
             /\ t \in entered => tabs'[t].attentive = A(t)
  <2>1. tabs'[t] = tabs[t] \/ tabs'[t] = row(t)
    BY <1>2
  <2>2. tabs[t] \in Tab
    BY <1>1 DEF TypeOK
  <2> HIDE DEF W, A
  <2>3. /\ row(t).mode = tabs[t].mode /\ row(t).ours = tabs[t].ours
        /\ row(t).deadline = tabs[t].deadline /\ row(t).lastPing = tabs[t].lastPing
        /\ row(t).lastActivity = tabs[t].lastActivity /\ row(t).attentive = A(t)
    BY <2>2 DEF Tab
  <2>4. t \in entered => tabs'[t] = row(t)
    BY <1>2
  <2> HIDE DEF row, entered
  <2>5. QED BY <2>1, <2>3, <2>4
<1>4. ASSUME NEW a \in asked
      PROVE  /\ a \in Request /\ a.sentAt = time' /\ a.verdict = "awaited"
             /\ a.setCookies = {} /\ a.kind = "logout" /\ a.tab \in Tabs
             /\ tabs[a.tab].mode = "in"
  <2>1. PICK t \in leaving : a = [Ask(t, "logout", jar) EXCEPT !.sentAt = now]
    BY DEF Leave
  <2>2. PICK b : b = Ask(t, "logout", jar)
    OBVIOUS
  <2>3. b \in Request /\ b.verdict = "awaited" /\ b.setCookies = {} /\ b.kind = "logout"
        /\ b.tab = t
    BY <1>1, <2>1, <2>2, AskActive DEF Kinds
  <2>4. a = [b EXCEPT !.sentAt = now] /\ t \in Tabs /\ tabs[t].mode = "in" /\ now \in Nat
    BY <1>1, <2>1, <2>2
  <2> HIDE DEF leaving
  <2>5. QED BY <1>2, <2>3, <2>4 DEF Request
<1>5. ASSUME NEW t \in Tabs, Lively(t)' PROVE LivelyOK(t)'
  <2>1. /\ tabs[t].mode = "in" /\ tabs[t].ours /\ A(t) /\ now < tabs[t].deadline
    BY <1>2, <1>3, <1>5 DEF Lively
  <2>2. Lively(t)
    <3>1. time < tabs[t].deadline
      BY <1>1, <2>1
    <3>2. QED BY <2>1, <3>1 DEF Lively
  <2>3. Paced(t)'
    <3>1. Paced(t)
      BY <1>1, <2>2 DEF LivelyInv, LivelyOK
    <3>2. 2 * (now - tabs[t].lastActivity) + Patience < IdleMs
      BY <2>1
    <3>3. tabs[t].lastActivity <= now
      BY <1>1, <3>1 DEF Paced
    <3>4. Patience' = Patience /\ pingInterval' = pingInterval
      BY DEF Patience, pingInterval
    <3>5. QED BY <1>2, <1>3, <3>1, <3>2, <3>3, <3>4 DEF Paced
  <2>4. \A q \in requests' : q.tab = t /\ q.kind = "ping" => q \in requests
    BY <1>2, <1>4
  <2>5. requests \subseteq requests'
    BY <1>2
  <2>6. QED BY <1>2, <1>3, <2>2, <2>3, <2>4, <2>5, LivelyStays
<1>6. time <= time' /\ \A r \in requests : time' <= r.sentAt + Latency
  <2>1. Latency \in Nat /\ time' = time + 1 /\ time \in Nat
    BY <1>1, <1>2, Windows
  <2>2. \A r \in requests : r.sentAt \in Nat /\ time < r.sentAt + Latency
    BY <1>1, <1>2
  <2>3. QED BY <2>1, <2>2
<1>7. requests' = requests \cup asked /\ UNCHANGED jar
  BY <1>2
<1>8. \A a \in asked :
        /\ a \in Request /\ a.sentAt = time' /\ a.verdict = "awaited"
        /\ a.setCookies = {} /\ a.kind # "me"
        /\ a.kind \notin Opens => tabs[a.tab].mode = "in"
        /\ a.kind \in Opens =>
             /\ asked = {a} /\ \A q \in requests : q.tab # a.tab
             /\ tabs'[a.tab].mode = "away"
  <2>1. "logout" \notin Opens /\ "logout" # "me"
    BY DEF Opens
  <2> HIDE DEF leaving, row, entered
  <2>2. QED BY <1>4, <2>1
<1>9. \A u \in Tabs :
        \/ /\ tabs'[u].mode = tabs[u].mode
           /\ tabs'[u].lastPing = tabs[u].lastPing \/ tabs[u].mode = "in"
        \/ \A q \in requests : q.tab # u
  <2> HIDE DEF leaving, row, entered, A
  <2>1. QED BY <1>3
<1>10. \A u \in Tabs : tabs'[u].ours => tabs[u].ours /\ epoch' = epoch
  <2>1. epoch' = epoch
    BY <1>2
  <2> HIDE DEF leaving, row, entered, A
  <2>2. QED BY <1>3, <2>1
<1>11. \A t \in Tabs : Lively(t)' => LivelyOK(t)'
  BY <1>5
<1> HIDE DEF leaving, row, entered, A, W, now, idleFor
<1>12. QED BY <1>6, <1>7, <1>8, <1>9, <1>10, <1>11, AskedActive
-----------------------------------------------------------------------------
(* The responses arrive at lively tabs.                                    *)

\* The jar moves on within its session, to a cookie that lasts an idle window from
\* the request.
LEMMA JarMoves ==
  ASSUME ActiveInv, NEW r \in requests, NEW cookie \in LastCookies(r),
         SameSession(cookie)
  PROVE  /\ cookie \in Cookie /\ (cookie = NoCookie <=> jar = NoCookie)
         /\ cookie = jar \/ (cookie \in r.setCookies /\ Lasts(cookie, r.sentAt + IdleMs))
         /\ cookie # NoCookie =>
              cookie.start = jar.start /\ jar.epoch <= cookie.epoch /\ cookie.epoch <= epoch
<1>1. /\ TypeOK /\ Sound(jar) /\ RequestOK(r) /\ AnswerLasts(r)
  BY DEF ActiveInv, SessionInv, AnswersLast
<1>2. cookie = jar \/ cookie \in r.setCookies
  BY DEF LastCookies
<1>3. cookie \in Cookie /\ Sound(cookie)
  BY <1>1, <1>2, StateTypes, RequestTypes DEF RequestOK
<1>4. cookie # NoCookie => cookie.epoch \in Nat /\ jar.epoch \in Nat
  BY <1>1, <1>3, StateTypes, CookieTypes DEF SameSession
<1>5. QED BY <1>1, <1>2, <1>3, <1>4 DEF SameSession, Sound, AnswerLasts, Lasts, AtCap

LEMMA LaterStays ==
  ASSUME ActiveInv, Parameters, Timely, NEW r \in requests, NEW cookie \in LastCookies(r),
         SameSession(cookie), jar' = cookie, NEW q \in requests, SentOrLater(q)
  PROVE  SentOrLater(q)'
<1>1. TypeOK /\ Punctual
  BY DEF ActiveInv, SessionInv
<1>2. CASE cookie = jar
  BY <1>2 DEF SentOrLater, AtCap
<1>3. CASE cookie # jar
  <2>1. /\ cookie \in Cookie /\ cookie # NoCookie
        /\ Lasts(cookie, r.sentAt + IdleMs)
    BY <1>3, JarMoves
  <2>2. /\ q.sentAt <= time /\ time <= r.sentAt + Latency
    BY <1>1 DEF Punctual
  <2>3. /\ q.sentAt \in Nat /\ r.sentAt \in Nat /\ time \in Nat /\ Latency \in Nat
        /\ IdleMs \in Nat /\ cookie.exp \in Nat
    BY <1>1, <2>1, StateTypes, RequestTypes, CookieTypes, Windows
  <2>4. q.sentAt + IdleMs <= cookie.exp + Latency \/ AtCap(cookie)
    BY <2>1, <2>2, <2>3 DEF Lasts
  <2>5. QED BY <2>1, <2>4 DEF SentOrLater, AtCap
<1>4. QED BY <1>2, <1>3

\* What a lively tab keeps when a response of its session arrives anywhere.
LEMMA LivelyKeeps ==
  ASSUME ActiveInv, Parameters, Timely, NEW r \in requests, NEW cookie \in LastCookies(r),
         SameSession(cookie), jar' = cookie, UNCHANGED <<time, epoch>>,
         requests \ {r} \subseteq requests',
         NEW t \in Tabs, Lively(t), tabs'[t] = tabs[t]
  PROVE  /\ SameAccount(t)' /\ Paced(t)' /\ (Refreshed(t) => Refreshed(t)')
         /\ \A q \in Pings(t) : PingOK(q)'
<1> DEFINE tab == tabs[t]
<1>1. /\ TypeOK /\ Punctual /\ LivelyOK(t) /\ RequestOK(r)
  BY DEF ActiveInv, SessionInv, LivelyInv
<1>2. /\ cookie \in Cookie /\ cookie # NoCookie /\ jar # NoCookie
      /\ cookie = jar \/ (cookie \in r.setCookies /\ Lasts(cookie, r.sentAt + IdleMs))
      /\ cookie.start = jar.start /\ jar.epoch <= cookie.epoch /\ cookie.epoch <= epoch
  BY <1>1, JarMoves DEF LivelyOK, SameAccount
<1>3. /\ time \in Nat /\ r.sentAt \in Nat /\ cookie.exp \in Nat /\ cookie.epoch \in Nat
      /\ jar.epoch \in Nat /\ epoch \in Nat /\ tab.lastPing \in Nat
      /\ tab.lastActivity \in Nat
  BY <1>1, <1>2, StateTypes, RequestTypes, CookieTypes
<1>4. /\ pingInterval \in Nat /\ Latency \in Nat /\ IdleMs \in Nat
      /\ 2 * pingInterval + 2 * Latency < IdleMs
  BY Windows
<1>5. time <= r.sentAt + Latency
  BY <1>1 DEF Punctual
<1>6. Paced(t)'
  BY <1>1, PacedStays DEF LivelyOK
<1>7. SameAccount(t)'
  <2>1. tabs'[t].deadline = cookie.start + AbsoluteMs
    BY <1>1, <1>2 DEF LivelyOK, SameAccount
  <2>2. CASE jar.epoch = epoch
    <3>1. cookie.epoch = epoch
      BY <1>2, <1>3, <2>2
    <3>2. QED BY <1>2, <2>1, <3>1 DEF SameAccount
  <2>3. CASE jar.epoch # epoch
    <3>1. PICK p \in requests :
            /\ p.kind = "changePassword" /\ p.verdict = "ok"
            /\ \A c \in p.setCookies : c.epoch = epoch
      BY <1>1, <2>3 DEF LivelyOK, SameAccount
    <3>2. CASE p = r
      <4>1. cookie \in r.setCookies
        BY <1>1, <3>1, <3>2 DEF RequestOK, LastCookies
      <4>2. QED BY <1>2, <2>1, <3>1, <3>2, <4>1 DEF SameAccount
    <3>3. CASE p # r
      BY <1>2, <2>1, <3>1, <3>3 DEF SameAccount
    <3>4. QED BY <3>2, <3>3
  <2>4. QED BY <2>2, <2>3
<1>8. ASSUME Refreshed(t) PROVE Refreshed(t)'
  <2>1. CASE cookie = jar
    BY <1>8, <2>1 DEF Refreshed, HalfLasts, AtCap
  <2>2. CASE AtCap(cookie)
    BY <2>2 DEF Refreshed, HalfLasts, AtCap
  <2>3. CASE r.sentAt + IdleMs <= cookie.exp
    <3>1. tab.lastActivity <= time /\ tab.lastPing <= tab.lastActivity
      BY <1>1 DEF LivelyOK, Paced
    <3>2. IdleMs + 2 * tab.lastActivity <= 2 * cookie.exp
      BY <1>3, <1>4, <1>5, <2>3, <3>1
    <3>3. /\ IdleMs + 2 * tab.lastActivity <= 2 * cookie.exp + 2 * Latency
          /\ IdleMs + 2 * tab.lastPing <= 2 * cookie.exp
      BY <1>3, <1>4, <3>1, <3>2
    <3>4. QED BY <3>3 DEF Refreshed, HalfLasts
  <2>4. QED BY <1>2, <2>1, <2>2, <2>3 DEF Lasts
<1>9. ASSUME NEW q \in Pings(t) PROVE PingOK(q)'
  <2>1. PingOK(q) /\ q \in requests /\ q.tab = t /\ q.sentAt \in Nat /\ q.sentAt <= time
    BY <1>1, RequestTypes DEF LivelyOK, Pings, Punctual
  <2>2. SentOrLater(q)'
    BY <2>1, LaterStays DEF PingOK
  <2>3. Lasts(cookie, q.sentAt + Latency + 1)
    <3>1. CASE cookie = jar
      BY <2>1, <3>1 DEF PingOK
    <3>2. CASE Lasts(cookie, r.sentAt + IdleMs)
      <4>1. r.sentAt + IdleMs <= cookie.exp => q.sentAt + Latency + 1 <= cookie.exp
        BY <1>3, <1>4, <1>5, <2>1
      <4>2. QED BY <3>2, <4>1 DEF Lasts
    <3>3. QED BY <1>2, <3>1, <3>2
  <2>4. QED BY <1>2, <2>1, <2>2, <2>3 DEF PingOK, Lasts, AtCap
<1>10. QED BY <1>6, <1>7, <1>8, <1>9

\* What a response that arrives leaves behind, when it leaves its own tab so.
LEMMA ArrivedActive ==
  ASSUME ActiveInv, SessionInv', Parameters, Timely, NEW r \in requests,
         r.verdict # "awaited", NEW cookie \in LastCookies(r), NEW tab, NEW asked,
         Arrives(r, cookie, tab, asked),
         \A a \in asked :
           /\ a \in Request /\ a.tab = r.tab /\ a.sentAt = time /\ a.cookie = cookie
           /\ a.verdict = "awaited" /\ a.setCookies = {}
           /\ \/ a.kind = "logout"
              \/ /\ a.kind = "me" /\ asked = {a} /\ r.kind \in Opens
                 /\ tab.mode = "loading" /\ tab.lastPing = 0,
         Lively(r.tab)' => LivelyOK(r.tab)'
  PROVE  ActiveInv'
<1> DEFINE disturbs == ~SameSession(cookie) \/ \E a \in asked : a.kind = "logout"
<1>1. /\ TypeOK /\ TypeOK' /\ Punctual /\ OpensAlone /\ AnswersLast /\ LoadingInv
      /\ LivelyInv /\ r.tab \in Tabs /\ time \in Nat /\ Latency \in Nat
  BY StateTypes, RequestTypes, Windows DEF ActiveInv, SessionInv
<1>2. /\ jar' = cookie /\ requests' = (requests \ {r}) \cup asked
      /\ UNCHANGED <<time, epoch>>
      /\ tabs' = [u \in Tabs |-> IF u = r.tab THEN tab
                                ELSE IF disturbs THEN Disowned(tabs[u]) ELSE tabs[u]]
  BY DEF Arrives
<1>3. /\ tabs'[r.tab] = tab
      /\ \A u \in Tabs \ {r.tab} :
           /\ tabs'[u].mode = tabs[u].mode /\ tabs'[u].lastPing = tabs[u].lastPing
           /\ tabs'[u].ours => tabs'[u] = tabs[u] /\ SameSession(cookie)
  BY <1>1, <1>2, DisownedFacts
<1>4. ASSUME NEW q \in requests'
      PROVE  \/ q \in asked
             \/ q \in requests /\ q # r /\ (q.kind \in Opens => q.tab # r.tab)
  BY <1>1, <1>2 DEF OpensAlone
<1>5. Punctual'
  <2>1. \A a \in asked : FirstMoment <= a.sentAt /\ a.sentAt <= time /\ time <= a.sentAt + Latency
    BY <1>1 DEF Punctual
  <2>2. QED BY <1>1, <1>2, <1>4, <2>1 DEF Punctual, FirstMoment, pingInterval
<1>6. OpensAlone'
  <2> SUFFICES ASSUME NEW q \in requests', q.kind \in Opens
               PROVE  /\ \A p \in requests' : p.tab = q.tab => p = q
                      /\ tabs'[q.tab].mode = IF q.kind = "me" THEN "loading" ELSE "away"
                      /\ q.kind = "me" => tabs'[q.tab].lastPing = 0
    BY DEF OpensAlone, Opens
  <2>1. CASE q \in asked
    <3>1. /\ q.kind = "me" /\ asked = {q} /\ r.kind \in Opens /\ q.tab = r.tab
          /\ tab.mode = "loading" /\ tab.lastPing = 0
      BY <2>1 DEF Opens
    <3>2. \A p \in requests : p.tab = r.tab => p = r
      BY <1>1, <3>1 DEF OpensAlone
    <3>3. QED BY <1>3, <1>4, <3>1, <3>2
  <2>2. CASE q \in requests /\ q # r /\ q.tab # r.tab
    <3>1. /\ \A p \in requests : p.tab = q.tab => p = q
          /\ tabs[q.tab].mode = IF q.kind = "me" THEN "loading" ELSE "away"
          /\ q.kind = "me" => tabs[q.tab].lastPing = 0
      BY <1>1, <2>2 DEF OpensAlone
    <3>2. q.tab \in Tabs \ {r.tab}
      BY <1>1, <2>2, RequestTypes
    <3>3. QED BY <1>3, <1>4, <2>2, <3>1, <3>2
  <2>3. QED BY <1>4, <2>1, <2>2
<1>7. AnswersLast'
  <2> SUFFICES ASSUME NEW q \in requests' PROVE AnswerLasts(q)'
    BY DEF AnswersLast
  <2>1. CASE q \in requests
    BY <1>1, <2>1 DEF AnswersLast, AnswerLasts, HalfLasts, Lasts, AtCap
  <2>2. CASE q \in asked
    BY <2>2 DEF AnswerLasts
  <2>3. QED BY <1>4, <2>1, <2>2
<1>8. LoadingInv'
  <2> SUFFICES ASSUME NEW m \in requests', m.kind = "me", tabs'[m.tab].ours
               PROVE  LoadingOK(m)'
    BY DEF LoadingInv
  <2>1. CASE m \in asked
    <3>1. /\ m.cookie = cookie /\ m.verdict = "awaited" /\ cookie \in Cookie
      BY <1>1, <2>1 DEF Request
    <3>2. cookie # NoCookie => cookie.epoch \in Nat
      BY <3>1, CookieTypes
    <3>3. QED BY <1>2, <3>1, <3>2 DEF LoadingOK, SentOrLater
  <2>2. CASE m \in requests /\ m # r /\ m.tab # r.tab
    <3>1. /\ m.tab \in Tabs \ {r.tab} /\ m.cookie \in Cookie
      BY <1>1, <2>2, RequestTypes
    <3>2. tabs'[m.tab] = tabs[m.tab] /\ SameSession(cookie)
      BY <1>3, <3>1
    <3>3. LoadingOK(m)
      BY <1>1, <2>2, <3>2 DEF LoadingInv
    <3>4. SentOrLater(m)'
      BY <1>2, <2>2, <3>2, <3>3, LaterStays DEF LoadingOK
    <3>5. /\ cookie \in Cookie /\ (cookie = NoCookie <=> jar = NoCookie)
          /\ cookie # NoCookie => /\ cookie.start = jar.start /\ jar.epoch <= cookie.epoch
                                  /\ cookie.epoch <= epoch
      BY <3>2, JarMoves
    <3>6. /\ cookie # NoCookie => cookie.epoch \in Nat /\ jar.epoch \in Nat
          /\ m.cookie # NoCookie => m.cookie.epoch \in Nat
          /\ epoch \in Nat
      BY <1>1, <3>1, <3>5, StateTypes, CookieTypes
    <3>7. QED BY <1>2, <3>3, <3>4, <3>5, <3>6 DEF LoadingOK
  <2>3. QED BY <1>4, <2>1, <2>2 DEF Opens
<1>9. LivelyInv'
  <2> SUFFICES ASSUME NEW t \in Tabs, Lively(t)' PROVE LivelyOK(t)'
    BY DEF LivelyInv
  <2>1. CASE t = r.tab
    BY <2>1
  <2>2. CASE t # r.tab
    <3>1. tabs'[t] = tabs[t] /\ SameSession(cookie) /\ Lively(t)
      BY <1>2, <1>3, <2>2 DEF Lively
    <3>2. requests \ {r} \subseteq requests'
      BY <1>2
    <3>3. /\ SameAccount(t)' /\ Paced(t)' /\ (Refreshed(t) => Refreshed(t)')
          /\ \A q \in Pings(t) : PingOK(q)'
      BY <1>2, <3>1, <3>2, LivelyKeeps
    <3>4. Pings(t)' = Pings(t)
      BY <1>2, <2>2 DEF Pings
    <3>5. Pings(t) = {} => Refreshed(t)
      BY <1>1, <3>1 DEF LivelyInv, LivelyOK
    <3>6. QED BY <3>3, <3>4, <3>5 DEF LivelyOK
  <2>3. QED BY <2>1, <2>2
<1>10. QED BY <1>5, <1>6, <1>7, <1>8, <1>9 DEF ActiveInv

LEMMA BeginActive ==
  ASSUME ActiveInv, SessionInv', Parameters, Timely, NEW r \in requests, Begin(r)
  PROVE  ActiveInv'
<1> DEFINE Asks(b, cookie, tab, asked) ==
      /\ b \in Request /\ b.tab = r.tab /\ b.sentAt = time /\ b.cookie = cookie
      /\ b.verdict = "awaited" /\ b.setCookies = {}
      /\ \/ b.kind = "logout"
         \/ /\ b.kind = "me" /\ asked = {b} /\ r.kind \in Opens
            /\ tab.mode = "loading" /\ tab.lastPing = 0
<1>1. /\ TypeOK /\ r.tab \in Tabs /\ r.verdict # "awaited" /\ r.kind \in Opens
  BY RequestTypes DEF ActiveInv, SessionInv, Begin, Opens
<1>2. \E cookie \in LastCookies(r) : \E tab, asked :
        /\ Arrives(r, cookie, tab, asked) /\ tab.mode = "loading"
        /\ \A b \in asked : Asks(b, cookie, tab, asked)
  <2> PICK cookie \in LastCookies(r) :
        Arrives(r, cookie, [Closed EXCEPT !.mode = "loading", !.ours = TRUE],
                {Ask(r.tab, "me", cookie)})
    BY DEF Begin
  <2> PICK tab : tab = [Closed EXCEPT !.mode = "loading", !.ours = TRUE]
    OBVIOUS
  <2> PICK a : a = Ask(r.tab, "me", cookie)
    OBVIOUS
  <2> PICK asked : asked = {a}
    OBVIOUS
  <2>1. tab.mode = "loading" /\ tab.lastPing = 0
    BY DEF Closed
  <2>2. cookie \in Cookie
    BY <1>1, StateTypes, RequestTypes DEF LastCookies
  <2>3. /\ a \in Request /\ a.tab = r.tab /\ a.sentAt = time /\ a.cookie = cookie
        /\ a.verdict = "awaited" /\ a.setCookies = {} /\ a.kind = "me"
    BY <1>1, <2>2, StateTypes, AskType DEF Ask, Kinds
  <2>4. Arrives(r, cookie, tab, asked)
    OBVIOUS
  <2>5. \A b \in asked : Asks(b, cookie, tab, asked)
    BY <1>1, <2>1, <2>3
  <2> HIDE DEF Asks
  <2>6. QED BY <2>1, <2>4, <2>5, Zenon
<1>3. PICK cookie \in LastCookies(r) : \E tab, asked :
        /\ Arrives(r, cookie, tab, asked) /\ tab.mode = "loading"
        /\ \A b \in asked : Asks(b, cookie, tab, asked)
  BY <1>2
<1>4. PICK tab, asked :
        /\ Arrives(r, cookie, tab, asked) /\ tab.mode = "loading"
        /\ \A b \in asked : Asks(b, cookie, tab, asked)
  BY <1>3
<1>5. Lively(r.tab)' => LivelyOK(r.tab)'
  BY <1>1, <1>4 DEF Lively, Arrives
<1>6. QED BY <1>1, <1>4, <1>5, ArrivedActive

\* The tab that enters was told of the session in the jar, whose cookie its own
\* question refreshed or found fresh.
LEMMA EnterActive ==
  ASSUME ActiveInv, SessionInv', Parameters, Timely, NEW r \in requests, Enter(r)
  PROVE  ActiveInv'
<1> PICK cookie \in LastCookies(r) :
      Arrives(r, cookie, [Going(r, cookie) EXCEPT
                            !.mode = "in", !.lastActivity = time,
                            !.deadline = absoluteDeadline(r.cookie),
                            !.attentive = TRUE], {})
  BY DEF Enter
<1> PICK tab : tab = [Going(r, cookie) EXCEPT
                        !.mode = "in", !.lastActivity = time,
                        !.deadline = absoluteDeadline(r.cookie), !.attentive = TRUE]
  OBVIOUS
<1> PICK asked : asked = {}
  OBVIOUS
<1> PICK t : t = r.tab
  OBVIOUS
<1>1. /\ TypeOK /\ Punctual /\ OpensAlone /\ LoadingInv /\ AnswerLasts(r)
      /\ r \in Request /\ t \in Tabs /\ r.verdict = "ok" /\ r.kind = "me"
      /\ r.cookie # NoCookie /\ r.cookie \in Cookie
  BY RequestTypes DEF ActiveInv, SessionInv, AnswersLast, RequestOK, Enter
<1>2. Arrives(r, cookie, tab, asked)
  OBVIOUS
<1>3. /\ jar' = cookie /\ requests' = requests \ {r} /\ UNCHANGED <<time, epoch>>
      /\ tabs'[t] = tab
  BY <1>1, <1>2 DEF Arrives
<1>4. /\ tab.lastActivity = time /\ tab.deadline = absoluteDeadline(r.cookie)
      /\ tab.ours = Going(r, cookie).ours /\ tab.lastPing = Going(r, cookie).lastPing
  <2>1. Going(r, cookie) \in Tab
    BY <1>1, GoingType
  <2>2. QED BY <2>1 DEF Tab
<1>5. /\ tab.lastPing = 0
      /\ tab.ours => SameSession(cookie) /\ tabs[t].ours
  <2>1. tabs[t].lastPing = 0
    BY <1>1 DEF OpensAlone, Opens
  <2>2. QED BY <1>1, <1>4, <2>1, DisownedFacts DEF Going
<1>6. ASSUME Lively(t)' PROVE LivelyOK(t)'
  <2>1. SameSession(cookie) /\ LoadingOK(r)
    BY <1>1, <1>3, <1>5, <1>6 DEF Lively, LoadingInv
  <2>2. jar # NoCookie /\ jar.start = r.cookie.start /\ jar.epoch = epoch /\ SentOrLater(r)
    BY <1>1, <2>1 DEF LoadingOK
  <2>3. /\ cookie \in Cookie /\ cookie # NoCookie /\ cookie.start = jar.start
        /\ jar.epoch <= cookie.epoch /\ cookie.epoch <= epoch
        /\ cookie = jar \/ (cookie \in r.setCookies /\ Lasts(cookie, r.sentAt + IdleMs))
    BY <2>1, <2>2, JarMoves
  <2>4. /\ time \in Nat /\ epoch \in Nat /\ r.sentAt \in Nat /\ cookie.epoch \in Nat
        /\ cookie.exp \in Nat /\ jar.exp \in Nat /\ r.cookie.exp \in Nat
        /\ r.sentAt <= time /\ time <= r.sentAt + Latency
    BY <1>1, <2>2, <2>3, StateTypes, RequestTypes, CookieTypes DEF Punctual
  <2>5. /\ pingInterval \in Nat /\ Latency \in Nat /\ IdleMs \in Nat /\ Patience \in Nat
        /\ Patience < IdleMs /\ 2 * pingInterval + 2 * Latency < IdleMs
    BY Windows
  <2>6. SameAccount(t)'
    <3>1. cookie.epoch = epoch
      BY <2>2, <2>3, <2>4
    <3>2. QED BY <1>3, <1>4, <2>2, <2>3, <3>1 DEF SameAccount, absoluteDeadline
  <2>7. Paced(t)'
    <3>1. Patience' = Patience /\ pingInterval' = pingInterval
      BY DEF Patience, pingInterval
    <3>2. 2 * (time - time) + Patience < IdleMs /\ time <= time /\ 0 <= time
      BY <2>4, <2>5
    <3>3. QED BY <1>3, <1>4, <1>5, <3>1, <3>2 DEF Paced
  <2>8. Pings(t)' = {}
    BY <1>1, <1>3 DEF Pings, OpensAlone, Opens
  <2>9. IdleMs + 2 * time <= 2 * cookie.exp + 2 * Latency \/ AtCap(cookie)
    <3>1. CASE r.sentAt + IdleMs <= cookie.exp
      BY <2>4, <2>5, <3>1
    <3>2. CASE cookie = jar
      <4>1. CASE jar = r.cookie /\ r.setCookies = {}
        <5>1. HalfLasts(r.cookie, r.sentAt)
          BY <1>1, <4>1 DEF AnswerLasts
        <5>2. IdleMs + 2 * r.sentAt <= 2 * cookie.exp \/ AtCap(cookie)
          BY <3>2, <4>1, <5>1 DEF HalfLasts
        <5>3. QED BY <2>4, <2>5, <5>2
      <4>2. CASE jar # r.cookie
        <5>1. r.sentAt + IdleMs <= jar.exp + Latency \/ AtCap(jar)
          BY <2>2, <4>2 DEF SentOrLater
        <5>2. r.sentAt + IdleMs <= jar.exp + Latency =>
                IdleMs + 2 * time <= 2 * jar.exp + 2 * Latency
          <6>1. SUFFICES ASSUME r.sentAt + IdleMs <= jar.exp + Latency
                         PROVE  IdleMs + 2 * time <= 2 * jar.exp + 2 * Latency
            OBVIOUS
          <6>2. QED BY <2>4, <2>5, <6>1
        <5>3. QED BY <3>2, <5>1, <5>2
      <4>3. CASE r.setCookies # {}
        <5>1. cookie \in r.setCookies /\ Lasts(cookie, r.sentAt + IdleMs)
          BY <1>1, <2>3, <4>3 DEF LastCookies, AnswerLasts
        <5>2. QED BY <3>1, <5>1 DEF Lasts
      <4>4. QED BY <4>1, <4>2, <4>3
    <3>3. QED BY <2>3, <3>1, <3>2 DEF Lasts
  <2>10. Refreshed(t)'
    BY <1>3, <1>4, <1>5, <2>9 DEF Refreshed, AtCap
  <2>11. QED BY <2>6, <2>7, <2>8, <2>10 DEF LivelyOK
<1>7. r.verdict # "awaited"
  BY <1>1
<1>8. asked = {}
  OBVIOUS
<1>9. QED BY <1>2, <1>6, <1>7, <1>8, ArrivedActive

LEMMA DepartActive ==
  ASSUME ActiveInv, SessionInv', Parameters, Timely, NEW r \in requests, Depart(r)
  PROVE  ActiveInv'
<1> PICK cookie \in LastCookies(r) : Arrives(r, cookie, Closed, {})
  BY DEF Depart
<1> PICK asked : asked = {}
  OBVIOUS
<1>1. r.tab \in Tabs /\ r.verdict # "awaited"
  BY RequestTypes DEF ActiveInv, SessionInv, Depart
<1>2. Arrives(r, cookie, Closed, asked) /\ asked = {}
  OBVIOUS
<1>3. Lively(r.tab)' => LivelyOK(r.tab)'
  BY <1>1 DEF Lively, Arrives, Closed
<1>4. QED BY <1>1, <1>2, <1>3, ArrivedActive

LEMMA EvictActive ==
  ASSUME ActiveInv, SessionInv', Parameters, Timely, NEW r \in requests, Evict(r)
  PROVE  ActiveInv'
<1> DEFINE Gone == IF r.kind = "me" THEN Closed ELSE Disowned(tabs[r.tab])
           Out(cookie) == IF Asking(r.tab, "logout") THEN {}
                          ELSE {Ask(r.tab, "logout", cookie)}
<1> PICK cookie \in LastCookies(r) : Arrives(r, cookie, Gone, Out(cookie))
  BY DEF Evict
<1> PICK tab : tab = Gone
  OBVIOUS
<1> PICK a : a = Ask(r.tab, "logout", cookie)
  OBVIOUS
<1> PICK asked : asked = Out(cookie)
  OBVIOUS
<1>1. TypeOK /\ r.tab \in Tabs /\ r.verdict # "awaited" /\ cookie \in Cookie
  BY StateTypes, RequestTypes DEF ActiveInv, SessionInv, Evict, LastCookies
<1>2. tab.ours = FALSE
  BY <1>1, DisownedFacts DEF Closed
<1>3. /\ a \in Request /\ a.tab = r.tab /\ a.sentAt = time /\ a.cookie = cookie
      /\ a.verdict = "awaited" /\ a.setCookies = {} /\ a.kind = "logout"
  BY <1>1, StateTypes, AskType DEF Ask, Kinds
<1>4. Arrives(r, cookie, tab, asked) /\ \A b \in asked : b = a
  OBVIOUS
<1> HIDE DEF Gone, Out
<1>5. Lively(r.tab)' => LivelyOK(r.tab)'
  BY <1>1, <1>2, <1>4 DEF Lively, Arrives
<1>6. QED BY <1>1, <1>3, <1>4, <1>5, ArrivedActive

\* An answered ping leaves a cookie that lasts half a window from it.
LEMMA ProceedActive ==
  ASSUME ActiveInv, SessionInv', Parameters, Timely, NEW r \in requests, Proceed(r)
  PROVE  ActiveInv'
<1> PICK cookie \in LastCookies(r) : Arrives(r, cookie, Going(r, cookie), {})
  BY DEF Proceed
<1> PICK tab : tab = Going(r, cookie)
  OBVIOUS
<1> PICK asked : asked = {}
  OBVIOUS
<1> PICK t : t = r.tab
  OBVIOUS
<1>1. /\ TypeOK /\ Punctual /\ LivelyInv /\ AnswerLasts(r)
      /\ r \in Request /\ t \in Tabs /\ r.verdict \in {"ok", "unauthorized"}
  BY RequestTypes DEF ActiveInv, SessionInv, AnswersLast, Proceed
<1>2. Arrives(r, cookie, tab, asked) /\ asked = {}
  OBVIOUS
<1>3. /\ jar' = cookie /\ requests' = requests \ {r} /\ UNCHANGED <<time, epoch>>
      /\ tabs'[t] = tab
  BY <1>1, <1>2 DEF Arrives
<1>4. ASSUME Lively(t)' PROVE LivelyOK(t)'
  <2>1. tab.ours /\ tabs'[t] = tab
    BY <1>3, <1>4 DEF Lively
  <2>2. SameSession(cookie) /\ tabs'[t] = tabs[t]
    BY <1>1, <2>1, DisownedFacts DEF Going
  <2>3. Lively(t) /\ LivelyOK(t)
    BY <1>1, <1>3, <1>4, <2>2 DEF Lively, LivelyInv
  <2>4. requests \ {r} \subseteq requests'
    BY <1>3
  <2>5. /\ SameAccount(t)' /\ Paced(t)' /\ (Refreshed(t) => Refreshed(t)')
        /\ \A q \in Pings(t) : PingOK(q)'
    BY <1>1, <1>3, <2>2, <2>3, <2>4, LivelyKeeps
  <2>6. Pings(t)' = Pings(t) \ {r}
    BY <1>3 DEF Pings
  <2>7. CASE r \notin Pings(t)
    <3>1. Pings(t)' = Pings(t)
      BY <2>6, <2>7
    <3>2. QED BY <2>3, <2>5, <3>1 DEF LivelyOK
  <2>8. CASE r \in Pings(t)
    <3>1. /\ PingOK(r) /\ r.kind = "ping" /\ r.sentAt = tabs[t].lastPing
          /\ r.verdict = "ok" /\ SentOrLater(r)
      BY <1>1, <2>3, <2>8 DEF LivelyOK, Pings, PingOK
    <3>2. /\ cookie \in Cookie /\ cookie # NoCookie /\ jar # NoCookie
          /\ cookie = jar \/ (cookie \in r.setCookies /\ Lasts(cookie, r.sentAt + IdleMs))
      BY <2>2, <2>3, JarMoves DEF LivelyOK, SameAccount
    <3>3. /\ r.sentAt \in Nat /\ cookie.exp \in Nat /\ jar.exp \in Nat
          /\ FirstMoment <= r.sentAt
      BY <1>1, <3>2, StateTypes, RequestTypes, CookieTypes DEF Punctual
    <3>4. /\ pingInterval \in Nat /\ Latency \in Nat /\ IdleMs \in Nat
          /\ 2 * pingInterval + 2 * Latency < IdleMs /\ FirstMoment = pingInterval + 1
      BY Windows
    <3>5. HalfLasts(cookie, r.sentAt)
      <4>1. CASE Lasts(cookie, r.sentAt + IdleMs)
        <5>1. r.sentAt + IdleMs <= cookie.exp => IdleMs + 2 * r.sentAt <= 2 * cookie.exp
          BY <3>3, <3>4
        <5>2. QED BY <4>1, <5>1 DEF Lasts, HalfLasts
      <4>2. CASE cookie = jar /\ cookie \notin r.setCookies
        <5>1. r.setCookies = {}
          BY <4>2 DEF LastCookies
        <5>2. CASE jar = r.cookie
          BY <1>1, <3>1, <4>2, <5>1, <5>2 DEF AnswerLasts
        <5>3. CASE jar # r.cookie
          <6>1. r.sentAt + IdleMs <= jar.exp + Latency \/ AtCap(jar)
            BY <3>1, <5>3 DEF SentOrLater
          <6>2. r.sentAt + IdleMs <= jar.exp + Latency =>
                  IdleMs + 2 * r.sentAt <= 2 * jar.exp
            <7>1. SUFFICES ASSUME r.sentAt + IdleMs <= jar.exp + Latency
                           PROVE  IdleMs + 2 * r.sentAt <= 2 * jar.exp
              OBVIOUS
            <7>2. QED BY <3>3, <3>4, <7>1
          <6>3. QED BY <4>2, <6>1, <6>2 DEF HalfLasts
        <5>4. QED BY <5>2, <5>3
      <4>3. CASE cookie \in r.setCookies
        BY <1>1, <3>2, <4>1, <4>3 DEF AnswerLasts
      <4>4. QED BY <3>2, <4>1, <4>2, <4>3
    <3>6. tabs[t].lastPing # 0
      BY <3>1, <3>3, <3>4
    <3>7. Refreshed(t)'
      BY <1>3, <2>2, <3>1, <3>5, <3>6 DEF Refreshed, HalfLasts, AtCap
    <3>8. QED BY <2>5, <2>6, <3>7 DEF LivelyOK
  <2>9. QED BY <2>7, <2>8
<1>5. r.verdict # "awaited"
  BY <1>1
<1>6. QED BY <1>2, <1>4, <1>5, ArrivedActive
-----------------------------------------------------------------------------
(* The theorem.                                                            *)

LEMMA InitActive ==
  ASSUME Parameters PROVE Init => ActiveInv
<1> SUFFICES ASSUME Init PROVE ActiveInv
  OBVIOUS
<1>1. SessionInv
  BY InitInv
<1>2. requests = {} /\ time = FirstMoment /\ FirstMoment \in Nat
  BY WindowTypes DEF Init
<1>3. \A t \in Tabs : ~Lively(t)
  BY DEF Init, Lively, Closed
<1>4. QED BY <1>1, <1>2, <1>3
     DEF ActiveInv, Punctual, OpensAlone, AnswersLast, LoadingInv, LivelyInv

LEMMA StutterActive ==
  ASSUME ActiveInv, SessionInv', UNCHANGED vars PROVE ActiveInv'
<1>1. UNCHANGED <<time, epoch, jar, tabs, requests>>
  BY DEF vars
<1>2. Punctual' /\ OpensAlone' /\ AnswersLast' /\ LoadingInv'
  BY <1>1 DEF ActiveInv, Punctual, OpensAlone, AnswersLast, AnswerLasts, LoadingInv,
     LoadingOK, SentOrLater, HalfLasts, Lasts, AtCap, FirstMoment, pingInterval
<1>3. ASSUME NEW t \in Tabs, Lively(t)' PROVE LivelyOK(t)'
  <2>1. Lively(t) /\ LivelyOK(t)
    BY <1>1, <1>3 DEF Lively, ActiveInv, LivelyInv
  <2>2. Paced(t)'
    BY <1>1, <2>1, PacedStays DEF LivelyOK
  <2>3. QED BY <1>1, <2>1, <2>2, LivelyStays
<1>4. QED BY <1>2, <1>3 DEF ActiveInv, LivelyInv

LEMMA ActiveStep ==
  ASSUME ActiveInv, Parameters, Timely, [Next]_vars PROVE ActiveInv'
<1>1. SessionInv'
  BY SessionStep DEF ActiveInv
<1>2. CASE UNCHANGED vars BY <1>1, <1>2, StutterActive
<1>3. CASE Tick BY <1>1, <1>3, TickActive
<1>4. CASE Revoke BY <1>1, <1>4, RevokeActive
<1>5. ASSUME NEW r \in requests,
             Login(r) \/ Unauthorized(r) \/ Serve(r) \/ Receive(r)
      PROVE  ActiveInv'
  BY <1>1, <1>5, LoginActive, UnauthorizedActive, ServeActive, BeginActive, EnterActive,
     DepartActive, EvictActive, ProceedActive DEF Receive
<1>6. ASSUME NEW t \in Tabs,
             SignIn(t) \/ Open(t) \/ onActivity(t) \/ stayAlive(t) \/ SignOut(t)
      PROVE  ActiveInv'
  BY <1>1, <1>6, SignInActive, OpenActive, ActivityActive, StayActive, SignOutActive
<1>7. ASSUME NEW t \in Tabs, NEW kind \in {"work", "changePassword"}, Work(t, kind)
      PROVE  ActiveInv'
  BY <1>1, <1>7, WorkActive
<1>8. QED BY <1>2, <1>3, <1>4, <1>5, <1>6, <1>7 DEF Next

LEMMA ActiveKeeps ==
  ASSUME ActiveInv, Parameters, Timely PROVE ActivityKeepsSession
<1> SUFFICES ASSUME NEW t \in Tabs, Lively(t), \A r \in requests : r.kind # "changePassword"
             PROVE  Admitted(jar) /\ ~isSessionEpochStale(jar)
  BY DEF ActivityKeepsSession, Lively
<1>1. Admitted(jar)
  BY LivelyLasts
<1>2. jar.epoch = epoch /\ epoch \in Nat
  BY StateTypes DEF ActiveInv, SessionInv, LivelyInv, LivelyOK, SameAccount
<1>3. QED BY <1>1, <1>2 DEF isSessionEpochStale

\* Where requests are answered no later than a tab waits between two pings, and twice
\* the two are less than the idle window, a user who keeps moving stays signed in:
\* the pings find the cookie fresh or have it slid, whatever the other tabs ask for
\* and in whatever order the responses arrive.
THEOREM ActivityKeeps ==
  ASSUME Parameters, Timely PROVE Spec => []ActivityKeepsSession
<1>1. Init => ActiveInv BY InitActive
<1>2. ActiveInv /\ [Next]_vars => ActiveInv' BY ActiveStep
<1>3. ActiveInv => ActivityKeepsSession BY ActiveKeeps
<1>4. QED BY <1>1, <1>2, <1>3, PTL DEF Spec
=============================================================================
