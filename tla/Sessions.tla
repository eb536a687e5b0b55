------------------------------ MODULE Sessions ------------------------------
(***************************************************************************)
(* One browser's session: the tt-auth cookie its tabs share, the proxy that*)
(* slides the cookie's idle window, the routes that replace or clear it,   *)
(* and the idle timers that run in the tabs.  Nothing of a session is kept *)
(* on the server but the account's epoch, so what a session is depends on  *)
(* which response's cookie reaches the browser last.                       *)
(*                                                                         *)
(* The clock counts in a unit of the model: the code's floors to seconds   *)
(* fall inside it.  The browser drops the cookie no sooner than the token  *)
(* in it expires (maxAge counts from the arrival of the token), and an     *)
(* absent cookie is answered like an expired one, so maxAge is left out.   *)
(* Every session has the same idle window.  The guards judge the row of    *)
(* the moment: UserStatusCache says how far that is true.  Of the latches  *)
(* loggingOutRef of the timer and of the provider the model has what they  *)
(* amount to while responses arrive: a sign-out is not asked for twice.    *)
(*                                                                         *)
(* "served", "kept", "ended" and the fields "ours" and "attentive" of a    *)
(* tab are history, read by the properties alone.                          *)
(*                                                                         *)
(* A definition whose comment begins "Variant:" is one edit away from the  *)
(* definition it precedes, and is there to show which property sees it.    *)
(***************************************************************************)
EXTENDS Naturals, FiniteSets

CONSTANTS
  Tabs,
  IdleMs,                    \* the idle window, baked into each token
  AbsoluteMs,                \* ABSOLUTE_SESSION_MS
  PingFloor, PingCeiling,    \* 15 s and 5 min
  WarningFloor, WarningCeiling, \* 10 s and 60 s
  Latency,                   \* bound: how long a request may be under way
  Workloads,                 \* what the user and the administrators may do
  LastMoment,                \* bound: the clock
  NoCookie

Least(a, b) == IF a < b THEN a ELSE b
Greatest(a, b) == IF a > b THEN a ELSE b

pingInterval == Least(PingCeiling, Greatest(PingFloor, IdleMs \div 3))
warningMs == Least(WarningCeiling, Greatest(WarningFloor, IdleMs \div 3))

\* The clock is past the first ping interval at the start, so that
\* lastPing = 0 is long ago, as it is on any real clock.
FirstMoment == pingInterval + 1

\* A mix of behaviours: what people do in it, how often and in how many tabs
\* (bounds); moving the mouse is not counted.
Choices == {"login", "load", "work", "logout", "changePassword", "revoke", "activity"}
Workload == [choices: SUBSET Choices, often: Nat, tabs: Nat]

\* "load" stands for opening any page, "work" for any API call that a guard
\* protects and that leaves the cookie alone.
Kinds == {"login", "load", "me", "ping", "work", "logout", "changePassword"}

Token == [start: Nat, exp: Nat, epoch: Nat]
Cookie == Token \cup {NoCookie}
Tab == [mode: {"away", "loading", "in"}, lastActivity: Nat, lastPing: Nat,
        deadline: Nat, warning: BOOLEAN, ours: BOOLEAN, attentive: BOOLEAN]

\* A request carries the cookie of the moment it was sent; its response a
\* verdict and the Set-Cookie headers, of which the browser keeps the last.
Request == [tab: Tabs, kind: Kinds, cookie: Cookie, sentAt: Nat,
            verdict: {"awaited", "ok", "unauthorized", "terminated"},
            setCookies: SUBSET Cookie]

Parameters ==
  /\ IdleMs \in Nat \ {0} /\ AbsoluteMs \in Nat \ {0}
  /\ PingFloor \in Nat /\ PingCeiling \in Nat
  /\ WarningFloor \in Nat /\ WarningCeiling \in Nat
  /\ Latency \in Nat /\ warningMs < IdleMs
  /\ FirstMoment <= LastMoment
  /\ Workloads \subseteq Workload
  /\ NoCookie \notin Token

VARIABLES
  workload,
  chosen,    \* how often somebody has chosen to do something
  time,
  epoch,     \* the account's sessionEpoch
  jar,       \* the browser's cookie
  tabs,
  requests,  \* under way, or answered and not yet received
  served,    \* per session, named by its start: when the proxy last let it in
  kept,      \* the epoch the browser's last undisturbed password change gave it
  ended      \* sessions signed out of undisturbed

vars == <<workload, chosen, time, epoch, jar, tabs, requests, served, kept, ended>>
----------------------------------------------------------------------------
Closed == [mode |-> "away", lastActivity |-> 0, lastPing |-> 0, deadline |-> 0,
           warning |-> FALSE, ours |-> FALSE, attentive |-> FALSE]

Init ==
  /\ workload \in Workloads
  /\ chosen = 0
  /\ time = FirstMoment
  /\ epoch = 0
  /\ jar = NoCookie
  /\ tabs = [t \in Tabs |-> Closed]
  /\ requests = {}
  /\ served = [s \in {} |-> 0]
  /\ kept = 0
  /\ ended = {}

\* The proxy -----------------------------------------------------------------
Verified(cookie) == cookie # NoCookie /\ time < cookie.exp

absoluteDeadline(token) == token.start + AbsoluteMs

Admitted(cookie) == Verified(cookie) /\ time < absoluteDeadline(cookie)

\* Variant: the proxy slides every response.
issuesNoAuthCookie(kind) == FALSE

issuesOwnAuthCookie(kind) == kind \in {"changePassword", "logout"}

\* Variant: a token is refreshed only when it has all but expired.
DueLate(token) == token.exp - time < pingInterval

Due(token) == 2 * (token.exp - time) < IdleMs

Slid(token) == [token EXCEPT !.exp = Least(time + IdleMs, absoluteDeadline(token))]

\* The Set-Cookie of the proxy, on a request it admits.
Slides(token, kind) ==
  IF Due(token) /\ ~issuesOwnAuthCookie(kind) THEN {Slid(token)} ELSE {}

createToken(start, sessionEpoch) ==
  [start |-> start, exp |-> time + IdleMs, epoch |-> sessionEpoch]

isSessionEpochStale(token) == token.epoch < epoch

Answered(r, verdict, setCookies) ==
  requests' = (requests \ {r}) \cup
              {[r EXCEPT !.verdict = verdict, !.setCookies = setCookies]}

SessionIn(cookie) == IF cookie = NoCookie THEN {} ELSE {cookie.start}

Disowned(u) == [u EXCEPT !.ours = FALSE]

\* A public path: the proxy does not look at the cookie.  A sign-in that fails
\* changes nothing here.
Login(r) ==
  /\ r.kind = "login" /\ r.verdict = "awaited"
  /\ Answered(r, "ok", {createToken(time, epoch)})
  /\ served' = [s \in DOMAIN served \cup {time} |->
                  IF s = time THEN time ELSE served[s]]
  /\ UNCHANGED <<workload, chosen, time, epoch, jar, tabs, kept, ended>>

\* No token, or one that is expired or at its cap.  Only the redirect that
\* answers a page clears the cookie, and only one that was sent.
Unauthorized(r) ==
  /\ r.kind # "login" /\ r.verdict = "awaited" /\ ~Admitted(r.cookie)
  /\ Answered(r, "unauthorized",
              IF r.kind = "load" /\ r.cookie # NoCookie THEN {NoCookie} ELSE {})
  /\ UNCHANGED <<workload, chosen, time, epoch, jar, tabs, served, kept, ended>>

\* The proxy admits the request, and the route's own guard and handler run.
\* Opening a page and signing out have no guard; the proxy's cookie goes out
\* with whatever the route answers.
Serve(r) ==
  /\ r.kind # "login" /\ r.verdict = "awaited" /\ Admitted(r.cookie)
  /\ served' = [served EXCEPT ![r.cookie.start] = time]
  /\ LET slid == Slides(r.cookie, r.kind)
         stale == r.kind \notin {"load", "logout"} /\ isSessionEpochStale(r.cookie)
     IN \/ /\ stale
           /\ Answered(r, "terminated", slid)
           /\ UNCHANGED <<workload, chosen, epoch, tabs>>
        \/ /\ ~stale /\ r.kind = "logout"
           /\ Answered(r, "ok", slid \cup {NoCookie})
           /\ UNCHANGED <<workload, chosen, epoch, tabs>>
        \/ /\ ~stale /\ r.kind = "changePassword"
           /\ epoch' = epoch + 1
           /\ Answered(r, "ok", slid \cup {createToken(r.cookie.start, epoch + 1)})
           /\ tabs' = IF requests = {r} THEN tabs
                      ELSE [t \in Tabs |-> Disowned(tabs[t])]
        \/ /\ ~stale /\ r.kind \notin {"logout", "changePassword"}
           /\ Answered(r, "ok", slid)
           /\ UNCHANGED <<workload, chosen, epoch, tabs>>
  /\ UNCHANGED <<workload, chosen, time, jar, kept, ended>>

Chooses(what) ==
  /\ what \in workload.choices /\ chosen < workload.often
  /\ chosen' = chosen + 1

\* The account's password is changed from elsewhere.
Revoke ==
  /\ Chooses("revoke")
  /\ epoch' = epoch + 1
  /\ tabs' = [t \in Tabs |-> Disowned(tabs[t])]
  /\ UNCHANGED <<workload, time, jar, requests, served, kept, ended>>
----------------------------------------------------------------------------
\* The tabs ------------------------------------------------------------------
Ask(t, kind, cookie) ==
  [tab |-> t, kind |-> kind, cookie |-> cookie, sentAt |-> time,
   verdict |-> "awaited", setCookies |-> {}]

Asking(t, kind) == \E r \in requests : r.tab = t /\ r.kind = kind

\* A tab has one request of a kind under way at most (bound), and none beside
\* the page it opens.
MaySend(t, kind) == ~Asking(t, kind) /\ ~Asking(t, "load")

Uses(t) ==
  Cardinality({t} \cup {r.tab : r \in requests}
                  \cup {u \in Tabs : tabs[u].mode # "away"}) <= workload.tabs

\* A sign-out asked for by "leaving" tabs, unless they wait for one already.
Leave(leaving) ==
  {Ask(t, "logout", jar) : t \in {u \in leaving : ~Asking(u, "logout")}}

\* One session begins at a moment (bound).
SignIn(t) ==
  /\ Chooses("login") /\ Uses(t) /\ time \notin DOMAIN served
  /\ \A r \in requests : r.kind # "login" /\ r.tab # t
  /\ tabs[t].mode = "away"
  /\ requests' = requests \cup {Ask(t, "login", jar)}
  /\ UNCHANGED <<workload, time, epoch, jar, tabs, served, kept, ended>>

\* Opening the app, or reloading it, in a tab that waits for nothing (bound).
Open(t) ==
  /\ Chooses("load") /\ Uses(t)
  /\ \A r \in requests : r.tab # t
  /\ requests' = requests \cup {Ask(t, "load", jar)}
  /\ tabs' = [tabs EXCEPT ![t] = Closed]
  /\ UNCHANGED <<workload, time, epoch, jar, served, kept, ended>>

\* Any of the events the idle timer listens to.
onActivity(t) ==
  /\ "activity" \in workload.choices
  /\ tabs[t].mode = "in" /\ ~tabs[t].warning
  /\ LET pings == time - tabs[t].lastPing > pingInterval /\ MaySend(t, "ping")
     IN /\ tabs' = [tabs EXCEPT ![t].lastActivity = time,
                                ![t].lastPing = IF pings THEN time ELSE @]
        /\ requests' = requests \cup
                       (IF pings THEN {Ask(t, "ping", jar)} ELSE {})
  /\ UNCHANGED <<workload, chosen, time, epoch, jar, served, kept, ended>>

\* "Stay signed in", or closing the dialog.
stayAlive(t) ==
  /\ tabs[t].mode = "in" /\ tabs[t].warning /\ MaySend(t, "ping")
  /\ tabs' = [tabs EXCEPT ![t].lastActivity = time, ![t].lastPing = time,
                          ![t].warning = FALSE]
  /\ requests' = requests \cup {Ask(t, "ping", jar)}
  /\ UNCHANGED <<workload, chosen, time, epoch, jar, served, kept, ended>>

Work(t, kind) ==
  /\ Chooses(kind)
  /\ kind \in {"work", "changePassword"}
  /\ tabs[t].mode = "in" /\ MaySend(t, kind)
  /\ requests' = requests \cup {Ask(t, kind, jar)}
  /\ UNCHANGED <<workload, time, epoch, jar, tabs, served, kept, ended>>

\* The user signs out.
SignOut(t) ==
  /\ Chooses("logout")
  /\ tabs[t].mode = "in" /\ MaySend(t, "logout")
  /\ requests' = requests \cup Leave({t})
  /\ tabs' = [u \in Tabs |-> Disowned(tabs[u])]
  /\ UNCHANGED <<workload, time, epoch, jar, served, kept, ended>>

\* The cookie continues the session of the one it replaces.
SameSession(cookie) ==
  \/ cookie = NoCookie /\ jar = NoCookie
  \/ /\ cookie # NoCookie /\ jar # NoCookie
     /\ cookie.start = jar.start /\ cookie.epoch >= jar.epoch

\* Of the cookies of a response the browser keeps the one it reads last.
LastCookies(r) == IF r.setCookies = {} THEN {jar} ELSE r.setCookies

\* The response r has arrived: its tab goes on as "tab", and asks for more.
Arrives(r, cookie, tab, asked) ==
  LET alone == requests = {r} /\ r.verdict = "ok"
      disturbs == ~SameSession(cookie) \/ \E a \in asked : a.kind = "logout"
  IN /\ jar' = cookie
     /\ requests' = (requests \ {r}) \cup asked
     /\ tabs' = [u \in Tabs |-> IF u = r.tab THEN tab
                               ELSE IF disturbs THEN Disowned(tabs[u]) ELSE tabs[u]]
     /\ ended' = IF r.kind = "logout" /\ alone
                   THEN ended \cup SessionIn(r.cookie) ELSE ended
     /\ kept' = IF r.kind = "changePassword" /\ alone
                  THEN r.cookie.epoch + 1 ELSE kept
     /\ UNCHANGED <<workload, chosen, time, epoch, served>>

\* The app is there: AuthProvider asks who is signed in.
Begin(r) ==
  /\ r.verdict = "ok" /\ r.kind \in {"login", "load"}
  /\ \E cookie \in LastCookies(r) :
       Arrives(r, cookie, [Closed EXCEPT !.mode = "loading", !.ours = TRUE],
               {Ask(r.tab, "me", cookie)})

Going(r, cookie) ==
  IF SameSession(cookie) THEN tabs[r.tab] ELSE Disowned(tabs[r.tab])

\* The idle timer starts.
Enter(r) ==
  /\ r.verdict = "ok" /\ r.kind = "me"
  /\ \E cookie \in LastCookies(r) :
       Arrives(r, cookie, [Going(r, cookie) EXCEPT
                             !.mode = "in", !.lastActivity = time,
                             !.deadline = absoluteDeadline(r.cookie),
                             !.attentive = TRUE], {})

\* Signed out, whatever the answer, or not signed in.
Depart(r) ==
  /\ \/ r.kind = "logout" /\ r.verdict # "awaited"
     \/ r.kind \in {"load", "me"} /\ r.verdict = "unauthorized"
  /\ \E cookie \in LastCookies(r) : Arrives(r, cookie, Closed, {})

\* The header SESSION_TERMINATED_HEADER makes AuthProvider sign out.
Evict(r) ==
  /\ r.verdict = "terminated"
  /\ \E cookie \in LastCookies(r) :
       Arrives(r, cookie,
               IF r.kind = "me" THEN Closed ELSE Disowned(tabs[r.tab]),
               IF Asking(r.tab, "logout") THEN {}
               ELSE {Ask(r.tab, "logout", cookie)})

Proceed(r) ==
  /\ r.verdict \in {"ok", "unauthorized"}
  /\ r.kind \in {"ping", "work", "changePassword"}
  /\ \E cookie \in LastCookies(r) : Arrives(r, cookie, Going(r, cookie), {})

Receive(r) == Begin(r) \/ Enter(r) \/ Depart(r) \/ Evict(r) \/ Proceed(r)

\* How long a tab may be left alone for its session to be safe.
Patience == 2 * (pingInterval + Latency)

\* A request takes no longer than the tabs wait between two pings, and both fit into
\* half the window.
Timely == Latency <= pingInterval /\ Patience < IdleMs

\* Time passes, and the timer of every tab runs.
Tick ==
  /\ time < LastMoment
  /\ \A r \in requests : time < r.sentAt + Latency
  /\ LET now == time + 1
         idleFor(t) == now - tabs[t].lastActivity
         entered == {t \in Tabs : tabs[t].mode = "in"}
         leaving == {t \in entered : \/ now >= tabs[t].deadline
                                     \/ idleFor(t) >= IdleMs}
     IN /\ time' = now
        /\ requests' = requests \cup
             {[r EXCEPT !.sentAt = now] : r \in Leave(leaving)}
        /\ tabs' = [t \in Tabs |->
             IF t \notin entered THEN tabs[t]
             ELSE [tabs[t] EXCEPT
                     !.warning = IF t \in leaving THEN @
                                 ELSE idleFor(t) >= IdleMs - warningMs,
                     !.attentive = /\ @ /\ leaving = {}
                                   /\ 2 * idleFor(t) + Patience < IdleMs]]
  /\ UNCHANGED <<workload, chosen, epoch, jar, served, kept, ended>>

Next ==
  \/ Tick \/ Revoke
  \/ \E r \in requests : Login(r) \/ Unauthorized(r) \/ Serve(r) \/ Receive(r)
  \/ \E t \in Tabs : \/ SignIn(t) \/ Open(t) \/ onActivity(t) \/ stayAlive(t)
                     \/ SignOut(t)
                     \/ \E kind \in {"work", "changePassword"} : Work(t, kind)

Spec == Init /\ [][Next]_vars
----------------------------------------------------------------------------
TypeOK ==
  /\ workload \in Workloads /\ chosen \in 0..workload.often
  /\ time \in Nat /\ epoch \in Nat /\ kept \in 0..epoch
  /\ jar \in Cookie
  /\ tabs \in [Tabs -> Tab]
  /\ requests \subseteq Request
  /\ DOMAIN served \subseteq 0..time
  /\ \A s \in DOMAIN served : served[s] \in s..time
  /\ ended \subseteq DOMAIN served

Cookies == ({jar} \cup UNION {{r.cookie} \cup r.setCookies : r \in requests}) \ {NoCookie}

\* A session ends when it should, whichever of the responses on their way
\* comes last.  A cookie that the proxy would let in is within the cap of its
\* session; the session was let in, or begun, within the last idle window; the
\* session was not signed out of with nothing else under way; and after a
\* change of password with nothing else under way the browser holds the cookie
\* that the change gave it.
SessionsEnd ==
  /\ \A c \in Cookies : Admitted(c) =>
       /\ time < c.start + AbsoluteMs
       /\ time < served[c.start] + IdleMs
  /\ jar # NoCookie => jar.start \notin ended /\ jar.epoch >= kept

\* Activity keeps the session: a tab whose user has never let more than half the
\* idle window less a ping interval (and the requests' time) pass since it was
\* opened has a cookie the proxy lets in, up to the cap, unless somebody signed
\* out, the password was changed elsewhere or another session took the cookie.
ActivityKeepsSession ==
  \A t \in Tabs :
    /\ tabs[t].mode = "in" /\ tabs[t].ours /\ tabs[t].attentive
    /\ time < tabs[t].deadline
    /\ \A r \in requests : r.kind # "changePassword"
    => Admitted(jar) /\ ~isSessionEpochStale(jar)
=============================================================================
