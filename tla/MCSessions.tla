----------------------------- MODULE MCSessions -----------------------------
(***************************************************************************)
(* The snapshot that says which sessions are revoked, and the session of   *)
(* one browser, on small instances.  They share no state here, so a        *)
(* behaviour exercises one of them and the other stands still: the run     *)
(* costs the sum of the state spaces and not their product.                *)
(*                                                                         *)
(* Sessions_proofs is Sessions with its theorems, so that they are theorems*)
(* of both instances.                                                      *)
(***************************************************************************)
EXTENDS UserStatusCache, TLC

CONSTANTS
  Tabs, NoCookie,  \* of Sessions
  Parts            \* what a run exercises: "status", "prompt" or "slow"

VARIABLES
  part,  \* the component this behaviour exercises
  workload, chosen, time, epoch, jar, tabs, requests, served, kept, ended

\* The default idle window of 30 minutes in a unit of 6: pings after 5 minutes,
\* a warning of one.  Requests are answered within the unit.
Prompt == INSTANCE Sessions_proofs WITH
  IdleMs <- 5, AbsoluteMs <- 9, PingFloor <- 1, PingCeiling <- 1,
  WarningFloor <- 1, WarningCeiling <- 1, Latency <- 0, LastMoment <- 11,
  Workloads <-
    {[often |-> 3, tabs |-> 1, choices |-> {"login", "load", "logout",
        "changePassword", "revoke", "activity"}],
     [often |-> 3, tabs |-> 2, choices |-> {"login", "load", "logout",
        "changePassword"}],
     [often |-> 2, tabs |-> 2, choices |-> {"login", "load", "activity"}]}

\* Requests may take a unit: they outlive the moment, and the token, they were
\* sent with.
Slow == INSTANCE Sessions_proofs WITH
  IdleMs <- 7, AbsoluteMs <- 12, PingFloor <- 1, PingCeiling <- 1,
  WarningFloor <- 1, WarningCeiling <- 1, Latency <- 1, LastMoment <- 14,
  Workloads <-
    {[often |-> 3, tabs |-> 1, choices |-> {"login", "load", "work", "logout"}],
     [often |-> 3, tabs |-> 1, choices |-> {"login", "logout", "changePassword"}],
     [often |-> 2, tabs |-> 1, choices |-> {"login", "load", "activity"}]}

ASSUME SessionsParameters ==
  Prompt!Parameters /\ Slow!Parameters /\ Prompt!Timely /\ Slow!Timely

sessionVars == <<workload, chosen, time, epoch, jar, tabs, requests, served,
                 kept, ended>>

MCInit ==
  /\ part \in Parts
  /\ Init
  \* Which account exists first makes no difference.
  /\ users[CHOOSE u \in Users : TRUE].present
  /\ IF part = "slow" THEN Slow!Init ELSE Prompt!Init
  /\ part = "status" => "activity" \in workload.choices /\ workload.tabs = 1

\* The clock of Sessions has reached its bound.
Halts == time = IF part = "slow" THEN 14 ELSE 11

MCNext ==
  \/ part = "status" /\ Next /\ UNCHANGED <<part, sessionVars>>
  \/ part = "prompt" /\ Prompt!Next /\ UNCHANGED <<part, vars>>
  \/ part = "slow" /\ Slow!Next /\ UNCHANGED <<part, vars>>
  \/ part # "status" /\ Halts /\ UNCHANGED <<part, vars, sessionVars>>

MCSpec == MCInit /\ [][MCNext]_<<part, vars, sessionVars>>

\* With the fairness of UserStatusCache.
MCFairSpec == MCSpec /\ Fairness

\* Requests and tabs are named by the same values; every property is a safety
\* property, and none of the values is singled out.
Symmetry == Permutations(Requests) \cup Permutations(Instances)

\* Sessions!SessionsEnd and its type invariant: a cookie the proxy lets in is of a
\* session within its cap and its idle window, and the browser keeps neither a
\* session it signed out of nor one its password change left behind.
SessionsEnd ==
  /\ part = "prompt" => Prompt!TypeOK /\ Prompt!SessionsEnd
  /\ part = "slow" => Slow!TypeOK /\ Slow!SessionsEnd

\* Sessions!ActivityKeepsSession: a user who keeps moving stays signed in.
ActivityKeepsSession ==
  /\ part = "prompt" => Prompt!ActivityKeepsSession
  /\ part = "slow" => Slow!ActivityKeepsSession
=============================================================================
