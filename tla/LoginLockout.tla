----------------------------- MODULE LoginLockout -----------------------------
(***************************************************************************)
(* The lockout of one account: its row counts failed sign-ins and carries  *)
(* a lock that grows along a ladder.  A sign-in reads the row, checks the  *)
(* password (and the code), and then either clears the row or counts a     *)
(* failure and, in a second statement, locks.  Sign-ins overlap freely.    *)
(*                                                                         *)
(* Whether the credentials are right, and whether the limiter of           *)
(* RateLimitBuckets lets the address try at all, is the caller's luck.     *)
(* A sign-in rests at most a tick at each await.                           *)
(*                                                                         *)
(* Everything below the row and the sign-ins is history, read by the       *)
(* properties alone.                                                       *)
(*                                                                         *)
(* A definition whose comment begins "Variant:" is one edit away from the  *)
(* definition it precedes, and is there to show which property sees it.    *)
(***************************************************************************)
EXTENDS Naturals, Sequences, FiniteSets

CONSTANTS
  SignIns,        \* sign-ins in progress
  Threshold,      \* LOCKOUT_THRESHOLD
  Ladder,         \* LOCK_LADDER_MS, in ticks
  MaxFailures,    \* bound on the failures counted
  LoginMaxTime    \* bound on the clock

\* Locks grow, and the shortest is longer than what a sign-in takes that was let in
\* before it: three awaits.
Parameters ==
  /\ Threshold \in Nat \ {0} /\ MaxFailures \in Nat /\ LoginMaxTime \in Nat \ {0}
  /\ Ladder \in Seq(Nat) /\ Ladder # <<>> /\ Ladder[1] > 3
  /\ \A i, j \in DOMAIN Ladder : i <= j => Ladder[i] <= Ladder[j]
  /\ IsFiniteSet(SignIns) /\ SignIns # {}

VARIABLES
  attempts,     \* users.failedLoginAttempts
  lockedUntil,  \* users.lockedUntil, Unlocked for null
  signIn,       \* per sign-in: how far it is, what it read, when it last moved
  clock,
  failures,     \* failures counted so far
  cleared,      \* failures at the last statement that cleared the row
  succeeded,    \* failures when the last successful sign-in read the account
  lastFailure,  \* when the last failure was counted
  disturbed     \* a clear overlapped a failure, or a failure died, since then

history == <<failures, cleared, succeeded, lastFailure, disturbed>>
loginVars == <<attempts, lockedUntil, signIn, clock, history>>
----------------------------------------------------------------------------
\* Every lock ends after the start of the clock.
Unlocked == 0

Longest == Ladder[Len(Ladder)]
SmallerOf(a, b) == IF a < b THEN a ELSE b

Away == [pc |-> "away", attempts |-> 0, lockedUntil |-> Unlocked, moved |-> 0,
         failures |-> 0]

InitAccount ==
  /\ attempts = 0
  /\ lockedUntil = Unlocked
  /\ signIn = [s \in SignIns |-> Away]
  /\ clock = 1
  /\ failures = 0 /\ cleared = 0 /\ succeeded = 0
  /\ lastFailure = 0
  /\ disturbed = FALSE

Locked == lockedUntil > clock
Failing(s) == signIn[s].pc \in {"counted", "locking"}

\* isLockedOut
LockedOut(until) == until > clock

Leave(s) == signIn' = [signIn EXCEPT ![s] = Away]

\* The account is read, and the request refused unless the lock is over.
ReadAccount(s) ==
  /\ signIn[s] = Away
  /\ ~LockedOut(lockedUntil)
  /\ failures < MaxFailures
  /\ signIn' = [signIn EXCEPT ![s] = [pc |-> "checking", attempts |-> attempts,
                                      lockedUntil |-> lockedUntil, moved |-> clock,
                                      failures |-> failures]]
  /\ UNCHANGED <<attempts, lockedUntil, clock, history>>

\* The counter registerFailure's increment leaves.
Counted(s) == attempts + 1

\* The credentials are wrong: registerFailure's first statement.
CountFailure(s) ==
  /\ signIn[s].pc = "checking"
  /\ attempts' = Counted(s)
  /\ signIn' = [signIn EXCEPT ![s].pc = "counted", ![s].attempts = Counted(s),
                              ![s].moved = clock]
  /\ failures' = failures + 1
  /\ lastFailure' = clock
  /\ UNCHANGED <<lockedUntil, clock, cleared, succeeded, disturbed>>

LockLength(n) == Ladder[SmallerOf(n - Threshold + 1, Len(Ladder))]

\* The counter comes back: below the threshold that is all, otherwise the lock
\* is computed from the clock of this moment.
ComputeLock(s) ==
  /\ signIn[s].pc = "counted"
  /\ IF signIn[s].attempts < Threshold
       THEN Leave(s)
       ELSE signIn' = [signIn EXCEPT ![s].pc = "locking", ![s].moved = clock,
                         ![s].lockedUntil = clock + LockLength(signIn[s].attempts)]
  /\ UNCHANGED <<attempts, lockedUntil, clock, history>>

\* registerFailure's second statement.
WriteLock(s) ==
  /\ signIn[s].pc = "locking"
  /\ lockedUntil' = signIn[s].lockedUntil
  /\ Leave(s)
  /\ UNCHANGED <<attempts, clock, failures, cleared, succeeded, lastFailure, disturbed>>

\* The early return of registerSuccess, judged by what was read.
NothingToClear(s) == signIn[s].attempts = 0 /\ signIn[s].lockedUntil = Unlocked

\* The row as a clear leaves it.
Clear ==
  /\ attempts' = 0
  /\ lockedUntil' = Unlocked
  /\ cleared' = failures
  /\ disturbed' = \E o \in SignIns : Failing(o)

\* The credentials are right.
RegisterSuccess(s) ==
  /\ signIn[s].pc = "checking"
  /\ IF NothingToClear(s)
       THEN UNCHANGED <<attempts, lockedUntil, cleared, disturbed>>
       ELSE Clear
  /\ succeeded' = IF signIn[s].failures > succeeded THEN signIn[s].failures
                  ELSE succeeded
  /\ Leave(s)
  /\ UNCHANGED <<clock, failures, lastFailure>>

\* The credentials are incomplete, the account suspended, or a statement
\* throws: a failure may be left counted without its lock.
GiveUp(s) ==
  /\ signIn[s] # Away
  /\ disturbed' = (disturbed \/ Failing(s))
  /\ Leave(s)
  /\ UNCHANGED <<attempts, lockedUntil, clock, failures, cleared, succeeded, lastFailure>>

\* An administrator unblocks the account.
UnblockUsername ==
  /\ attempts > 0 \/ lockedUntil # Unlocked
  /\ Clear
  /\ succeeded' = failures
  /\ UNCHANGED <<signIn, clock, failures, lastFailure>>

TickClock ==
  /\ clock < LoginMaxTime
  /\ \A s \in SignIns : signIn[s] # Away => signIn[s].moved = clock
  /\ clock' = clock + 1
  /\ UNCHANGED <<attempts, lockedUntil, signIn, history>>

NextAccount ==
  \/ \E s \in SignIns : \/ ReadAccount(s) \/ CountFailure(s) \/ ComputeLock(s)
                        \/ WriteLock(s) \/ RegisterSuccess(s) \/ GiveUp(s)
  \/ UnblockUsername
  \/ TickClock

LoginSpec == InitAccount /\ [][NextAccount]_loginVars
----------------------------------------------------------------------------
LoginTypeOK ==
  /\ attempts \in 0..MaxFailures + Cardinality(SignIns)
  \* No lock is longer than the last rung.
  /\ lockedUntil \in 0..clock + Longest
  /\ signIn \in [SignIns -> [pc: {"away", "checking", "counted", "locking"},
                             attempts: Nat, lockedUntil: Nat, moved: Nat,
                             failures: Nat]]
  /\ clock \in 1..LoginMaxTime
  /\ {failures, cleared, succeeded, lastFailure} \subseteq Nat
  /\ disturbed \in BOOLEAN

Settled == \A s \in SignIns : ~Failing(s)

\* After Threshold failures the account is locked, from the last of them on and
\* for longer the more there were: sign-ins that overlap may write their locks in
\* the wrong order, but that costs at most the tick a lock rests before it is
\* written, and the rungs of those that overlapped.  (registerFailure.)
LockHolds ==
  LET n == failures - cleared
      sure == n - (Cardinality(SignIns) - 1)
  IN  Settled /\ ~disturbed /\ n >= Threshold =>
        lockedUntil >= lastFailure - 1 +
          (IF sure >= Threshold THEN LockLength(sure) ELSE Ladder[1])

\* An account is locked only by Threshold failures since the last sign-in that
\* succeeded read it: what a success finds it clears, the count as well as the
\* lock.  (registerSuccess, unblockUsername.)
NoSpuriousLock ==
  Locked /\ ~disturbed => failures - succeeded >= Threshold

\* Both: an account is locked when, and only when, its failures earn it.
LocksEarned == LockHolds /\ NoSpuriousLock
=============================================================================
