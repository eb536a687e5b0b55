----------------------------- MODULE FreshReads -----------------------------
(***************************************************************************)
(* What a read-through cache of this program promises the code that calls  *)
(* it, with no cache in sight: data has versions, some writes are followed *)
(* by an announcement, and a reader is answered with a version at least as *)
(* new as the last announcement made before it asked.  Several readers may *)
(* be answered by one step: they shared a load.                            *)
(***************************************************************************)
EXTENDS Naturals

CONSTANT Readers

VARIABLES
  version,  \* how many writes have committed
  told,     \* the version the last announcement covers
  reader    \* per reader: where it is, what it may expect, what it got

vars == <<version, told, reader>>

Idle == [pc |-> "idle", floor |-> 0, ver |-> 0]

Init ==
  /\ version = 0 /\ told = 0
  /\ reader = [r \in Readers |-> Idle]

Write ==
  /\ version' = version + 1
  /\ UNCHANGED <<told, reader>>

Tell ==
  /\ told' = version
  /\ UNCHANGED <<version, reader>>

Ask(r) ==
  /\ reader[r].pc = "idle"
  /\ reader' = [reader EXCEPT ![r] =
       [pc |-> "waiting", floor |-> told, ver |-> 0]]
  /\ UNCHANGED <<version, told>>

\* Answered without waiting.
Serve(r) ==
  /\ reader[r].pc = "idle"
  /\ \E v \in told .. version :
       reader' = [reader EXCEPT ![r] =
         [pc |-> "answered", floor |-> told, ver |-> v]]
  /\ UNCHANGED <<version, told>>

\* The readers of group share one result.
Answer(group) ==
  /\ \E v \in 0 .. version :
       /\ \A r \in group : reader[r].pc = "waiting" /\ reader[r].floor <= v
       /\ reader' = [r \in Readers |->
            IF r \in group
              THEN [pc |-> "answered", floor |-> reader[r].floor, ver |-> v]
              ELSE reader[r]]
  /\ UNCHANGED <<version, told>>

Fail(group) ==
  /\ \A r \in group : reader[r].pc = "waiting"
  /\ reader' = [r \in Readers |->
       IF r \in group THEN [reader[r] EXCEPT !.pc = "failed"] ELSE reader[r]]
  /\ UNCHANGED <<version, told>>

Leave(r) ==
  /\ reader[r].pc \in {"answered", "failed"}
  /\ reader' = [reader EXCEPT ![r] = Idle]
  /\ UNCHANGED <<version, told>>

Next ==
  \/ Write \/ Tell
  \/ \E r \in Readers : Ask(r) \/ Serve(r) \/ Leave(r)
  \/ \E group \in (SUBSET Readers) \ {{}} : Answer(group) \/ Fail(group)

Spec == Init /\ [][Next]_vars
=============================================================================
