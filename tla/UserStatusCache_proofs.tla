----------------------- MODULE UserStatusCache_proofs -----------------------
(***************************************************************************)
(* Safety of UserStatusCache for any number of accounts, instances,        *)
(* requests and handlers, and for any values of the bounds; and of the two *)
(* instances of Sessions that MCSessions checks beside it, for any number  *)
(* of tabs, by the theorems of Sessions_proofs.                            *)
(***************************************************************************)
EXTENDS MCSessions, TLAPS

LEMMA ChooseInstance == (CHOOSE i \in Instances : TRUE) \in Instances
BY ParamAssumption

LEMMA ChooseUser == (CHOOSE u \in Users : TRUE) \in Users
BY ParamAssumption

LEMMA IdleRecords ==
  NoLoadRec \in LoadRec /\ IdleRequest \in RequestRec
  /\ IdleWriter \in [pc: {"idle", "committed"}, inst: Instances]
BY ChooseInstance, ChooseUser
   DEF NoLoadRec, IdleRequest, IdleWriter, LoadRec, RequestRec, Checks, Verdicts

\* A load that has been answered has rows.
Answered ==
  \A r \in Requests : load[r].pc \in {"read", "published"} => load[r].snap # NoSnap

TypeInv == TypeOK /\ Answered

LEMMA TypeInit == Init => TypeInv
<1> SUFFICES ASSUME Init PROVE TypeInv
  OBVIOUS
<1>1. users \in Rows
  <2>1. PICK u0 \in Users :
          users = [u \in Users |->
                     [present |-> u = u0, disabled |-> FALSE, epoch |-> 0,
                      born |-> 0, rev |-> 0, changedAt |-> 0]]
    BY DEF Init
  <2>2. ASSUME NEW b \in BOOLEAN
        PROVE  [present |-> b, disabled |-> FALSE, epoch |-> 0,
                born |-> 0, rev |-> 0, changedAt |-> 0] \in Row
    BY DEF Row
  <2>3. \A u \in Users : (u = u0) \in BOOLEAN OBVIOUS
  <2>4. QED BY <2>1, <2>2, <2>3 DEF Rows
<1>2. Answered BY DEF Init, Answered, NoLoadRec
<1>3. QED BY <1>1, <1>2, IdleRecords DEF Init, TypeInv, TypeOK

\* The rows a committed write leaves are rows.
LEMMA RowType ==
  ASSUME version \in Nat, now \in Nat,
         NEW present \in BOOLEAN, NEW disabled \in BOOLEAN,
         NEW e \in Nat, NEW born \in Nat
  PROVE  NewRow(present, disabled, e, born) \in Row
<1>1. version + 1 \in Nat OBVIOUS
<1>2. QED BY <1>1 DEF NewRow, Row

LEMMA UpdatedType ==
  ASSUME version \in Nat, now \in Nat, NEW op \in Ops \ {"create", "wipe"}, NEW row \in Row
  PROVE  Updated(op, row) \in Row
<1>1. op \in {"disable", "enable", "revoke", "delete"}
  BY ParamAssumption DEF AllOps
<1>2. /\ row.disabled \in BOOLEAN /\ row.epoch \in Nat
      /\ row.epoch + 1 \in Nat /\ row.born \in Nat
  BY DEF Row
<1>3. QED BY <1>1, <1>2, RowType DEF Updated

\* A request that is handed an error or a snapshot is still a request.
LEMMA FailOpenType ==
  ASSUME NEW q \in RequestRec, NextCheck(q.pc) \in Checks \cup Verdicts
  PROVE  FailOpen(q) \in RequestRec
BY DEF FailOpen, RequestRec

LEMMA DeliveredType ==
  ASSUME NEW q \in RequestRec, NEW s \in Snapshot
  PROVE  [q EXCEPT !.wait = NoLoad, !.snap = s] \in RequestRec
BY DEF RequestRec

\* Every step keeps the type invariant.
LEMMA TypeStep == TypeInv /\ [Next]_vars => TypeInv'
<1> SUFFICES ASSUME TypeInv, [Next]_vars PROVE TypeInv'
  OBVIOUS
<1> USE ParamAssumption DEF TypeInv, TypeOK, Answered
<1>1. ASSUME NEW r \in Requests, NEW i \in Instances, NEW u \in Users,
             NEW e \in 0 .. MaxWrites, Start(r, i, u, e)
      PROVE TypeInv'
  <2> DEFINE dead == users[u].rev <= told[i] /\ DeadForGood(users[u], e)
             new == [IdleRequest EXCEPT !.pc = "isUserDisabled", !.inst = i,
                       !.user = u, !.epoch = e, !.floor = told[i],
                       !.began = now, !.doomed = dead]
  <2>1. dead \in BOOLEAN BY DEF DeadForGood
  <2>2. e \in Nat /\ told[i] \in Nat BY <1>1
  <2> HIDE DEF dead
  <2>3. new \in RequestRec
    BY <2>1, <2>2, IdleRecords DEF RequestRec, Checks
  <2>4. request' = [request EXCEPT ![r] = new]
    BY <1>1 DEF Start, dead
  <2> HIDE DEF new
  <2>5. request' \in [Requests -> RequestRec] BY <2>3, <2>4
  <2>6. UNCHANGED <<users, version, cache, inflight, generation, told, load,
                    writer, now>>
    BY <1>1 DEF Start
  <2>7. QED BY <2>5, <2>6
<1>2. ASSUME NEW r \in Requests, CacheHit(r) PROVE TypeInv'
  BY <1>2 DEF CacheHit, Asking, Fresh, RequestRec, CacheEntry
<1>3. ASSUME NEW r \in Requests, JoinLoad(r) PROVE TypeInv'
  BY <1>3 DEF JoinLoad, RequestRec
<1>4. ASSUME NEW r \in Requests, StartLoad(r) PROVE TypeInv'
  <2> DEFINE i == request[r].inst
             new == [pc |-> "issued", inst |-> i, startedAt |-> generation[i],
                     issued |-> now, snap |-> NoSnap]
  <2>1. i \in Instances BY DEF RequestRec
  <2>2. new \in LoadRec BY <2>1 DEF LoadRec
  <2>3. load' = [load EXCEPT ![r] = new] BY <1>4 DEF StartLoad
  <2>4. new.pc = "issued" OBVIOUS
  <2> HIDE DEF new
  <2>5. load' \in [Requests -> LoadRec] /\ Answered'
    BY <2>2, <2>3, <2>4
  <2>6. request' \in [Requests -> RequestRec]
    <3> DEFINE waiting == [request[r] EXCEPT !.wait = r]
    <3>1. request[r] \in RequestRec OBVIOUS
    <3>2. waiting \in RequestRec BY <3>1 DEF RequestRec
    <3>3. request' = [request EXCEPT ![r] = waiting] BY <1>4 DEF StartLoad
    <3> HIDE DEF waiting
    <3>4. QED BY <3>2, <3>3
  <2>7. QED BY <1>4, <2>1, <2>5, <2>6 DEF StartLoad
<1>5. ASSUME NEW r \in Requests, Judge(r) PROVE TypeInv'
  <2>1. Judgement(request[r].pc,
            Visible(request[r].snap.rows[request[r].user]), request[r].epoch)
        \in Checks \cup Verdicts \cup {"idle", "confirm"}
    BY DEF Judgement, NextCheck, Checks, Verdicts
  <2> DEFINE new == [request[r] EXCEPT
                       !.pc = Judgement(request[r].pc,
                         Visible(request[r].snap.rows[request[r].user]),
                         request[r].epoch),
                       !.snap = NoSnap]
  <2>2. request[r] \in RequestRec OBVIOUS
  <2>3. new \in RequestRec BY <2>1, <2>2 DEF RequestRec
  <2>4. request' = [request EXCEPT ![r] = new] BY <1>5 DEF Judge
  <2> HIDE DEF new
  <2>5. request' \in [Requests -> RequestRec] BY <2>3, <2>4
  <2>6. QED BY <1>5, <2>5 DEF Judge
<1>6. ASSUME NEW r \in Requests, Confirm(r) \/ ConfirmFails(r) \/ Finish(r)
      PROVE TypeInv'
  BY <1>6, IdleRecords DEF Confirm, ConfirmFails, Finish, RequestRec, Checks, Verdicts
<1>7. ASSUME NEW r \in Requests, ReadRows(r) PROVE TypeInv'
  <2> DEFINE s == [rows |-> users, ver |-> version, readAt |-> now]
  <2>1. s \in Snapshot BY DEF Snapshot
  <2>2. load' = [load EXCEPT ![r].pc = "read", ![r].snap = s]
    BY <1>7 DEF ReadRows
  <2>3. s # NoSnap BY <2>1, DistinctAssumption
  <2> DEFINE new == [load[r] EXCEPT !.pc = "read", !.snap = s]
  <2> HIDE DEF s
  <2>4. load' \in [Requests -> LoadRec]
    <3>1. load[r] \in LoadRec OBVIOUS
    <3>2. new \in LoadRec BY <2>1, <3>1 DEF LoadRec
    <3>3. load' = [load EXCEPT ![r] = new] BY <2>2
    <3> HIDE DEF new
    <3>4. QED BY <3>2, <3>3
  <2>5. Answered'
    <3>1. load'[r].snap = s BY <2>2 DEF LoadRec
    <3>2. \A q \in Requests : q # r => load'[q] = load[q] BY <2>2
    <3>3. QED BY <2>3, <3>1, <3>2
  <2>6. QED BY <1>7, <2>4, <2>5 DEF ReadRows
<1>8. ASSUME NEW r \in Requests, FailRead(r) PROVE TypeInv'
  <2> DEFINE new == [load[r] EXCEPT !.pc = "failed"]
  <2>1. load[r] \in LoadRec OBVIOUS
  <2>2. new \in LoadRec /\ new.pc = "failed" BY <2>1 DEF LoadRec
  <2>3. load' = [load EXCEPT ![r] = new] BY <1>8 DEF FailRead
  <2> HIDE DEF new
  <2>4. load' \in [Requests -> LoadRec] /\ Answered' BY <2>2, <2>3
  <2>5. QED BY <1>8, <2>4 DEF FailRead
<1>9. ASSUME NEW r \in Requests, Publish(r) PROVE TypeInv'
  <2> DEFINE i == load[r].inst
             entry == [snap |-> load[r].snap, at |-> now]
  <2>1. i \in Instances /\ load[r].snap \in Snapshot
    BY <1>9 DEF Publish, LoadRec
  <2>2. entry \in CacheEntry BY <2>1 DEF CacheEntry
  <2>3. cache' = cache \/ cache' = [cache EXCEPT ![i] = entry]
    BY <1>9 DEF Publish
  <2> HIDE DEF entry
  <2>4. cache' \in [Instances -> CacheEntry \cup {NoSnap}]
    BY <2>1, <2>2, <2>3
  <2>5. load' \in [Requests -> LoadRec] /\ Answered'
    BY <1>9 DEF Publish, LoadRec
  <2>6. QED BY <1>9, <2>4, <2>5 DEF Publish
<1>10. ASSUME NEW r \in Requests, Settle(r) PROVE TypeInv'
  <2>1. ASSUME NEW q \in Requests PROVE request'[q] \in RequestRec
    <3>1. CASE ~Awaits(q, r)
      BY <1>10, <3>1 DEF Settle
    <3>2. CASE Awaits(q, r) /\ load[r].pc = "failed"
      <4>1. request'[q] = FailOpen(request[q]) BY <1>10, <3>2 DEF Settle
      <4>2. NextCheck(request[q].pc) \in Checks \cup Verdicts
        BY DEF NextCheck, Checks, Verdicts
      <4>3. request[q] \in RequestRec OBVIOUS
      <4>4. QED BY <4>1, <4>2, <4>3, FailOpenType
    <3>3. CASE Awaits(q, r) /\ load[r].pc # "failed"
      <4>1. request'[q] = [request[q] EXCEPT !.wait = NoLoad, !.snap = load[r].snap]
        BY <1>10, <3>3 DEF Settle
      <4>2. load[r].snap \in Snapshot
        BY <1>10, <3>3 DEF Settle, LoadRec
      <4>3. request[q] \in RequestRec OBVIOUS
      <4>4. [request[q] EXCEPT !.wait = NoLoad, !.snap = load[r].snap] \in RequestRec
        BY <4>2, <4>3, DeliveredType
      <4>5. QED BY <4>1, <4>4, Zenon
    <3>4. QED BY <3>1, <3>2, <3>3
  <2>2. request' \in [Requests -> RequestRec]
    BY <1>10, <2>1 DEF Settle
  <2>3. load' \in [Requests -> LoadRec] /\ Answered'
    BY <1>10, IdleRecords DEF Settle, NoLoadRec
  <2>4. QED BY <1>10, <2>2, <2>3 DEF Settle, LoadRec
<1>11. ASSUME NEW w \in Writers, NEW i \in Instances, NEW op \in Ops,
              NEW u \in Users, Commit(w, i, op, u)
       PROVE TypeInv'
  <2>1. Updated(op, users[u]) \in Row
    BY <1>11, UpdatedType DEF Commit, Rows
  <2>2. users' \in Rows BY <1>11, <2>1 DEF Commit, Rows
  <2>3. QED BY <1>11, <2>2 DEF Commit
<1>12. ASSUME NEW w \in Writers, Invalidate(w) PROVE TypeInv'
  BY <1>12, IdleRecords DEF Invalidate, DroppedInflight, NextGeneration
<1>13. ASSUME NEW u \in Users, Create(u) PROVE TypeInv'
  <2>1. NewRow(TRUE, FALSE, 0, version + 1) \in Row
    <3>1. version + 1 \in Nat OBVIOUS
    <3>2. QED BY <3>1, RowType
  <2>2. users' \in Rows BY <1>13, <2>1 DEF Create, Rows
  <2>3. QED BY <1>13, <2>2 DEF Create
<1>14. ASSUME NEW i \in Instances, Wipe(i) PROVE TypeInv'
  <2>1. \A u \in Users : NewRow(FALSE, FALSE, users[u].epoch, users[u].born) \in Row
    BY RowType DEF Rows, Row
  <2>2. users' \in Rows BY <1>14, <2>1 DEF Wipe, Rows
  <2>3. QED BY <1>14, <2>2 DEF Wipe
<1>15. CASE Tick \/ UNCHANGED vars
  BY <1>15 DEF Tick, vars
<1>16. QED
  BY <1>1, <1>2, <1>3, <1>4, <1>5, <1>6, <1>7, <1>8, <1>9, <1>10, <1>11,
     <1>12, <1>13, <1>14, <1>15
  DEF Next, RequestStep, LoadStep, WriterStep

THEOREM TypeCorrect == Spec => []TypeOK
<1>1. TypeInv => TypeOK BY DEF TypeInv
<1>2. QED BY <1>1, TypeInit, TypeStep, PTL DEF Spec
-----------------------------------------------------------------------------
(* The in-flight slot, the generation stamps and the requests that wait.   *)

\* Whoever awaits a load is in the middle of a check, and whoever started a
\* pending load awaits it; every load awaited is pending, in the same instance.
WaitInv ==
  /\ \A r \in Requests : request[r].wait # NoLoad =>
       request[r].pc \in Checks /\ request[r].snap = NoSnap
  /\ \A r \in Requests : Pending(r) => request[r].wait = r
  /\ NoLostWakeup

\* A stamp never runs ahead of the generation, it equals the generation exactly
\* for the load in the slot, and the slot holds a pending load of its instance.
SlotInv ==
  /\ \A r \in Requests : Pending(r) =>
       load[r].startedAt <= generation[load[r].inst]
  /\ GenerationIsOwnership
  /\ \A i \in Instances : inflight[i] # NoLoad =>
       Pending(inflight[i]) /\ load[inflight[i]].inst = i
  /\ OneLoadPerGeneration

\* The steps that touch neither the loads, nor the slots, nor who waits.
LEMMA QuietStep ==
  ASSUME WaitInv, SlotInv,
         UNCHANGED <<load, inflight, generation>>,
         \A r \in Requests :
           /\ request'[r].wait = request[r].wait
           /\ request[r].wait # NoLoad => request'[r] = request[r]
  PROVE  WaitInv' /\ SlotInv'
<1>1. WaitInv'
  BY DistinctAssumption DEF WaitInv, NoLostWakeup, Pending
<1>2. SlotInv'
  BY DEF SlotInv, GenerationIsOwnership, OneLoadPerGeneration, Pending
<1>3. QED BY <1>1, <1>2

LEMMA SlotInit == Init => WaitInv /\ SlotInv
<1> SUFFICES ASSUME Init PROVE WaitInv /\ SlotInv
  OBVIOUS
<1>1. \A r \in Requests : ~Pending(r) /\ request[r].wait = NoLoad
  BY DEF Init, Pending, NoLoadRec, IdleRequest
<1>2. \A i \in Instances : inflight[i] = NoLoad
  BY DEF Init
<1>3. QED
  BY <1>1, <1>2
  DEF WaitInv, SlotInv, NoLostWakeup, GenerationIsOwnership, OneLoadPerGeneration

LEMMA SlotStep == TypeInv /\ WaitInv /\ SlotInv /\ [Next]_vars => WaitInv' /\ SlotInv'
<1> SUFFICES ASSUME TypeInv, WaitInv, SlotInv, [Next]_vars
             PROVE  WaitInv' /\ SlotInv'
  OBVIOUS
<1>0. /\ NoLoad \notin Requests
      /\ \A q \in Requests : /\ request[q].wait \in Requests \cup {NoLoad}
                             /\ load[q].inst \in Instances
  BY DistinctAssumption DEF TypeInv, TypeOK, RequestRec, LoadRec
<1> USE DistinctAssumption DEF TypeInv, TypeOK
<1>1. ASSUME NEW r \in Requests, NEW i \in Instances, NEW u \in Users,
             NEW e \in 0 .. MaxWrites, Start(r, i, u, e)
      PROVE WaitInv' /\ SlotInv'
  <2>1. request[r].wait = NoLoad
    BY <1>1 DEF Start, WaitInv, Checks
  <2>2. request'[r].wait = NoLoad
        /\ \A q \in Requests : q # r => request'[q] = request[q]
    BY <1>1 DEF Start, IdleRequest
  <2>3. QED BY <1>1, <2>1, <2>2, QuietStep DEF Start
<1>2. ASSUME NEW r \in Requests, CacheHit(r) PROVE WaitInv' /\ SlotInv'
  <2>1. request[r].wait = NoLoad BY <1>2 DEF CacheHit, Asking
  <2>2. request'[r].wait = NoLoad
        /\ \A q \in Requests : q # r => request'[q] = request[q]
    BY <1>2, <2>1 DEF CacheHit, RequestRec
  <2>3. QED BY <1>2, <2>1, <2>2, QuietStep DEF CacheHit
<1>3. ASSUME NEW r \in Requests, Judge(r) PROVE WaitInv' /\ SlotInv'
  <2>1. request[r].wait = NoLoad BY <1>3 DEF Judge, WaitInv
  <2>2. request'[r].wait = NoLoad
        /\ \A q \in Requests : q # r => request'[q] = request[q]
    BY <1>3, <2>1 DEF Judge, RequestRec
  <2>3. QED BY <1>3, <2>1, <2>2, QuietStep DEF Judge
<1>4. ASSUME NEW r \in Requests, Confirm(r) \/ ConfirmFails(r) \/ Finish(r)
      PROVE WaitInv' /\ SlotInv'
  <2>1. request[r].wait = NoLoad
    BY <1>4 DEF Confirm, ConfirmFails, Finish, WaitInv, Checks, Verdicts
  <2>2. request'[r].wait = NoLoad
        /\ \A q \in Requests : q # r => request'[q] = request[q]
    BY <1>4, <2>1 DEF Confirm, ConfirmFails, Finish, RequestRec, IdleRequest
  <2>3. QED BY <1>4, <2>1, <2>2, QuietStep DEF Confirm, ConfirmFails, Finish
<1>5. ASSUME NEW r \in Requests, JoinLoad(r) PROVE WaitInv' /\ SlotInv'
  <2> DEFINE i == request[r].inst
  <2>1. /\ request[r].wait = NoLoad /\ request[r].pc \in Checks
        /\ request[r].snap = NoSnap
    BY <1>5 DEF JoinLoad, Asking
  <2>2. Pending(inflight[i]) /\ load[inflight[i]].inst = i
    BY <1>5 DEF JoinLoad, SlotInv, RequestRec
  <2>3. /\ request'[r] = [request[r] EXCEPT !.wait = inflight[i]]
        /\ \A q \in Requests : q # r => request'[q] = request[q]
    BY <1>5 DEF JoinLoad
  <2>4. /\ request'[r].wait = inflight[i] /\ request'[r].pc \in Checks
        /\ request'[r].snap = NoSnap /\ request'[r].inst = i
    BY <2>1, <2>3 DEF RequestRec
  <2>5. ~Pending(r) BY <2>1 DEF WaitInv
  <2>6. WaitInv'
    <3>1. load' = load BY <1>5 DEF JoinLoad
    <3>2. (\A q \in Requests : request[q].wait # NoLoad =>
             request[q].pc \in Checks /\ request[q].snap = NoSnap)'
      BY <2>3, <2>4 DEF WaitInv
    <3>3. (\A q \in Requests : Pending(q) => request[q].wait = q)'
      BY <2>3, <2>5, <3>1 DEF WaitInv, Pending
    <3>4. NoLostWakeup'
      BY <2>2, <2>3, <2>4, <3>1 DEF WaitInv, NoLostWakeup, Pending
    <3>5. QED BY <3>2, <3>3, <3>4 DEF WaitInv
  <2>7. SlotInv'
    BY <1>5 DEF JoinLoad, SlotInv, GenerationIsOwnership, OneLoadPerGeneration, Pending
  <2>8. QED BY <2>6, <2>7
<1>6. ASSUME NEW r \in Requests, StartLoad(r) PROVE WaitInv' /\ SlotInv'
  <2> DEFINE i == request[r].inst
  <2>1. /\ request[r].wait = NoLoad /\ request[r].pc \in Checks
        /\ request[r].snap = NoSnap /\ inflight[i] = NoLoad
    BY <1>6 DEF StartLoad, Asking
  <2>2. ~Pending(r) /\ i \in Instances BY <2>1 DEF WaitInv, RequestRec
  <2>3. /\ request'[r].wait = r /\ request'[r].pc \in Checks
        /\ request'[r].snap = NoSnap /\ request'[r].inst = i
        /\ \A q \in Requests : q # r => request'[q] = request[q]
    BY <1>6, <2>1 DEF StartLoad, RequestRec
  <2>4. /\ load'[r].pc = "issued" /\ load'[r].inst = i
        /\ load'[r].startedAt = generation[i]
        /\ \A q \in Requests : q # r => load'[q] = load[q]
    BY <1>6 DEF StartLoad
  <2>5. /\ inflight'[i] = r /\ generation' = generation
        /\ \A j \in Instances : j # i => inflight'[j] = inflight[j]
    BY <1>6, <2>2 DEF StartLoad
  <2>6. WaitInv'
    <3>1. \A q \in Requests : Pending(q)' <=> Pending(q) \/ q = r
      BY <2>4 DEF Pending
    <3>2. (\A q \in Requests : request[q].wait # NoLoad =>
             request[q].pc \in Checks /\ request[q].snap = NoSnap)'
      BY <2>3 DEF WaitInv
    <3>3. (\A q \in Requests : Pending(q) => request[q].wait = q)'
      BY <2>3, <3>1 DEF WaitInv
    <3>4. NoLostWakeup'
      BY <1>0, <2>2, <2>3, <2>4, <3>1 DEF WaitInv, NoLostWakeup
    <3>5. QED BY <3>2, <3>3, <3>4 DEF WaitInv
  <2>7. \A q \in Requests : Pending(q) /\ load[q].inst = i
                            => load[q].startedAt # generation[i]
    BY <2>1 DEF SlotInv, GenerationIsOwnership
  <2>8. \A q \in Requests : Pending(q) => load[q].inst \in Instances
    BY DEF LoadRec
  <2>9. (\A q \in Requests : Pending(q) =>
          load[q].startedAt <= generation[load[q].inst])'
    BY <2>2, <2>4, <2>5 DEF SlotInv, Pending
  <2>10. GenerationIsOwnership'
    BY <2>2, <2>4, <2>5, <2>7, <2>8 DEF SlotInv, GenerationIsOwnership, Pending
  <2>11. (\A j \in Instances : inflight[j] # NoLoad =>
           Pending(inflight[j]) /\ load[inflight[j]].inst = j)'
    BY <2>2, <2>4, <2>5 DEF SlotInv, Pending
  <2>12. OneLoadPerGeneration'
    BY <2>2, <2>4, <2>7 DEF SlotInv, OneLoadPerGeneration, Pending
  <2>13. QED BY <2>6, <2>9, <2>10, <2>11, <2>12 DEF SlotInv
<1>7. ASSUME NEW r \in Requests, ReadRows(r) \/ FailRead(r) \/ Publish(r)
      PROVE WaitInv' /\ SlotInv'
  <2>1. /\ UNCHANGED <<request, inflight, generation>>
        /\ \A q \in Requests : /\ load'[q].inst = load[q].inst
                               /\ load'[q].startedAt = load[q].startedAt
                               /\ Pending(q)' <=> Pending(q)
    BY <1>7 DEF ReadRows, FailRead, Publish, LoadRec, Pending
  <2>2. WaitInv'
    <3>1. (\A q \in Requests : request[q].wait # NoLoad =>
             request[q].pc \in Checks /\ request[q].snap = NoSnap)'
      BY <2>1 DEF WaitInv
    <3>2. (\A q \in Requests : Pending(q) => request[q].wait = q)'
      BY <2>1 DEF WaitInv
    <3>3. NoLostWakeup'
      BY <1>0, <2>1 DEF WaitInv, NoLostWakeup
    <3>4. QED BY <3>1, <3>2, <3>3 DEF WaitInv
  <2>3. SlotInv'
    BY <2>1 DEF SlotInv, GenerationIsOwnership, OneLoadPerGeneration, Pending
  <2>4. QED BY <2>2, <2>3
<1>8. ASSUME NEW r \in Requests, Settle(r) PROVE WaitInv' /\ SlotInv'
  <2> DEFINE i == load[r].inst
  <2>1. Pending(r) /\ i \in Instances
    BY <1>8 DEF Settle, Pending, LoadRec
  <2>2. /\ ~Pending(r)'
        /\ \A q \in Requests : q # r => load'[q] = load[q]
        /\ generation' = generation
    BY <1>8 DEF Settle, Pending, NoLoadRec
  <2>3. \A q \in Requests :
          IF request[q].wait = r THEN request'[q].wait = NoLoad
                                 ELSE request'[q] = request[q]
    <3>1. \A q \in Requests :
            request'[q] = IF ~Awaits(q, r) THEN request[q]
                          ELSE IF load[r].pc = "failed" THEN FailOpen(request[q])
                          ELSE [request[q] EXCEPT !.wait = NoLoad,
                                                  !.snap = load[r].snap]
      BY <1>8, Zenon DEF Settle
    <3>2. ASSUME NEW q \in Requests
          PROVE  IF request[q].wait = r THEN request'[q].wait = NoLoad
                                        ELSE request'[q] = request[q]
      <4>1. CASE request[q].wait = r /\ load[r].pc = "failed"
        <5>1. request'[q] = FailOpen(request[q])
          BY <3>1, <4>1 DEF Awaits
        <5>2. request[q] \in RequestRec
          BY DEF TypeInv, TypeOK
        <5>3. FailOpen(request[q]).wait = NoLoad
          BY <5>2 DEF FailOpen, RequestRec
        <5>4. QED BY <4>1, <5>1, <5>3
      <4>2. CASE request[q].wait = r /\ load[r].pc # "failed"
        <5>1. request'[q] = [request[q] EXCEPT !.wait = NoLoad,
                                               !.snap = load[r].snap]
          BY <3>1, <4>2 DEF Awaits
        <5>2. request[q] \in RequestRec
          BY DEF TypeInv, TypeOK
        <5>3. QED BY <4>2, <5>1, <5>2 DEF RequestRec
      <4>3. CASE request[q].wait # r
        BY <3>1, <4>3 DEF Awaits
      <4>4. QED BY <4>1, <4>2, <4>3
    <3>3. QED BY <3>2, Zenon
  <2>4. /\ inflight[i] = r => inflight'[i] = NoLoad
        /\ inflight[i] # r => inflight'[i] = inflight[i]
        /\ \A j \in Instances : j # i => inflight'[j] = inflight[j]
    BY <1>8, <2>1 DEF Settle, ClearsSlot
  <2>5. \A j \in Instances :
          \/ inflight'[j] = inflight[j] /\ inflight[j] # r
          \/ inflight'[j] = NoLoad /\ inflight[j] = r
    <3>1. \A j \in Instances : inflight[j] = r => j = i
      BY <1>0 DEF SlotInv
    <3>2. ASSUME NEW j \in Instances
          PROVE  \/ inflight'[j] = inflight[j] /\ inflight[j] # r
                 \/ inflight'[j] = NoLoad /\ inflight[j] = r
      <4>1. CASE j = i BY <2>4, <4>1
      <4>2. CASE j # i BY <2>4, <3>1, <4>2
      <4>3. QED BY <4>1, <4>2
    <3>3. QED BY <3>2
  <2>6. \A q \in Requests : Pending(q)' <=> Pending(q) /\ q # r
    BY <2>2 DEF Pending
  <2>7. WaitInv'
    <3>1. (\A q \in Requests : request[q].wait # NoLoad =>
             request[q].pc \in Checks /\ request[q].snap = NoSnap)'
      BY <2>3 DEF WaitInv
    <3>2. (\A q \in Requests : Pending(q) => request[q].wait = q)'
      BY <2>3, <2>6 DEF WaitInv
    <3>3. NoLostWakeup'
      BY <1>0, <2>2, <2>3, <2>6 DEF WaitInv, NoLostWakeup
    <3>4. QED BY <3>1, <3>2, <3>3 DEF WaitInv
  <2>8. SlotInv'
    <3>1. (\A q \in Requests : Pending(q) =>
             load[q].startedAt <= generation[load[q].inst])'
      BY <2>2, <2>6 DEF SlotInv
    <3>2. GenerationIsOwnership'
      BY <1>0, <2>2, <2>5, <2>6 DEF SlotInv, GenerationIsOwnership
    <3>3. (\A j \in Instances : inflight[j] # NoLoad =>
             Pending(inflight[j]) /\ load[inflight[j]].inst = j)'
      BY <1>0, <2>2, <2>5, <2>6 DEF SlotInv
    <3>4. OneLoadPerGeneration'
      BY <2>2, <2>6 DEF SlotInv, OneLoadPerGeneration
    <3>5. QED BY <3>1, <3>2, <3>3, <3>4 DEF SlotInv
  <2>9. QED BY <2>7, <2>8
<1>9. ASSUME NEW w \in Writers, Invalidate(w) PROVE WaitInv' /\ SlotInv'
  <2> DEFINE i == writer[w].inst
  <2>1. /\ i \in Instances /\ UNCHANGED <<load, request>>
        /\ inflight'[i] = NoLoad /\ generation'[i] = generation[i] + 1
        /\ \A j \in Instances : j # i => /\ inflight'[j] = inflight[j]
                                         /\ generation'[j] = generation[j]
    BY <1>9 DEF Invalidate, DroppedInflight, NextGeneration
  <2>2. WaitInv' BY <2>1 DEF WaitInv, NoLostWakeup, Pending
  <2>3. \A q \in Requests : Pending(q) =>
          /\ load[q].inst \in Instances /\ load[q].startedAt \in Nat
          /\ generation[load[q].inst] \in Nat
          /\ load[q].startedAt <= generation[load[q].inst]
    BY DEF LoadRec, SlotInv
  <2>4. (\A q \in Requests : Pending(q) =>
          load[q].startedAt <= generation[load[q].inst])'
    BY <2>1, <2>3 DEF Pending
  <2>5. GenerationIsOwnership'
    BY <2>1, <2>3 DEF SlotInv, GenerationIsOwnership, Pending
  <2>6. QED
    BY <2>1, <2>2, <2>4, <2>5 DEF SlotInv, OneLoadPerGeneration, Pending
<1>10. ASSUME UNCHANGED <<load, inflight, generation, request>>
       PROVE WaitInv' /\ SlotInv'
  BY <1>10, QuietStep
<1>11. QED
  BY <1>1, <1>2, <1>3, <1>4, <1>5, <1>6, <1>7, <1>8, <1>9, <1>10
  DEF Next, RequestStep, LoadStep, WriterStep, vars, Commit, Create, Wipe, Tick

\* The comment on invalidateUserStatusCache, for any number of loads: checking
\* the generation is checking who owns the in-flight slot.
THEOREM GenerationOwnership == Spec => []GenerationIsOwnership
<1>1. SlotInv => GenerationIsOwnership BY DEF SlotInv
<1>2. QED BY <1>1, TypeInit, TypeStep, SlotInit, SlotStep, PTL DEF Spec

\* No two loads of one instance carry the same stamp.
THEOREM LoadsDeduplicated == Spec => []OneLoadPerGeneration
<1>1. SlotInv => OneLoadPerGeneration BY DEF SlotInv
<1>2. QED BY <1>1, TypeInit, TypeStep, SlotInit, SlotStep, PTL DEF Spec

\* No request awaits a load that is gone.
THEOREM NobodyStranded == Spec => []NoLostWakeup
<1>1. WaitInv => NoLostWakeup BY DEF WaitInv
<1>2. QED BY <1>1, TypeInit, TypeStep, SlotInit, SlotStep, PTL DEF Spec

\* All three at once.
THEOREM LoadsShared == Spec => []LoadsAreShared
<1>1. WaitInv /\ SlotInv => LoadsAreShared BY DEF WaitInv, SlotInv, LoadsAreShared
<1>2. QED BY <1>1, TypeInit, TypeStep, SlotInit, SlotStep, PTL DEF Spec
-----------------------------------------------------------------------------
(* No publish undoes an invalidation.                                      *)

\* A load that no invalidation has superseded was answered after its instance was
\* last told.
FreshInv ==
  /\ CacheNotSuperseded
  /\ \A i \in Instances : told[i] <= version
  /\ \A r \in Requests :
       load[r].pc \in {"read", "published"} /\ MayPublish(r)
       => load[r].snap.ver >= told[load[r].inst]

LEMMA FreshInit == Init => FreshInv
BY DEF Init, FreshInv, CacheNotSuperseded, NoLoadRec

LEMMA FreshStep ==
  ASSUME "wipe" \notin Ops
  PROVE  TypeInv /\ SlotInv /\ FreshInv /\ [Next]_vars => FreshInv'
<1> SUFFICES ASSUME TypeInv, SlotInv, FreshInv, [Next]_vars PROVE FreshInv'
  OBVIOUS
<1> USE DEF TypeInv, TypeOK
<1>1. ASSUME UNCHANGED <<cache, told, load, generation>>,
             version' = version \/ version' = version + 1
      PROVE FreshInv'
  BY <1>1 DEF FreshInv, CacheNotSuperseded, MayPublish
<1>2. ASSUME NEW r \in Requests, StartLoad(r) PROVE FreshInv'
  <2>1. /\ load'[r].pc = "issued" /\ UNCHANGED <<cache, told, version, generation>>
        /\ \A q \in Requests : q # r => load'[q] = load[q]
    BY <1>2 DEF StartLoad
  <2>2. QED BY <2>1 DEF FreshInv, CacheNotSuperseded, MayPublish
<1>3. ASSUME NEW r \in Requests, ReadRows(r) PROVE FreshInv'
  <2>1. /\ load'[r].snap.ver = version /\ load'[r].inst = load[r].inst
        /\ load[r].inst \in Instances
        /\ UNCHANGED <<cache, told, version, generation>>
        /\ \A q \in Requests : q # r => load'[q] = load[q]
    BY <1>3 DEF ReadRows, LoadRec
  <2>2. QED BY <2>1 DEF FreshInv, CacheNotSuperseded, MayPublish
<1>4. ASSUME NEW r \in Requests, FailRead(r) PROVE FreshInv'
  <2>1. /\ load'[r].pc = "failed" /\ UNCHANGED <<cache, told, version, generation>>
        /\ \A q \in Requests : q # r => load'[q] = load[q]
    BY <1>4 DEF FailRead, LoadRec
  <2>2. QED BY <2>1 DEF FreshInv, CacheNotSuperseded, MayPublish
<1>5. ASSUME NEW r \in Requests, Publish(r) PROVE FreshInv'
  <2> DEFINE i == load[r].inst
  <2>1. /\ load'[r] = [load[r] EXCEPT !.pc = "published"] /\ load[r].pc = "read"
        /\ UNCHANGED <<told, version, generation>>
        /\ \A q \in Requests : q # r => load'[q] = load[q]
    BY <1>5 DEF Publish
  <2>2. \A q \in Requests :
          /\ load'[q].inst = load[q].inst /\ load'[q].snap = load[q].snap
          /\ MayPublish(q)' <=> MayPublish(q)
          /\ load'[q].pc \in {"read", "published"} => load[q].pc \in {"read", "published"}
    BY <2>1 DEF LoadRec, MayPublish
  <2>3. i \in Instances BY DEF LoadRec
  <2>4. CacheNotSuperseded'
    <3>1. CASE ~MayPublish(r)
      BY <1>5, <2>1, <3>1 DEF Publish, FreshInv, CacheNotSuperseded
    <3>2. CASE MayPublish(r)
      <4>1. /\ cache'[i].snap.ver = load[r].snap.ver
            /\ \A j \in Instances : j # i => cache'[j] = cache[j]
        BY <1>5, <2>3, <3>2 DEF Publish
      <4>2. load[r].snap.ver >= told[i] BY <2>1, <3>2 DEF FreshInv
      <4>3. QED BY <2>1, <2>3, <4>1, <4>2 DEF FreshInv, CacheNotSuperseded
    <3>3. QED BY <3>1, <3>2
  <2>5. QED BY <2>1, <2>2, <2>4 DEF FreshInv
<1>6. ASSUME NEW r \in Requests, Settle(r) PROVE FreshInv'
  <2>1. /\ load'[r].pc = "none" /\ UNCHANGED <<cache, told, version, generation>>
        /\ \A q \in Requests : q # r => load'[q] = load[q]
    BY <1>6 DEF Settle, NoLoadRec
  <2>2. QED BY <2>1 DEF FreshInv, CacheNotSuperseded, MayPublish
<1>7. ASSUME NEW w \in Writers, Invalidate(w) PROVE FreshInv'
  <2> DEFINE i == writer[w].inst
  <2>1. /\ i \in Instances /\ UNCHANGED <<load, version>>
        /\ cache'[i] = NoSnap /\ generation'[i] = generation[i] + 1
        /\ told'[i] = version
        /\ \A j \in Instances : j # i => /\ cache'[j] = cache[j]
                                         /\ generation'[j] = generation[j]
                                         /\ told'[j] = told[j]
    BY <1>7 DEF Invalidate, NextGeneration
  <2>2. \A q \in Requests : load[q].pc \in {"read", "published"} =>
          /\ load[q].inst \in Instances /\ load[q].startedAt \in Nat
          /\ generation[load[q].inst] \in Nat
          /\ load[q].startedAt <= generation[load[q].inst]
    BY DEF LoadRec, SlotInv, Pending
  <2>3. \A q \in Requests :
          load[q].pc \in {"read", "published"} /\ MayPublish(q)' => load[q].inst # i /\ MayPublish(q)
    BY <2>1, <2>2 DEF MayPublish
  <2>4. CacheNotSuperseded' BY <2>1 DEF FreshInv, CacheNotSuperseded
  <2>5. QED BY <2>1, <2>2, <2>3, <2>4 DEF FreshInv
<1>8. QED
  BY <1>1, <1>2, <1>3, <1>4, <1>5, <1>6, <1>7
  DEF Next, RequestStep, LoadStep, WriterStep, vars, Start, CacheHit, JoinLoad,
      Judge, Confirm, ConfirmFails, Finish, Commit, Create, Wipe, Tick

\* In an instance whose handlers all invalidate, a snapshot that an
\* invalidation has superseded is never published again.
THEOREM NoStalePublish ==
  ASSUME "wipe" \notin Ops PROVE Spec => []CacheNotSuperseded
<1>1. FreshInv => CacheNotSuperseded BY DEF FreshInv
<1>2. QED
  BY <1>1, TypeInit, TypeStep, SlotInit, SlotStep, FreshInit, FreshStep, PTL
  DEF Spec
-----------------------------------------------------------------------------
(* Verdicts: what a guard saw, and what has become of the row since.       *)

\* The snapshots somebody still holds.
Held == ({cache[i].snap : i \in {j \in Instances : cache[j] # NoSnap}}
           \cup {load[r].snap : r \in Requests}
           \cup {request[r].snap : r \in Requests}) \ {NoSnap}

\* A row that was suspended or had its sessions revoked has been changed since it
\* was created.
Marked(row) == row.disabled \/ row.epoch > 0 => row.born < row.rev

\* What a row may have become: a deleted one stays as it is, and a change is
\* numbered after the last.
Follows(new, old) ==
  \/ new = old
  \/ /\ old.rev < new.rev
     /\ old.present \/ old.rev = 0
     /\ old.present => new.born = old.born

\* Of the rows: no change is numbered or dated ahead.
RowInv ==
  \A u \in Users :
    /\ Marked(users[u])
    /\ users[u].rev <= version /\ users[u].born <= version
    /\ users[u].changedAt <= now

\* Of the snapshots: each was true when it was read, and still is of every row
\* that has not changed since.
SnapInv ==
  \A s \in Held, u \in Users :
    /\ s.ver <= version /\ s.readAt <= now
    /\ Marked(s.rows[u]) /\ Follows(users[u], s.rows[u])
    /\ users[u].rev <= s.ver \/ users[u].changedAt < s.readAt => s.rows[u] = users[u]

\* A committed write to the row of u.
Changes(u) ==
  /\ users[u].present \/ users[u].rev = 0
  /\ version' = version + 1 /\ users'[u].rev = version + 1
  /\ users'[u].changedAt = now
  /\ users[u].present => /\ users'[u].born = users[u].born
                         /\ users'[u].epoch >= users[u].epoch
  /\ ~users[u].present => /\ users'[u].born = version + 1
                          /\ users'[u].epoch = 0 /\ ~users'[u].disabled

LEMMA RowsStep ==
  ASSUME TypeInv, [Next]_vars
  PROVE  /\ version' = version \/ version' = version + 1
         /\ now' = now \/ (now' = now + 1 /\ users' = users)
         /\ \A u \in Users : users'[u] = users[u] \/ Changes(u)
         /\ users' # users \/ version' # version => UNCHANGED <<request, load, now>>
<1> USE DEF TypeInv, TypeOK
<1>1. ASSUME NEW w \in Writers, NEW i \in Instances, NEW op \in Ops,
             NEW u \in Users, Commit(w, i, op, u)
      PROVE \A v \in Users : users'[v] = users[v] \/ Changes(v)
  <2>1. op \in {"disable", "enable", "revoke", "delete"}
    BY <1>1, ParamAssumption DEF Commit, AllOps
  <2>2. users'[u] = Updated(op, users[u]) /\ users[u].present
    BY <1>1 DEF Commit, Rows
  <2>3. users[u].epoch \in Nat BY DEF Rows, Row
  <2>4. /\ users'[u].rev = version + 1 /\ users'[u].changedAt = now
        /\ users'[u].born = users[u].born /\ users'[u].epoch >= users[u].epoch
    BY <2>1, <2>2, <2>3 DEF Updated, NewRow
  <2>5. Changes(u) BY <1>1, <2>2, <2>4 DEF Changes, Commit
  <2>6. \A v \in Users : v # u => users'[v] = users[v] BY <1>1 DEF Commit, Rows
  <2>7. QED BY <2>5, <2>6
<1>2. ASSUME NEW u \in Users, Create(u)
      PROVE \A v \in Users : users'[v] = users[v] \/ Changes(v)
  <2>1. users'[u] = NewRow(TRUE, FALSE, 0, version + 1) BY <1>2 DEF Create, Rows
  <2>2. Changes(u) BY <1>2, <2>1 DEF Changes, Create, NewRow
  <2>3. \A v \in Users : v # u => users'[v] = users[v] BY <1>2 DEF Create, Rows
  <2>4. QED BY <2>2, <2>3
<1>3. ASSUME NEW i \in Instances, Wipe(i)
      PROVE \A v \in Users : users'[v] = users[v] \/ Changes(v)
  <2> SUFFICES ASSUME NEW v \in Users, users[v].present PROVE Changes(v)
    BY <1>3 DEF Wipe, Rows
  <2>1. users'[v] = NewRow(FALSE, FALSE, users[v].epoch, users[v].born)
    BY <1>3 DEF Wipe, Rows
  <2>2. users[v].epoch \in Nat BY DEF Rows, Row
  <2>3. QED BY <1>3, <2>1, <2>2 DEF Changes, Wipe, NewRow
<1>4. ASSUME UNCHANGED <<users, version>>,
             now' = now \/ now' = now + 1
      PROVE \A v \in Users : users'[v] = users[v] \/ Changes(v)
  BY <1>4
<1>5. QED
  BY <1>1, <1>2, <1>3, <1>4
  DEF Next, RequestStep, LoadStep, WriterStep, vars, Start, CacheHit, JoinLoad,
      StartLoad, Judge, Confirm, ConfirmFails, Finish, ReadRows, FailRead, Publish,
      Settle, Commit, Invalidate, Create, Wipe, Tick

LEMMA RowInvInit == Init => RowInv
<1> SUFFICES ASSUME Init, NEW u \in Users
             PROVE  /\ Marked(users[u])
                    /\ users[u].rev <= version /\ users[u].born <= version
                    /\ users[u].changedAt <= now
  BY DEF RowInv
<1>1. /\ ~users[u].disabled /\ users[u].epoch = 0 /\ users[u].rev = 0
      /\ users[u].born = 0 /\ users[u].changedAt = 0 /\ version = 0 /\ now = 0
  BY DEF Init
<1>2. QED BY <1>1 DEF Marked

LEMMA RowInvStep == TypeInv /\ RowInv /\ [Next]_vars => RowInv'
<1> SUFFICES ASSUME TypeInv, RowInv, [Next]_vars, NEW u \in Users
             PROVE  /\ Marked(users'[u])
                    /\ users'[u].rev <= version' /\ users'[u].born <= version'
                    /\ users'[u].changedAt <= now'
  BY DEF RowInv
<1> USE RowsStep DEF TypeInv, TypeOK
<1>0. /\ users[u].rev \in Nat /\ users[u].born \in Nat /\ users[u].epoch \in Nat
      /\ users[u].changedAt \in Nat
  BY DEF Rows, Row
<1>1. CASE users'[u] = users[u] BY <1>0, <1>1 DEF RowInv
<1>2. CASE Changes(u)
  <2>1. now' = now /\ version' = version + 1 BY <1>2 DEF Changes
  <2>2. users[u].rev <= version /\ users[u].born <= version BY DEF RowInv
  <2>3. CASE users[u].present BY <1>0, <1>2, <2>1, <2>2, <2>3 DEF Changes, Marked
  <2>4. CASE ~users[u].present BY <1>0, <1>2, <2>1, <2>4 DEF Changes, Marked
  <2>5. QED BY <2>3, <2>4
<1>3. QED BY <1>1, <1>2


LEMMA HeldStep ==
  ASSUME TypeInv, [Next]_vars, NEW s \in Held'
  PROVE  \/ s \in Held
         \/ /\ s = [rows |-> users, ver |-> version, readAt |-> now]
            /\ UNCHANGED <<users, version, now>>
<1> USE DEF TypeInv, TypeOK
<1> DEFINE Known(x) == x = NoSnap \/ x \in Held
           Read == [rows |-> users, ver |-> version, readAt |-> now]
<1>1. /\ \A i \in Instances : cache[i] # NoSnap => Known(cache[i].snap)
      /\ \A r \in Requests : Known(load[r].snap) /\ Known(request[r].snap)
      /\ Known(NoSnap)
  BY DEF Held
<1>2. ASSUME \A i \in Instances : cache'[i] # NoSnap => Known(cache'[i].snap),
             \A r \in Requests : Known(load'[r].snap) /\ Known(request'[r].snap)
      PROVE  s \in Held
  BY <1>2 DEF Held
<1> HIDE DEF Known
<1>3. ASSUME NEW r \in Requests, ReadRows(r)
      PROVE  s \in Held \/ (s = Read /\ UNCHANGED <<users, version, now>>)
  <2>1. /\ UNCHANGED <<users, version, now, cache, request>>
        /\ \A q \in Requests : load'[q].snap = IF q = r THEN Read ELSE load[q].snap
    BY <1>3 DEF ReadRows, LoadRec
  <2>2. s # Read => s \in Held
    BY <1>1, <2>1 DEF Held, Known
  <2>3. QED BY <2>1, <2>2
<1>4. ASSUME NEW r \in Requests, Publish(r) PROVE s \in Held
  <2>1. /\ request' = request
        /\ \A q \in Requests : load'[q].snap = load[q].snap
    BY <1>4 DEF Publish, LoadRec
  <2>2. \A i \in Instances : cache'[i] = cache[i] \/ cache'[i].snap = load[r].snap
    BY <1>4 DEF Publish
  <2>3. QED BY <1>1, <1>2, <2>1, <2>2
<1>5. ASSUME NEW r \in Requests, Settle(r) PROVE s \in Held
  <2>1. /\ cache' = cache
        /\ \A q \in Requests : load'[q].snap = NoSnap \/ load'[q].snap = load[q].snap
    BY <1>5 DEF Settle, NoLoadRec
  <2>2. ASSUME NEW q \in Requests
        PROVE  request'[q].snap = request[q].snap \/ request'[q].snap = load[r].snap
    <3>1. request'[q] = IF ~Awaits(q, r) THEN request[q]
                        ELSE IF load[r].pc = "failed" THEN FailOpen(request[q])
                        ELSE [request[q] EXCEPT !.wait = NoLoad, !.snap = load[r].snap]
      BY <1>5, Zenon DEF Settle
    <3>2. request[q] \in RequestRec OBVIOUS
    <3>3. QED BY <3>1, <3>2 DEF FailOpen, RequestRec
  <2>3. QED BY <1>1, <1>2, <2>1, <2>2
<1>6. ASSUME NEW r \in Requests, CacheHit(r) PROVE s \in Held
  <2>1. request[r].inst \in Instances BY DEF RequestRec
  <2>2. /\ UNCHANGED <<cache, load>> /\ cache[request[r].inst] # NoSnap
        /\ \A q \in Requests : request'[q].snap = request[q].snap
                               \/ request'[q].snap = cache[request[r].inst].snap
    BY <1>6 DEF CacheHit, Fresh, RequestRec
  <2>3. QED BY <1>1, <1>2, <2>1, <2>2
<1>7. ASSUME \A i \in Instances : cache'[i] = cache[i] \/ cache'[i] = NoSnap,
             \A q \in Requests : load'[q].snap = NoSnap \/ load'[q].snap = load[q].snap,
             \A q \in Requests : request'[q].snap = NoSnap \/ request'[q].snap = request[q].snap
      PROVE  s \in Held
  BY <1>1, <1>2, <1>7
<1>8. ASSUME NEW r \in Requests, StartLoad(r) PROVE s \in Held
  <2>1. \A q \in Requests : load'[q].snap = NoSnap \/ load'[q].snap = load[q].snap
    BY <1>8 DEF StartLoad
  <2>2. \A q \in Requests : request'[q].snap = request[q].snap
    BY <1>8 DEF StartLoad, RequestRec
  <2>3. cache' = cache BY <1>8 DEF StartLoad
  <2>4. QED BY <1>7, <2>1, <2>2, <2>3
<1>9. ASSUME NEW r \in Requests,
             \/ \E i \in Instances, u \in Users, e \in 0 .. MaxWrites : Start(r, i, u, e)
             \/ JoinLoad(r) \/ Judge(r) \/ Confirm(r) \/ ConfirmFails(r) \/ Finish(r)
      PROVE  s \in Held
  <2>1. UNCHANGED <<load, cache>>
    BY <1>9 DEF Start, JoinLoad, Judge, Confirm, ConfirmFails, Finish
  <2>2. \A q \in Requests : request'[q].snap = NoSnap \/ request'[q].snap = request[q].snap
    <3>1. request[r] \in RequestRec OBVIOUS
    <3>2. \A q \in Requests : q # r => request'[q] = request[q]
      BY <1>9 DEF Start, JoinLoad, Judge, Confirm, ConfirmFails, Finish
    <3>3. CASE \E i \in Instances, u \in Users, e \in 0 .. MaxWrites : Start(r, i, u, e)
      <4>1. request'[r].snap = NoSnap BY <3>3 DEF Start, IdleRequest
      <4>2. QED BY <3>2, <4>1
    <3>4. CASE Judge(r) \/ Finish(r)
      <4>1. request'[r].snap = NoSnap BY <3>1, <3>4 DEF Judge, Finish, IdleRequest, RequestRec
      <4>2. QED BY <3>2, <4>1
    <3>5. CASE JoinLoad(r) \/ Confirm(r) \/ ConfirmFails(r)
      <4>1. request'[r].snap = request[r].snap
        BY <3>1, <3>5 DEF JoinLoad, Confirm, ConfirmFails, RequestRec
      <4>2. QED BY <3>2, <4>1
    <3>6. QED BY <1>9, <3>3, <3>4, <3>5
  <2>3. QED BY <1>7, <2>1, <2>2
<1>10. ASSUME NEW r \in Requests, FailRead(r) PROVE s \in Held
  <2>1. \A q \in Requests : load'[q].snap = load[q].snap BY <1>10 DEF FailRead, LoadRec
  <2>2. UNCHANGED <<request, cache>> BY <1>10 DEF FailRead
  <2>3. QED BY <1>7, <2>1, <2>2
<1>11. ASSUME UNCHANGED <<load, request>>,
              \A i \in Instances : cache'[i] = cache[i] \/ cache'[i] = NoSnap
       PROVE  s \in Held
  BY <1>7, <1>11
<1>12. ASSUME NEW w \in Writers, Invalidate(w) PROVE s \in Held
  <2>1. UNCHANGED <<load, request>>
        /\ \A i \in Instances : cache'[i] = cache[i] \/ cache'[i] = NoSnap
    BY <1>12 DEF Invalidate
  <2>2. QED BY <1>11, <2>1
<1>13. ASSUME UNCHANGED <<load, request, cache>> PROVE s \in Held
  BY <1>11, <1>13
<1>14. QED
  BY <1>3, <1>4, <1>5, <1>6, <1>8, <1>9, <1>10, <1>12, <1>13
  DEF Next, RequestStep, LoadStep, WriterStep, vars, Commit, Create, Wipe, Tick

LEMMA HeldType == ASSUME TypeInv PROVE Held \subseteq Snapshot
BY DEF TypeInv, TypeOK, Held, LoadRec, RequestRec, CacheEntry

LEMMA SnapInit == Init => SnapInv
<1> SUFFICES ASSUME Init PROVE Held = {}
  BY DEF SnapInv
<1>1. QED BY DEF Init, Held, NoLoadRec, IdleRequest

LEMMA SnapStep == TypeInv /\ RowInv /\ SnapInv /\ [Next]_vars => SnapInv'
<1> SUFFICES ASSUME TypeInv, RowInv, SnapInv, [Next]_vars,
                    NEW s \in Held', NEW u \in Users
             PROVE  /\ s.ver <= version' /\ s.readAt <= now'
                    /\ Marked(s.rows[u]) /\ Follows(users'[u], s.rows[u])
                    /\ users'[u].rev <= s.ver \/ users'[u].changedAt < s.readAt
                       => s.rows[u] = users'[u]
  BY DEF SnapInv
<1>1. CASE s = [rows |-> users, ver |-> version, readAt |-> now]
           /\ UNCHANGED <<users, version, now>>
  BY <1>1 DEF TypeInv, TypeOK, RowInv, Follows
<1>2. CASE s \in Held
  <2>1. /\ s.ver <= version /\ s.readAt <= now
        /\ Marked(s.rows[u]) /\ Follows(users[u], s.rows[u])
        /\ users[u].rev <= s.ver \/ users[u].changedAt < s.readAt => s.rows[u] = users[u]
    BY <1>2 DEF SnapInv
  <2>2. s \in Snapshot BY <1>2, HeldType
  <2>3. /\ users[u].rev \in Nat /\ users[u].changedAt \in Nat /\ version \in Nat
        /\ now \in Nat /\ s.ver \in Nat /\ s.readAt \in Nat /\ s.rows[u].rev \in Nat
    BY <2>2 DEF TypeInv, TypeOK, Rows, Row, Snapshot
  <2>4. s.ver <= version' /\ s.readAt <= now' BY RowsStep, <2>1, <2>3
  <2>5. CASE users'[u] = users[u] BY <2>1, <2>4, <2>5
  <2>6. CASE Changes(u)
    <3>1. users[u].rev <= version BY DEF RowInv
    <3>2. users'[u].rev = version + 1 /\ users'[u].changedAt = now
      BY <2>6 DEF Changes
    <3>3. Follows(users'[u], s.rows[u])
      BY <2>1, <2>3, <2>6, <3>1, <3>2 DEF Follows, Changes
    <3>4. QED BY <2>1, <2>3, <2>4, <3>2, <3>3
  <2>7. QED BY <2>5, <2>6, RowsStep
<1>3. QED BY <1>1, <1>2, HeldStep

Active(r) == request[r].pc # "idle"
Asked(r) == users[request[r].user]

\* Times: a load is answered within Latency, and a request began in the past about
\* an account that has existed.
TimeInv ==
  /\ \A r \in Requests :
       /\ Pending(r) => load[r].issued <= now /\ now <= load[r].issued + Latency
       /\ load[r].snap # NoSnap => /\ load[r].pc \in {"read", "published"}
                                   /\ load[r].issued <= load[r].snap.readAt
       /\ Active(r) => /\ request[r].began <= now
                       /\ Asked(r).present \/ Asked(r).rev > 0
  /\ \A i \in Instances : cache[i] # NoSnap => cache[i].at <= cache[i].snap.readAt + Latency

\* Nothing a request knew of when it began is undone in its instance.
TellInv ==
  "wipe" \notin Ops =>
    /\ FreshInv
    /\ \A r \in Requests : Active(r) => request[r].floor <= told[request[r].inst]

\* The row has not changed since a moment whose state the request is bound to see:
\* its instance was told, or the change is old.
Current(r) ==
  \/ "wipe" \notin Ops /\ Asked(r).rev <= request[r].floor
  \/ TTL > 0 /\ request[r].began >= Asked(r).changedAt + TTL + Latency

\* The snapshot a request was handed, or is about to be.
Uses(r, s) ==
  \/ s = request[r].snap
  \/ request[r].wait # NoLoad /\ s = load[request[r].wait].snap

\* A snapshot is good for whoever uses it.
UsesInv ==
  \A r \in Requests, s \in Held : Active(r) /\ Uses(r, s) =>
    /\ "wipe" \notin Ops => s.ver >= request[r].floor
    /\ Current(r) => s.rows[request[r].user] = Asked(r)

\* What the checks passed so far have established of the row.
Established(r) ==
  LET row == Asked(r) IN
  /\ request[r].pc \in {"isUserDeleted", "confirm"} => ~(row.present /\ row.disabled)
  /\ request[r].pc = "isSessionEpochStale" => row.present /\ ~row.disabled
  /\ request[r].pc = "accepted" => Live(row, request[r].epoch)
  /\ request[r].pc = "refused" => ~Live(row, request[r].epoch)

VerdictInv ==
  \A r \in Requests : Active(r) /\ Current(r) /\ ~request[r].open => Established(r)

\* A session dead for good when its request began is dead in the row, and in every
\* snapshot young enough to be used; it passes only if the account is gone.
DoomInv ==
  \A r \in Requests : Active(r) /\ request[r].doomed =>
    /\ DeadForGood(Asked(r), request[r].epoch)
    /\ \A s \in Held : s.ver >= request[r].floor =>
         LET row == s.rows[request[r].user] IN
         DeadForGood(row, request[r].epoch) /\ (row.present \/ row.rev > 0)
    /\ request[r].pc = "accepted" /\ ~request[r].open => ~Asked(r).present

\* The request keeps what it was sent with.
Keeps(r) ==
  /\ Active(r)
  /\ request'[r].user = request[r].user /\ request'[r].inst = request[r].inst
  /\ request'[r].epoch = request[r].epoch /\ request'[r].floor = request[r].floor
  /\ request'[r].began = request[r].began /\ request'[r].doomed = request[r].doomed

\* A guard begins.
Begins(r) ==
  /\ ~Active(r) /\ UNCHANGED <<users, version, told, load, cache, now>>
  /\ request'[r].pc = "isUserDisabled" /\ ~request'[r].open
  /\ request'[r].wait = NoLoad /\ request'[r].snap = NoSnap
  /\ request'[r].began = now /\ request'[r].inst \in Instances
  /\ request'[r].floor = told[request'[r].inst]
  /\ request'[r].user \in Users
  /\ LET row == users[request'[r].user] IN
     /\ row.present \/ row.rev > 0
     /\ request'[r].doomed =>
          row.rev <= request'[r].floor /\ DeadForGood(row, request'[r].epoch)

\* It is handed a snapshot, starts or joins a load, or an error lets it pass.
Fetches(r) ==
  /\ UNCHANGED <<users, version, told, cache, now>>
  /\ \/ CacheHit(r) \/ JoinLoad(r) \/ StartLoad(r)
     \/ \E l \in Requests : Settle(l) /\ Awaits(r, l)
  /\ \/ request'[r].open /\ request'[r].pc # "refused"
     \/ request'[r].open = request[r].open /\ request'[r].pc = request[r].pc

\* It judges the snapshot it was handed.
Judges(r) ==
  /\ UNCHANGED <<users, version, told, load, cache, now>>
  /\ request[r].pc \in Checks /\ request[r].snap # NoSnap
  /\ request'[r].pc = Judgement(request[r].pc,
       Visible(request[r].snap.rows[request[r].user]), request[r].epoch)
  /\ request'[r].open = request[r].open
  /\ request'[r].wait = request[r].wait /\ request'[r].snap = NoSnap

\* It asks for the row by its key.
Confirms(r) ==
  /\ UNCHANGED <<users, version, told, load, cache, now>>
  /\ request[r].pc = "confirm"
  /\ request'[r].wait = request[r].wait /\ request'[r].snap = request[r].snap
  /\ \/ /\ request'[r].open = request[r].open
        /\ request'[r].pc = IF Asked(r).present THEN "isSessionEpochStale" ELSE "refused"
     \/ request'[r].open /\ request'[r].pc = "isSessionEpochStale"

\* What a step may do to a request.
LEMMA RequestMoves ==
  ASSUME TypeInv, WaitInv, [Next]_vars, NEW r \in Requests, Active(r)'
  PROVE  \/ Begins(r)
         \/ Keeps(r) /\ request'[r] = request[r]
         \/ Keeps(r) /\ Fetches(r)
         \/ Keeps(r) /\ Judges(r)
         \/ Keeps(r) /\ Confirms(r)
<1> USE DEF TypeInv, TypeOK
<1> DEFINE Goal == \/ Begins(r)
                   \/ Keeps(r) /\ request'[r] = request[r]
                   \/ Keeps(r) /\ Fetches(r)
                   \/ Keeps(r) /\ Judges(r)
                   \/ Keeps(r) /\ Confirms(r)
<1>0. request[r] \in RequestRec OBVIOUS
<1>1. CASE request'[r] = request[r] BY <1>1 DEF Keeps, Active
<1>2. ASSUME NEW i \in Instances, NEW u \in Users, NEW e \in 0 .. MaxWrites,
             Start(r, i, u, e)
      PROVE  Goal
  <2>1. request'[r] = [IdleRequest EXCEPT !.pc = "isUserDisabled", !.inst = i,
          !.user = u, !.epoch = e, !.floor = told[i], !.began = now,
          !.doomed = users[u].rev <= told[i] /\ DeadForGood(users[u], e)]
    BY <1>2 DEF Start
  <2>2. /\ request'[r].pc = "isUserDisabled" /\ ~request'[r].open
        /\ request'[r].wait = NoLoad /\ request'[r].snap = NoSnap
        /\ request'[r].began = now /\ request'[r].inst = i
        /\ request'[r].floor = told[i] /\ request'[r].user = u /\ request'[r].epoch = e
        /\ request'[r].doomed <=> users[u].rev <= told[i] /\ DeadForGood(users[u], e)
    BY <2>1 DEF IdleRequest
  <2>3. QED BY <1>2, <2>2 DEF Start, Begins, Active
<1>3. ASSUME CacheHit(r) \/ JoinLoad(r) \/ StartLoad(r) PROVE Goal
  <2>1. /\ UNCHANGED <<users, version, told, cache, now>> /\ request[r].pc \in Checks
        /\ request'[r].open = request[r].open /\ request'[r].pc = request[r].pc
    BY <1>0, <1>3 DEF CacheHit, JoinLoad, StartLoad, Asking, RequestRec
  <2>2. Keeps(r)
    BY <1>0, <1>3, <2>1 DEF CacheHit, JoinLoad, StartLoad, RequestRec, Keeps, Active, Checks
  <2>3. QED BY <1>3, <2>1, <2>2 DEF Fetches
<1>4. ASSUME Judge(r) PROVE Goal
  <2>1. Keeps(r) BY <1>0, <1>4 DEF Judge, RequestRec, Keeps, Active, Checks
  <2>2. Judges(r) BY <1>0, <1>4 DEF Judge, RequestRec, Judges
  <2>3. QED BY <2>1, <2>2
<1>5. ASSUME Confirm(r) \/ ConfirmFails(r) PROVE Goal
  <2>1. Keeps(r) BY <1>0, <1>5 DEF Confirm, ConfirmFails, RequestRec, Keeps, Active
  <2>2. Confirms(r) BY <1>0, <1>5 DEF Confirm, ConfirmFails, RequestRec, Confirms, Asked
  <2>3. QED BY <2>1, <2>2
<1>6. ASSUME Finish(r) PROVE FALSE
  BY <1>6 DEF Finish, IdleRequest, Active
<1>7. ASSUME NEW l \in Requests, Settle(l), request'[r] # request[r] PROVE Goal
  <2>1. /\ Awaits(r, l) /\ UNCHANGED <<users, version, told, cache, now>>
        /\ \/ request'[r] = FailOpen(request[r])
           \/ request'[r] = [request[r] EXCEPT !.wait = NoLoad, !.snap = load[l].snap]
    BY <1>7 DEF Settle
  <2>2. request[r].pc \in Checks
    BY <2>1, DistinctAssumption DEF WaitInv, Awaits
  <2>3. CASE request'[r] = FailOpen(request[r])
    BY <1>0, <1>7, <2>1, <2>2, <2>3
    DEF FailOpen, NextCheck, RequestRec, Keeps, Fetches, Active, Checks
  <2>4. CASE request'[r] = [request[r] EXCEPT !.wait = NoLoad, !.snap = load[l].snap]
    BY <1>0, <1>7, <2>1, <2>2, <2>4
    DEF RequestRec, Keeps, Fetches, Active, Checks
  <2>5. QED BY <2>1, <2>3, <2>4
<1>8. ASSUME NEW q \in Requests, RequestStep(q) PROVE Goal
  <2>1. CASE q # r
    <3>1. request'[r] = request[r]
      BY <1>8, <2>1 DEF RequestStep, Start, CacheHit, JoinLoad, StartLoad, Judge,
                        Confirm, ConfirmFails, Finish
    <3>2. QED BY <1>1, <3>1
  <2>2. CASE q = r
    BY <1>2, <1>3, <1>4, <1>5, <1>6, <1>8, <2>2 DEF RequestStep
  <2>3. QED BY <2>1, <2>2
<1>9. ASSUME NEW q \in Requests, LoadStep(q) PROVE Goal
  <2>1. CASE Settle(q) BY <1>1, <1>7, <2>1
  <2>2. CASE ReadRows(q) \/ FailRead(q) \/ Publish(q)
    BY <1>1, <2>2 DEF ReadRows, FailRead, Publish
  <2>3. QED BY <1>9, <2>1, <2>2 DEF LoadStep
<1>10. ASSUME UNCHANGED request PROVE Goal
  BY <1>1, <1>10
<1>11. QED
  BY <1>8, <1>9, <1>10
  DEF Next, WriterStep, vars, Commit, Invalidate, Create, Wipe, Tick

\* What a step may do to a load.
LEMMA LoadMoves ==
  ASSUME TypeInv, [Next]_vars, NEW l \in Requests
  PROVE  \/ load'[l] = load[l]
         \/ StartLoad(l) \/ ReadRows(l) \/ FailRead(l) \/ Publish(l) \/ Settle(l)
<1> USE DEF TypeInv, TypeOK
<1>1. ASSUME NEW q \in Requests, RequestStep(q)
      PROVE  load'[l] = load[l] \/ StartLoad(l)
  BY <1>1 DEF RequestStep, Start, CacheHit, JoinLoad, StartLoad, Judge, Confirm,
              ConfirmFails, Finish
<1>2. ASSUME NEW q \in Requests, LoadStep(q)
      PROVE  load'[l] = load[l] \/ ReadRows(l) \/ FailRead(l) \/ Publish(l) \/ Settle(l)
  <2>1. CASE q = l BY <1>2, <2>1 DEF LoadStep
  <2>2. CASE q # l BY <1>2, <2>2 DEF LoadStep, ReadRows, FailRead, Publish, Settle
  <2>3. QED BY <2>1, <2>2
<1>3. QED
  BY <1>1, <1>2 DEF Next, WriterStep, vars, Commit, Invalidate, Create, Wipe, Tick

LEMMA TimeInit == Init => TimeInv
<1> SUFFICES ASSUME Init PROVE TimeInv
  OBVIOUS
<1>1. \A r \in Requests : /\ ~Pending(r) /\ ~Active(r) /\ load[r].snap = NoSnap
  BY DEF Init, Pending, Active, NoLoadRec, IdleRequest
<1>2. \A i \in Instances : cache[i] = NoSnap BY DEF Init
<1>3. QED BY <1>1, <1>2 DEF TimeInv

LEMMA TimeStep ==
  ASSUME TypeInv, WaitInv, TimeInv, [Next]_vars PROVE TimeInv'
<1> USE DEF TypeInv, TypeOK
<1>0. /\ now \in Nat /\ Latency \in Nat
      /\ now' = now \/ (Tick /\ now' = now + 1)
      /\ \A r \in Requests : load[r].issued \in Nat
                             /\ (load[r].snap # NoSnap => load[r].snap.readAt \in Nat)
      /\ \A i \in Instances : cache[i] # NoSnap => cache[i].at \in Nat
                                                   /\ cache[i].snap.readAt \in Nat
      /\ \A r \in Requests : request[r].began \in Nat
  <2>1. \A r \in Requests : load[r] \in LoadRec /\ request[r] \in RequestRec OBVIOUS
  <2>2. \A i \in Instances : cache[i] # NoSnap => cache[i] \in CacheEntry OBVIOUS
  <2>3. now' = now \/ (Tick /\ now' = now + 1)
    BY DEF Next, RequestStep, LoadStep, WriterStep, vars, Start, CacheHit, JoinLoad,
      StartLoad, Judge, Confirm, ConfirmFails, Finish, ReadRows, FailRead, Publish,
      Settle, Commit, Invalidate, Create, Wipe, Tick
  <2>4. QED BY <2>1, <2>2, <2>3, ParamAssumption DEF LoadRec, RequestRec, CacheEntry, Snapshot
<1>1. ASSUME NEW r \in Requests
      PROVE  /\ Pending(r)' => load'[r].issued <= now' /\ now' <= load'[r].issued + Latency
             /\ load'[r].snap # NoSnap => /\ load'[r].pc \in {"read", "published"}
                                          /\ load'[r].issued <= load'[r].snap.readAt
  <2>1. CASE load'[r] = load[r]
    <3>1. CASE now' = now BY <2>1, <3>1 DEF TimeInv, Pending
    <3>2. CASE Tick /\ now' = now + 1
      BY <1>0, <2>1, <3>2 DEF TimeInv, Pending, Tick
    <3>3. QED BY <1>0, <3>1, <3>2
  <2>2. CASE StartLoad(r)
    BY <1>0, <2>2 DEF StartLoad
  <2>3. CASE ReadRows(r)
    <3>1. load'[r] = [load[r] EXCEPT !.pc = "read",
                        !.snap = [rows |-> users, ver |-> version, readAt |-> now]]
      BY <2>3 DEF ReadRows
    <3>2. load[r] \in LoadRec /\ now' = now /\ Pending(r) BY <2>3 DEF ReadRows, Pending
    <3>3. /\ load'[r].pc = "read" /\ load'[r].issued = load[r].issued
          /\ load'[r].snap.readAt = now
      BY <3>1, <3>2 DEF LoadRec
    <3>4. QED BY <3>2, <3>3 DEF TimeInv
  <2>4. CASE FailRead(r) \/ Publish(r)
    <3>1. load[r] \in LoadRec /\ now' = now /\ Pending(r)
      BY <2>4 DEF FailRead, Publish, Pending
    <3>2. /\ load'[r].issued = load[r].issued /\ load'[r].snap = load[r].snap
          /\ \/ load[r].pc = "issued"
             \/ load[r].pc = "read" /\ load'[r].pc = "published"
      BY <2>4, <3>1 DEF FailRead, Publish, LoadRec
    <3>3. QED BY <3>1, <3>2 DEF TimeInv
  <2>5. CASE Settle(r) BY <2>5 DEF Settle, NoLoadRec, Pending
  <2>6. QED BY <2>1, <2>2, <2>3, <2>4, <2>5, LoadMoves
<1>2. ASSUME NEW r \in Requests, Active(r)'
      PROVE  request'[r].began <= now' /\ (Asked(r)'.present \/ Asked(r)'.rev > 0)
  <2>1. CASE Begins(r) BY <1>0, <2>1 DEF Begins, Asked
  <2>2. CASE Keeps(r)
    <3>1. request'[r].began <= now' BY <1>0, <2>2 DEF TimeInv, Keeps
    <3>2. request[r].user \in Users /\ request'[r].user = request[r].user
      BY <2>2 DEF Keeps, RequestRec
    <3>3. users'[request[r].user] = users[request[r].user]
          \/ users'[request[r].user].rev = version + 1
      BY <3>2, RowsStep DEF Changes
    <3>4. QED BY <2>2, <3>1, <3>2, <3>3 DEF TimeInv, Keeps, Asked
  <2>3. QED BY <1>2, <2>1, <2>2, RequestMoves
<1>3. ASSUME NEW i \in Instances, cache'[i] # NoSnap
      PROVE  cache'[i].at <= cache'[i].snap.readAt + Latency
  <2>1. CASE cache'[i] = cache[i] BY <1>3, <2>1 DEF TimeInv
  <2>2. ASSUME NEW r \in Requests, Publish(r), cache'[i] # cache[i]
        PROVE  cache'[i].at <= cache'[i].snap.readAt + Latency
    <3>1. cache'[i] = [snap |-> load[r].snap, at |-> now] BY <2>2 DEF Publish
    <3>2. Pending(r) /\ load[r].snap # NoSnap BY <2>2 DEF Publish, Pending, Answered
    <3>3. QED BY <1>0, <3>1, <3>2 DEF TimeInv
  <2>3. (\E r \in Requests : Publish(r)) \/ cache'[i] = cache[i] \/ cache'[i] = NoSnap
    BY DEF Next, RequestStep, LoadStep, WriterStep, vars, Start, CacheHit, JoinLoad,
      StartLoad, Judge, Confirm, ConfirmFails, Finish, ReadRows, FailRead, Publish,
      Settle, Commit, Invalidate, Create, Wipe, Tick
  <2>4. QED BY <1>3, <2>1, <2>2, <2>3
<1>4. QED BY <1>1, <1>2, <1>3 DEF TimeInv

LEMMA TellInit == Init => TellInv
<1> SUFFICES ASSUME Init PROVE TellInv
  OBVIOUS
<1>1. \A r \in Requests : ~Active(r) BY DEF Init, Active, IdleRequest
<1>2. QED BY <1>1, FreshInit DEF TellInv

LEMMA TellStep ==
  ASSUME TypeInv, WaitInv, SlotInv, TellInv, [Next]_vars PROVE TellInv'
<1> SUFFICES ASSUME "wipe" \notin Ops
             PROVE  FreshInv' /\ \A r \in Requests : Active(r)' =>
                      request'[r].floor <= told'[request'[r].inst]
  BY DEF TellInv
<1> USE DEF TypeInv, TypeOK
<1>1. FreshInv /\ FreshInv' BY FreshStep DEF TellInv
<1>2. ASSUME NEW i \in Instances
      PROVE  told'[i] \in Nat /\ told'[i] >= told[i]
  <2>1. told[i] \in Nat /\ told[i] <= version /\ version \in Nat BY <1>1 DEF FreshInv
  <2>2. told'[i] = told[i] \/ told'[i] = version \/ told'[i] = version + 1
    BY DEF Next, RequestStep, LoadStep, WriterStep, vars, Start, CacheHit, JoinLoad,
      StartLoad, Judge, Confirm, ConfirmFails, Finish, ReadRows, FailRead, Publish,
      Settle, Commit, Invalidate, Create, Wipe, Tick
  <2>3. QED BY <2>1, <2>2
<1>3. ASSUME NEW r \in Requests, Active(r)'
      PROVE  request'[r].floor <= told'[request'[r].inst]
  <2>1. request[r] \in RequestRec OBVIOUS
  <2>2. CASE Begins(r) BY <2>2, <1>2 DEF Begins
  <2>3. CASE Keeps(r)
    <3>1. /\ request[r].floor <= told[request[r].inst] /\ request[r].floor \in Nat
          /\ request[r].inst \in Instances /\ told[request[r].inst] \in Nat
      BY <2>1, <2>3 DEF TellInv, Keeps, RequestRec
    <3>2. QED BY <1>2, <2>3, <3>1 DEF Keeps
  <2>4. QED BY <1>3, <2>2, <2>3, RequestMoves
<1>4. QED BY <1>1, <1>3
-----------------------------------------------------------------------------
\* A row that has not changed since the moment a request is bound to see has not
\* changed in the step either.
LEMMA CurrentStep ==
  ASSUME TypeInv, RowInv, TimeInv, TellInv, [Next]_vars,
         NEW r \in Requests, Keeps(r), Current(r)'
  PROVE  Current(r) /\ Asked(r)' = Asked(r)
<1> USE ParamAssumption DEF TypeInv, TypeOK
<1>1. request[r] \in RequestRec OBVIOUS
<1> DEFINE u == request[r].user
<1>2. /\ u \in Users /\ request[r].floor \in Nat /\ request[r].began \in Nat
      /\ request'[r].user = u
  BY <1>1 DEF RequestRec, Keeps
<1>3. users'[u] = users[u] \/ Changes(u) BY <1>2, RowsStep
<1>4. ASSUME Changes(u) PROVE FALSE
  <2>1. users'[u].rev = version + 1 /\ users'[u].changedAt = now
    BY <1>4 DEF Changes
  <2>2. request[r].began <= now BY DEF TimeInv, Keeps
  <2>3. "wipe" \notin Ops => request[r].floor <= version
    <3>1. request[r].inst \in Instances BY <1>1 DEF RequestRec
    <3>2. "wipe" \notin Ops => /\ request[r].floor <= told[request[r].inst]
                               /\ told[request[r].inst] <= version
      BY <3>1 DEF TellInv, FreshInv, Keeps
    <3>3. QED BY <1>2, <3>1, <3>2
  <2>4. QED BY <1>2, <2>1, <2>2, <2>3 DEF Current, Asked, Keeps
<1>5. QED BY <1>2, <1>3, <1>4 DEF Current, Asked, Keeps

LEMMA UsesInit == Init => UsesInv
<1> SUFFICES ASSUME Init PROVE \A r \in Requests : ~Active(r)
  BY DEF UsesInv
<1>1. QED BY DEF Init, Active, IdleRequest

\* A snapshot just fetched from the cache is young enough.
LEMMA HitIsGood ==
  ASSUME TypeInv, SnapInv, TimeInv, TellInv, NEW r \in Requests, CacheHit(r)
  PROVE  LET s == cache[request[r].inst].snap IN
         /\ "wipe" \notin Ops => s.ver >= request[r].floor
         /\ Current(r) => s.rows[request[r].user] = Asked(r)
<1> USE ParamAssumption DEF TypeInv, TypeOK
<1> DEFINE i == request[r].inst
           u == request[r].user
           s == cache[i].snap
<1>1. /\ request[r] \in RequestRec /\ Active(r)
      /\ cache[i] # NoSnap /\ now - cache[i].at < TTL
  BY DEF CacheHit, Asking, Fresh, Active, Checks
<1>2. /\ i \in Instances /\ u \in Users /\ request[r].floor \in Nat
      /\ request[r].began \in Nat
  BY <1>1 DEF RequestRec
<1>3. cache[i] \in CacheEntry BY <1>1, <1>2
<1>4. cache[i].at \in Nat /\ s \in Snapshot BY <1>3 DEF CacheEntry
<1>5. s.ver \in Nat /\ s.readAt \in Nat BY <1>4 DEF Snapshot
<1>6. s \in Held
  <2>1. s # NoSnap BY <1>4, DistinctAssumption
  <2>2. QED BY <1>1, <1>2, <2>1 DEF Held
<1>7. users[u].rev \in Nat /\ users[u].changedAt \in Nat BY <1>2 DEF Rows, Row
<1>8. "wipe" \notin Ops => s.ver >= request[r].floor
  <2>1. "wipe" \notin Ops => s.ver >= told[i] /\ told[i] >= request[r].floor
    BY <1>1, <1>2 DEF TellInv, FreshInv, CacheNotSuperseded
  <2>2. QED BY <1>2, <1>5, <2>1
<1>9. ASSUME TTL > 0, request[r].began >= users[u].changedAt + TTL + Latency
      PROVE  users[u].changedAt < s.readAt
  <2>1. cache[i].at <= s.readAt + Latency /\ request[r].began <= now
    BY <1>1, <1>2 DEF TimeInv
  <2>2. QED BY <1>1, <1>2, <1>4, <1>5, <1>7, <1>9, <2>1
<1>10. Current(r) => users[u].rev <= s.ver \/ users[u].changedAt < s.readAt
  BY <1>2, <1>5, <1>7, <1>8, <1>9 DEF Current, Asked
<1>11. QED BY <1>2, <1>6, <1>8, <1>10 DEF SnapInv, Asked

\* So is the snapshot of the load a request joins, if it has been read.
LEMMA JoinIsGood ==
  ASSUME TypeInv, SlotInv, SnapInv, TimeInv, TellInv, NEW r \in Requests, JoinLoad(r),
         load[inflight[request[r].inst]].snap # NoSnap
  PROVE  LET s == load[inflight[request[r].inst]].snap IN
         /\ "wipe" \notin Ops => s.ver >= request[r].floor
         /\ Current(r) => s.rows[request[r].user] = Asked(r)
<1> USE ParamAssumption DEF TypeInv, TypeOK
<1> DEFINE i == request[r].inst
           u == request[r].user
           l == inflight[i]
           s == load[l].snap
<1>1. request[r] \in RequestRec /\ Active(r) /\ l # NoLoad
  BY DEF JoinLoad, Asking, Active, Checks
<1>2. /\ i \in Instances /\ u \in Users /\ request[r].floor \in Nat
      /\ request[r].began \in Nat /\ l \in Requests
  BY <1>1 DEF RequestRec
<1>3. Pending(l) /\ load[l].inst = i /\ MayPublish(l)
  BY <1>1, <1>2 DEF SlotInv, GenerationIsOwnership, MayPublish
<1>4. load[l] \in LoadRec BY <1>2
<1>5. load[l].issued \in Nat /\ s \in Snapshot BY <1>4 DEF LoadRec
<1>6. s.ver \in Nat /\ s.readAt \in Nat BY <1>5 DEF Snapshot
<1>7. s \in Held BY <1>2 DEF Held
<1>8. users[u].rev \in Nat /\ users[u].changedAt \in Nat BY <1>2 DEF Rows, Row
<1>9. "wipe" \notin Ops => s.ver >= request[r].floor
  <2>1. load[l].pc \in {"read", "published"} BY <1>2 DEF TimeInv
  <2>2. "wipe" \notin Ops => s.ver >= told[i] /\ told[i] >= request[r].floor
    BY <1>1, <1>2, <1>3, <2>1 DEF TellInv, FreshInv
  <2>3. QED BY <1>2, <1>6, <2>2
<1>10. ASSUME TTL > 0, request[r].began >= users[u].changedAt + TTL + Latency
       PROVE  users[u].changedAt < s.readAt
  <2>1. /\ now <= load[l].issued + Latency /\ load[l].issued <= s.readAt
        /\ request[r].began <= now
    BY <1>1, <1>2, <1>3 DEF TimeInv
  <2>2. QED BY <1>2, <1>5, <1>6, <1>8, <1>10, <2>1
<1>11. Current(r) => users[u].rev <= s.ver \/ users[u].changedAt < s.readAt
  BY <1>2, <1>6, <1>8, <1>9, <1>10 DEF Current, Asked
<1>12. QED BY <1>2, <1>7, <1>9, <1>11 DEF SnapInv, Asked

\* Where the snapshot a request uses comes from.
LEMMA UsesMoves ==
  ASSUME TypeInv, WaitInv, TimeInv, [Next]_vars,
         NEW r \in Requests, NEW s, s # NoSnap, Active(r)', Uses(r, s)'
  PROVE  \/ Keeps(r) /\ s \in Held /\ Uses(r, s)
         \/ Keeps(r) /\ CacheHit(r) /\ s = cache[request[r].inst].snap
         \/ Keeps(r) /\ JoinLoad(r) /\ s = load[inflight[request[r].inst]].snap
         \/ /\ Keeps(r) /\ UNCHANGED <<users, version, now>>
            /\ s = [rows |-> users, ver |-> version, readAt |-> now]
<1> USE DEF TypeInv, TypeOK
<1> DEFINE Read == [rows |-> users, ver |-> version, readAt |-> now]
<1>1. request[r] \in RequestRec OBVIOUS
<1>2. ASSUME s = request[r].snap \/ (request[r].wait \in Requests
                                    /\ s = load[request[r].wait].snap)
      PROVE  s \in Held /\ Uses(r, s)
  BY <1>1, <1>2, DistinctAssumption DEF Held, Uses, RequestRec
<1>3. ~Begins(r) BY DEF Begins, Uses
<1>4. CASE Keeps(r) /\ request'[r].wait = request[r].wait
           /\ (request'[r].snap = NoSnap \/ request'[r].snap = request[r].snap)
  <2>1. CASE s = request'[r].snap BY <1>2, <1>4, <2>1
  <2>2. CASE s # request'[r].snap
    <3> DEFINE l == request[r].wait
    <3>1. l \in Requests /\ s = load'[l].snap
      BY <1>1, <1>4, <2>2 DEF Uses, RequestRec
    <3>2. CASE load'[l].snap = load[l].snap BY <1>2, <1>4, <3>1, <3>2
    <3>3. CASE ReadRows(l)
      <4>1. load[l] \in LoadRec BY <3>1
      <4>2. load'[l].snap = Read BY <3>1, <3>3, <4>1 DEF ReadRows, LoadRec
      <4>3. QED BY <1>4, <3>1, <3>3, <4>2 DEF ReadRows
    <3>4. CASE StartLoad(l) \/ Settle(l)
      <4>1. StartLoad(l) => load'[l].snap = NoSnap BY <3>1 DEF StartLoad
      <4>2. Settle(l) => load'[l].snap = NoSnap
        <5>1. Settle(l) => load' = [load EXCEPT ![l] = NoLoadRec] BY Zenon DEF Settle
        <5>2. NoLoadRec.snap = NoSnap BY DEF NoLoadRec
        <5>3. QED BY <3>1, <5>1, <5>2
      <4>3. QED BY <3>1, <3>4, <4>1, <4>2
    <3>5. CASE FailRead(l) \/ Publish(l)
      <4>1. load[l] \in LoadRec BY <3>1
      <4>2. load'[l].snap = load[l].snap BY <3>1, <3>5, <4>1 DEF FailRead, Publish, LoadRec
      <4>3. QED BY <3>2, <4>2
    <3>6. QED BY <3>1, <3>2, <3>3, <3>4, <3>5, LoadMoves
  <2>3. QED BY <2>1, <2>2
<1>5. CASE Keeps(r) /\ CacheHit(r)
  <2>1. request'[r].snap = cache[request[r].inst].snap /\ request'[r].wait = NoLoad
    BY <1>1, <1>5 DEF CacheHit, Asking, RequestRec
  <2>2. QED BY <1>5, <2>1 DEF Uses
<1>6. CASE Keeps(r) /\ JoinLoad(r)
  <2>1. /\ request'[r].snap = NoSnap /\ request'[r].wait = inflight[request[r].inst]
        /\ load' = load
    BY <1>1, <1>6 DEF JoinLoad, Asking, RequestRec
  <2>2. QED BY <1>6, <2>1 DEF Uses
<1>7. CASE StartLoad(r)
  <2>1. request'[r].snap = NoSnap /\ request'[r].wait = r /\ load'[r].snap = NoSnap
    BY <1>1, <1>7 DEF StartLoad, Asking, RequestRec
  <2>2. QED BY <2>1 DEF Uses
<1>8. ASSUME NEW l \in Requests, Settle(l), Awaits(r, l), Keeps(r)
      PROVE  s \in Held /\ Uses(r, s)
  <2>1. /\ request'[r].wait = NoLoad
        /\ request'[r].snap = request[r].snap \/ request'[r].snap = load[l].snap
    <3>1. \/ request'[r] = FailOpen(request[r])
          \/ request'[r] = [request[r] EXCEPT !.wait = NoLoad, !.snap = load[l].snap]
      BY <1>8 DEF Settle
    <3>2. QED BY <1>1, <3>1 DEF FailOpen, RequestRec
  <2>2. request[r].wait = l BY <1>8 DEF Awaits
  <2>3. QED BY <1>2, <2>1, <2>2 DEF Uses
<1>9. QED
  BY <1>3, <1>4, <1>5, <1>6, <1>7, <1>8, RequestMoves DEF Fetches, Judges, Confirms

LEMMA UsesStep ==
  ASSUME TypeInv, WaitInv, SlotInv, RowInv, SnapInv, TimeInv, TellInv, UsesInv, [Next]_vars
  PROVE  UsesInv'
<1> SUFFICES ASSUME NEW r \in Requests, NEW s \in Held', Active(r)', Uses(r, s)'
             PROVE  /\ "wipe" \notin Ops => s.ver >= request'[r].floor
                    /\ Current(r)' => s.rows[request'[r].user] = Asked(r)'
  BY DEF UsesInv
<1> DEFINE Good == /\ "wipe" \notin Ops => s.ver >= request[r].floor
                   /\ Current(r) => s.rows[request[r].user] = Asked(r)
<1>1. s # NoSnap BY DEF Held
<1>2. ASSUME Keeps(r), Good
      PROVE  /\ "wipe" \notin Ops => s.ver >= request'[r].floor
             /\ Current(r)' => s.rows[request'[r].user] = Asked(r)'
  BY <1>2, CurrentStep DEF Keeps
<1>3. CASE Keeps(r) /\ s \in Held /\ Uses(r, s)
  BY <1>2, <1>3 DEF UsesInv, Keeps
<1>4. CASE Keeps(r) /\ CacheHit(r) /\ s = cache[request[r].inst].snap
  BY <1>2, <1>4, HitIsGood
<1>5. CASE Keeps(r) /\ JoinLoad(r) /\ s = load[inflight[request[r].inst]].snap
  BY <1>1, <1>2, <1>5, JoinIsGood
<1>6. CASE /\ Keeps(r) /\ UNCHANGED <<users, version, now>>
           /\ s = [rows |-> users, ver |-> version, readAt |-> now]
  <2>1. request[r] \in RequestRec /\ request[r].inst \in Instances
    BY DEF TypeInv, TypeOK, RequestRec
  <2>2. "wipe" \notin Ops => /\ told[request[r].inst] <= version
                             /\ request[r].floor <= told[request[r].inst]
    BY <1>6, <2>1 DEF TellInv, FreshInv, Keeps
  <2>3. request[r].floor \in Nat /\ told[request[r].inst] \in Nat /\ version \in Nat
    BY <2>1 DEF TypeInv, TypeOK, RequestRec
  <2>4. QED BY <1>2, <1>6, <2>2, <2>3 DEF Asked
<1>7. QED BY <1>1, <1>3, <1>4, <1>5, <1>6, UsesMoves
-----------------------------------------------------------------------------
LEMMA VerdictInit == Init => VerdictInv /\ DoomInv /\ FreshAccountAdmitted
<1> SUFFICES ASSUME Init
             PROVE  \A r \in Requests : ~Active(r) /\ request[r].pc # "refused"
  BY DEF VerdictInv, DoomInv, FreshAccountAdmitted
<1>1. QED BY DEF Init, Active, IdleRequest

\* What Visible shows of a row.
LEMMA Shown ==
  ASSUME NEW row \in Row
  PROVE  /\ Visible(row).present = row.present
         /\ Visible(row).disabled => row.present /\ row.disabled
         /\ row.present => Visible(row) = row
         /\ ~row.present => Visible(row).epoch = 0
BY DEF Visible, Row

LEMMA VerdictStep ==
  ASSUME TypeInv, WaitInv, RowInv, TimeInv, TellInv, UsesInv, VerdictInv, [Next]_vars
  PROVE  VerdictInv'
<1> SUFFICES ASSUME NEW r \in Requests, Active(r)', Current(r)', ~request'[r].open
             PROVE  Established(r)'
  BY DEF VerdictInv
<1> USE DEF TypeInv, TypeOK
<1>1. request[r] \in RequestRec OBVIOUS
<1>2. CASE Begins(r) BY <1>2 DEF Begins, Established
<1>3. ASSUME Keeps(r) PROVE Current(r) /\ Asked(r)' = Asked(r)
  BY <1>3, CurrentStep
<1>4. ASSUME Keeps(r), request'[r].open = request[r].open, request'[r].pc = request[r].pc
      PROVE  Established(r)'
  BY <1>3, <1>4 DEF VerdictInv, Established, Keeps
<1>5. CASE Keeps(r) /\ Judges(r)
  <2> DEFINE s == request[r].snap
             row == Asked(r)
  <2>1. s \in Held /\ s.rows[request[r].user] = row
    <3>1. s \in Held BY <1>5 DEF Judges, Held
    <3>2. QED BY <1>3, <1>5, <3>1 DEF UsesInv, Uses, Keeps
  <2>2. row \in Row BY <1>1 DEF Asked, Rows, RequestRec
  <2>3. request'[r].pc = Judgement(request[r].pc, Visible(row), request[r].epoch)
    BY <1>5, <2>1 DEF Judges
  <2>4. Established(r) /\ request[r].pc \in Checks
    BY <1>3, <1>5 DEF VerdictInv, Judges, Keeps
  <2>5. request[r].epoch \in Nat /\ request'[r].epoch = request[r].epoch
    BY <1>1, <1>5 DEF RequestRec, Keeps
  <2>6. CASE request[r].pc = "isUserDisabled"
    <3>1. request'[r].pc = IF Visible(row).disabled THEN "refused" ELSE "isUserDeleted"
      BY <2>3, <2>6 DEF Judgement, NextCheck
    <3>2. QED BY <1>3, <1>5, <2>2, <3>1, Shown DEF Established, Live
  <2>7. CASE request[r].pc = "isUserDeleted"
    <3>1. request'[r].pc = IF ~Visible(row).present THEN "confirm" ELSE "isSessionEpochStale"
      BY <2>3, <2>7 DEF Judgement, NextCheck
    <3>2. QED BY <1>3, <1>5, <2>2, <2>4, <2>7, <3>1, Shown DEF Established
  <2>8. CASE request[r].pc = "isSessionEpochStale"
    <3>1. request'[r].pc = IF request[r].epoch < Visible(row).epoch THEN "refused"
                           ELSE "accepted"
      BY <2>3, <2>8 DEF Judgement, NextCheck
    <3>2. row.present /\ ~row.disabled BY <2>4, <2>8 DEF Established
    <3>3. QED BY <1>3, <1>5, <2>2, <2>5, <3>1, <3>2, Shown DEF Established, Live
  <2>9. QED BY <2>4, <2>6, <2>7, <2>8 DEF Checks
<1>6. CASE Keeps(r) /\ Confirms(r)
  <2>1. Established(r) /\ Current(r) BY <1>3, <1>6 DEF VerdictInv, Confirms, Keeps
  <2>2. request'[r].pc = IF Asked(r).present THEN "isSessionEpochStale" ELSE "refused"
    BY <1>6 DEF Confirms
  <2>3. QED BY <1>3, <1>6, <2>1, <2>2 DEF Established, Confirms, Live
<1>7. QED BY <1>1, <1>2, <1>4, <1>5, <1>6, RequestMoves DEF Fetches, Keeps

\* Nothing brings a session back that is dead for good.
LEMMA DeadStep ==
  ASSUME TypeInv, TimeInv, [Next]_vars, NEW r \in Requests, Keeps(r)
  PROVE  /\ Asked(r).present \/ Asked(r).rev > 0
         /\ DeadForGood(Asked(r), request[r].epoch)
            => DeadForGood(Asked(r)', request[r].epoch)
         /\ ~Asked(r).present => Asked(r)' = Asked(r)
         /\ Asked(r)' = Asked(r) \/ Asked(r)'.rev = version + 1
<1> DEFINE u == request[r].user
<1>1. request[r] \in RequestRec BY DEF TypeInv, TypeOK
<1>2. u \in Users /\ request[r].epoch \in Nat /\ Asked(r)' = users'[u]
  BY <1>1 DEF RequestRec, Keeps, Asked
<1>3. Asked(r).present \/ Asked(r).rev > 0 BY DEF TimeInv, Keeps
<1>4. users'[u] = users[u] \/ Changes(u) BY <1>2, RowsStep
<1>5. users[u].rev \in Nat /\ users[u].epoch \in Nat /\ users'[u].epoch \in Nat
  <2>1. users \in Rows /\ users' \in Rows BY TypeStep DEF TypeInv, TypeOK
  <2>2. QED BY <1>2, <2>1 DEF Rows, Row
<1>6. QED BY <1>2, <1>3, <1>4, <1>5 DEF Asked, Changes, DeadForGood

LEMMA DoomStep ==
  ASSUME "wipe" \notin Ops, TypeInv, WaitInv, SnapInv, TimeInv, UsesInv,
         DoomInv, [Next]_vars
  PROVE  DoomInv'
<1> SUFFICES ASSUME NEW r \in Requests, Active(r)', request'[r].doomed
             PROVE  /\ DeadForGood(Asked(r)', request'[r].epoch)
                    /\ \A s \in Held' : s.ver >= request'[r].floor =>
                         LET row == s.rows[request'[r].user] IN
                         DeadForGood(row, request'[r].epoch) /\ (row.present \/ row.rev > 0)
                    /\ request'[r].pc = "accepted" /\ ~request'[r].open
                       => ~Asked(r)'.present
  BY DEF DoomInv
<1> USE DEF TypeInv, TypeOK
<1>1. request[r] \in RequestRec OBVIOUS
<1>2. CASE Begins(r)
  <2> DEFINE u == request'[r].user
  <2>1. /\ u \in Users /\ UNCHANGED <<users, version, load, cache>>
        /\ users[u].rev <= request'[r].floor /\ DeadForGood(users[u], request'[r].epoch)
        /\ users[u].present \/ users[u].rev > 0
        /\ request'[r].pc = "isUserDisabled"
    BY <1>2 DEF Begins
  <2>2. ASSUME NEW s \in Held', s.ver >= request'[r].floor
        PROVE  s.rows[u] = users[u]
    <3>1. s \in Held \/ s.rows = users BY HeldStep
    <3>2. CASE s \in Held
      <4>1. s.ver \in Nat BY <3>2, HeldType DEF Snapshot
      <4>2. users[u].rev \in Nat BY <2>1 DEF Rows, Row
      <4>3. request'[r].floor \in Nat
        BY <1>2 DEF Begins
      <4>4. users[u].rev <= s.ver BY <2>1, <2>2, <4>1, <4>2, <4>3
      <4>5. QED BY <2>1, <3>2, <4>4 DEF SnapInv
    <3>3. QED BY <3>1, <3>2
  <2>3. QED BY <2>1, <2>2 DEF Asked
<1>3. CASE Keeps(r)
  <2>1. /\ request'[r].user = request[r].user /\ request'[r].epoch = request[r].epoch
        /\ request'[r].floor = request[r].floor /\ request[r].doomed /\ Active(r)
    BY <1>3 DEF Keeps
  <2>2. /\ DeadForGood(Asked(r), request[r].epoch)
        /\ \A s \in Held : s.ver >= request[r].floor =>
             LET row == s.rows[request[r].user] IN
             DeadForGood(row, request[r].epoch) /\ (row.present \/ row.rev > 0)
        /\ request[r].pc = "accepted" /\ ~request[r].open => ~Asked(r).present
    BY <2>1 DEF DoomInv
  <2>3. DeadForGood(Asked(r)', request[r].epoch) BY <1>3, <2>2, DeadStep
  <2>4. \A s \in Held' : s.ver >= request[r].floor =>
          LET row == s.rows[request[r].user] IN
          DeadForGood(row, request[r].epoch) /\ (row.present \/ row.rev > 0)
    BY <1>3, <2>2, HeldStep, DeadStep DEF Asked
  <2>5. ASSUME request'[r].pc = "accepted", ~request'[r].open PROVE ~Asked(r)'.present
    <3>1. CASE request'[r].pc = request[r].pc /\ request'[r].open = request[r].open
      BY <1>3, <2>2, <2>5, <3>1, DeadStep
    <3>2. CASE Judges(r)
      <4> DEFINE s == request[r].snap
                 row == s.rows[request[r].user]
      <4>1. s \in Held BY <3>2 DEF Judges, Held
      <4>2. s.ver >= request[r].floor BY <2>1, <4>1 DEF UsesInv, Uses
      <4>3. DeadForGood(row, request[r].epoch) /\ (row.present \/ row.rev > 0)
        BY <2>2, <4>1, <4>2
      <4>4. request[r].user \in Users /\ request[r].epoch \in Nat BY <1>1 DEF RequestRec
      <4>5. row \in Row BY <4>1, <4>4, HeldType DEF Snapshot, Rows
      <4>6. ~(request[r].epoch < Visible(row).epoch)
        BY <2>5, <3>2 DEF Judges, Judgement, NextCheck, Checks
      <4>7. ~row.present BY <4>3, <4>5, <4>6, Shown DEF DeadForGood
      <4>8. row.rev > 0 /\ row.rev \in Nat BY <4>3, <4>5, <4>7 DEF Row
      <4>9. Asked(r) = row BY <4>1, <4>4, <4>7, <4>8 DEF SnapInv, Follows, Asked
      <4>10. QED BY <1>3, <4>7, <4>9, DeadStep
    <3>3. CASE Confirms(r) BY <2>5, <3>3 DEF Confirms
    <3>4. QED BY <1>3, <2>5, <3>1, <3>2, <3>3, RequestMoves DEF Fetches, Begins, Keeps
  <2>6. QED BY <2>1, <2>3, <2>4, <2>5
<1>4. QED BY <1>2, <1>3, RequestMoves

\* A refusal is never of an account nobody has touched.
LEMMA AdmitStep ==
  ASSUME TypeInv, WaitInv, RowInv, SnapInv, TimeInv, FreshAccountAdmitted, [Next]_vars
  PROVE  FreshAccountAdmitted'
<1> SUFFICES ASSUME NEW r \in Requests, request'[r].pc = "refused",
                    Asked(r)'.present, Asked(r)'.rev = Asked(r)'.born
             PROVE  FALSE
  BY DEF FreshAccountAdmitted, Asked
<1> USE DEF TypeInv, TypeOK
<1>1. request[r] \in RequestRec /\ Active(r)' BY DEF Active
<1>2. ~Begins(r) BY DEF Begins
<1>3. Keeps(r) BY <1>1, <1>2, RequestMoves
<1>4. request[r].user \in Users /\ Asked(r)' = users'[request[r].user]
  BY <1>1, <1>3 DEF RequestRec, Keeps, Asked
<1>5. Asked(r)' = Asked(r)
  <2> DEFINE u == request[r].user
  <2>1. ASSUME Changes(u) PROVE FALSE
    <3>1. ~Asked(r).present => users'[u] = users[u] BY <1>3, <1>4, DeadStep DEF Asked
    <3>2. users[u].rev \in Nat /\ users[u].rev <= version /\ users[u].born <= version
          /\ version \in Nat /\ users[u].born \in Nat
      BY <1>4 DEF RowInv, Rows, Row
    <3>3. users'[u].rev = version + 1 BY <2>1 DEF Changes
    <3>4. CASE users[u].present BY <1>4, <2>1, <3>2, <3>3, <3>4 DEF Changes
    <3>5. CASE ~users[u].present BY <3>1, <3>2, <3>3, <3>5 DEF Asked
    <3>6. QED BY <3>4, <3>5
  <2>2. QED BY <1>4, <2>1, RowsStep DEF Asked
<1>6. request[r].pc = "refused" => FALSE
  BY <1>4, <1>5 DEF FreshAccountAdmitted, Asked
<1>7. CASE Judges(r)
  <2> DEFINE s == request[r].snap
             row == s.rows[request[r].user]
  <2>1. s \in Held BY <1>7 DEF Judges, Held
  <2>2. row \in Row BY <1>4, <2>1, HeldType DEF Snapshot, Rows
  <2>3. Marked(row) /\ Follows(Asked(r), row) BY <1>4, <2>1 DEF SnapInv, Asked
  <2>4. Visible(row).disabled \/ Visible(row).epoch > 0
    <3>1. request[r].epoch \in Nat /\ Visible(row).epoch \in Nat
      BY <1>1, <2>2 DEF RequestRec, Visible, Row
    <3>2. Visible(row).disabled \/ request[r].epoch < Visible(row).epoch
      BY <1>7 DEF Judges, Judgement, NextCheck, Checks
    <3>3. QED BY <3>1, <3>2
  <2>5. row.present /\ (row.disabled \/ row.epoch > 0) BY <2>2, <2>4, Shown
  <2>6. row.born < row.rev BY <2>3, <2>5 DEF Marked
  <2>7. Asked(r).born = row.born /\ (Asked(r).rev = row.rev \/ row.rev < Asked(r).rev)
    BY <2>3, <2>5 DEF Follows
  <2>8. Asked(r) \in Row BY <1>4 DEF Asked, Rows
  <2>9. QED BY <1>5, <2>2, <2>6, <2>7, <2>8 DEF Row
<1>8. CASE Confirms(r) BY <1>5, <1>8 DEF Confirms
<1>9. QED BY <1>2, <1>6, <1>7, <1>8, <1>1, RequestMoves DEF Fetches

\* The three about a told instance, in one invariant.
VerdictsInv ==
  /\ WaitInv /\ SlotInv /\ RowInv /\ SnapInv /\ TimeInv /\ TellInv /\ UsesInv
  /\ VerdictInv /\ FreshAccountAdmitted

LEMMA VerdictsInit == Init => VerdictsInv /\ DoomInv
BY SlotInit, RowInvInit, SnapInit, TimeInit, TellInit, UsesInit, VerdictInit
   DEF VerdictsInv

LEMMA VerdictsStep == TypeInv /\ VerdictsInv /\ [Next]_vars => VerdictsInv'
BY SlotStep, RowInvStep, SnapStep, TimeStep, TellStep, UsesStep, VerdictStep, AdmitStep
   DEF VerdictsInv

\* Of a row that is current for a request the verdict is exact.
LEMMA CurrentIsExact ==
  ASSUME VerdictsInv, NEW r \in Requests, Current(r) PROVE Exact(request[r])
BY DEF VerdictsInv, VerdictInv, Established, Exact, Verdicts, Active, Asked

\* If every handler that takes something away invalidates, the verdict of a guard
\* agrees with the row: a told revocation is obeyed but for the deletion between two
\* checks, what was restored is admitted, and a fresh account is never turned away.
THEOREM VerdictsFollow ==
  ASSUME "wipe" \notin Ops PROVE Spec => []VerdictsFollowRows
<1>1. TypeInv /\ VerdictsInv /\ DoomInv => VerdictsFollowRows
  <2> SUFFICES ASSUME TypeInv, VerdictsInv, DoomInv PROVE VerdictsFollowRows
    OBVIOUS
  <2>1. VerdictExactWhenTold
    BY CurrentIsExact DEF VerdictExactWhenTold, Current, Asked
  <2>2. RevokedIsRefusedUnlessDeleted
    <3> SUFFICES ASSUME NEW r \in Requests, LetDeadThrough(r)
                 PROVE  ~Asked(r).present /\ Asked(r).rev > request[r].floor
      BY DEF RevokedIsRefusedUnlessDeleted, Asked
    <3>1. ~Asked(r).present
      BY DEF DoomInv, LetDeadThrough, Active
    <3>2. ~Current(r)
      BY <3>1, CurrentIsExact DEF LetDeadThrough, Exact, Verdicts, Live, Asked
    <3>3. Asked(r).rev \in Nat /\ request[r].floor \in Nat
      BY DEF TypeInv, TypeOK, RequestRec, Rows, Row, Asked
    <3>4. QED BY <3>1, <3>2, <3>3 DEF Current
  <2>3. QED BY <2>1, <2>2 DEF VerdictsFollowRows, VerdictsInv
<1>2. TypeInv /\ VerdictsInv /\ DoomInv /\ [Next]_vars => DoomInv'
  BY DoomStep DEF VerdictsInv
<1>3. QED
  BY <1>1, <1>2, TypeInit, TypeStep, VerdictsInit, VerdictsStep, PTL DEF Spec

\* In an instance nobody told, a change is obeyed by every request that begins TTL and
\* the time of one query after it, wipes included, as long as a snapshot lives at all.
THEOREM VerdictsAge ==
  ASSUME TTL > 0 PROVE Spec => []VerdictExactWhenAged
<1>1. VerdictsInv => VerdictExactWhenAged
  BY CurrentIsExact DEF VerdictExactWhenAged, Current, Asked
<1>2. QED
  BY <1>1, TypeInit, TypeStep, VerdictsInit, VerdictsStep, PTL DEF Spec
-----------------------------------------------------------------------------
(* The sessions beside it.                                                 *)

\* The part a behaviour exercises is settled at the start, and in it Sessions goes
\* its own way.
LEMMA PartStays == [MCNext]_<<part, vars, sessionVars>> => part' = part
BY DEF MCNext

LEMMA PromptAlone == MCSpec => (part = "prompt" => Prompt!Spec)
<1> DEFINE Exercised == part = "prompt"
<1>1. MCInit /\ Exercised => Prompt!Init
  BY DEF MCInit
<1>2. Exercised /\ [MCNext]_<<part, vars, sessionVars>> =>
        [Prompt!Next]_Prompt!vars /\ Exercised'
  BY DEF MCNext, sessionVars, Prompt!vars
<1>3. QED
  BY <1>1, <1>2, PTL DEF MCSpec, Prompt!Spec

LEMMA SlowAlone == MCSpec => (part = "slow" => Slow!Spec)
<1> DEFINE Exercised == part = "slow"
<1>1. MCInit /\ Exercised => Slow!Init
  BY DEF MCInit
<1>2. Exercised /\ [MCNext]_<<part, vars, sessionVars>> =>
        [Slow!Next]_Slow!vars /\ Exercised'
  BY DEF MCNext, sessionVars, Slow!vars
<1>3. QED
  BY <1>1, <1>2, PTL DEF MCSpec, Slow!Spec

\* In both instances of the browser's session, a cookie the proxy admits is of a
\* session within its cap and its idle window, and the browser keeps neither a session
\* it signed out of nor one its own change of password left behind.  (proxy.ts,
\* auth.ts, the login, logout and change-password routes.)
THEOREM SessionsEndInTime == MCSpec => []SessionsEnd
<1> DEFINE IsPrompt == part = "prompt"
           IsSlow == part = "slow"
           PromptEnds == Prompt!TypeOK /\ Prompt!SessionsEnd
           SlowEnds == Slow!TypeOK /\ Slow!SessionsEnd
<1>1. Prompt!Spec => []PromptEnds
  BY SessionsParameters, Prompt!SessionsEndInTime
<1>2. Slow!Spec => []SlowEnds
  BY SessionsParameters, Slow!SessionsEndInTime
<1>3. [MCNext]_<<part, vars, sessionVars>> => (IsPrompt' <=> IsPrompt) /\ (IsSlow' <=> IsSlow)
  BY PartStays
<1>4. (IsPrompt => PromptEnds) /\ (IsSlow => SlowEnds) => SessionsEnd
  BY DEF SessionsEnd
<1>5. QED
  BY <1>1, <1>2, <1>3, <1>4, PromptAlone, SlowAlone, PTL DEF MCSpec

\* In both, a user who never rests for longer than the safe interval stays signed in
\* up to the session's cap.  (IdleTimeoutManager.tsx, AuthProvider.tsx, proxy.ts.)
THEOREM ActivityKeeps == MCSpec => []ActivityKeepsSession
<1> DEFINE IsPrompt == part = "prompt"
           IsSlow == part = "slow"
<1>1. Prompt!Spec => []Prompt!ActivityKeepsSession
  BY SessionsParameters, Prompt!ActivityKeeps
<1>2. Slow!Spec => []Slow!ActivityKeepsSession
  BY SessionsParameters, Slow!ActivityKeeps
<1>3. [MCNext]_<<part, vars, sessionVars>> => (IsPrompt' <=> IsPrompt) /\ (IsSlow' <=> IsSlow)
  BY PartStays
<1>4. (IsPrompt => Prompt!ActivityKeepsSession) /\ (IsSlow => Slow!ActivityKeepsSession)
        => ActivityKeepsSession
  BY DEF ActivityKeepsSession
<1>5. QED
  BY <1>1, <1>2, <1>3, <1>4, PromptAlone, SlowAlone, PTL DEF MCSpec
=============================================================================
