----------------------------- MODULE Data_proofs -----------------------------
(***************************************************************************)
(* Of the components of MCData: the soundness of Allocation for every plan *)
(* (any people, any certifications, any number of gaps, each with its      *)
(* need, pool and accepted certifications); and of Restore, for any        *)
(* installs, archives, epochs and edits, that a restore of the accounts    *)
(* ends the sign-ins before it, that the rows of the database stay sound,  *)
(* that a restore of the configuration merges it by partner, and that a    *)
(* full one brings back what the archive holds; and what Learners_proofs   *)
(* shows of Learners, here.                                                *)
(***************************************************************************)
EXTENDS MCData, FiniteSetTheorems, WellFoundedInduction, TLAPS

-----------------------------------------------------------------------------
(* The allocation of candidates.                                           *)

\* The person being credited belongs to the current gap's pool, may still earn
\* something, and is credited to the current gap as soon as it is offered.
Nominated ==
  who # Nobody =>
    /\ current \in Gaps /\ who \in Pool(current) /\ pairs # {}
    /\ \/ <<who, current>> \in credited
       \/ current \in offers /\ ~Full(current) /\ pairs \cap Accepts(current) # {}

Settled(p, i) == \/ <<p, i>> \in credited
                 \/ committed[p] # {} /\ Earns(p) \cap Accepts(i) = {}

\* Whoever the current gap has considered is credited to it or spent elsewhere.
TriedSettled ==
  current \in Gaps => \A p \in (tried \cap Pool(current)) \ {who} : Settled(p, current)

\* NobodyOverlooked and SpentOnce only follow from what is known of the gap that
\* is still being filled and of the person who is still being credited.
IInv == TypeOK /\ Nominated /\ TriedSettled /\ SpentOnce /\ ChargedOnce /\ NobodyOverlooked

LEMMA GapType ==
  ASSUME TypeOK, NEW i \in Gaps
  PROVE  /\ i # 0 /\ gaps[i].need \in Nat \ {0}
         /\ Accepts(i) \subseteq Certs /\ Accepts(i) # {}
         /\ Pool(i) \subseteq People
         /\ \A p \in Pool(i) : gaps[i].pool[p].tier \in Tiers
BY DEF TypeOK, IsPlan, IsGap, Gaps, Accepts, Pool

\* What a person may start from is something, and is what they are committed to
\* once they are committed.
LEMMA StartPairsType ==
  ASSUME TypeOK, NEW i \in Gaps, NEW p \in Pool(i)
  PROVE  /\ StartPairs(p, i) \subseteq Certs /\ StartPairs(p, i) # {}
         /\ committed[p] # {} => StartPairs(p, i) = committed[p]
         /\ committed[p] = {} => StartPairs(p, i) \subseteq Accepts(i)
<1>1. p \in People /\ Accepts(i) \subseteq Certs /\ Accepts(i) # {} BY GapType
<1>2. committed[p] \subseteq Certs BY <1>1 DEF TypeOK
<1>3. QED BY <1>1, <1>2 DEF StartPairs, FirstPairs

\* Everybody a gap is charged with, and one more of them.
LEMMA OneMore ==
  ASSUME Parameters, NEW S \in SUBSET People, NEW p \in People \ S
  PROVE  Cardinality(S) \in Nat /\ Cardinality(S \cup {p}) = Cardinality(S) + 1
<1>1. IsFiniteSet(S) BY FS_Subset DEF Parameters
<1>2. QED BY <1>1, FS_AddElement, FS_CardinalityType

LEMMA InitInv ==
  ASSUME Parameters, Init
  PROVE  IInv
<1>1. /\ IsPlan(gaps) /\ current = 0 /\ done = {} /\ tried = {} /\ who = Nobody
      /\ pairs = {} /\ offers = {} /\ credited = {}
      /\ committed = [p \in People |-> {}] /\ topTier = [p \in People |-> {}]
      /\ filled = [i \in Gaps |-> 0]
  BY DEF Init, Fresh
<1>2. TypeOK BY <1>1 DEF TypeOK
<1>3. ChargedOnce
  <2> SUFFICES ASSUME NEW i \in Gaps
               PROVE  /\ filled[i] = Cardinality({p \in People : <<p, i>> \in credited})
                      /\ filled[i] <= gaps[i].need
    BY DEF ChargedOnce
  <2>1. {p \in People : <<p, i>> \in credited} = {} BY <1>1
  <2>2. filled[i] = 0 /\ gaps[i].need \in Nat BY <1>1, <1>2, GapType
  <2>3. Cardinality({}) = 0 BY FS_EmptySet
  <2>4. Cardinality({p \in People : <<p, i>> \in credited}) = 0 BY <2>1, <2>3
  <2>5. QED BY <2>2, <2>4
<1>4. Nominated /\ SpentOnce /\ NobodyOverlooked
  BY <1>1 DEF Nominated, SpentOnce, NobodyOverlooked
<1>5. TriedSettled BY <1>1 DEF TriedSettled
<1>6. QED BY <1>2, <1>3, <1>4, <1>5 DEF IInv

\* A step that neither credits nor forgets leaves the charges as they are.
LEMMA SameCharges ==
  ASSUME ChargedOnce, UNCHANGED <<gaps, credited, filled>>
  PROVE  ChargedOnce'
BY DEF ChargedOnce, Gaps

LEMMA TakeUpInv ==
  ASSUME IInv, NEW i \in Gaps, TakeUp(i)
  PROVE  IInv'
<1>1. who = Nobody
  <2>1. 0 \notin Gaps BY GapType DEF IInv
  <2>2. QED BY <2>1 DEF IInv, Nominated, TakeUp
<1>2. TypeOK' BY DEF IInv, TypeOK, TakeUp, Gaps
<1>3. Nominated' BY <1>1 DEF Nominated, TakeUp
<1>4. TriedSettled' BY DEF TriedSettled, TakeUp
<1>5. SpentOnce'
  BY DEF IInv, SpentOnce, TakeUp, Earns, Accepts, Pool
<1>6. ChargedOnce' BY SameCharges DEF IInv, TakeUp
<1>7. NobodyOverlooked'
  BY DEF IInv, NobodyOverlooked, TakeUp, Earns, Accepts, Pool, Full
<1>8. QED BY <1>2, <1>3, <1>4, <1>5, <1>6, <1>7 DEF IInv

LEMMA PassOverInv ==
  ASSUME Parameters, IInv, NEW p \in People, PassOver(p)
  PROVE  IInv'
<1>1. /\ who = Nobody /\ p \in Pool(current) /\ current \in Gaps
      /\ StartPairs(p, current) \cap Accepts(current) = {} /\ tried' = tried \cup {p}
      /\ UNCHANGED <<gaps, current, done, who, pairs, offers, committed, topTier,
                     credited, filled>>
  BY DEF IInv, TypeOK, PassOver, Considered
<1>2. committed[p] # {} /\ committed[p] \cap Accepts(current) = {}
  BY <1>1, StartPairsType DEF IInv
<1>3. TypeOK' BY <1>1 DEF IInv, TypeOK, Gaps
<1>4. Nominated' BY <1>1 DEF Nominated
<1>5. TriedSettled'
  <2>1. Settled(p, current)
    BY <1>1, <1>2 DEF Settled, Earns, Parameters
  <2>2. QED BY <1>1, <2>1 DEF IInv, TriedSettled, Settled, Earns, Accepts, Pool, Gaps
<1>6. SpentOnce' BY <1>1 DEF IInv, SpentOnce, Earns, Accepts, Pool
<1>7. ChargedOnce' BY <1>1, SameCharges DEF IInv
<1>8. NobodyOverlooked' BY <1>1 DEF IInv, NobodyOverlooked, Earns, Accepts, Pool, Full
<1>9. QED BY <1>3, <1>4, <1>5, <1>6, <1>7, <1>8 DEF IInv

LEMMA NominateInv ==
  ASSUME Parameters, IInv, NEW p \in People, Nominate(p)
  PROVE  IInv'
<1>1. /\ who = Nobody /\ p \in Pool(current) /\ current \in Gaps /\ ~Full(current)
      /\ StartPairs(p, current) \cap Accepts(current) # {} /\ tried' = tried \cup {p}
      /\ who' = p /\ pairs' = StartPairs(p, current)
      /\ offers' = Counterparts(current) \cup {current}
      /\ UNCHANGED <<gaps, current, done, committed, credited, filled>>
  BY DEF IInv, TypeOK, Nominate, Considered
<1>2. /\ pairs' \subseteq Certs /\ pairs' # {}
      /\ committed[p] # {} => pairs' = committed[p]
  BY <1>1, StartPairsType DEF IInv
<1>3. p # Nobody BY DEF Parameters
\* Somebody who is committed may earn what they could earn before.
<1>4. \A q \in People : committed[q] # {} => Earns(q)' = Earns(q)
  BY <1>1, <1>2, <1>3 DEF Earns, Parameters
<1>5. TypeOK'
  <2>1. topTier' \in [People -> SUBSET Tiers]
    BY <1>1, GapType DEF IInv, TypeOK, Nominate
  <2>2. offers' \subseteq Gaps BY <1>1 DEF Counterparts
  <2>3. QED BY <1>1, <1>2, <2>1, <2>2 DEF IInv, TypeOK, Gaps
<1>6. Nominated' BY <1>1, <1>2 DEF Nominated, Gaps, Pool, Full, Accepts
<1>7. TriedSettled'
  <2> SUFFICES ASSUME NEW q \in (tried' \cap Pool(current)) \ {p}
               PROVE  Settled(q, current)'
    BY <1>1 DEF TriedSettled, Pool
  <2>1. q \in People /\ Settled(q, current) /\ q # Nobody
    BY <1>1, GapType DEF IInv, TriedSettled, Parameters
  <2>2. QED BY <1>1, <1>4, <2>1 DEF Settled, Accepts
<1>8. SpentOnce'
  <2> SUFFICES ASSUME NEW c \in credited
               PROVE  /\ Earns(c[1])' # {} /\ Earns(c[1])' \subseteq Accepts(c[2])
                      /\ c[1] \in Pool(c[2])
    BY <1>1 DEF SpentOnce, Accepts, Pool
  <2>1. /\ Earns(c[1]) # {} /\ Earns(c[1]) \subseteq Accepts(c[2])
        /\ c[1] \in Pool(c[2]) /\ c[1] \in People
    BY DEF IInv, SpentOnce, TypeOK
  <2>2. committed[c[1]] # {} BY <1>1, <2>1 DEF Earns, Parameters
  <2>3. QED BY <1>4, <2>1, <2>2
<1>9. ChargedOnce' BY <1>1, SameCharges DEF IInv
<1>10. NobodyOverlooked'
  <2> SUFFICES ASSUME NEW i \in done, ~Full(i), NEW q \in Pool(i)
               PROVE  Settled(q, i)'
    BY <1>1 DEF NobodyOverlooked, Settled, Full, Pool
  <2>1. q \in People /\ Settled(q, i)
    BY GapType DEF IInv, TypeOK, NobodyOverlooked, Settled
  <2>2. QED BY <1>1, <1>4, <2>1 DEF Settled, Accepts
<1>11. QED BY <1>5, <1>6, <1>7, <1>8, <1>9, <1>10 DEF IInv

\* The counterpart takes the person: one more charge, and fewer certifications
\* for them to earn.
LEMMA CreditInv ==
  ASSUME Parameters, IInv, NEW i \in Gaps, Offer(i), Credits(i)
  PROVE  IInv'
<1>1. /\ who # Nobody /\ i \in offers /\ (i # current => current \notin offers)
      /\ offers' = offers \ {i} /\ pairs' = pairs \cap Accepts(i)
      /\ credited' = credited \cup {<<who, i>>}
      /\ filled' = [filled EXCEPT ![i] = @ + 1]
      /\ UNCHANGED <<gaps, current, done, tried, who, committed, topTier>>
  BY DEF Offer
<1>2. ~Full(i) /\ <<who, i>> \notin credited /\ who \in Pool(i) /\ pairs' # {}
  BY <1>1 DEF Credits
<1>3. who \in People BY <1>1 DEF IInv, TypeOK
<1>4. \A q \in People : Earns(q)' \subseteq Earns(q) /\ (q # who => Earns(q)' = Earns(q))
  BY <1>1 DEF Earns
<1>5. filled[i] \in Nat /\ gaps[i].need \in Nat /\ filled \in [Gaps -> Nat]
  BY GapType DEF IInv, TypeOK
<1>6. TypeOK' BY <1>1, <1>3, <1>5 DEF IInv, TypeOK, Gaps
<1>7. \A j \in Gaps : Full(j) => Full(j)'
  BY <1>1, <1>5, GapType DEF IInv, Full
<1>8. Nominated'
  <2>1. current \in Gaps /\ who \in Pool(current)
    BY <1>1 DEF IInv, Nominated
  <2>2. <<who, current>> \in credited'
    BY <1>1 DEF IInv, Nominated
  <2>3. QED BY <1>1, <1>2, <2>1, <2>2 DEF Nominated, Gaps, Pool
<1>9. ASSUME NEW q \in People, NEW j \in Gaps, Settled(q, j)
      PROVE  Settled(q, j)'
  BY <1>1, <1>4, <1>9 DEF Settled, Accepts
<1>10. TriedSettled'
  <2> SUFFICES ASSUME NEW j \in Gaps, j = current, NEW q \in (tried \cap Pool(j)) \ {who}
               PROVE  Settled(q, j)'
    BY <1>1 DEF TriedSettled, Pool, Gaps
  <2>1. q \in People /\ Settled(q, j)
    BY GapType DEF IInv, TriedSettled
  <2>2. QED BY <1>9, <2>1
<1>11. SpentOnce'
  <2> SUFFICES ASSUME NEW c \in credited'
               PROVE  /\ Earns(c[1])' # {} /\ Earns(c[1])' \subseteq Accepts(c[2])
                      /\ c[1] \in Pool(c[2])
    BY <1>1 DEF SpentOnce, Accepts, Pool
  <2>1. \A q : q = who => Earns(q)' = pairs' BY <1>1 DEF Earns
  <2>2. CASE c = <<who, i>> BY <1>1, <1>2, <2>1, <2>2
  <2>3. CASE c \in credited
    <3>1. /\ Earns(c[1]) # {} /\ Earns(c[1]) \subseteq Accepts(c[2])
          /\ c[1] \in Pool(c[2]) /\ c[1] \in People
      BY <2>3 DEF IInv, SpentOnce, TypeOK
    <3>2. Earns(c[1])' # {} BY <1>2, <1>4, <2>1, <3>1
    <3>3. QED BY <1>4, <3>1, <3>2
  <2>4. QED BY <1>1, <2>2, <2>3
<1>12. ChargedOnce'
  <2> DEFINE Charged(j) == {p \in People : <<p, j>> \in credited}
  <2> SUFFICES ASSUME NEW j \in Gaps
               PROVE  /\ filled'[j] = Cardinality({p \in People : <<p, j>> \in credited'})
                      /\ filled'[j] <= gaps[j].need
    BY <1>1 DEF ChargedOnce, Gaps
  <2>1. filled[j] = Cardinality(Charged(j)) /\ filled[j] <= gaps[j].need
    BY DEF IInv, ChargedOnce
  <2>2. CASE j = i
    <3>1. {p \in People : <<p, i>> \in credited'} = Charged(i) \cup {who}
      BY <1>1, <1>3
    <3>2. Cardinality(Charged(i) \cup {who}) = Cardinality(Charged(i)) + 1
      BY <1>2, <1>3, OneMore
    <3>3. filled'[i] = filled[i] + 1 /\ filled[i] + 1 <= gaps[i].need
      BY <1>1, <1>2, <1>5 DEF Full
    <3>4. QED BY <2>1, <2>2, <3>1, <3>2, <3>3
  <2>3. CASE j # i
    <3>1. {p \in People : <<p, j>> \in credited'} = Charged(j) BY <1>1, <2>3
    <3>2. filled'[j] = filled[j] BY <1>1, <1>5, <2>3
    <3>3. QED BY <2>1, <3>1, <3>2
  <2>4. QED BY <2>2, <2>3
<1>13. NobodyOverlooked'
  <2> SUFFICES ASSUME NEW j \in done, ~Full(j)', NEW q \in Pool(j)
               PROVE  Settled(q, j)'
    BY <1>1 DEF NobodyOverlooked, Settled, Pool
  <2>1. j \in Gaps /\ ~Full(j) BY <1>7 DEF IInv, TypeOK
  <2>2. q \in People /\ Settled(q, j)
    BY <2>1, GapType DEF IInv, NobodyOverlooked, Settled
  <2>3. QED BY <1>9, <2>1, <2>2
<1>14. QED BY <1>6, <1>8, <1>10, <1>11, <1>12, <1>13 DEF IInv

\* The counterpart has no use for the person; the current gap always has.
LEMMA DeclineInv ==
  ASSUME IInv, NEW i \in Gaps, Offer(i), ~Credits(i)
  PROVE  IInv'
<1>1. /\ who # Nobody /\ i \in offers /\ (i # current => current \notin offers)
      /\ offers' = offers \ {i}
      /\ UNCHANGED <<gaps, current, done, tried, who, pairs, committed, topTier,
                     credited, filled>>
  BY DEF Offer
<1>2. TypeOK' BY <1>1 DEF IInv, TypeOK, Gaps
<1>3. Nominated'
  <2>1. <<who, current>> \in credited
    BY <1>1 DEF IInv, Nominated, Credits
  <2>2. QED BY <1>1, <2>1 DEF IInv, Nominated, Gaps, Pool
<1>4. TriedSettled'
  BY <1>1 DEF IInv, TriedSettled, Settled, Earns, Accepts, Pool, Gaps
<1>5. SpentOnce' BY <1>1 DEF IInv, SpentOnce, Earns, Accepts, Pool
<1>6. ChargedOnce' BY <1>1, SameCharges DEF IInv
<1>7. NobodyOverlooked' BY <1>1 DEF IInv, NobodyOverlooked, Earns, Accepts, Pool, Full
<1>8. QED BY <1>2, <1>3, <1>4, <1>5, <1>6, <1>7 DEF IInv

LEMMA CommitInv ==
  ASSUME Parameters, IInv, Commit
  PROVE  IInv'
<1>1. /\ who # Nobody /\ offers = {} /\ who' = Nobody /\ pairs' = {}
      /\ committed' = [committed EXCEPT ![who] = pairs]
      /\ UNCHANGED <<gaps, current, done, tried, offers, topTier, credited, filled>>
  BY DEF Commit
<1>2. /\ who \in People /\ pairs # {} /\ pairs \subseteq Certs
      /\ committed \in [People -> SUBSET Certs]
      /\ <<who, current>> \in credited
  BY <1>1 DEF IInv, TypeOK, Nominated
<1>3. \A q \in People : /\ Earns(q)' = Earns(q)
                        /\ committed[q] # {} => committed'[q] # {}
  <2> SUFFICES ASSUME NEW q \in People
               PROVE  /\ Earns(q)' = Earns(q)
                      /\ committed[q] # {} => committed'[q] # {}
    OBVIOUS
  <2>1. q # Nobody BY DEF Parameters
  <2>2. committed'[q] = IF q = who THEN pairs ELSE committed[q] BY <1>1, <1>2
  <2>3. QED BY <1>1, <1>2, <2>1, <2>2 DEF Earns
<1>4. TypeOK' BY <1>1, <1>2 DEF IInv, TypeOK, Gaps
<1>5. Nominated' BY <1>1 DEF Nominated
<1>6. ASSUME NEW q \in People, NEW j \in Gaps, Settled(q, j)
      PROVE  Settled(q, j)'
  BY <1>1, <1>3, <1>6 DEF Settled, Accepts
<1>7. TriedSettled'
  <2> SUFFICES ASSUME NEW j \in Gaps, j = current, NEW q \in tried \cap Pool(j)
               PROVE  Settled(q, j)'
    BY <1>1 DEF TriedSettled, Pool, Gaps
  <2>1. CASE q = who BY <1>1, <1>2, <2>1 DEF Settled
  <2>2. CASE q # who
    <3>1. q \in People /\ Settled(q, j)
      BY <2>2, GapType DEF IInv, TriedSettled
    <3>2. QED BY <1>6, <3>1
  <2>3. QED BY <2>1, <2>2
<1>8. SpentOnce'
  <2> SUFFICES ASSUME NEW c \in credited
               PROVE  /\ Earns(c[1])' # {} /\ Earns(c[1])' \subseteq Accepts(c[2])
                      /\ c[1] \in Pool(c[2])
    BY <1>1 DEF SpentOnce, Accepts, Pool
  <2>1. c[1] \in People BY DEF IInv, TypeOK
  <2>2. QED BY <1>3, <2>1 DEF IInv, SpentOnce
<1>9. ChargedOnce' BY <1>1, SameCharges DEF IInv
<1>10. NobodyOverlooked'
  <2> SUFFICES ASSUME NEW j \in done, ~Full(j), NEW q \in Pool(j)
               PROVE  Settled(q, j)'
    BY <1>1 DEF NobodyOverlooked, Settled, Full, Pool
  <2>1. j \in Gaps /\ q \in People /\ Settled(q, j)
    BY GapType DEF IInv, TypeOK, NobodyOverlooked, Settled
  <2>2. QED BY <1>6, <2>1
<1>11. QED BY <1>4, <1>5, <1>7, <1>8, <1>9, <1>10 DEF IInv

LEMMA LeaveInv ==
  ASSUME Parameters, IInv, Leave
  PROVE  IInv'
<1>1. /\ current \in Gaps /\ who = Nobody /\ done' = done \cup {current} /\ current' = 0
      /\ Full(current) \/ Pool(current) \subseteq tried
      /\ UNCHANGED <<gaps, tried, who, pairs, offers, committed, topTier, credited, filled>>
  BY DEF IInv, TypeOK, Leave
<1>2. TypeOK' BY <1>1 DEF IInv, TypeOK, Gaps
<1>3. Nominated' BY <1>1 DEF Nominated
<1>4. TriedSettled'
  <2>1. 0 \notin Gaps BY GapType DEF IInv
  <2>2. QED BY <1>1, <2>1 DEF TriedSettled, Gaps
<1>5. SpentOnce' BY <1>1 DEF IInv, SpentOnce, Earns, Accepts, Pool
<1>6. ChargedOnce' BY <1>1, SameCharges DEF IInv
<1>7. NobodyOverlooked'
  <2> SUFFICES ASSUME NEW j \in done', ~Full(j), NEW q \in Pool(j)
               PROVE  Settled(q, j)
    BY <1>1 DEF NobodyOverlooked, Settled, Full, Pool, Earns, Accepts
  <2>1. CASE j \in done BY <2>1 DEF IInv, NobodyOverlooked, Settled
  <2>2. CASE j = current
    <3>1. q \in tried /\ q # who BY <1>1, <2>2, GapType DEF IInv, Parameters
    <3>2. QED BY <1>1, <2>2, <3>1 DEF IInv, TriedSettled
  <2>3. QED BY <1>1, <2>1, <2>2
<1>8. QED BY <1>2, <1>3, <1>4, <1>5, <1>6, <1>7 DEF IInv

LEMMA StepInv ==
  ASSUME Parameters, IInv, [Next]_vars
  PROVE  IInv'
<1>1. CASE \E i \in Gaps : TakeUp(i) \/ Offer(i)
  BY <1>1, TakeUpInv, CreditInv, DeclineInv
<1>2. CASE \E p \in People : PassOver(p) \/ Nominate(p)
  BY <1>2, PassOverInv, NominateInv
<1>3. CASE Commit BY <1>3, CommitInv
<1>4. CASE Leave BY <1>4, LeaveInv
<1>5. CASE UNCHANGED vars
  <2>1. TypeOK' /\ Nominated' /\ TriedSettled'
    BY <1>5 DEF IInv, vars, TypeOK, Nominated, TriedSettled, Settled, Gaps, Earns,
                Accepts, Pool, Full
  <2>2. SpentOnce' /\ NobodyOverlooked'
    BY <1>5 DEF IInv, vars, SpentOnce, NobodyOverlooked, Earns, Accepts, Pool, Full
  <2>3. ChargedOnce' BY <1>5, SameCharges DEF IInv, vars
  <2>4. QED BY <2>1, <2>2, <2>3 DEF IInv
<1>6. QED BY <1>1, <1>2, <1>3, <1>4, <1>5 DEF Next

LEMMA Inductive ==
  ASSUME Parameters
  PROVE  Spec => []IInv
<1>1. Init => IInv BY InitInv
<1>2. IInv /\ [Next]_vars => IInv' BY StepInv
<1>3. QED BY <1>1, <1>2, PTL DEF Spec

(***************************************************************************)
(* Type correctness of the loops of allocateCandidates.                    *)
(***************************************************************************)
THEOREM TypeCorrect ==
  ASSUME Parameters
  PROVE  Spec => []TypeOK
<1>1. IInv => TypeOK BY DEF IInv
<1>2. QED BY <1>1, Inductive, PTL

(***************************************************************************)
(* However many gaps, people and certifications a plan has: everybody it   *)
(* spends can earn one certification that serves every gap they are        *)
(* credited to, no gap is charged with a person twice or with more people  *)
(* than it needs, and a gap left short has nobody idle in its pool.        *)
(***************************************************************************)
THEOREM Sound ==
  ASSUME Parameters
  PROVE  Spec => []AllocationSound
<1>1. IInv => AllocationSound BY DEF IInv, AllocationSound
<1>2. QED BY <1>1, Inductive, PTL
-----------------------------------------------------------------------------
(* A restore of the accounts.                                              *)

\* A table of accounts, wherever it is.
Accounts(us) ==
  /\ IsFiniteSet(DOMAIN us)
  /\ \A u \in DOMAIN us :
       u \in Nat /\ "epoch" \in DOMAIN us[u] /\ us[u].epoch \in 0 .. MaxEpoch

\* Nothing about the accounts has changed.
SameAccounts(d, e) ==
  /\ {"users", "nextUser"} \subseteq DOMAIN e
  /\ e.users = d.users /\ e.nextUser = d.nextUser

\* The cookies of a set are of accounts of a table, minted at no later epoch.
Minted(cookies, us) ==
  \A c \in cookies : c.id \in DOMAIN us /\ c.epoch \in Nat /\ c.epoch <= us[c.id].epoch

\* A backup reads what no restore has touched.
BackupInv ==
  backup # None =>
    /\ archive = None /\ Accounts(backup.db.users)
    /\ Minted(backup.here, backup.db.users) /\ Minted(backup.here, install.users)

ArchiveInv ==
  archive # None =>
    Accounts(archive.tables.users) /\ Minted(archive.cookies, archive.tables.users)

\* An account that could answer to an ended cookie will start above it: its id is
\* not given again, or the archive had an epoch no lower.
Outrun(c) ==
  \/ c.id < install.nextUser
  \/ /\ c.epoch < MaxEpoch
     /\ \E u \in DOMAIN archive.tables.users : c.epoch <= archive.tables.users[u].epoch

EndedInv ==
  /\ archive = None \/ last = Backups!NoRestore => ended = {}
  /\ \A c \in ended : c.id \in Nat /\ c.epoch \in Nat /\ Outrun(c)
  /\ Backups!OldSessionsEnd

RestoreInv ==
  /\ scenario \in DOMAIN Archives
  /\ Backups!SoundAccounts(install) /\ Minted(here, install.users)
  /\ BackupInv /\ ArchiveInv /\ EndedInv

LEMMA RestoreParameters ==
  /\ MaxEpoch \in Nat /\ None \notin {"full", "config"}
  /\ \A w \in DOMAIN Archives :
       \A d \in Archives[w].installs \cup Archives[w].others : Backups!SoundAccounts(d)
BY ParamAssumption DEF Backups!Parameters, Backups!Sound

LEMMA RestoreStarts == Backups!Init => RestoreInv
<1> SUFFICES ASSUME Backups!Init PROVE RestoreInv
  OBVIOUS
<1>1. /\ scenario \in DOMAIN Archives /\ install \in Archives[scenario].installs
      /\ backup = None /\ archive = None /\ here = {} /\ ended = {}
  BY DEF Backups!Init
<1>2. Backups!SoundAccounts(install) BY <1>1, RestoreParameters
<1>3. BackupInv /\ ArchiveInv /\ Minted(here, install.users)
  BY <1>1 DEF BackupInv, ArchiveInv, Minted
<1>4. EndedInv BY <1>1 DEF EndedInv, Backups!OldSessionsEnd
<1>5. QED BY <1>1, <1>2, <1>3, <1>4 DEF RestoreInv
-----------------------------------------------------------------------------
(* Sets of numbers, and what a sequence gives.                             *)

\* Restore counts as this module does.
LEMMA SameSizes ==
  ASSUME NEW S
  PROVE  (Backups!IsFiniteSet(S) <=> IsFiniteSet(S)) /\ Backups!Cardinality(S) = Cardinality(S)
<1>1. Backups!IsFiniteSet(S) <=> IsFiniteSet(S)
  BY DEF Backups!IsFiniteSet, IsFiniteSet
<1>2. Backups!Cardinality(S) = Cardinality(S)
  BY DEF Backups!Cardinality, Cardinality
<1>3. QED BY <1>1, <1>2

LEMMA LeastIsThere ==
  ASSUME NEW numbers \in SUBSET Nat, numbers # {}
  PROVE  \E x \in numbers : \A y \in numbers : x <= y
<1>1. PICK x \in numbers : \A y \in numbers : ~(<<y, x>> \in OpToRel(<, Nat))
  BY NatLessThanWellFounded, WFMin
<1>2. \A y \in numbers : ~(y < x)
  BY <1>1 DEF OpToRel
<1>3. x \in Nat /\ \A y \in numbers : y \in Nat
  OBVIOUS
<1>4. QED BY <1>2, <1>3

\* Of finitely many numbers there is a bound: or there is a least n for which the
\* first n of them have none.
LEMMA BoundIsThere ==
  ASSUME NEW numbers \in SUBSET Nat, IsFiniteSet(numbers)
  PROVE  \E m \in Nat : \A n \in numbers : n <= m
<1>1. PICK k \in Nat : ExistsSurjection(1 .. k, numbers)
  BY FS_NatSurjection
<1>2. PICK f \in Surjection(1 .. k, numbers) : TRUE
  BY <1>1 DEF ExistsSurjection
<1>3. /\ f \in [1 .. k -> numbers]
      /\ \A n \in numbers : \E i \in 1 .. k : f[i] = n
  BY <1>2 DEF Surjection
<1>4. \A j \in 1 .. k : f[j] \in Nat
  BY <1>3
<1> DEFINE Bounded(i) == \E m \in Nat : \A j \in 1 .. i : f[j] <= m
           unbounded == {i \in 0 .. k : ~Bounded(i)}
<1>5. unbounded = {}
  <2> SUFFICES ASSUME unbounded # {} PROVE FALSE
    OBVIOUS
  <2>1. PICK i \in unbounded : \A y \in unbounded : i <= y
    <3>1. unbounded \in SUBSET Nat
      OBVIOUS
    <3> HIDE DEF unbounded
    <3>2. QED BY <3>1, LeastIsThere
  <2>2. i \in 0 .. k /\ ~Bounded(i) /\ i \in Int
    BY <2>1
  <2>3. Bounded(0)
    <3>1. \A j \in 1 .. 0 : f[j] <= 0
      OBVIOUS
    <3>2. QED BY <3>1
  <2>4. Bounded(i - 1)
    <3> HIDE DEF Bounded
    <3>1. i # 0
      BY <2>2, <2>3
    <3>2. i - 1 \in 0 .. k /\ ~(i <= i - 1)
      BY <2>2, <3>1
    <3>3. QED BY <2>1, <3>2
  <2>5. PICK m \in Nat : \A j \in 1 .. (i - 1) : f[j] <= m
    BY <2>4
  <2>6. i \in 1 .. k
    <3> HIDE DEF Bounded
    <3>1. QED BY <2>2, <2>3
  <2> HIDE DEF unbounded
  <2>7. f[i] \in Nat
    BY <1>4, <2>6
  <2>8. \E h \in Nat : m <= h /\ f[i] <= h
    <3> DEFINE h == IF m <= f[i] THEN f[i] ELSE m
    <3>1. h \in Nat /\ m <= h /\ f[i] <= h
      BY <2>7
    <3> HIDE DEF h
    <3>2. QED BY <3>1
  <2>9. PICK h \in Nat : m <= h /\ f[i] <= h
    BY <2>8
  <2>10. ASSUME NEW j \in 1 .. i PROVE f[j] <= h
    <3>1. CASE j = i
      BY <2>9, <3>1
    <3>2. CASE j # i
      <4>1. j \in 1 .. (i - 1) /\ j \in 1 .. k
        BY <2>6, <3>2
      <4>2. f[j] <= m /\ f[j] \in Nat
        BY <1>4, <2>5, <4>1
      <4>3. QED BY <2>9, <4>2
    <3>3. QED BY <3>1, <3>2
  <2>11. Bounded(i)
    BY <2>10
  <2>12. QED BY <2>2, <2>11
<1>6. Bounded(k)
  <2> HIDE DEF Bounded
  <2>1. k \in 0 .. k
    OBVIOUS
  <2>2. QED BY <1>5, <2>1
<1>7. PICK m \in Nat : \A j \in 1 .. k : f[j] <= m
  BY <1>6
<1>8. QED BY <1>3, <1>7

\* The place of a number among others, as Restore counts it.
Rank(T, y) == Backups!Cardinality({z \in T : z < y})

LEMMA Ranks ==
  ASSUME NEW T \in SUBSET Nat, IsFiniteSet(T)
  PROVE  /\ Backups!Cardinality(T) = Cardinality(T) /\ Cardinality(T) \in Nat
         /\ \A x \in T : /\ Rank(T, x) \in Nat /\ Rank(T, x) < Cardinality(T)
                         /\ \A y \in T : x < y => Rank(T, x) < Rank(T, y)
<1>1. Backups!Cardinality(T) = Cardinality(T) /\ Cardinality(T) \in Nat
  BY SameSizes, FS_CardinalityType
<1>2. ASSUME NEW U \in SUBSET T, NEW V \in SUBSET U, NEW u \in U, u \notin V
      PROVE  /\ Cardinality(U) \in Nat /\ Cardinality(V) \in Nat
             /\ Cardinality(V) < Cardinality(U)
  <2>1. IsFiniteSet(U)
    BY FS_Subset
  <2>2. IsFiniteSet(V) /\ Cardinality(V) <= Cardinality(U) /\ Cardinality(U) # Cardinality(V)
    BY <1>2, <2>1, FS_Subset
  <2>3. Cardinality(U) \in Nat /\ Cardinality(V) \in Nat
    BY <2>1, <2>2, FS_CardinalityType
  <2>4. QED BY <2>2, <2>3
<1>3. ASSUME NEW x \in T
      PROVE  /\ Rank(T, x) \in Nat /\ Rank(T, x) < Cardinality(T)
             /\ \A y \in T : x < y => Rank(T, x) < Rank(T, y)
  <2> DEFINE below(y) == {z \in T : z < y}
  <2>1. \A y : Rank(T, y) = Cardinality(below(y))
    BY SameSizes DEF Rank
  <2>2. x \in T /\ x \notin below(x) /\ below(x) \in SUBSET T /\ T \in SUBSET T
    OBVIOUS
  <2>3. Cardinality(below(x)) \in Nat /\ Cardinality(below(x)) < Cardinality(T)
    <3> HIDE DEF below
    <3>1. QED BY <1>2, <2>2
  <2>4. ASSUME NEW y \in T, x < y PROVE Cardinality(below(x)) < Cardinality(below(y))
    <3>1. \A z \in T : z \in Nat
      OBVIOUS
    <3>2. \A z \in T : z < x => z < y
      BY <2>4, <3>1
    <3>3. x \in below(y) /\ x \notin below(x) /\ below(y) \in SUBSET T
      BY <2>4
    <3>4. below(x) \in SUBSET below(y)
      BY <3>2
    <3> HIDE DEF below
    <3>5. QED BY <1>2, <3>3, <3>4
  <2> HIDE DEF below
  <2>5. QED BY <2>1, <2>3, <2>4
<1>4. QED BY <1>1, <1>3
-----------------------------------------------------------------------------
(* The epoch restored accounts start from.                                 *)

\* A bounded set of numbers has a highest, which HighestOf is.
LEMMA HighestIsThere ==
  ASSUME NEW m \in Nat, NEW numbers \in SUBSET (0 .. m)
  PROVE  /\ Backups!HighestOf(numbers) \in Nat
         /\ \A n \in numbers : n <= Backups!HighestOf(numbers)
<1>1. CASE numbers = {}
  BY <1>1 DEF Backups!HighestOf
<1>2. CASE numbers # {}
  <2> DEFINE below == {m - n : n \in numbers}
  <2>1. below \subseteq Nat /\ below # {}
    <3>1. \A n \in numbers : m - n \in Nat
      OBVIOUS
    <3>2. PICK n : n \in numbers
      BY <1>2
    <3>3. m - n \in below
      BY <3>2
    <3>4. QED BY <3>1, <3>3
  <2>2. PICK x \in below : \A y \in below : x <= y
    <3> HIDE DEF below
    <3>1. QED BY <2>1, LeastIsThere
  <2>3. PICK n \in numbers : x = m - n
    BY <2>2
  <2>5. \A k \in numbers : k <= n
    BY <2>2, <2>3
  <2>6. \E h \in numbers : \A k \in numbers : k <= h
    BY <2>5
  <2>7. /\ Backups!HighestOf(numbers) \in numbers
        /\ \A k \in numbers : k <= Backups!HighestOf(numbers)
    BY <1>2, <2>6 DEF Backups!HighestOf
  <2>8. Backups!HighestOf(numbers) \in Nat
    <3>1. \A k \in numbers : k \in Nat
      OBVIOUS
    <3>2. QED BY <2>7, <3>1, Zenon
  <2>9. QED BY <2>7, <2>8
<1>3. QED BY <1>1, <1>2

LEMMA FloorIsAbove ==
  ASSUME NEW d, NEW a, Accounts(d.users), Accounts(a.tables.users)
  PROVE  /\ Backups!EpochFloor(d, a) \in 0 .. MaxEpoch
         /\ \A u \in DOMAIN a.tables.users, n \in Nat :
              n <= a.tables.users[u].epoch /\ n < MaxEpoch => n < Backups!EpochFloor(d, a)
<1> DEFINE all == Backups!Epochs(d.users) \cup Backups!Epochs(a.tables.users)
<1>1. all \in SUBSET (0 .. MaxEpoch)
  BY DEF Accounts, Backups!Epochs
<1>2. \A u \in DOMAIN a.tables.users : a.tables.users[u].epoch \in all
  BY DEF Backups!Epochs
<1>3. Backups!HighestOf(all) \in Nat /\ \A n \in all : n <= Backups!HighestOf(all)
  BY <1>1, HighestIsThere, RestoreParameters
<1>4. Backups!EpochFloor(d, a) = IF Backups!HighestOf(all) + 1 < MaxEpoch
                                 THEN Backups!HighestOf(all) + 1 ELSE MaxEpoch
  BY DEF Backups!EpochFloor, Backups!AtMost
<1> HIDE DEF all
<1>5. \A u \in DOMAIN a.tables.users : a.tables.users[u].epoch \in Nat
  BY DEF Accounts
<1>6. QED BY <1>2, <1>3, <1>4, <1>5, RestoreParameters
-----------------------------------------------------------------------------
(* What a restore does to the accounts.                                    *)

LEMMA TablesRestored ==
  ASSUME NEW d, {"users", "nextUser"} \subseteq DOMAIN d, NEW ids, NEW a, NEW live,
         NEW everyone
  PROVE  /\ SameAccounts(d, Backups!WithSets(d, ids, a, everyone))
         /\ SameAccounts(d, Backups!WithTerms(d, ids, a, live, everyone))
         /\ SameAccounts(d, Backups!WithReference(d, ids, a))
         /\ SameAccounts(d, Backups!WithCompanies(d, ids, a))
         /\ SameAccounts(d, Backups!WithCatalogue(d, a))
         /\ SameAccounts(d, Backups!WithLearners(d, ids, a))
         /\ SameAccounts(d, Backups!WithConfigCatalogue(d, a))
<1>1. SameAccounts(d, Backups!WithSets(d, ids, a, everyone))
  BY DEF SameAccounts, Backups!WithSets
<1>2. SameAccounts(d, Backups!WithTerms(d, ids, a, live, everyone))
  BY DEF SameAccounts, Backups!WithTerms
<1>3. SameAccounts(d, Backups!WithReference(d, ids, a))
  BY DEF SameAccounts, Backups!WithReference
<1>4. SameAccounts(d, Backups!WithCompanies(d, ids, a))
  BY DEF SameAccounts, Backups!WithCompanies
<1>5. SameAccounts(d, Backups!WithCatalogue(d, a))
  BY DEF SameAccounts, Backups!WithCatalogue
<1>6. SameAccounts(d, Backups!WithLearners(d, ids, a))
  BY DEF SameAccounts, Backups!WithLearners
<1>7. SameAccounts(d, Backups!WithConfigCatalogue(d, a))
  BY DEF SameAccounts, Backups!WithConfigCatalogue
<1>8. QED BY <1>1, <1>2, <1>3, <1>4, <1>5, <1>6, <1>7

LEMMA SameThrough ==
  ASSUME NEW d, NEW e, NEW f, SameAccounts(d, e), SameAccounts(e, f)
  PROVE  SameAccounts(d, f)
BY DEF SameAccounts

LEMMA UsersReplaced ==
  ASSUME NEW d, {"users", "nextUser"} \subseteq DOMAIN d, NEW us, NEW access, NEW next,
         NEW e, e = [d EXCEPT !.users = us, !.links = access, !.nextUser = next]
  PROVE  e.users = us /\ e.nextUser = next /\ {"users", "nextUser"} \subseteq DOMAIN e
OBVIOUS

LEMMA UsersRestored ==
  ASSUME NEW d, NEW a, NEW ids, {"users", "nextUser"} \subseteq DOMAIN d,
         d.nextUser \in Nat, Accounts(d.users), Accounts(a.tables.users),
         NEW e, e = Backups!WithUsers(d, ids, a)
  PROVE  /\ Backups!SoundAccounts(e) /\ d.nextUser <= e.nextUser
         /\ \A i \in DOMAIN e.users :
              d.nextUser <= i /\ e.users[i].epoch = Backups!EpochFloor(d, a)
<1> DEFINE users == a.tables.users
           rank(u) == Backups!Cardinality({x \in DOMAIN users : x < u})
           new(u) == d.nextUser + rank(u)
           account(u) == [name |-> users[u].name, admin |-> users[u].admin,
                          epoch |-> Backups!EpochFloor(d, a)]
           restored(i) == account(CHOOSE u \in DOMAIN users : new(u) = i)
<1>1. /\ e.users = [i \in {new(u) : u \in DOMAIN users} |-> restored(i)]
      /\ e.nextUser = d.nextUser + Backups!Cardinality(DOMAIN users)
      /\ {"users", "nextUser"} \subseteq DOMAIN e
  <2> DEFINE us == [i \in {new(u) : u \in DOMAIN users} |-> restored(i)]
             next == d.nextUser + Backups!Cardinality(DOMAIN users)
  <2>1. PICK access : e = [d EXCEPT !.users = us, !.links = access, !.nextUser = next]
    BY Zenon DEF Backups!WithUsers
  <2> HIDE DEF us, next
  <2>2. e.users = us /\ e.nextUser = next /\ {"users", "nextUser"} \subseteq DOMAIN e
    BY <2>1, UsersReplaced
  <2>3. QED BY <2>2 DEF us, next
<1>2. Cardinality(DOMAIN users) \in Nat
  BY FS_CardinalityType DEF Accounts
<1>3. /\ Backups!Cardinality(DOMAIN users) = Cardinality(DOMAIN users)
      /\ \A u \in DOMAIN users : rank(u) \in Nat /\ rank(u) < Cardinality(DOMAIN users)
  <2>1. DOMAIN users \in SUBSET Nat /\ IsFiniteSet(DOMAIN users)
    BY DEF Accounts
  <2>2. \A u : rank(u) = Rank(DOMAIN users, u)
    BY DEF Rank
  <2> HIDE DEF rank, users
  <2>3. QED BY <2>1, <2>2, Ranks
<1> HIDE DEF rank
<1>5. IsFiniteSet({new(u) : u \in DOMAIN users})
  <2> DEFINE T == {new(u) : u \in DOMAIN users}
             highest == d.nextUser + Cardinality(DOMAIN users)
  <2>1. T \in SUBSET (d.nextUser .. highest)
    BY <1>2, <1>3
  <2>2. d.nextUser \in Int /\ highest \in Int
    BY <1>2
  <2>3. IsFiniteSet(d.nextUser .. highest)
    BY <2>2, FS_Interval
  <2> HIDE DEF T, highest
  <2>4. IsFiniteSet(T)
    BY <2>1, <2>3, FS_Subset
  <2>5. QED BY <2>4 DEF T
<1>6. Backups!EpochFloor(d, a) \in 0 .. MaxEpoch
  BY FloorIsAbove
<1>7. ASSUME NEW i \in DOMAIN e.users
      PROVE  /\ i \in Nat /\ d.nextUser <= i /\ i < e.nextUser
             /\ "epoch" \in DOMAIN e.users[i]
             /\ e.users[i].epoch = Backups!EpochFloor(d, a)
  <2>1. PICK u \in DOMAIN users : i = new(u)
    BY <1>1, <1>7
  <2>2. i \in Nat /\ d.nextUser <= i /\ i < e.nextUser
    BY <1>1, <1>2, <1>3, <2>1
  <2>3. e.users[i] = account(CHOOSE v \in DOMAIN users : new(v) = i)
    BY <1>1, <1>7
  <2>4. QED BY <2>2, <2>3
<1>8. DOMAIN e.users = {new(u) : u \in DOMAIN users}
  BY <1>1
<1>9. e.nextUser \in Nat /\ d.nextUser <= e.nextUser
  BY <1>1, <1>2, <1>3
<1>10. Backups!SoundAccounts(e)
  <2>1. Backups!IsFiniteSet(DOMAIN e.users)
    BY <1>5, <1>8, SameSizes
  <2>2. QED BY <1>1, <1>6, <1>7, <1>9, <2>1 DEF Backups!SoundAccounts
<1>11. QED BY <1>7, <1>9, <1>10

LEMMA AccountsSound ==
  ASSUME NEW d, Backups!SoundAccounts(d)
  PROVE  /\ Accounts(d.users) /\ {"users", "nextUser"} \subseteq DOMAIN d
         /\ d.nextUser \in Nat /\ \A u \in DOMAIN d.users : u < d.nextUser
BY SameSizes DEF Backups!SoundAccounts, Accounts

\* A full restore leaves the accounts alone, or puts in their place others with
\* new ids, each above every epoch of the archive that can be outrun.
LEMMA FullyRestoredUsers ==
  ASSUME NEW d, Backups!SoundAccounts(d), NEW a, Accounts(a.tables.users),
         NEW e, e = Backups!FullyRestored(d, a)
  PROVE  IF Backups!ReplacesUsers(a)
         THEN /\ Backups!SoundAccounts(e) /\ d.nextUser <= e.nextUser
              /\ \A i \in DOMAIN e.users :
                   /\ d.nextUser <= i
                   /\ \A u \in DOMAIN a.tables.users, n \in Nat :
                        n <= a.tables.users[u].epoch /\ n < MaxEpoch => n < e.users[i].epoch
         ELSE SameAccounts(d, e)
<1> DEFINE ids == Backups!CompanyIds(d, a)
           joined == Backups!WithCompanies(d, ids, a)
           emptied == Backups!WithCatalogue(joined, a)
           grouped == Backups!WithSets(emptied, ids, a, TRUE)
           referenced == IF "reference" \in a.files
                         THEN Backups!WithReference(grouped, ids, a) ELSE grouped
           agreed == Backups!WithTerms(referenced, ids, a, d.terms, TRUE)
           peopled == Backups!WithLearners(agreed, ids, a)
<1>1. e = IF Backups!ReplacesUsers(a) THEN Backups!WithUsers(peopled, ids, a) ELSE peopled
  BY DEF Backups!FullyRestored
<1>2. {"users", "nextUser"} \subseteq DOMAIN d
  BY AccountsSound
<1> HIDE DEF ids
<1>3. SameAccounts(d, joined)
  BY <1>2, TablesRestored
<1> HIDE DEF joined
<1>4. SameAccounts(d, emptied)
  BY <1>3, TablesRestored, SameThrough DEF SameAccounts
<1> HIDE DEF emptied
<1>5. SameAccounts(d, grouped)
  <2>1. {"users", "nextUser"} \subseteq DOMAIN emptied
    BY <1>4 DEF SameAccounts
  <2>2. SameAccounts(emptied, grouped)
    BY <2>1, TablesRestored
  <2>3. QED BY <1>4, <2>2, SameThrough
<1> HIDE DEF grouped
<1>6. SameAccounts(d, referenced)
  <2>1. SameAccounts(d, Backups!WithReference(grouped, ids, a))
    BY <1>5, TablesRestored, SameThrough DEF SameAccounts
  <2>2. QED BY <1>5, <2>1
<1> HIDE DEF referenced
<1>7. SameAccounts(d, agreed)
  <2>1. {"users", "nextUser"} \subseteq DOMAIN referenced
    BY <1>6 DEF SameAccounts
  <2>2. SameAccounts(referenced, agreed)
    BY <2>1, TablesRestored
  <2>3. QED BY <1>6, <2>2, SameThrough
<1> HIDE DEF agreed
<1>8. SameAccounts(d, peopled)
  BY <1>7, TablesRestored, SameThrough DEF SameAccounts
<1> HIDE DEF peopled
<1>9. CASE Backups!ReplacesUsers(a)
  <2>1. /\ {"users", "nextUser"} \subseteq DOMAIN peopled
        /\ peopled.nextUser = d.nextUser /\ peopled.nextUser \in Nat
        /\ Accounts(peopled.users)
    BY <1>8, AccountsSound DEF SameAccounts
  <2>2. e = Backups!WithUsers(peopled, ids, a)
    BY <1>1, <1>9
  <2>3. /\ Backups!SoundAccounts(e) /\ peopled.nextUser <= e.nextUser
        /\ \A i \in DOMAIN e.users :
             peopled.nextUser <= i /\ e.users[i].epoch = Backups!EpochFloor(peopled, a)
    BY <2>1, <2>2, UsersRestored
  <2>4. \A u \in DOMAIN a.tables.users, n \in Nat :
          n <= a.tables.users[u].epoch /\ n < MaxEpoch => n < Backups!EpochFloor(peopled, a)
    BY <2>1, FloorIsAbove
  <2>5. QED BY <1>9, <2>1, <2>3, <2>4
<1>10. QED BY <1>1, <1>8, <1>9

LEMMA ReconfiguredUsers ==
  ASSUME NEW d, Backups!SoundAccounts(d), NEW a
  PROVE  SameAccounts(d, Backups!Reconfigured(d, a))
<1> DEFINE merged == Backups!WithConfigCatalogue(d, a)
           grouped == IF "sets" \in a.files THEN Backups!WithSets(merged, <<>>, a, FALSE)
                      ELSE merged
           referenced == Backups!WithReference(grouped, <<>>, a)
<1>1. Backups!Reconfigured(d, a) = Backups!WithTerms(referenced, <<>>, a, d.terms, FALSE)
  BY DEF Backups!Reconfigured
<1>2. SameAccounts(d, merged)
  BY AccountsSound, TablesRestored
<1> HIDE DEF merged
<1>3. SameAccounts(d, Backups!WithSets(merged, <<>>, a, FALSE))
  <2>1. {"users", "nextUser"} \subseteq DOMAIN merged
    BY <1>2 DEF SameAccounts
  <2>2. SameAccounts(merged, Backups!WithSets(merged, <<>>, a, FALSE))
    BY <2>1, TablesRestored
  <2>3. QED BY <1>2, <2>2, SameThrough
<1>4. SameAccounts(d, grouped)
  BY <1>2, <1>3
<1> HIDE DEF grouped
<1>5. SameAccounts(d, referenced)
  BY <1>4, TablesRestored, SameThrough DEF SameAccounts
<1> HIDE DEF referenced
<1>6. SameAccounts(d, Backups!WithTerms(referenced, <<>>, a, d.terms, FALSE))
  <2>1. {"users", "nextUser"} \subseteq DOMAIN referenced
    BY <1>5 DEF SameAccounts
  <2>2. SameAccounts(referenced, Backups!WithTerms(referenced, <<>>, a, d.terms, FALSE))
    BY <2>1, TablesRestored
  <2>3. QED BY <1>5, <2>2, SameThrough
<1>7. QED BY <1>1, <1>6
-----------------------------------------------------------------------------
(* Every step.                                                             *)

LEMMA AccountsStay ==
  ASSUME RestoreInv, SameAccounts(install, install'),
         UNCHANGED <<scenario, backup, archive, here, ended>>,
         last' = last \/ (archive # None /\ last' # Backups!NoRestore)
  PROVE  RestoreInv'
<1>1. install'.users = install.users /\ install'.nextUser = install.nextUser
      /\ {"users", "nextUser"} \subseteq DOMAIN install'
  BY DEF SameAccounts
<1>2. Backups!SoundAccounts(install)' /\ Minted(here, install.users)'
  BY <1>1 DEF RestoreInv, Backups!SoundAccounts, Minted
<1>3. BackupInv' /\ ArchiveInv'
  BY <1>1 DEF RestoreInv, BackupInv, ArchiveInv, Minted, Accounts
<1>4. EndedInv'
  <2>1. \A c \in ended : Outrun(c)'
    BY <1>1 DEF RestoreInv, EndedInv, Outrun
  <2>2. Backups!OldSessionsEnd'
    BY <1>1 DEF RestoreInv, EndedInv, Backups!OldSessionsEnd
  <2>3. (archive = None \/ last = Backups!NoRestore => ended = {})'
    BY DEF RestoreInv, EndedInv, Backups!NoRestore
  <2>4. QED BY <2>1, <2>2, <2>3 DEF RestoreInv, EndedInv
<1>5. QED BY <1>2, <1>3, <1>4 DEF RestoreInv

\* No handler but those of accounts touches them.
LEMMA TablesEdited ==
  ASSUME RestoreInv, NEW n, NEW c, NEW p, NEW set, NEW s, NEW m,
         \/ Backups!CreateCompany(n) \/ Backups!RenameCompany(c, n)
         \/ Backups!DeleteCompany(c) \/ Backups!CreateType(n)
         \/ Backups!EditSet(s, m) \/ Backups!DeleteSet(s) \/ Backups!CreateTerms(p, c, set)
  PROVE  RestoreInv'
<1>1. {"users", "nextUser"} \subseteq DOMAIN install
  BY AccountsSound DEF RestoreInv
<1>2. UNCHANGED <<scenario, backup, archive, here, ended, last>>
  BY DEF Backups!CreateCompany, Backups!RenameCompany, Backups!DeleteCompany,
         Backups!CreateType, Backups!EditSet, Backups!DeleteSet, Backups!CreateTerms,
         Backups!Edited
<1>3. SameAccounts(install, install')
  <2>1. CASE Backups!CreateCompany(n)
    BY <1>1, <2>1 DEF SameAccounts, Backups!CreateCompany, Backups!Edited
  <2>2. CASE Backups!RenameCompany(c, n)
    BY <1>1, <2>2 DEF SameAccounts, Backups!RenameCompany, Backups!Edited
  <2>3. CASE Backups!DeleteCompany(c)
    BY <1>1, <2>3 DEF SameAccounts, Backups!DeleteCompany, Backups!Edited
  <2>4. CASE Backups!CreateType(n)
    BY <1>1, <2>4 DEF SameAccounts, Backups!CreateType, Backups!Edited
  <2>5. CASE Backups!EditSet(s, m)
    BY <1>1, <2>5 DEF SameAccounts, Backups!EditSet, Backups!Edited
  <2>6. CASE Backups!DeleteSet(s)
    BY <1>1, <2>6 DEF SameAccounts, Backups!DeleteSet, Backups!Edited
  <2>7. CASE Backups!CreateTerms(p, c, set)
    BY <1>1, <2>7 DEF SameAccounts, Backups!CreateTerms, Backups!Edited
  <2>8. QED BY <2>1, <2>2, <2>3, <2>4, <2>5, <2>6, <2>7
<1>4. QED BY <1>2, <1>3, AccountsStay

\* A sign-in mints a cookie at the epoch of its account, and a change of password
\* at the next one; no epoch goes down.
LEMMA AccountsEdited ==
  ASSUME RestoreInv, NEW u \in DOMAIN install.users,
         Backups!SignIn(u) \/ Backups!ChangePassword(u)
  PROVE  RestoreInv'
<1> DEFINE users == install.users
<1>1. /\ Accounts(users) /\ {"users", "nextUser"} \subseteq DOMAIN install
      /\ install.nextUser \in Nat /\ \A x \in DOMAIN users : x < install.nextUser
  BY AccountsSound DEF RestoreInv
<1>2. /\ UNCHANGED <<scenario, backup, archive, ended, last>>
      /\ here' = here \cup {[id |-> u, epoch |-> install'.users[u].epoch]}
  BY DEF Backups!SignIn, Backups!ChangePassword, Backups!Edited
<1>3. /\ {"users", "nextUser"} \subseteq DOMAIN install'
      /\ install'.nextUser = install.nextUser /\ DOMAIN install'.users = DOMAIN users
      /\ \A x \in DOMAIN users :
           /\ "epoch" \in DOMAIN install'.users[x] /\ install'.users[x].epoch \in 0 .. MaxEpoch
           /\ users[x].epoch <= install'.users[x].epoch
  <2>1. CASE Backups!SignIn(u)
    <3>1. install' = install BY <2>1 DEF Backups!SignIn, Backups!Edited
    <3>2. \A x \in DOMAIN users : users[x].epoch \in Nat
      BY <1>1, RestoreParameters DEF Accounts
    <3>3. QED BY <1>1, <3>1, <3>2 DEF Accounts
  <2>2. CASE Backups!ChangePassword(u)
    <3>1. /\ install' = [install EXCEPT !.users[u].epoch = @ + 1]
          /\ users[u].epoch < MaxEpoch
      BY <2>2 DEF Backups!ChangePassword, Backups!Edited
    <3>2. install'.users = [users EXCEPT ![u].epoch = @ + 1]
      BY <1>1, <3>1
    <3>3. /\ DOMAIN install' = DOMAIN install /\ install'.nextUser = install.nextUser
          /\ DOMAIN install'.users = DOMAIN users
      BY <3>1, <3>2
    <3>4. ASSUME NEW x \in DOMAIN users
          PROVE  /\ "epoch" \in DOMAIN install'.users[x]
                 /\ install'.users[x].epoch \in 0 .. MaxEpoch
                 /\ users[x].epoch <= install'.users[x].epoch
      <4>1. users[x].epoch \in 0 .. MaxEpoch /\ "epoch" \in DOMAIN users[x]
        BY <1>1 DEF Accounts
      <4>2. CASE x = u
        <5>1. install'.users[x] = [users[x] EXCEPT !.epoch = @ + 1]
          BY <3>2, <4>2
        <5>2. install'.users[x].epoch = users[x].epoch + 1 /\ "epoch" \in DOMAIN install'.users[x]
          BY <4>1, <5>1
        <5>3. QED BY <3>1, <4>1, <4>2, <5>2, RestoreParameters
      <4>3. CASE x # u
        BY <3>2, <4>1, <4>3, RestoreParameters
      <4>4. QED BY <4>2, <4>3
    <3>5. QED BY <1>1, <3>3, <3>4
  <2>3. QED BY <2>1, <2>2
<1>4. \A x \in DOMAIN users :
        users[x].epoch \in Nat /\ install'.users[x].epoch \in Nat /\ x \in Nat
  BY <1>1, <1>3, RestoreParameters DEF Accounts
<1>5. Backups!SoundAccounts(install')
  BY <1>1, <1>3, SameSizes DEF Backups!SoundAccounts, Accounts
<1>6. ASSUME NEW S, Minted(S, users) PROVE Minted(S, install'.users)
  BY <1>3, <1>4, <1>6 DEF Minted
<1>7. Minted(here', install'.users)
  <2>1. Minted(here, install'.users)
    BY <1>6 DEF RestoreInv
  <2>2. QED BY <1>2, <1>3, <1>4, <2>1 DEF Minted
<1>8. BackupInv'
  BY <1>2, <1>6 DEF RestoreInv, BackupInv
<1>9. ArchiveInv'
  BY <1>2 DEF RestoreInv, ArchiveInv
<1>10. EndedInv'
  <2>1. \A c \in ended : Outrun(c)'
    BY <1>2, <1>3 DEF RestoreInv, EndedInv, Outrun
  <2>2. Backups!OldSessionsEnd'
    BY <1>2, <1>3, <1>4 DEF RestoreInv, EndedInv, Backups!OldSessionsEnd
  <2>3. QED BY <1>2, <2>1, <2>2 DEF RestoreInv, EndedInv
<1>11. QED BY <1>2, <1>5, <1>7, <1>8, <1>9, <1>10 DEF RestoreInv

LEMMA BackupTaken ==
  ASSUME RestoreInv,
         \/ \E kind \in Backups!Mix.kinds, files \in Backups!Mix.files,
               first \in Backups!Mix.cuts : Backups!BeginBackup(kind, files, first)
         \/ Backups!EndBackup
  PROVE  RestoreInv'
<1>1. UNCHANGED <<scenario, install, here, ended, last>> /\ archive = None
  BY DEF Backups!BeginBackup, Backups!EndBackup, RestoreInv, BackupInv
<1>2. ended = {}
  BY <1>1 DEF RestoreInv, EndedInv
<1>3. EndedInv'
  BY <1>1, <1>2 DEF RestoreInv, EndedInv, Backups!OldSessionsEnd
<1>4. Accounts(install.users)
  BY AccountsSound DEF RestoreInv
<1>5. BackupInv' /\ ArchiveInv'
  <2>1. CASE \E kind \in Backups!Mix.kinds, files \in Backups!Mix.files,
                first \in Backups!Mix.cuts : Backups!BeginBackup(kind, files, first)
    <3>1. PICK kind, files, first :
            backup' = [kind |-> kind, files |-> files, first |-> first, db |-> install,
                       here |-> here]
      BY <2>1 DEF Backups!BeginBackup
    <3>2. backup'.db = install /\ backup'.here = here
      BY <3>1
    <3>3. archive' = None
      BY <2>1 DEF Backups!BeginBackup
    <3>4. QED BY <1>1, <1>4, <3>2, <3>3 DEF RestoreInv, BackupInv, ArchiveInv
  <2>2. CASE Backups!EndBackup
    <3>1. backup # None /\ backup' = None
      BY <2>2 DEF Backups!EndBackup
    <3>2. /\ archive'.cookies = backup.here
          /\ archive'.tables = [t \in Backups!Tables |-> Backups!Read(t)]
      BY <2>2 DEF Backups!EndBackup
    <3>3. archive'.tables.users \in {backup.db.users, install.users}
      BY <3>2 DEF Backups!Tables, Backups!Read
    <3>4. QED BY <1>4, <3>1, <3>2, <3>3 DEF RestoreInv, BackupInv, ArchiveInv
  <2>3. QED BY <2>1, <2>2
<1>6. QED BY <1>1, <1>3, <1>5 DEF RestoreInv

LEMMA Moved ==
  ASSUME RestoreInv, Backups!MoveToAnotherInstall
  PROVE  RestoreInv'
<1>1. /\ archive # None /\ last = Backups!NoRestore /\ here' = {}
      /\ install' \in Archives[scenario].others
      /\ UNCHANGED <<scenario, backup, archive, ended, last>>
  BY DEF Backups!MoveToAnotherInstall, Backups!Mix
<1>2. ended = {} /\ backup = None
  BY <1>1 DEF RestoreInv, EndedInv, BackupInv
<1>3. Backups!SoundAccounts(install')
  BY <1>1, RestoreParameters DEF RestoreInv
<1>4. Minted(here', install'.users)
  BY <1>1 DEF Minted
<1>5. BackupInv' /\ ArchiveInv'
  BY <1>1, <1>2 DEF RestoreInv, BackupInv, ArchiveInv
<1>6. EndedInv'
  BY <1>1, <1>2 DEF RestoreInv, EndedInv, Backups!OldSessionsEnd
<1>7. QED BY <1>1, <1>3, <1>4, <1>5, <1>6 DEF RestoreInv

\* A restore that is refused, fails or leaves the accounts out.
LEMMA RestoredAround ==
  ASSUME RestoreInv, NEW kind \in {"full", "config"}, NEW outcome, NEW d,
         Backups!Restored(kind, outcome, d), outcome = "ok" => SameAccounts(install, d),
         UNCHANGED <<here, ended>>
  PROVE  RestoreInv'
<1>1. /\ archive # None /\ install' = IF outcome = "ok" THEN d ELSE install
      /\ last'.kind = kind /\ UNCHANGED <<scenario, backup, archive>>
  BY DEF Backups!Restored
<1>2. last' # Backups!NoRestore
  BY <1>1, RestoreParameters DEF Backups!NoRestore
<1>3. SameAccounts(install, install')
  BY <1>1, AccountsSound DEF RestoreInv, SameAccounts
<1>4. QED BY <1>1, <1>2, <1>3, AccountsStay

LEMMA FullyRestoredInv ==
  ASSUME RestoreInv, Backups!RestoreFull
  PROVE  RestoreInv'
<1> DEFINE d == Backups!FullyRestored(install, archive)
           users == archive.tables.users
<1>1. PICK outcome :
        LET ends == outcome = "ok" /\ Backups!ReplacesUsers(archive)
        IN  /\ Backups!Restored("full", outcome, d)
            /\ ended' = IF ends THEN ended \cup Backups!Ended(archive) ELSE ended
            /\ here' = IF ends THEN {} ELSE here
  BY Zenon DEF Backups!RestoreFull
<1>2. /\ archive # None /\ UNCHANGED <<scenario, backup, archive>>
      /\ install' = (IF outcome = "ok" THEN d ELSE install)
      /\ last'.kind = "full"
  BY <1>1 DEF Backups!Restored
<1>3. /\ Accounts(users) /\ Minted(archive.cookies, users)
      /\ Backups!SoundAccounts(install) /\ Minted(here, install.users)
  BY <1>2 DEF RestoreInv, ArchiveInv
<1>4. IF Backups!ReplacesUsers(archive)
      THEN /\ Backups!SoundAccounts(d) /\ install.nextUser <= d.nextUser
           /\ \A i \in DOMAIN d.users :
                /\ install.nextUser <= i
                /\ \A u \in DOMAIN users, n \in Nat :
                     n <= users[u].epoch /\ n < MaxEpoch => n < d.users[i].epoch
      ELSE SameAccounts(install, d)
  BY <1>3, FullyRestoredUsers
<1> HIDE DEF d
<1>5. CASE ~(outcome = "ok" /\ Backups!ReplacesUsers(archive))
  <2>1. UNCHANGED <<here, ended>>
    BY <1>1, <1>5
  <2>2. outcome = "ok" => SameAccounts(install, d)
    BY <1>4, <1>5
  <2>3. QED BY <1>1, <2>1, <2>2, RestoredAround
<1>6. CASE outcome = "ok" /\ Backups!ReplacesUsers(archive)
  <2>1. install' = d /\ here' = {} /\ ended' = ended \cup Backups!Ended(archive)
    BY <1>1, <1>2, <1>6
  <2>2. /\ Accounts(install.users) /\ install.nextUser \in Nat /\ d.nextUser \in Nat
        /\ \A u \in DOMAIN install.users : u < install.nextUser
        /\ Accounts(d.users)
    BY <1>3, <1>4, <1>6, AccountsSound
  <2>3. ASSUME NEW c \in ended'
        PROVE  c.id \in Nat /\ c.epoch \in Nat /\ Outrun(c)
    <3>1. CASE c \in ended
      BY <3>1 DEF RestoreInv, EndedInv
    <3>2. CASE c \in here
      BY <1>3, <2>2, <3>2 DEF Minted, Outrun, Accounts
    <3>3. CASE c \in archive.cookies /\ c.epoch < MaxEpoch
      BY <1>3, <3>3 DEF Minted, Outrun, Accounts
    <3>4. QED BY <2>1, <3>1, <3>2, <3>3 DEF Backups!Ended
  <2>4. \A c \in ended' : Outrun(c)'
    <3>1. \A c \in ended' : c.id < install.nextUser => c.id < d.nextUser
      BY <1>4, <1>6, <2>2, <2>3
    <3>2. QED BY <1>2, <2>1, <2>3, <3>1 DEF Outrun
  <2>5. ASSUME NEW c \in ended', c.id \in DOMAIN d.users
        PROVE  c.epoch < d.users[c.id].epoch
    <3>1. ~(c.id < install.nextUser)
      BY <1>4, <1>6, <2>2, <2>3, <2>5
    <3>2. PICK u \in DOMAIN users : c.epoch <= users[u].epoch /\ c.epoch < MaxEpoch
      BY <2>3, <3>1 DEF Outrun
    <3>3. QED BY <1>4, <1>6, <2>3, <2>5, <3>2
  <2>6. last' # Backups!NoRestore
    BY <1>2, RestoreParameters DEF Backups!NoRestore
  <2>7. EndedInv'
    BY <1>2, <2>1, <2>3, <2>4, <2>5, <2>6 DEF EndedInv, Backups!OldSessionsEnd
  <2>8. Minted(here', install'.users)
    BY <2>1 DEF Minted
  <2>9. BackupInv' /\ ArchiveInv'
    BY <1>2 DEF RestoreInv, BackupInv, ArchiveInv
  <2>10. QED BY <1>2, <1>4, <1>6, <2>1, <2>7, <2>8, <2>9 DEF RestoreInv
<1>7. QED BY <1>5, <1>6

LEMMA ReconfiguredInv ==
  ASSUME RestoreInv, Backups!RestoreConfig
  PROVE  RestoreInv'
<1> DEFINE merged == Backups!Reconfigured(install, archive)
<1>1. PICK fails, stays :
        /\ Backups!Restored("config", IF fails THEN "failed" ELSE "ok",
                            IF stays THEN install ELSE merged)
        /\ UNCHANGED <<here, ended>>
  BY Zenon DEF Backups!RestoreConfig
<1>2. SameAccounts(install, merged) /\ SameAccounts(install, install)
  BY AccountsSound, ReconfiguredUsers DEF RestoreInv, SameAccounts
<1> HIDE DEF merged
<1>3. SameAccounts(install, IF stays THEN install ELSE merged)
  BY <1>2
<1>4. QED BY <1>1, <1>3, RestoredAround

LEMMA RestoreKept ==
  ASSUME RestoreInv, [Backups!Next]_restoreVars
  PROVE  RestoreInv'
<1>1. CASE Backups!Edit
  BY <1>1, TablesEdited, AccountsEdited DEF Backups!Edit
<1>2. CASE \/ \E kind \in Backups!Mix.kinds, files \in Backups!Mix.files,
                 first \in Backups!Mix.cuts : Backups!BeginBackup(kind, files, first)
           \/ Backups!EndBackup
  BY <1>2, BackupTaken
<1>3. CASE Backups!MoveToAnotherInstall
  BY <1>3, Moved
<1>4. CASE Backups!RestoreFull
  BY <1>4, FullyRestoredInv
<1>5. CASE Backups!RestoreConfig
  BY <1>5, ReconfiguredInv
<1>6. CASE UNCHANGED restoreVars
  <2>1. UNCHANGED <<scenario, install, backup, archive, here, ended, last>>
    BY <1>6 DEF restoreVars
  <2>2. QED BY <2>1 DEF RestoreInv, BackupInv, ArchiveInv, EndedInv, Outrun,
                        Backups!OldSessionsEnd
<1>7. QED BY <1>1, <1>2, <1>3, <1>4, <1>5, <1>6 DEF Backups!Next

(***************************************************************************)
(* Whatever the installs, the archive, the epochs in its accounts and what *)
(* happens between a backup and a restore: a cookie that a restore of the  *)
(* accounts ends is below the epoch of whatever account has its id, then   *)
(* and ever after, so the checks of a session refuse it.                   *)
(***************************************************************************)
THEOREM SignInsEnd == MCSpec => []OldSessionsEnd
<1>1. MCInit => RestoreInv
  BY RestoreStarts DEF MCInit
<1>2. RestoreInv /\ [MCNext]_<<part, learnersVars, restoreVars, planVars>> => RestoreInv'
  <2>1. [MCNext]_<<part, learnersVars, restoreVars, planVars>> => [Backups!Next]_restoreVars
    BY DEF MCNext
  <2>2. QED BY <2>1, RestoreKept
<1>3. RestoreInv => OldSessionsEnd
  BY DEF RestoreInv, EndedInv, OldSessionsEnd
<1>4. QED BY <1>1, <1>2, <1>3, PTL DEF MCSpec
-----------------------------------------------------------------------------
(* What restores and handlers leave of the tables.                         *)

LEMMA NumberedIs ==
  ASSUME NEW names
  PROVE  Backups!Numbered(names) <=> (/\ IsFiniteSet(DOMAIN names) /\ DOMAIN names \in SUBSET Nat
                                      /\ \A i, j \in DOMAIN names : names[i] = names[j] => i = j)
BY SameSizes DEF Backups!Numbered, Backups!IsInjective

LEMMA TheIdIs ==
  ASSUME NEW names, NEW n
  PROVE  /\ Backups!Named(names, n) # {} =>
              Backups!TheId(names, n) \in DOMAIN names /\ names[Backups!TheId(names, n)] = n
         /\ \A i \in DOMAIN names : Backups!Numbered(names) /\ names[i] = n =>
              Backups!Named(names, n) # {} /\ Backups!TheId(names, n) = i
<1>1. Backups!Named(names, n) # {} => Backups!TheId(names, n) \in Backups!Named(names, n)
  BY DEF Backups!TheId
<1>2. \A i \in DOMAIN names : names[i] = n => i \in Backups!Named(names, n)
  BY DEF Backups!Named
<1>3. \A i \in Backups!Named(names, n) : i \in DOMAIN names /\ names[i] = n
  BY DEF Backups!Named
<1>4. QED BY <1>1, <1>2, <1>3, NumberedIs

\* What a sequence gives.
LEMMA IdsGiven ==
  ASSUME NEW new \in SUBSET Nat, IsFiniteSet(new), NEW next \in Nat, NEW ids,
         \A i \in new : ids[i] = next + Rank(new, i)
  PROVE  /\ \A i \in new : ids[i] \in Nat /\ next <= ids[i] /\ ids[i] < next + Cardinality(new)
         /\ \A i, j \in new : ids[i] = ids[j] => i = j
<1>1. /\ Cardinality(new) \in Nat
      /\ \A x \in new : /\ Rank(new, x) \in Nat /\ Rank(new, x) < Cardinality(new)
                        /\ \A y \in new : x < y => Rank(new, x) < Rank(new, y)
  BY Ranks
<1>2. ASSUME NEW i \in new, NEW j \in new, ids[i] = ids[j] PROVE i = j
  <2>1. i \in Nat /\ j \in Nat /\ Rank(new, i) \in Nat /\ Rank(new, j) \in Nat
    BY <1>1
  <2>2. Rank(new, i) = Rank(new, j)
    BY <1>2, <2>1
  <2>3. ~(i < j) /\ ~(j < i)
    BY <1>1, <2>1, <2>2
  <2>4. QED BY <2>1, <2>3
<1>3. QED BY <1>1, <1>2

\* Rows of an archive are added to a table under new ids and new names.
Joins(old, archived, new, ids, joined) ==
  /\ Backups!Numbered(old) /\ Backups!Numbered(archived) /\ new \in SUBSET DOMAIN archived
  /\ \A i \in new : ids[i] \in Nat /\ \A x \in DOMAIN old : archived[i] # old[x]
  /\ \A x \in DOMAIN old : joined[x] = old[x]
  /\ \A x \in DOMAIN joined \ DOMAIN old : \E i \in new : x = ids[i] /\ joined[x] = archived[i]

LEMMA NamesJoined ==
  ASSUME NEW old, NEW archived, NEW new, NEW ids, NEW joined,
         Joins(old, archived, new, ids, joined)
  PROVE  Backups!Numbered(joined)
<1> USE DEF Joins
<1> DEFINE given == {ids[i] : i \in new}
<1>1. /\ IsFiniteSet(DOMAIN old) /\ DOMAIN old \in SUBSET Nat
      /\ \A i, j \in DOMAIN old : old[i] = old[j] => i = j
      /\ IsFiniteSet(DOMAIN archived)
      /\ \A i, j \in DOMAIN archived : archived[i] = archived[j] => i = j
  BY NumberedIs
<1>2. IsFiniteSet(given)
  <2> DEFINE f == [i \in new |-> ids[i]]
  <2>1. f \in Surjection(new, given)
    BY DEF Surjection
  <2>2. IsFiniteSet(new)
    BY <1>1, FS_Subset
  <2> HIDE DEF f, given
  <2>3. QED BY <2>1, <2>2, FS_Surjection
<1>3. IsFiniteSet(DOMAIN joined)
  <2> HIDE DEF given
  <2>1. IsFiniteSet(DOMAIN old \cup given)
    BY <1>1, <1>2, FS_Union
  <2>2. DOMAIN joined \in SUBSET (DOMAIN old \cup given)
    BY DEF given
  <2>3. QED BY <2>1, <2>2, FS_Subset
<1>4. DOMAIN joined \in SUBSET Nat
  BY <1>1
<1>5. ASSUME NEW i \in DOMAIN joined, NEW j \in DOMAIN joined, joined[i] = joined[j]
      PROVE  i = j
  <2>1. CASE i \in DOMAIN old /\ j \in DOMAIN old
    BY <1>1, <1>5, <2>1
  <2>2. CASE i \in DOMAIN old /\ j \notin DOMAIN old
    BY <1>5, <2>2
  <2>3. CASE i \notin DOMAIN old /\ j \in DOMAIN old
    BY <1>5, <2>3
  <2>4. CASE i \notin DOMAIN old /\ j \notin DOMAIN old
    <3>1. PICK x \in new : i = ids[x] /\ joined[i] = archived[x]
      BY <2>4
    <3>2. PICK y \in new : j = ids[y] /\ joined[j] = archived[y]
      BY <2>4
    <3>3. x = y
      BY <1>1, <1>5, <3>1, <3>2
    <3>4. QED BY <3>1, <3>2, <3>3
  <2>5. QED BY <2>1, <2>2, <2>3, <2>4
<1>6. QED BY <1>3, <1>4, <1>5, NumberedIs
-----------------------------------------------------------------------------
(* The companies.                                                          *)

\* Between two databases, nothing but these has changed.
Only(d, e, changed) ==
  DOMAIN e = DOMAIN d /\ \A f \in DOMAIN d \ changed : e[f] = d[f]

\* Every archived company gets the local one of its name, or a new one.
LEMMA CompaniesJoined ==
  ASSUME NEW d, "companies" \in DOMAIN d, Backups!SoundNames(d),
         NEW a, Backups!Numbered(a.tables.companies),
         NEW ids, ids = Backups!CompanyIds(d, a),
         NEW e, e = Backups!WithCompanies(d, ids, a)
  PROVE  /\ Only(d, e, {"companies", "nextCompany"})
         /\ Backups!Numbered(e.companies) /\ e.nextCompany \in Nat
         /\ \A c \in DOMAIN e.companies : c < e.nextCompany
         /\ \A c \in DOMAIN d.companies : c \in DOMAIN e.companies /\ e.companies[c] = d.companies[c]
         /\ \A c \in DOMAIN ids : c \in DOMAIN a.tables.companies /\ ids[c] \in DOMAIN e.companies
                                  /\ e.companies[ids[c]] = a.tables.companies[c]
<1> DEFINE archived == a.tables.companies
           new == {c \in DOMAIN ids : ids[c] >= d.nextCompany}
           company(i) == archived[CHOOSE c \in new : ids[c] = i]
<1>1. /\ IsFiniteSet(DOMAIN d.companies) /\ DOMAIN d.companies \in SUBSET Nat
      /\ IsFiniteSet(DOMAIN archived) /\ DOMAIN archived \in SUBSET Nat
      /\ \A i, j \in DOMAIN archived : archived[i] = archived[j] => i = j
  BY NumberedIs DEF Backups!SoundNames
<1>2. /\ {"companies", "nextCompany"} \subseteq DOMAIN d
      /\ d.nextCompany \in Nat /\ \A c \in DOMAIN d.companies : c < d.nextCompany
  BY DEF Backups!SoundNames
<1>3. /\ new \in SUBSET DOMAIN archived
      /\ \A c \in new : \A x \in DOMAIN d.companies : archived[c] # d.companies[x]
      /\ \A c \in new : /\ ids[c] \in Nat /\ d.nextCompany <= ids[c]
                        /\ ids[c] < d.nextCompany + Cardinality(new)
      /\ \A c, x \in new : ids[c] = ids[x] => c = x
      /\ \A c \in DOMAIN ids \ new : c \in DOMAIN archived /\ ids[c] \in DOMAIN d.companies
                                     /\ d.companies[ids[c]] = archived[c]
      /\ Cardinality(new) \in Nat /\ Backups!Cardinality(new) = Cardinality(new)
  <2>1. CASE "companies" \notin a.files
    <3>1. ids = <<>> /\ DOMAIN ids = {} /\ new = {}
      BY <2>1 DEF Backups!CompanyIds
    <3>2. Cardinality(new) = 0 /\ Backups!Cardinality(new) = 0
      BY <3>1, FS_EmptySet, SameSizes
    <3>3. QED BY <3>1, <3>2
  <2>2. CASE "companies" \in a.files
    <3> DEFINE fresh == Backups!NewCompanies(d, a)
    <3>1. /\ DOMAIN ids = DOMAIN archived
          /\ \A c \in DOMAIN archived :
               ids[c] = IF c \in fresh THEN d.nextCompany + Rank(fresh, c)
                        ELSE Backups!TheId(d.companies, archived[c])
      BY <2>2 DEF Backups!CompanyIds, Rank
    <3>2. /\ fresh \in SUBSET DOMAIN archived
          /\ \A c \in fresh : Backups!Named(d.companies, archived[c]) = {}
          /\ \A c \in DOMAIN archived \ fresh : Backups!Named(d.companies, archived[c]) # {}
      BY DEF Backups!NewCompanies
    <3>3. fresh \in SUBSET Nat /\ IsFiniteSet(fresh)
      BY <1>1, <3>2, FS_Subset
    <3>4. \A c \in fresh : ids[c] = d.nextCompany + Rank(fresh, c)
      BY <3>1, <3>2
    <3> HIDE DEF fresh
    <3>5. /\ \A c \in fresh : /\ ids[c] \in Nat /\ d.nextCompany <= ids[c]
                              /\ ids[c] < d.nextCompany + Cardinality(fresh)
          /\ \A c, x \in fresh : ids[c] = ids[x] => c = x
      BY <1>2, <3>3, <3>4, IdsGiven
    <3>6. ASSUME NEW c \in DOMAIN archived \ fresh
          PROVE  ids[c] \in DOMAIN d.companies /\ d.companies[ids[c]] = archived[c]
      <4>1. /\ ids[c] = Backups!TheId(d.companies, archived[c])
            /\ Backups!Named(d.companies, archived[c]) # {}
        BY <3>1, <3>2
      <4>2. QED BY <4>1, TheIdIs
    <3>7. \A c \in DOMAIN archived \ fresh : ids[c] \in Nat /\ ids[c] < d.nextCompany
      BY <1>1, <1>2, <3>6
    <3>8. new = fresh
      <4>1. \A c \in fresh : ids[c] >= d.nextCompany
        BY <1>2, <3>5
      <4>2. \A c \in DOMAIN archived \ fresh : ~(ids[c] >= d.nextCompany)
        BY <1>2, <3>7
      <4>3. QED BY <3>1, <3>2, <4>1, <4>2
    <3>9. \A c \in fresh : \A x \in DOMAIN d.companies : archived[c] # d.companies[x]
      BY <3>2 DEF Backups!Named
    <3>10. Cardinality(fresh) \in Nat /\ Backups!Cardinality(fresh) = Cardinality(fresh)
      BY <3>3, FS_CardinalityType, SameSizes
    <3> HIDE DEF new
    <3>11. QED BY <3>1, <3>2, <3>5, <3>6, <3>8, <3>9, <3>10
  <2>3. QED BY <2>1, <2>2
<1> HIDE DEF new
<1>4. \E joined :
        /\ joined = [i \in DOMAIN d.companies \cup {ids[c] : c \in new} |->
                       IF i \in DOMAIN d.companies THEN d.companies[i] ELSE company(i)]
        /\ e = [d EXCEPT !.companies = joined, !.nextCompany = @ + Backups!Cardinality(new)]
  BY Zenon DEF Backups!WithCompanies, new
<1>5. PICK joined :
        /\ joined = [i \in DOMAIN d.companies \cup {ids[c] : c \in new} |->
                       IF i \in DOMAIN d.companies THEN d.companies[i] ELSE company(i)]
        /\ e = [d EXCEPT !.companies = joined, !.nextCompany = @ + Backups!Cardinality(new)]
  BY <1>4
<1>6. /\ Only(d, e, {"companies", "nextCompany"}) /\ e.companies = joined
      /\ e.nextCompany = d.nextCompany + Cardinality(new)
  BY <1>2, <1>3, <1>5 DEF Only
<1>7. /\ DOMAIN joined = DOMAIN d.companies \cup {ids[c] : c \in new}
      /\ \A i \in DOMAIN d.companies : joined[i] = d.companies[i]
      /\ \A c \in new : ids[c] \notin DOMAIN d.companies /\ joined[ids[c]] = archived[c]
  <2>1. /\ DOMAIN joined = DOMAIN d.companies \cup {ids[c] : c \in new}
        /\ \A i \in DOMAIN d.companies : joined[i] = d.companies[i]
    BY <1>5
  <2>2. ASSUME NEW c \in new
        PROVE  ids[c] \notin DOMAIN d.companies /\ joined[ids[c]] = archived[c]
    <3>1. ids[c] \notin DOMAIN d.companies
      BY <1>1, <1>2, <1>3
    <3>2. joined[ids[c]] = company(ids[c])
      BY <1>5, <3>1
    <3>3. (CHOOSE x \in new : ids[x] = ids[c]) = c
      BY <1>3
    <3>4. QED BY <3>1, <3>2, <3>3
  <2>3. QED BY <2>1, <2>2
<1>8. \A x \in DOMAIN joined \ DOMAIN d.companies :
        \E c \in new : x = ids[c] /\ joined[x] = archived[c]
  BY <1>7
<1> HIDE DEF company
<1>9. Backups!Numbered(joined)
  <2>1. Joins(d.companies, archived, new, ids, joined)
    BY <1>3, <1>7, <1>8 DEF Joins, Backups!SoundNames
  <2>2. QED BY <2>1, NamesJoined
<1>10. \A c \in DOMAIN joined : c < d.nextCompany + Cardinality(new)
  <2>1. \A c \in DOMAIN d.companies : c \in Nat /\ c < d.nextCompany + Cardinality(new)
    BY <1>1, <1>2, <1>3
  <2>2. QED BY <1>3, <1>7, <2>1
<1>11. \A c \in DOMAIN ids : c \in DOMAIN archived /\ ids[c] \in DOMAIN joined
                             /\ joined[ids[c]] = archived[c]
  BY <1>3, <1>7
<1>12. QED BY <1>2, <1>3, <1>6, <1>7, <1>9, <1>10, <1>11
-----------------------------------------------------------------------------
(* The other tables, in the steps of a full restore.                       *)

LEMMA CompanyFound ==
  ASSUME NEW d, NEW ids, \A c \in DOMAIN ids : ids[c] \in DOMAIN d.companies
  PROVE  \A c, name : Backups!RowCompany(d, ids, c, name) \in DOMAIN d.companies \cup {None}
BY TheIdIs DEF Backups!RowCompany

LEMMA CompanyPlaced ==
  ASSUME NEW d, DOMAIN d.companies \in SUBSET Nat, NEW ids,
         \A c \in DOMAIN ids : ids[c] \in DOMAIN d.companies
  PROVE  \A c : Backups!Placed(d, ids, c) \in DOMAIN d.companies \cup {None}
<1>1. Backups!Oldest(d) \in DOMAIN d.companies \cup {None}
  <2>1. CASE DOMAIN d.companies = {}
    BY <2>1 DEF Backups!Oldest
  <2>2. CASE DOMAIN d.companies # {}
    <3>1. \E c \in DOMAIN d.companies : \A x \in DOMAIN d.companies : c <= x
      BY <2>2, LeastIsThere
    <3>2. QED BY <2>2, <3>1 DEF Backups!Oldest
  <2>3. QED BY <2>1, <2>2
<1>2. QED BY <1>1 DEF Backups!Placed

LEMMA SetsRestored ==
  ASSUME NEW d, "sets" \in DOMAIN d, Backups!Paired(DOMAIN d.sets),
         \A s \in DOMAIN d.sets : s[1] \in DOMAIN d.companies,
         NEW ids, \A c \in DOMAIN ids : ids[c] \in DOMAIN d.companies,
         NEW a, NEW everyone \in BOOLEAN,
         everyone \/ \A s \in DOMAIN d.sets : d.sets[s] \subseteq d.regions,
         NEW e, e = Backups!WithSets(d, ids, a, everyone)
  PROVE  /\ Only(d, e, {"sets"}) /\ Backups!Paired(DOMAIN e.sets)
         /\ \A s \in DOMAIN e.sets : s[1] \in DOMAIN d.companies /\ e.sets[s] \subseteq d.regions
<1>1. CASE "sets" \notin a.files
  <2>1. e = [d EXCEPT !.sets = [s \in DOMAIN @ |-> @[s] \cap d.regions]]
    BY <1>1 DEF Backups!WithSets
  <2>2. Only(d, e, {"sets"}) /\ e.sets = [s \in DOMAIN d.sets |-> d.sets[s] \cap d.regions]
    BY <2>1 DEF Only
  <2>3. QED BY <2>2
<1>2. CASE "sets" \in a.files
  <2> DEFINE rows == {s \in DOMAIN a.tables.sets : Backups!SetCompany(d, ids, a, s) # None}
             to(s) == <<Backups!SetCompany(d, ids, a, s), s[2]>>
             archived == {to(s) : s \in rows}
             members(x) == a.tables.sets[CHOOSE s \in rows : to(s) = x] \cap d.regions
  <2>1. \E kept \in SUBSET DOMAIN d.sets :
          /\ kept # {} => ~everyone
          /\ e = [d EXCEPT !.sets = [x \in archived \cup kept |->
                                       IF x \in kept THEN d.sets[x] ELSE members(x)]]
    <3> DEFINE replaced == {to(s)[1] : s \in rows}
               kept == {s \in DOMAIN d.sets : ~everyone /\ s[1] \notin replaced}
    <3>1. e = [d EXCEPT !.sets = [x \in archived \cup kept |->
                                       IF x \in kept THEN d.sets[x] ELSE members(x)]]
      BY <1>2, Zenon DEF Backups!WithSets
    <3> HIDE DEF replaced, members, archived
    <3>2. kept \in SUBSET DOMAIN d.sets /\ (kept # {} => ~everyone)
      OBVIOUS
    <3> HIDE DEF kept
    <3>3. QED BY <3>1, <3>2
  <2>2. \A x \in archived : x = <<x[1], x[2]>> /\ x[1] \in DOMAIN d.companies
    <3>1. \A s \in rows : Backups!SetCompany(d, ids, a, s) \in DOMAIN d.companies
      BY CompanyFound DEF Backups!SetCompany
    <3>2. QED BY <3>1
  <2>3. \A x : members(x) \subseteq d.regions
    OBVIOUS
  <2> HIDE DEF archived, members
  <2>4. PICK kept \in SUBSET DOMAIN d.sets :
          /\ kept # {} => ~everyone
          /\ e = [d EXCEPT !.sets = [x \in archived \cup kept |->
                                       IF x \in kept THEN d.sets[x] ELSE members(x)]]
    BY <2>1
  <2>5. /\ Only(d, e, {"sets"}) /\ DOMAIN e.sets = archived \cup kept
        /\ \A x \in DOMAIN e.sets : e.sets[x] = IF x \in kept THEN d.sets[x] ELSE members(x)
    BY <2>4 DEF Only
  <2>6. \A x \in kept : x = <<x[1], x[2]>> /\ x[1] \in DOMAIN d.companies
                        /\ d.sets[x] \subseteq d.regions
    BY <2>4 DEF Backups!Paired
  <2>7. QED BY <2>2, <2>3, <2>5, <2>6 DEF Backups!Paired
<1>3. QED BY <1>1, <1>2 DEF Backups!Paired

LEMMA TermsRestored ==
  ASSUME NEW d, "terms" \in DOMAIN d,
         NEW ids, \A c \in DOMAIN ids : ids[c] \in DOMAIN d.companies,
         NEW a, NEW live, Backups!Paired(DOMAIN live), NEW everyone,
         NEW e, e = Backups!WithTerms(d, ids, a, live, everyone)
  PROVE  /\ Only(d, e, {"terms"}) /\ Backups!Paired(DOMAIN e.terms)
         /\ \A t \in DOMAIN e.terms :
              /\ t[1] \in d.programs /\ t[2] \in DOMAIN d.companies
              /\ e.terms[t] # None => <<t[2], e.terms[t]>> \in DOMAIN d.sets
<1> DEFINE rows == IF "terms" \in a.files
                   THEN {t \in DOMAIN a.tables.terms : Backups!TermCompany(d, ids, a, t) # None}
                   ELSE {}
           to(t) == <<t[1], Backups!TermCompany(d, ids, a, t)>>
           archived == {to(t) : t \in {t \in rows : t[1] \in d.programs}}
           set(x) == IF x \in archived
                     THEN a.tables.terms[CHOOSE t \in rows : to(t) = x] ELSE live[x]
<1>1. \E kept :
        /\ \A x \in kept : x \in DOMAIN live /\ x[1] \in d.programs /\ x[2] \in DOMAIN d.companies
        /\ e = [d EXCEPT !.terms = [x \in archived \cup kept |-> Backups!Linked(d, x[2], set(x))]]
  <2> DEFINE replaced == {to(t)[2] : t \in rows}
             kept == {t \in DOMAIN live :
                        /\ ~("terms" \in a.files) \/ (~everyone /\ t[2] \notin replaced)
                        /\ t[1] \in d.programs /\ t[2] \in DOMAIN d.companies}
  <2>1. e = [d EXCEPT !.terms = [x \in archived \cup kept |-> Backups!Linked(d, x[2], set(x))]]
    BY Zenon DEF Backups!WithTerms
  <2> HIDE DEF replaced, set, archived
  <2>2. \A x \in kept : x \in DOMAIN live /\ x[1] \in d.programs /\ x[2] \in DOMAIN d.companies
    OBVIOUS
  <2> HIDE DEF kept
  <2>3. QED BY <2>1, <2>2
<1>2. \A x \in archived : /\ x = <<x[1], x[2]>> /\ x[1] \in d.programs
                          /\ x[2] \in DOMAIN d.companies
  <2>1. \A t \in rows : Backups!TermCompany(d, ids, a, t) \in DOMAIN d.companies
    BY CompanyFound DEF Backups!TermCompany
  <2>2. QED BY <2>1
<1> HIDE DEF archived, set
<1>3. PICK kept :
        /\ \A x \in kept : x \in DOMAIN live /\ x[1] \in d.programs /\ x[2] \in DOMAIN d.companies
        /\ e = [d EXCEPT !.terms = [x \in archived \cup kept |-> Backups!Linked(d, x[2], set(x))]]
  BY <1>1
<1>4. /\ Only(d, e, {"terms"}) /\ DOMAIN e.terms = archived \cup kept
      /\ \A x \in DOMAIN e.terms : e.terms[x] = Backups!Linked(d, x[2], set(x))
  BY <1>3 DEF Only
<1>5. \A x \in kept : x = <<x[1], x[2]>>
  BY <1>3 DEF Backups!Paired
<1>6. \A x : Backups!Linked(d, x[2], set(x)) # None =>
               <<x[2], Backups!Linked(d, x[2], set(x))>> \in DOMAIN d.sets
  BY DEF Backups!Linked
<1>7. QED BY <1>2, <1>3, <1>4, <1>5, <1>6 DEF Backups!Paired

LEMMA ReferenceRestored ==
  ASSUME NEW d, {"programs", "requirements", "olx", "offerings"} \subseteq DOMAIN d,
         DOMAIN d.companies \in SUBSET Nat,
         NEW ids, \A c \in DOMAIN ids : ids[c] \in DOMAIN d.companies,
         NEW a, NEW e, e = Backups!WithReference(d, ids, a)
  PROVE  /\ Only(d, e, {"programs", "requirements", "olx", "offerings"})
         /\ e.programs = a.tables.programs /\ e.requirements = a.tables.requirements
         /\ e.olx = a.tables.olx /\ Backups!Paired(DOMAIN e.offerings)
         /\ \A o \in DOMAIN e.offerings : o[1] \in DOMAIN d.companies
<1> DEFINE offered == {o \in DOMAIN a.tables.offerings : Backups!Placed(d, ids, o[1]) # None}
           to(o) == <<Backups!Placed(d, ids, o[1]), o[2]>>
           titles(x) == a.tables.offerings[CHOOSE o \in offered : to(o) = x]
           offerings == [x \in {to(o) : o \in offered} |-> titles(x)]
<1>1. e = [d EXCEPT !.programs = a.tables.programs, !.requirements = a.tables.requirements,
                    !.olx = a.tables.olx, !.offerings = offerings]
  BY Zenon DEF Backups!WithReference
<1>2. DOMAIN offerings = {to(o) : o \in offered}
  OBVIOUS
<1>3. \A x \in {to(o) : o \in offered} : x = <<x[1], x[2]>> /\ x[1] \in DOMAIN d.companies
  <2>1. \A c : Backups!Placed(d, ids, c) \in DOMAIN d.companies \cup {None}
    BY CompanyPlaced
  <2>2. \A o \in offered : Backups!Placed(d, ids, o[1]) \in DOMAIN d.companies
    BY <2>1
  <2>3. QED BY <2>2
<1> HIDE DEF offerings
<1>4. /\ Only(d, e, {"programs", "requirements", "olx", "offerings"})
      /\ e.programs = a.tables.programs /\ e.requirements = a.tables.requirements
      /\ e.olx = a.tables.olx /\ e.offerings = offerings
  BY <1>1 DEF Only
<1>5. QED BY <1>2, <1>3, <1>4 DEF Backups!Paired
\* Every archived type is found by its name, in the table or among the new ones;
\* the sequence goes on from the highest id.
LEMMA TypesJoined ==
  ASSUME NEW d, Backups!SoundNames(d), NEW a, Backups!Numbered(a.tables.types),
         \A i \in Backups!NewTypes(d, a) : Backups!NewTypeId(d, a, i) \notin DOMAIN d.types,
         NEW types, types = Backups!ConfigTypes(d, a)
  PROVE  /\ Backups!Numbered(types)
         /\ \A x \in DOMAIN d.types : x \in DOMAIN types /\ types[x] = d.types[x]
         /\ \A i \in DOMAIN a.tables.types : Backups!Named(types, a.tables.types[i]) # {}
         /\ Backups!NextType(d, types) \in Nat /\ Backups!NextType(d, types) \notin DOMAIN types
<1> DEFINE archived == a.tables.types
           new == Backups!NewTypes(d, a)
           ids == [i \in new |-> Backups!NewTypeId(d, a, i)]
<1>1. /\ DOMAIN archived \in SUBSET Nat /\ IsFiniteSet(DOMAIN archived)
      /\ d.nextType \in Nat
  BY NumberedIs DEF Backups!SoundNames
<1>2. /\ new \in SUBSET DOMAIN archived
      /\ \A i \in new : \A x \in DOMAIN d.types : archived[i] # d.types[x]
      /\ \A i \in DOMAIN archived \ new : \E x \in DOMAIN d.types : archived[i] = d.types[x]
  BY DEF Backups!NewTypes
<1>3. new \in SUBSET Nat /\ IsFiniteSet(new)
  BY <1>1, <1>2, FS_Subset
<1>4. \A i \in new : ids[i] = d.nextType + Rank(new, i)
  BY DEF Backups!NewTypeId, Rank
<1>5. \A i \in new : ids[i] \notin DOMAIN d.types
  OBVIOUS
<1>6. /\ DOMAIN types = DOMAIN d.types \cup {Backups!NewTypeId(d, a, i) : i \in new}
      /\ \A x \in DOMAIN types :
           types[x] = IF x \in DOMAIN d.types THEN d.types[x]
                      ELSE archived[CHOOSE i \in new : Backups!NewTypeId(d, a, i) = x]
  BY DEF Backups!ConfigTypes
<1>7. \A i \in new : ids[i] = Backups!NewTypeId(d, a, i)
  OBVIOUS
<1> HIDE DEF ids, new
<1>8. /\ \A i \in new : ids[i] \in Nat
      /\ \A i, j \in new : ids[i] = ids[j] => i = j
  BY <1>1, <1>3, <1>4, IdsGiven
<1>9. \A x \in DOMAIN d.types : x \in DOMAIN types /\ types[x] = d.types[x]
  BY <1>6
<1>10. ASSUME NEW i \in new PROVE ids[i] \in DOMAIN types /\ types[ids[i]] = archived[i]
  <2>1. ids[i] \in DOMAIN types /\ ids[i] \notin DOMAIN d.types
    BY <1>5, <1>6, <1>7
  <2>2. types[ids[i]] = archived[CHOOSE j \in new : Backups!NewTypeId(d, a, j) = ids[i]]
    BY <1>6, <2>1
  <2>3. (CHOOSE j \in new : Backups!NewTypeId(d, a, j) = ids[i]) = i
    BY <1>7, <1>8
  <2>4. QED BY <2>1, <2>2, <2>3
<1>11. \A x \in DOMAIN types \ DOMAIN d.types :
         \E i \in new : x = ids[i] /\ types[x] = archived[i]
  BY <1>6, <1>7, <1>10
<1>12. Backups!Numbered(types)
  <2>1. Joins(d.types, archived, new, ids, types)
    BY <1>2, <1>8, <1>9, <1>11 DEF Joins, Backups!SoundNames
  <2>2. QED BY <2>1, NamesJoined
<1>13. ASSUME NEW i \in DOMAIN archived PROVE Backups!Named(types, archived[i]) # {}
  <2>1. \E x \in DOMAIN types : types[x] = archived[i]
    BY <1>2, <1>9, <1>10
  <2>2. QED BY <2>1 DEF Backups!Named
<1>14. Backups!NextType(d, types) \in Nat /\ Backups!NextType(d, types) \notin DOMAIN types
  <2>1. CASE types = <<>>
    BY <2>1 DEF Backups!NextType
  <2>2. CASE types # <<>>
    <3>1. DOMAIN types \in SUBSET Nat /\ IsFiniteSet(DOMAIN types)
      BY <1>12, NumberedIs
    <3>2. PICK m \in Nat : \A n \in DOMAIN types : n <= m
      BY <3>1, BoundIsThere
    <3>3. DOMAIN types \in SUBSET (0 .. m)
      BY <3>1, <3>2
    <3>4. /\ Backups!HighestOf(DOMAIN types) \in Nat
          /\ \A n \in DOMAIN types : n <= Backups!HighestOf(DOMAIN types)
      BY <3>3, HighestIsThere
    <3>5. Backups!NextType(d, types) = Backups!HighestOf(DOMAIN types) + 1
      BY <2>2 DEF Backups!NextType
    <3>6. \A n \in DOMAIN types : n \in Nat
      BY <3>1
    <3>7. QED BY <3>4, <3>5, <3>6
  <2>3. QED BY <2>1, <2>2
<1>15. QED BY <1>9, <1>12, <1>13, <1>14

\* The access of the new accounts is theirs, and to companies that are here.
LEMMA UsersLinked ==
  ASSUME NEW d, {"users", "nextUser", "links"} \subseteq DOMAIN d,
         NEW ids, \A c \in DOMAIN ids : ids[c] \in DOMAIN d.companies,
         NEW a, NEW e, e = Backups!WithUsers(d, ids, a)
  PROVE  /\ Only(d, e, {"users", "nextUser", "links"}) /\ Backups!Paired(e.links)
         /\ \A l \in e.links : l[1] \in DOMAIN e.users /\ l[2] \in DOMAIN d.companies
<1> DEFINE users == a.tables.users
           new(u) == d.nextUser + Backups!Cardinality({x \in DOMAIN users : x < u})
           company(c) == IF c \in DOMAIN ids THEN ids[c]
                         ELSE IF c \in DOMAIN d.companies THEN c ELSE None
           account(u) == [name |-> users[u].name, admin |-> users[u].admin,
                          epoch |-> Backups!EpochFloor(d, a)]
           us == [i \in {new(u) : u \in DOMAIN users} |->
                    account(CHOOSE u \in DOMAIN users : new(u) = i)]
           links == {<<new(l[1]), company(l[2])>> :
                       l \in {l \in a.tables.links : l[1] \in DOMAIN users /\ company(l[2]) # None}}
<1>1. \E next : e = [d EXCEPT !.users = us, !.links = links, !.nextUser = next]
  BY Zenon DEF Backups!WithUsers
<1>2. DOMAIN us = {new(u) : u \in DOMAIN users}
  OBVIOUS
<1>3. \A c : company(c) # None => company(c) \in DOMAIN d.companies
  OBVIOUS
<1> HIDE DEF us, company, new
<1>4. \A l \in links : /\ l = <<l[1], l[2]>> /\ l[2] \in DOMAIN d.companies
                       /\ \E u \in DOMAIN users : l[1] = new(u)
  BY <1>3
<1> HIDE DEF links
<1>5. Only(d, e, {"users", "nextUser", "links"}) /\ e.users = us /\ e.links = links
  BY <1>1 DEF Only
<1>6. QED BY <1>2, <1>4, <1>5 DEF Backups!Paired
-----------------------------------------------------------------------------
(* A full restore.                                                         *)

\* Of an archive: each of its tables was an install's, and its sets and terms
\* come with the names their partners had then.
SoundArchive(a) ==
  /\ Backups!Numbered(a.tables.companies) /\ Backups!Numbered(a.tables.types)
  /\ Backups!Paired(DOMAIN a.tables.sets) /\ Backups!Paired(DOMAIN a.tables.terms)
  /\ Backups!Numbered(a.setPartners) /\ Backups!Numbered(a.termPartners)
  /\ \A s \in DOMAIN a.tables.sets : s[1] \in DOMAIN a.setPartners
  /\ \A t \in DOMAIN a.tables.terms : t[2] \in DOMAIN a.termPartners

LEMMA CatalogueRestored ==
  ASSUME NEW d, Backups!Tables \subseteq DOMAIN d, NEW a,
         NEW e, e = Backups!WithCatalogue(d, a)
  PROVE  /\ Only(d, e, {"types", "regions", "training", "olx", "requirements", "offerings"})
         /\ e.types = a.tables.types /\ DOMAIN e.offerings = DOMAIN d.offerings
BY DEF Backups!WithCatalogue, Backups!Tables, Only

\* What a restore keeps sound of a database whose companies are these, until its
\* terms are restored.
PartnersStay(d, companies) ==
  /\ d.companies = companies
  /\ Backups!Paired(DOMAIN d.sets) /\ Backups!Paired(DOMAIN d.offerings) /\ Backups!Paired(d.links)
  /\ \A s \in DOMAIN d.sets : s[1] \in DOMAIN companies
  /\ \A o \in DOMAIN d.offerings : o[1] \in DOMAIN companies
  /\ \A l \in d.links : l[1] \in DOMAIN d.users /\ l[2] \in DOMAIN companies

\* The databases a full restore goes through.
Joined(d, a) == Backups!WithCompanies(d, Backups!CompanyIds(d, a), a)
Emptied(d, a) == Backups!WithCatalogue(Joined(d, a), a)
Regrouped(d, a) == Backups!WithSets(Emptied(d, a), Backups!CompanyIds(d, a), a, TRUE)
Programmed(d, a) ==
  IF "reference" \in a.files
  THEN Backups!WithReference(Regrouped(d, a), Backups!CompanyIds(d, a), a) ELSE Regrouped(d, a)
Agreed(d, a) == Backups!WithTerms(Programmed(d, a), Backups!CompanyIds(d, a), a, d.terms, TRUE)
Peopled(d, a) == Backups!WithLearners(Agreed(d, a), Backups!CompanyIds(d, a), a)

\* What each of them leaves alone: companies only come.
Staged(d, a, e) ==
  /\ Backups!Tables \subseteq DOMAIN d
  /\ e = IF Backups!ReplacesUsers(a)
         THEN Backups!WithUsers(Peopled(d, a), Backups!CompanyIds(d, a), a) ELSE Peopled(d, a)
  /\ Only(d, Joined(d, a), {"companies", "nextCompany"})
  /\ Only(Joined(d, a), Emptied(d, a),
          {"types", "regions", "training", "olx", "requirements", "offerings"})
  /\ Only(Emptied(d, a), Regrouped(d, a), {"sets"})
  /\ Only(Regrouped(d, a), Programmed(d, a), {"programs", "requirements", "olx", "offerings"})
  /\ Only(Programmed(d, a), Agreed(d, a), {"terms"})
  /\ Only(Agreed(d, a), Peopled(d, a), {"learners", "taken"})
  /\ Only(Peopled(d, a), e, {"users", "nextUser", "links"})
  /\ \A c \in DOMAIN d.companies :
       c \in DOMAIN Joined(d, a).companies /\ Joined(d, a).companies[c] = d.companies[c]
  /\ \A c \in DOMAIN Backups!CompanyIds(d, a) :
       /\ Backups!CompanyIds(d, a)[c] \in DOMAIN Joined(d, a).companies
       /\ Joined(d, a).companies[Backups!CompanyIds(d, a)[c]] = a.tables.companies[c]

\* Each table that refers to a company is given local ones.
LEMMA FullyStaged ==
  ASSUME NEW d, Backups!Sound(d), NEW a, SoundArchive(a),
         NEW e, e = Backups!FullyRestored(d, a)
  PROVE  /\ Staged(d, a, e) /\ Backups!Tables \subseteq DOMAIN e
         /\ Backups!SoundNames(e) /\ Backups!SoundPartners(e)
<1> DEFINE ids == Backups!CompanyIds(d, a)
           joined == Joined(d, a)
           emptied == Emptied(d, a)
           grouped == Regrouped(d, a)
           referred == Backups!WithReference(grouped, ids, a)
           referenced == Programmed(d, a)
           agreed == Agreed(d, a)
           peopled == Peopled(d, a)
           companies == joined.companies
           Fields == Backups!Tables \cup {"nextCompany", "nextType", "nextUser"}
<1>1. e = IF Backups!ReplacesUsers(a) THEN Backups!WithUsers(peopled, ids, a) ELSE peopled
  BY DEF Backups!FullyRestored, Joined, Emptied, Regrouped, Programmed, Agreed, Peopled
<1>2. /\ Fields \subseteq DOMAIN d /\ Backups!SoundNames(d) /\ PartnersStay(d, d.companies)
      /\ Backups!Paired(DOMAIN d.terms)
  BY DEF Backups!Sound, Backups!SoundNames, Backups!SoundAccounts, Backups!SoundPartners,
         PartnersStay
<1>0. /\ joined = Backups!WithCompanies(d, ids, a) /\ emptied = Backups!WithCatalogue(joined, a)
      /\ grouped = Backups!WithSets(emptied, ids, a, TRUE)
      /\ referenced = (IF "reference" \in a.files THEN referred ELSE grouped)
      /\ agreed = Backups!WithTerms(referenced, ids, a, d.terms, TRUE)
      /\ peopled = Backups!WithLearners(agreed, ids, a)
      /\ ids = Backups!CompanyIds(d, a)
  BY DEF Joined, Emptied, Regrouped, Programmed, Agreed, Peopled
<1> HIDE DEF ids, joined, emptied, grouped, referenced, agreed, peopled
<1>3. /\ Only(d, joined, {"companies", "nextCompany"})
      /\ Backups!Numbered(companies) /\ joined.nextCompany \in Nat
      /\ \A c \in DOMAIN companies : c < joined.nextCompany
      /\ \A c \in DOMAIN d.companies : c \in DOMAIN companies /\ companies[c] = d.companies[c]
      /\ \A c \in DOMAIN ids : ids[c] \in DOMAIN companies
                              /\ companies[ids[c]] = a.tables.companies[c]
      /\ DOMAIN companies \in SUBSET Nat
  <2>1. "companies" \in DOMAIN d /\ Backups!Numbered(a.tables.companies)
    BY <1>2 DEF SoundArchive, Backups!Tables
  <2>2. ids = Backups!CompanyIds(d, a) /\ joined = Backups!WithCompanies(d, ids, a)
    BY <1>0
  <2>3. /\ Only(d, joined, {"companies", "nextCompany"})
        /\ Backups!Numbered(companies) /\ joined.nextCompany \in Nat
        /\ \A c \in DOMAIN companies : c < joined.nextCompany
        /\ \A c \in DOMAIN d.companies :
             c \in DOMAIN companies /\ companies[c] = d.companies[c]
        /\ \A c \in DOMAIN ids : c \in DOMAIN a.tables.companies /\ ids[c] \in DOMAIN companies
                                 /\ companies[ids[c]] = a.tables.companies[c]
    BY <1>2, <2>1, <2>2, CompaniesJoined
  <2>4. QED BY <2>3, NumberedIs
<1>4. Fields \subseteq DOMAIN joined /\ PartnersStay(joined, companies)
  <2>1. QED BY <1>2, <1>3 DEF Only, PartnersStay, Backups!Tables
<1>5. /\ Only(joined, emptied, {"types", "regions", "training", "olx", "requirements", "offerings"})
      /\ emptied.types = a.tables.types /\ DOMAIN emptied.offerings = DOMAIN joined.offerings
  BY <1>0, <1>4, CatalogueRestored
<1>6. Fields \subseteq DOMAIN emptied /\ PartnersStay(emptied, companies)
      /\ emptied.nextCompany = joined.nextCompany /\ emptied.nextType = d.nextType
  BY <1>3, <1>4, <1>5, <1>2 DEF Only, PartnersStay, Backups!Tables
<1>7. /\ Only(emptied, grouped, {"sets"}) /\ Backups!Paired(DOMAIN grouped.sets)
      /\ \A s \in DOMAIN grouped.sets :
           s[1] \in DOMAIN companies /\ grouped.sets[s] \subseteq emptied.regions
  <2>1. /\ "sets" \in DOMAIN emptied /\ Backups!Paired(DOMAIN emptied.sets)
        /\ \A s \in DOMAIN emptied.sets : s[1] \in DOMAIN emptied.companies
        /\ \A c \in DOMAIN ids : ids[c] \in DOMAIN emptied.companies
        /\ emptied.companies = companies
    BY <1>3, <1>6 DEF PartnersStay, Backups!Tables
  <2>2. grouped = Backups!WithSets(emptied, ids, a, TRUE)
    BY <1>0
  <2>3. /\ Only(emptied, grouped, {"sets"}) /\ Backups!Paired(DOMAIN grouped.sets)
        /\ \A s \in DOMAIN grouped.sets :
             s[1] \in DOMAIN emptied.companies /\ grouped.sets[s] \subseteq emptied.regions
    BY <2>1, <2>2, SetsRestored
  <2>4. QED BY <2>1, <2>3
<1>8. /\ Fields \subseteq DOMAIN grouped /\ PartnersStay(grouped, companies)
      /\ grouped.nextCompany = joined.nextCompany /\ grouped.nextType = d.nextType
      /\ grouped.types = a.tables.types
      /\ \A s \in DOMAIN grouped.sets : grouped.sets[s] \subseteq grouped.regions
  BY <1>5, <1>6, <1>7 DEF Only, PartnersStay, Backups!Tables
<1>9. /\ Only(grouped, referenced, {"programs", "requirements", "olx", "offerings"})
      /\ Backups!Paired(DOMAIN referenced.offerings)
      /\ \A o \in DOMAIN referenced.offerings : o[1] \in DOMAIN companies
  <2>1. CASE "reference" \in a.files
    <3>1. /\ {"programs", "requirements", "olx", "offerings"} \subseteq DOMAIN grouped
          /\ DOMAIN grouped.companies \in SUBSET Nat
          /\ \A c \in DOMAIN ids : ids[c] \in DOMAIN grouped.companies
          /\ grouped.companies = companies
      BY <1>3, <1>8 DEF PartnersStay, Backups!Tables
    <3>2. /\ Only(grouped, referred, {"programs", "requirements", "olx", "offerings"})
          /\ Backups!Paired(DOMAIN referred.offerings)
          /\ \A o \in DOMAIN referred.offerings : o[1] \in DOMAIN grouped.companies
      BY <3>1, ReferenceRestored
    <3>3. QED BY <1>0, <2>1, <3>1, <3>2
  <2>2. CASE "reference" \notin a.files
    BY <1>0, <1>8, <2>2 DEF Only, PartnersStay
  <2>3. QED BY <2>1, <2>2
<1>10. /\ Fields \subseteq DOMAIN referenced /\ PartnersStay(referenced, companies)
       /\ referenced.nextCompany = joined.nextCompany /\ referenced.nextType = d.nextType
       /\ referenced.types = a.tables.types
       /\ \A s \in DOMAIN referenced.sets : referenced.sets[s] \subseteq referenced.regions
  BY <1>8, <1>9 DEF Only, PartnersStay, Backups!Tables
<1>11. /\ Only(referenced, agreed, {"terms"}) /\ Backups!Paired(DOMAIN agreed.terms)
       /\ \A t \in DOMAIN agreed.terms :
            /\ t[1] \in referenced.programs /\ t[2] \in DOMAIN companies
            /\ agreed.terms[t] # None => <<t[2], agreed.terms[t]>> \in DOMAIN referenced.sets
  <2>1. /\ "terms" \in DOMAIN referenced /\ referenced.companies = companies
        /\ \A c \in DOMAIN ids : ids[c] \in DOMAIN referenced.companies
    BY <1>3, <1>10 DEF PartnersStay, Backups!Tables
  <2>2. agreed = Backups!WithTerms(referenced, ids, a, d.terms, TRUE)
    BY <1>0
  <2>3. Backups!Paired(DOMAIN d.terms)
    BY <1>2
  <2>4. /\ Only(referenced, agreed, {"terms"}) /\ Backups!Paired(DOMAIN agreed.terms)
        /\ \A t \in DOMAIN agreed.terms :
             /\ t[1] \in referenced.programs /\ t[2] \in DOMAIN referenced.companies
             /\ agreed.terms[t] # None => <<t[2], agreed.terms[t]>> \in DOMAIN referenced.sets
    BY <2>1, <2>2, <2>3, TermsRestored
  <2>5. QED BY <2>1, <2>4
<1>12. /\ Only(agreed, peopled, {"learners", "taken"})
  BY <1>0, <1>10, <1>11 DEF Backups!WithLearners, Only, Backups!Tables
<1>13. /\ Fields \subseteq DOMAIN peopled /\ PartnersStay(peopled, companies)
       /\ peopled.nextCompany = joined.nextCompany /\ peopled.nextType = d.nextType
       /\ peopled.types = a.tables.types
       /\ \A s \in DOMAIN peopled.sets : peopled.sets[s] \subseteq peopled.regions
       /\ Backups!Paired(DOMAIN peopled.terms)
       /\ \A t \in DOMAIN peopled.terms :
            /\ t[1] \in peopled.programs /\ t[2] \in DOMAIN companies
            /\ peopled.terms[t] # None => <<t[2], peopled.terms[t]>> \in DOMAIN peopled.sets
  BY <1>10, <1>11, <1>12 DEF Only, PartnersStay, Backups!Tables
<1>14. /\ Only(peopled, e, {"users", "nextUser", "links"}) /\ Backups!Paired(e.links)
       /\ \A l \in e.links : l[1] \in DOMAIN e.users /\ l[2] \in DOMAIN companies
  <2>1. CASE Backups!ReplacesUsers(a)
    <3>1. /\ {"users", "nextUser", "links"} \subseteq DOMAIN peopled
          /\ \A c \in DOMAIN ids : ids[c] \in DOMAIN peopled.companies
          /\ peopled.companies = companies
      BY <1>3, <1>13 DEF PartnersStay, Backups!Tables
    <3>2. e = Backups!WithUsers(peopled, ids, a)
      BY <1>1, <2>1
    <3>3. QED BY <3>1, <3>2, UsersLinked
  <2>2. CASE ~Backups!ReplacesUsers(a)
    BY <1>1, <1>13, <2>2 DEF Only, PartnersStay
  <2>3. QED BY <2>1, <2>2
<1>15. /\ Fields \subseteq DOMAIN e /\ PartnersStay(e, companies)
       /\ e.nextCompany = joined.nextCompany /\ e.nextType = d.nextType
       /\ e.types = a.tables.types
       /\ \A s \in DOMAIN e.sets : e.sets[s] \subseteq e.regions
       /\ Backups!Paired(DOMAIN e.terms)
       /\ \A t \in DOMAIN e.terms :
            /\ t[1] \in e.programs /\ t[2] \in DOMAIN companies
            /\ e.terms[t] # None => <<t[2], e.terms[t]>> \in DOMAIN e.sets
  BY <1>13, <1>14 DEF Only, PartnersStay, Backups!Tables
<1>16. Backups!SoundNames(e)
  BY <1>2, <1>3, <1>15 DEF PartnersStay, Backups!SoundNames, SoundArchive
<1>17. Backups!SoundPartners(e)
  BY <1>15 DEF PartnersStay, Backups!SoundPartners
<1>18. Staged(d, a, e)
  BY <1>1, <1>2, <1>3, <1>5, <1>7, <1>9, <1>11, <1>12, <1>14
  DEF Staged, ids, joined, emptied, grouped, referenced, agreed, peopled
<1>19. QED BY <1>15, <1>16, <1>17, <1>18

\* A full restore that fits leaves a sound database.
LEMMA FullySound ==
  ASSUME NEW d, Backups!Sound(d), NEW a, SoundArchive(a),
         NEW e, e = Backups!FullyRestored(d, a), Backups!Fits(e), Backups!SoundAccounts(e)
  PROVE  Backups!Sound(e)
BY FullyStaged DEF Backups!Sound
-----------------------------------------------------------------------------
(* A restore of the configuration.                                         *)

\* A restore of the configuration that went through: every archived training has
\* a type, no new type took an id in use, and every key fits.
Merges(d, a, e) ==
  /\ e = Backups!Reconfigured(d, a) /\ Backups!Fits(e)
  /\ \A t \in DOMAIN a.tables.training : a.tables.training[t] \in DOMAIN a.tables.types
  /\ \A i \in Backups!NewTypes(d, a) : Backups!NewTypeId(d, a, i) \notin DOMAIN d.types

\* Its steps.
Catalogued(d, a) == Backups!WithConfigCatalogue(d, a)
Grouped(d, a) ==
  IF "sets" \in a.files THEN Backups!WithSets(Catalogued(d, a), <<>>, a, FALSE)
  ELSE Catalogued(d, a)
Referenced(d, a) == Backups!WithReference(Grouped(d, a), <<>>, a)

LEMMA CatalogueMerged ==
  ASSUME NEW d, Backups!Sound(d), NEW a, SoundArchive(a),
         \A i \in Backups!NewTypes(d, a) : Backups!NewTypeId(d, a, i) \notin DOMAIN d.types,
         NEW e, e = Catalogued(d, a)
  PROVE  /\ Only(d, e, {"types", "nextType", "regions", "training"})
         /\ e.types = Backups!ConfigTypes(d, a) /\ Backups!Numbered(e.types)
         /\ e.nextType \in Nat /\ e.nextType \notin DOMAIN e.types
         /\ e.regions = d.regions \cup a.tables.regions
         /\ \A t \in DOMAIN a.tables.training :
              /\ t \in DOMAIN e.training
              /\ e.training[t] = Backups!TheId(e.types, a.tables.types[a.tables.training[t]])
         /\ \A i \in DOMAIN a.tables.types : Backups!Named(e.types, a.tables.types[i]) # {}
<1> DEFINE types == Backups!ConfigTypes(d, a)
           training == [t \in DOMAIN d.training \cup DOMAIN a.tables.training |->
                          IF t \in DOMAIN a.tables.training
                          THEN Backups!TheId(types, a.tables.types[a.tables.training[t]])
                          ELSE d.training[t]]
<1>1. e = [d EXCEPT !.types = types, !.nextType = Backups!NextType(d, types),
                    !.regions = @ \cup a.tables.regions, !.training = training]
  BY Zenon DEF Catalogued, Backups!WithConfigCatalogue
<1>2. \A t \in DOMAIN a.tables.training :
        /\ t \in DOMAIN training
        /\ training[t] = Backups!TheId(types, a.tables.types[a.tables.training[t]])
  OBVIOUS
<1> HIDE DEF training
<1>3. /\ Backups!Numbered(types)
      /\ \A i \in DOMAIN a.tables.types : Backups!Named(types, a.tables.types[i]) # {}
      /\ Backups!NextType(d, types) \in Nat /\ Backups!NextType(d, types) \notin DOMAIN types
  <2>1. Backups!SoundNames(d) /\ Backups!Numbered(a.tables.types)
    BY DEF Backups!Sound, SoundArchive
  <2>2. types = Backups!ConfigTypes(d, a)
    OBVIOUS
  <2> HIDE DEF types
  <2>3. QED BY <2>1, <2>2, TypesJoined
<1>4. {"types", "nextType", "regions", "training"} \subseteq DOMAIN d
  BY DEF Backups!Sound, Backups!SoundNames, Backups!Tables
<1> HIDE DEF types
<1>5. /\ Only(d, e, {"types", "nextType", "regions", "training"})
      /\ e.types = types /\ e.nextType = Backups!NextType(d, types)
      /\ e.regions = d.regions \cup a.tables.regions /\ e.training = training
  BY <1>1, <1>4 DEF Only
<1>6. QED BY <1>2, <1>3, <1>5 DEF types

LEMMA GroupsMerged ==
  ASSUME NEW d, Backups!Sound(d), NEW a, SoundArchive(a),
         \A i \in Backups!NewTypes(d, a) : Backups!NewTypeId(d, a, i) \notin DOMAIN d.types,
         NEW e, e = Grouped(d, a)
  PROVE  /\ Only(d, e, {"types", "nextType", "regions", "training", "sets"})
         /\ Only(Catalogued(d, a), e, {"sets"})
         /\ Backups!Tables \subseteq DOMAIN e
         /\ DOMAIN e.companies \in SUBSET Nat /\ PartnersStay(e, d.companies)
         /\ \A s \in DOMAIN e.sets : e.sets[s] \subseteq e.regions
<1> DEFINE m == Catalogued(d, a)
<1>1. /\ Only(d, m, {"types", "nextType", "regions", "training"})
      /\ m.regions = d.regions \cup a.tables.regions
  BY CatalogueMerged
<1> HIDE DEF m
<1>2. /\ Backups!Tables \subseteq DOMAIN d /\ PartnersStay(d, d.companies)
      /\ \A s \in DOMAIN d.sets : d.sets[s] \subseteq d.regions
      /\ DOMAIN d.companies \in SUBSET Nat
  BY NumberedIs DEF Backups!Sound, Backups!SoundNames, Backups!SoundPartners, PartnersStay
<1>3. /\ Backups!Tables \subseteq DOMAIN m /\ PartnersStay(m, d.companies)
      /\ \A s \in DOMAIN m.sets : m.sets[s] \subseteq m.regions
  BY <1>1, <1>2 DEF Only, PartnersStay, Backups!Tables
<1>4. /\ Only(m, e, {"sets"}) /\ Backups!Paired(DOMAIN e.sets)
      /\ \A s \in DOMAIN e.sets : s[1] \in DOMAIN d.companies /\ e.sets[s] \subseteq m.regions
  <2>1. CASE "sets" \in a.files
    <3>1. e = Backups!WithSets(m, <<>>, a, FALSE)
      BY <2>1 DEF Grouped, m
    <3>2. /\ "sets" \in DOMAIN m /\ Backups!Paired(DOMAIN m.sets)
          /\ \A s \in DOMAIN m.sets : s[1] \in DOMAIN m.companies
          /\ \A c \in DOMAIN <<>> : <<>>[c] \in DOMAIN m.companies
          /\ m.companies = d.companies
      BY <1>3 DEF PartnersStay, Backups!Tables
    <3>3. QED BY <1>3, <3>1, <3>2, SetsRestored
  <2>2. CASE "sets" \notin a.files
    <3>1. e = m
      BY <2>2 DEF Grouped, m
    <3>2. QED BY <1>3, <3>1 DEF Only, PartnersStay
  <2>3. QED BY <2>1, <2>2
<1>5. /\ Only(d, e, {"types", "nextType", "regions", "training", "sets"})
      /\ Backups!Tables \subseteq DOMAIN e
      /\ DOMAIN e.companies \in SUBSET Nat /\ PartnersStay(e, d.companies)
      /\ \A s \in DOMAIN e.sets : e.sets[s] \subseteq e.regions
  BY <1>1, <1>2, <1>3, <1>4 DEF Only, PartnersStay, Backups!Tables
<1>6. QED BY <1>4, <1>5 DEF m

LEMMA ReferenceMerged ==
  ASSUME NEW d, Backups!Sound(d), NEW a, SoundArchive(a),
         \A i \in Backups!NewTypes(d, a) : Backups!NewTypeId(d, a, i) \notin DOMAIN d.types,
         NEW e, e = Referenced(d, a)
  PROVE  /\ Only(Grouped(d, a), e, {"programs", "requirements", "olx", "offerings"})
         /\ e.programs = a.tables.programs
         /\ Backups!Tables \subseteq DOMAIN e /\ PartnersStay(e, d.companies)
         /\ \A s \in DOMAIN e.sets : e.sets[s] \subseteq e.regions
<1> DEFINE g == Grouped(d, a)
<1>1. /\ Backups!Tables \subseteq DOMAIN g /\ DOMAIN g.companies \in SUBSET Nat
      /\ PartnersStay(g, d.companies)
      /\ \A s \in DOMAIN g.sets : g.sets[s] \subseteq g.regions
  BY GroupsMerged
<1>2. e = Backups!WithReference(g, <<>>, a)
  BY DEF Referenced
<1> HIDE DEF g
<1>3. /\ {"programs", "requirements", "olx", "offerings"} \subseteq DOMAIN g
      /\ \A c \in DOMAIN <<>> : <<>>[c] \in DOMAIN g.companies
      /\ g.companies = d.companies
  BY <1>1 DEF Backups!Tables, PartnersStay
<1>4. /\ Only(g, e, {"programs", "requirements", "olx", "offerings"})
      /\ e.programs = a.tables.programs /\ Backups!Paired(DOMAIN e.offerings)
      /\ \A o \in DOMAIN e.offerings : o[1] \in DOMAIN d.companies
  <2>1. {"programs", "requirements", "olx", "offerings"} \subseteq DOMAIN g
    BY <1>3
  <2>2. DOMAIN g.companies \in SUBSET Nat
    BY <1>1
  <2>3. \A c \in DOMAIN <<>> : <<>>[c] \in DOMAIN g.companies
    OBVIOUS
  <2>4. /\ Only(g, e, {"programs", "requirements", "olx", "offerings"})
        /\ e.programs = a.tables.programs /\ e.requirements = a.tables.requirements
        /\ e.olx = a.tables.olx /\ Backups!Paired(DOMAIN e.offerings)
        /\ \A o \in DOMAIN e.offerings : o[1] \in DOMAIN g.companies
    BY <1>2, <2>1, <2>2, <2>3, ReferenceRestored
  <2>5. QED BY <1>3, <2>4
<1>5. /\ Backups!Tables \subseteq DOMAIN e /\ PartnersStay(e, d.companies)
      /\ \A s \in DOMAIN e.sets : e.sets[s] \subseteq e.regions
  BY <1>1, <1>4 DEF Only, PartnersStay, Backups!Tables
<1>6. QED BY <1>4, <1>5 DEF g

LEMMA ConfigSound ==
  ASSUME NEW d, Backups!Sound(d), NEW a, SoundArchive(a), NEW e, Merges(d, a, e)
  PROVE  Backups!Sound(e)
<1> DEFINE m == Catalogued(d, a)
           g == Grouped(d, a)
           r == Referenced(d, a)
<1>1. \A i \in Backups!NewTypes(d, a) : Backups!NewTypeId(d, a, i) \notin DOMAIN d.types
  BY DEF Merges
<1>2. e = Backups!WithTerms(r, <<>>, a, d.terms, FALSE)
  BY DEF Merges, Backups!Reconfigured, Catalogued, Grouped, Referenced
<1>3. /\ Only(d, g, {"types", "nextType", "regions", "training", "sets"})
      /\ Only(m, g, {"sets"})
  BY <1>1, GroupsMerged
<1>4. /\ Only(d, m, {"types", "nextType", "regions", "training"})
      /\ Backups!Numbered(m.types) /\ m.nextType \in Nat
  BY <1>1, CatalogueMerged
<1>5. /\ Only(g, r, {"programs", "requirements", "olx", "offerings"})
      /\ Backups!Tables \subseteq DOMAIN r /\ PartnersStay(r, d.companies)
      /\ \A s \in DOMAIN r.sets : r.sets[s] \subseteq r.regions
  BY <1>1, ReferenceMerged
<1> HIDE DEF m, g, r
<1>6. Backups!SoundNames(d) /\ Backups!SoundAccounts(d) /\ Backups!Paired(DOMAIN d.terms)
  BY DEF Backups!Sound, Backups!SoundPartners
<1>7. /\ Only(r, e, {"terms"}) /\ Backups!Paired(DOMAIN e.terms)
      /\ \A t \in DOMAIN e.terms :
           /\ t[1] \in r.programs /\ t[2] \in DOMAIN r.companies
           /\ e.terms[t] # None => <<t[2], e.terms[t]>> \in DOMAIN r.sets
  <2>1. /\ "terms" \in DOMAIN r
        /\ \A c \in DOMAIN <<>> : <<>>[c] \in DOMAIN r.companies
    BY <1>5 DEF Backups!Tables
  <2>2. QED BY <1>2, <1>6, <2>1, TermsRestored
<1>8. /\ {"nextCompany", "nextType", "users", "nextUser"} \subseteq DOMAIN d
  BY <1>6 DEF Backups!SoundNames, Backups!SoundAccounts
<1>9. Backups!SoundNames(e)
  <2>1. /\ e.companies = d.companies /\ e.nextCompany = d.nextCompany
        /\ e.types = m.types /\ e.nextType = m.nextType
        /\ {"nextCompany", "nextType"} \subseteq DOMAIN e
    BY <1>3, <1>4, <1>5, <1>7, <1>8 DEF Only, PartnersStay, Backups!Tables
  <2>2. QED BY <1>4, <1>6, <2>1 DEF Backups!SoundNames
<1>10. Backups!SoundAccounts(e)
  <2>1. /\ e.users = d.users /\ e.nextUser = d.nextUser
        /\ {"users", "nextUser"} \subseteq DOMAIN e
    BY <1>3, <1>5, <1>7, <1>8 DEF Only
  <2>2. QED BY <1>6, <2>1 DEF Backups!SoundAccounts
<1>11. Backups!SoundPartners(e) /\ Backups!Tables \subseteq DOMAIN e
  BY <1>5, <1>7 DEF Only, PartnersStay, Backups!SoundPartners, Backups!Tables
<1>12. QED BY <1>9, <1>10, <1>11 DEF Merges, Backups!Sound
-----------------------------------------------------------------------------
(* What the handlers change of a sound database leaves it sound.           *)

LEMMA SoundParts ==
  ASSUME NEW d, Backups!Sound(d)
  PROVE  /\ Backups!Tables \subseteq DOMAIN d /\ Backups!SoundNames(d)
         /\ Backups!SoundPartners(d) /\ Backups!Fits(d)
         /\ {"nextCompany", "nextType", "nextUser"} \subseteq DOMAIN d
BY DEF Backups!Sound, Backups!SoundNames, Backups!SoundAccounts

LEMMA AccountsUntouched ==
  ASSUME NEW d, Backups!Sound(d), NEW changed, {"users", "nextUser"} \cap changed = {},
         NEW e, Only(d, e, changed)
  PROVE  Backups!SoundAccounts(e)
BY DEF Only, Backups!Sound, Backups!SoundAccounts

LEMMA CompanyCreated ==
  ASSUME NEW d, Backups!Sound(d), NEW n, Backups!Named(d.companies, n) = {}, NEW e,
         e = [d EXCEPT !.companies = [i \in DOMAIN @ \cup {d.nextCompany} |->
                                        IF i \in DOMAIN @ THEN @[i] ELSE n],
                       !.nextCompany = @ + 1]
  PROVE  Backups!Sound(e)
<1> DEFINE joined == [i \in DOMAIN d.companies \cup {d.nextCompany} |->
                        IF i \in DOMAIN d.companies THEN d.companies[i] ELSE n]
<1>1. /\ Backups!Tables \subseteq DOMAIN d /\ Backups!SoundNames(d)
      /\ Backups!SoundPartners(d) /\ Backups!Fits(d)
      /\ {"nextCompany", "nextType", "nextUser"} \subseteq DOMAIN d
  BY SoundParts
<1>2. /\ IsFiniteSet(DOMAIN d.companies) /\ DOMAIN d.companies \in SUBSET Nat
      /\ \A i, j \in DOMAIN d.companies : d.companies[i] = d.companies[j] => i = j
      /\ d.nextCompany \in Nat /\ \A c \in DOMAIN d.companies : c < d.nextCompany
  BY <1>1, NumberedIs DEF Backups!SoundNames
<1>3. e = [d EXCEPT !.companies = joined, !.nextCompany = @ + 1]
  BY Zenon
<1>4. /\ DOMAIN joined = DOMAIN d.companies \cup {d.nextCompany}
      /\ \A i \in DOMAIN d.companies : joined[i] = d.companies[i] /\ d.companies[i] # n
      /\ d.nextCompany \notin DOMAIN d.companies => joined[d.nextCompany] = n
  BY DEF Backups!Named
<1> HIDE DEF joined
<1>5. Only(d, e, {"companies", "nextCompany"}) /\ e.companies = joined
      /\ e.nextCompany = d.nextCompany + 1
  BY <1>1, <1>3 DEF Only, Backups!Tables
<1>6. Backups!Numbered(joined) /\ \A c \in DOMAIN joined : c < d.nextCompany + 1
  <2>1. IsFiniteSet(DOMAIN joined)
    BY <1>2, <1>4, FS_AddElement
  <2>2. \A c \in DOMAIN joined : c \in Nat /\ c < d.nextCompany + 1
    BY <1>2, <1>4
  <2>3. \A i, j \in DOMAIN joined : joined[i] = joined[j] => i = j
    BY <1>2, <1>4
  <2>4. QED BY <2>1, <2>2, <2>3, NumberedIs
<1>7. Backups!SoundNames(e)
  <2>1. /\ {"types", "nextType"} \subseteq DOMAIN d \ {"companies", "nextCompany"}
        /\ {"nextCompany", "nextType"} \subseteq DOMAIN d
    BY <1>1 DEF Backups!Tables
  <2>2. /\ e.types = d.types /\ e.nextType = d.nextType
        /\ {"nextCompany", "nextType"} \subseteq DOMAIN e
    BY <1>5, <2>1 DEF Only
  <2>3. e.nextCompany \in Nat
    BY <1>2, <1>5
  <2>4. QED BY <1>1, <1>5, <1>6, <2>2, <2>3 DEF Backups!SoundNames
<1>8. Backups!SoundAccounts(e)
  BY <1>5, AccountsUntouched
<1>9. Backups!SoundPartners(e)
  BY <1>1, <1>4, <1>5 DEF Only, Backups!SoundPartners, Backups!Tables
<1>10. Backups!Fits(e)
  <2>1. /\ e.types = d.types
        /\ e.regions = d.regions /\ e.training = d.training /\ e.olx = d.olx
        /\ e.learners = d.learners /\ e.taken = d.taken /\ e.programs = d.programs
        /\ e.requirements = d.requirements /\ e.offerings = d.offerings
    BY <1>1, <1>5 DEF Only, Backups!Tables
  <2>2. Backups!Fits(d) /\ DOMAIN d.companies \subseteq DOMAIN e.companies
    BY <1>1, <1>4, <1>5
  <2>3. QED BY <2>1, <2>2 DEF Backups!Fits
<1>11. QED BY <1>1, <1>5, <1>7, <1>8, <1>9, <1>10 DEF Backups!Sound, Only

LEMMA CompanyRenamed ==
  ASSUME NEW d, Backups!Sound(d), NEW n, Backups!Named(d.companies, n) = {},
         NEW c \in DOMAIN d.companies, NEW e, e = [d EXCEPT !.companies[c] = n]
  PROVE  Backups!Sound(e)
<1> DEFINE renamed == [d.companies EXCEPT ![c] = n]
<1>1. /\ Backups!Tables \subseteq DOMAIN d /\ Backups!SoundNames(d)
      /\ Backups!SoundPartners(d) /\ Backups!Fits(d)
      /\ {"nextCompany", "nextType", "nextUser"} \subseteq DOMAIN d
  BY SoundParts
<1>2. /\ DOMAIN renamed = DOMAIN d.companies /\ renamed[c] = n
      /\ \A i \in DOMAIN d.companies : d.companies[i] # n /\ (i # c => renamed[i] = d.companies[i])
  BY DEF Backups!Named
<1>3. Only(d, e, {"companies"}) /\ e.companies = renamed
  BY <1>1 DEF Only, Backups!Tables
<1> HIDE DEF renamed
<1>4. Backups!Numbered(renamed)
  BY <1>1, <1>2, NumberedIs DEF Backups!SoundNames
<1>5. Backups!SoundNames(e)
  BY <1>1, <1>2, <1>3, <1>4 DEF Only, Backups!SoundNames, Backups!Tables
<1>6. Backups!SoundAccounts(e)
  BY <1>3, AccountsUntouched
<1>7. Backups!SoundPartners(e)
  BY <1>1, <1>2, <1>3 DEF Only, Backups!SoundPartners, Backups!Tables
<1>8. Backups!Fits(e)
  BY <1>1, <1>2, <1>3 DEF Only, Backups!Fits, Backups!Tables
<1>9. QED BY <1>1, <1>3, <1>5, <1>6, <1>7, <1>8 DEF Backups!Sound, Only

WithoutCompany(d, c) ==
  [d EXCEPT !.companies = Backups!Restrict(@, DOMAIN @ \ {c}),
            !.sets = Backups!Restrict(@, {s \in DOMAIN @ : s[1] # c}),
            !.terms = Backups!Restrict(@, {t \in DOMAIN @ : t[2] # c}),
            !.links = {l \in @ : l[2] # c}]

LEMMA CompanyDeleted ==
  ASSUME NEW d, Backups!Sound(d), NEW c,
         \A x \in DOMAIN d.learners : d.learners[x].company # c,
         \A o \in DOMAIN d.offerings : o[1] # c, NEW e, e = WithoutCompany(d, c)
  PROVE  Backups!Sound(e)
<1> DEFINE companies == Backups!Restrict(d.companies, DOMAIN d.companies \ {c})
           sets == Backups!Restrict(d.sets, {s \in DOMAIN d.sets : s[1] # c})
           terms == Backups!Restrict(d.terms, {t \in DOMAIN d.terms : t[2] # c})
           links == {l \in d.links : l[2] # c}
<1>1. /\ Backups!Tables \subseteq DOMAIN d /\ Backups!SoundNames(d)
      /\ Backups!SoundPartners(d) /\ Backups!Fits(d)
      /\ {"nextCompany", "nextType", "nextUser"} \subseteq DOMAIN d
  BY SoundParts
<1>2. /\ DOMAIN companies = DOMAIN d.companies \ {c}
      /\ \A i \in DOMAIN companies : companies[i] = d.companies[i]
      /\ DOMAIN sets = {s \in DOMAIN d.sets : s[1] # c}
      /\ \A s \in DOMAIN sets : sets[s] = d.sets[s]
      /\ DOMAIN terms = {t \in DOMAIN d.terms : t[2] # c}
      /\ \A t \in DOMAIN terms : terms[t] = d.terms[t]
      /\ \A l \in links : l \in d.links /\ l[2] # c
  BY DEF Backups!Restrict
<1>3. e = [d EXCEPT !.companies = companies, !.sets = sets, !.terms = terms, !.links = links]
  BY Zenon DEF WithoutCompany
<1> HIDE DEF companies, sets, terms, links
<1>4. Only(d, e, {"companies", "sets", "terms", "links"}) /\ e.companies = companies
      /\ e.sets = sets /\ e.terms = terms /\ e.links = links
  BY <1>1, <1>3 DEF Only, Backups!Tables
<1>5. Backups!Numbered(companies)
  <2>1. IsFiniteSet(DOMAIN companies)
    BY <1>1, <1>2, NumberedIs, FS_Subset DEF Backups!SoundNames
  <2>2. QED BY <1>1, <1>2, <2>1, NumberedIs DEF Backups!SoundNames
<1>6. Backups!SoundNames(e)
  BY <1>1, <1>2, <1>4, <1>5 DEF Only, Backups!SoundNames, Backups!Tables
<1>7. Backups!SoundAccounts(e)
  BY <1>4, AccountsUntouched
<1>8. Backups!SoundPartners(e)
  <2>1. /\ e.regions = d.regions /\ e.programs = d.programs
        /\ e.offerings = d.offerings /\ e.users = d.users
    BY <1>1, <1>4 DEF Only, Backups!Tables
  <2>2. /\ Backups!Paired(DOMAIN sets) /\ Backups!Paired(DOMAIN terms)
        /\ Backups!Paired(links) /\ Backups!Paired(DOMAIN d.offerings)
    BY <1>1, <1>2 DEF Backups!SoundPartners, Backups!Paired
  <2>3. \A s \in DOMAIN sets : s[1] \in DOMAIN companies /\ sets[s] \subseteq d.regions
    BY <1>1, <1>2 DEF Backups!SoundPartners
  <2>4. ASSUME NEW t \in DOMAIN terms
        PROVE  /\ t[1] \in d.programs /\ t[2] \in DOMAIN companies
               /\ terms[t] # None => <<t[2], terms[t]>> \in DOMAIN sets
    <3>1. t \in DOMAIN d.terms /\ t[2] # c /\ terms[t] = d.terms[t]
      BY <1>2
    <3>2. /\ t[1] \in d.programs /\ t[2] \in DOMAIN d.companies
          /\ d.terms[t] # None => <<t[2], d.terms[t]>> \in DOMAIN d.sets
      BY <1>1, <3>1 DEF Backups!SoundPartners
    <3>3. QED BY <1>2, <3>1, <3>2
  <2>5. \A o \in DOMAIN d.offerings : o[1] \in DOMAIN companies
    BY <1>1, <1>2 DEF Backups!SoundPartners
  <2>6. \A l \in links : l[1] \in DOMAIN d.users /\ l[2] \in DOMAIN companies
    BY <1>1, <1>2 DEF Backups!SoundPartners
  <2>7. QED BY <1>4, <2>1, <2>2, <2>3, <2>4, <2>5, <2>6 DEF Backups!SoundPartners
<1>9. Backups!Fits(e)
  <2>1. /\ e.training = d.training /\ e.types = d.types /\ e.learners = d.learners
        /\ e.regions = d.regions /\ e.taken = d.taken /\ e.olx = d.olx
        /\ e.requirements = d.requirements /\ e.programs = d.programs
        /\ e.offerings = d.offerings
    BY <1>1, <1>4 DEF Only, Backups!Tables
  <2>2. \A x \in DOMAIN d.learners : d.learners[x].company \in DOMAIN companies
    BY <1>1, <1>2 DEF Backups!Fits
  <2>3. QED BY <1>1, <1>4, <2>1, <2>2 DEF Backups!Fits
<1>10. QED BY <1>1, <1>4, <1>6, <1>7, <1>8, <1>9 DEF Backups!Sound, Only

LEMMA TypeCreated ==
  ASSUME NEW d, Backups!Sound(d), NEW n, Backups!Named(d.types, n) = {}, NEW e,
         e = [d EXCEPT !.types = IF d.nextType \in DOMAIN @ THEN @
                                 ELSE [i \in DOMAIN @ \cup {d.nextType} |->
                                         IF i \in DOMAIN @ THEN @[i] ELSE n],
                       !.nextType = @ + 1]
  PROVE  Backups!Sound(e)
<1> DEFINE types == IF d.nextType \in DOMAIN d.types THEN d.types
                    ELSE [i \in DOMAIN d.types \cup {d.nextType} |->
                            IF i \in DOMAIN d.types THEN d.types[i] ELSE n]
<1>1. /\ Backups!Tables \subseteq DOMAIN d /\ Backups!SoundNames(d)
      /\ Backups!SoundPartners(d) /\ Backups!Fits(d)
      /\ {"nextCompany", "nextType", "nextUser"} \subseteq DOMAIN d
  BY SoundParts
<1>2. /\ IsFiniteSet(DOMAIN d.types) /\ DOMAIN d.types \in SUBSET Nat
      /\ \A i, j \in DOMAIN d.types : d.types[i] = d.types[j] => i = j
      /\ d.nextType \in Nat
  BY <1>1, NumberedIs DEF Backups!SoundNames
<1>3. e = [d EXCEPT !.types = types, !.nextType = @ + 1]
  BY Zenon
<1>4. /\ DOMAIN types = DOMAIN d.types \cup {d.nextType}
      /\ \A i \in DOMAIN d.types : types[i] = d.types[i] /\ d.types[i] # n
      /\ d.nextType \notin DOMAIN d.types => types[d.nextType] = n
  BY DEF Backups!Named
<1> HIDE DEF types
<1>5. Only(d, e, {"types", "nextType"}) /\ e.types = types /\ e.nextType = d.nextType + 1
  BY <1>1, <1>3 DEF Only, Backups!Tables
<1>6. Backups!Numbered(types)
  <2>1. IsFiniteSet(DOMAIN types)
    BY <1>2, <1>4, FS_AddElement
  <2>2. \A c \in DOMAIN types : c \in Nat
    BY <1>2, <1>4
  <2>3. \A i, j \in DOMAIN types : types[i] = types[j] => i = j
    BY <1>2, <1>4
  <2>4. QED BY <2>1, <2>2, <2>3, NumberedIs
<1>7. Backups!SoundNames(e)
  <2>1. /\ e.companies = d.companies /\ e.nextCompany = d.nextCompany
        /\ {"nextCompany", "nextType"} \subseteq DOMAIN e
    BY <1>1, <1>5 DEF Only, Backups!Tables
  <2>2. e.nextType \in Nat
    BY <1>2, <1>5
  <2>3. QED BY <1>1, <1>5, <1>6, <2>1, <2>2 DEF Backups!SoundNames
<1>8. Backups!SoundAccounts(e)
  BY <1>5, AccountsUntouched
<1>9. Backups!SoundPartners(e)
  BY <1>1, <1>5 DEF Only, Backups!SoundPartners, Backups!Tables
<1>10. Backups!Fits(e)
  <2>1. /\ e.companies = d.companies
        /\ e.regions = d.regions /\ e.training = d.training /\ e.olx = d.olx
        /\ e.learners = d.learners /\ e.taken = d.taken /\ e.programs = d.programs
        /\ e.requirements = d.requirements /\ e.offerings = d.offerings
    BY <1>1, <1>5 DEF Only, Backups!Tables
  <2>2. Backups!Fits(d) /\ DOMAIN d.types \subseteq DOMAIN e.types
    BY <1>1, <1>4, <1>5
  <2>3. QED BY <2>1, <2>2 DEF Backups!Fits
<1>11. QED BY <1>1, <1>5, <1>7, <1>8, <1>9, <1>10 DEF Backups!Sound, Only

\* Tables that only say which sets and terms there are.
LEMMA GroupsSound ==
  ASSUME NEW d, Backups!Sound(d), NEW e, Only(d, e, {"sets", "terms"}),
         Backups!Paired(DOMAIN e.sets), Backups!Paired(DOMAIN e.terms),
         \A s \in DOMAIN e.sets : s[1] \in DOMAIN d.companies /\ e.sets[s] \subseteq d.regions,
         \A t \in DOMAIN e.terms :
           /\ t[1] \in d.programs /\ t[2] \in DOMAIN d.companies
           /\ e.terms[t] # None => <<t[2], e.terms[t]>> \in DOMAIN e.sets
  PROVE  Backups!Sound(e)
<1>1. /\ Backups!Tables \subseteq DOMAIN d /\ Backups!SoundNames(d)
      /\ Backups!SoundPartners(d) /\ Backups!Fits(d)
      /\ {"nextCompany", "nextType", "nextUser"} \subseteq DOMAIN d
  BY SoundParts
<1>2. Backups!SoundNames(e)
  BY <1>1 DEF Only, Backups!SoundNames, Backups!Tables
<1>3. Backups!SoundAccounts(e)
  BY AccountsUntouched
<1>4. /\ e.companies = d.companies /\ e.regions = d.regions /\ e.programs = d.programs
      /\ e.offerings = d.offerings /\ e.users = d.users /\ e.links = d.links
  BY <1>1 DEF Only, Backups!Tables
<1>5. Backups!SoundPartners(e)
  BY <1>1, <1>4 DEF Backups!SoundPartners
<1>6. Backups!Fits(e)
  BY <1>1 DEF Only, Backups!Fits, Backups!Tables
<1>7. QED BY <1>1, <1>2, <1>3, <1>5, <1>6 DEF Backups!Sound, Only

LEMMA SetEdited ==
  ASSUME NEW d, Backups!Sound(d), NEW s \in DOMAIN d.sets, NEW m \in SUBSET d.regions,
         NEW e, e = [d EXCEPT !.sets[s] = m]
  PROVE  Backups!Sound(e)
<1>1. Backups!Tables \subseteq DOMAIN d /\ Backups!SoundPartners(d)
  BY SoundParts
<1>2. Only(d, e, {"sets"}) /\ e.sets = [d.sets EXCEPT ![s] = m] /\ e.terms = d.terms
  BY <1>1 DEF Only, Backups!Tables
<1>3. Only(d, e, {"sets", "terms"})
  BY <1>2 DEF Only
<1>4. DOMAIN e.sets = DOMAIN d.sets /\ \A x \in DOMAIN d.sets : e.sets[x] = IF x = s THEN m ELSE d.sets[x]
  BY <1>2
<1>5. Backups!Paired(DOMAIN e.sets) /\ Backups!Paired(DOMAIN e.terms)
  BY <1>1, <1>2, <1>4 DEF Backups!SoundPartners
<1>6. \A x \in DOMAIN e.sets : x[1] \in DOMAIN d.companies /\ e.sets[x] \subseteq d.regions
  BY <1>1, <1>4 DEF Backups!SoundPartners
<1>7. \A t \in DOMAIN e.terms :
        /\ t[1] \in d.programs /\ t[2] \in DOMAIN d.companies
        /\ e.terms[t] # None => <<t[2], e.terms[t]>> \in DOMAIN e.sets
  BY <1>1, <1>2, <1>4 DEF Backups!SoundPartners
<1>8. QED BY <1>3, <1>5, <1>6, <1>7, GroupsSound

LEMMA SetDeleted ==
  ASSUME NEW d, Backups!Sound(d), NEW s \in DOMAIN d.sets, NEW e,
         e = [d EXCEPT !.sets = Backups!Restrict(@, DOMAIN @ \ {s}),
                       !.terms = [t \in DOMAIN @ |->
                                    IF <<t[2], @[t]>> = s THEN None ELSE @[t]]]
  PROVE  Backups!Sound(e)
<1> DEFINE sets == Backups!Restrict(d.sets, DOMAIN d.sets \ {s})
           terms == [t \in DOMAIN d.terms |->
                       IF <<t[2], d.terms[t]>> = s THEN None ELSE d.terms[t]]
<1>1. Backups!Tables \subseteq DOMAIN d /\ Backups!SoundPartners(d)
  BY SoundParts
<1>2. e = [d EXCEPT !.sets = sets, !.terms = terms]
  BY Zenon
<1>3. /\ DOMAIN sets = DOMAIN d.sets \ {s} /\ \A x \in DOMAIN sets : sets[x] = d.sets[x]
      /\ DOMAIN terms = DOMAIN d.terms
      /\ \A t \in DOMAIN terms :
           terms[t] # None => terms[t] = d.terms[t] /\ <<t[2], d.terms[t]>> # s
  BY DEF Backups!Restrict
<1> HIDE DEF sets, terms
<1>4. Only(d, e, {"sets", "terms"}) /\ e.sets = sets /\ e.terms = terms
  BY <1>1, <1>2 DEF Only, Backups!Tables
<1>5. Backups!Paired(DOMAIN sets) /\ Backups!Paired(DOMAIN terms)
  BY <1>1, <1>3 DEF Backups!SoundPartners, Backups!Paired
<1>6. \A x \in DOMAIN sets : x[1] \in DOMAIN d.companies /\ sets[x] \subseteq d.regions
  BY <1>1, <1>3 DEF Backups!SoundPartners
<1>7. \A t \in DOMAIN terms :
        /\ t[1] \in d.programs /\ t[2] \in DOMAIN d.companies
        /\ terms[t] # None => <<t[2], terms[t]>> \in DOMAIN sets
  BY <1>1, <1>3 DEF Backups!SoundPartners
<1>8. QED BY <1>4, <1>5, <1>6, <1>7, GroupsSound

WithNewTerms(d, p, c, set) ==
  [d EXCEPT !.terms = [t \in DOMAIN @ \cup {<<p, c>>} |-> IF t \in DOMAIN @ THEN @[t] ELSE set]]

LEMMA TermsCreated ==
  ASSUME NEW d, Backups!Sound(d), NEW p \in d.programs, NEW c \in DOMAIN d.companies,
         NEW set, set # None => <<c, set>> \in DOMAIN d.sets,
         NEW e, e = WithNewTerms(d, p, c, set)
  PROVE  Backups!Sound(e)
<1> DEFINE terms == [t \in DOMAIN d.terms \cup {<<p, c>>} |->
                       IF t \in DOMAIN d.terms THEN d.terms[t] ELSE set]
<1>1. Backups!Tables \subseteq DOMAIN d /\ Backups!SoundPartners(d)
  BY SoundParts
<1>2. e = [d EXCEPT !.terms = terms]
  BY Zenon DEF WithNewTerms
<1>3. \A t \in DOMAIN terms :
        \/ t \in DOMAIN d.terms /\ terms[t] = d.terms[t]
        \/ t = <<p, c>> /\ terms[t] = set
  OBVIOUS
<1> HIDE DEF terms
<1>4. Only(d, e, {"sets", "terms"}) /\ e.sets = d.sets /\ e.terms = terms
  BY <1>1, <1>2 DEF Only, Backups!Tables
<1>5. Backups!Paired(DOMAIN d.sets) /\ Backups!Paired(DOMAIN terms)
  BY <1>1, <1>3 DEF Backups!SoundPartners, Backups!Paired
<1>6. \A x \in DOMAIN d.sets : x[1] \in DOMAIN d.companies /\ d.sets[x] \subseteq d.regions
  BY <1>1 DEF Backups!SoundPartners
<1>7. \A t \in DOMAIN terms :
        /\ t[1] \in d.programs /\ t[2] \in DOMAIN d.companies
        /\ terms[t] # None => <<t[2], terms[t]>> \in DOMAIN d.sets
  BY <1>1, <1>3 DEF Backups!SoundPartners
<1>8. QED BY <1>4, <1>5, <1>6, <1>7, GroupsSound

LEMMA PasswordChanged ==
  ASSUME NEW d, Backups!Sound(d), NEW u \in DOMAIN d.users, NEW e,
         e = [d EXCEPT !.users[u].epoch = @ + 1], Backups!SoundAccounts(e)
  PROVE  Backups!Sound(e)
<1>1. /\ Backups!Tables \subseteq DOMAIN d /\ Backups!SoundNames(d)
      /\ Backups!SoundPartners(d) /\ Backups!Fits(d)
      /\ {"nextCompany", "nextType", "nextUser"} \subseteq DOMAIN d
  BY SoundParts
<1>2. Only(d, e, {"users"}) /\ DOMAIN e.users = DOMAIN d.users
  BY <1>1 DEF Only, Backups!Tables
<1>3. Backups!SoundNames(e)
  BY <1>1, <1>2 DEF Only, Backups!SoundNames, Backups!Tables
<1>4. Backups!SoundPartners(e)
  <2>1. /\ e.companies = d.companies /\ e.regions = d.regions /\ e.programs = d.programs
        /\ e.sets = d.sets /\ e.terms = d.terms /\ e.offerings = d.offerings /\ e.links = d.links
    BY <1>1, <1>2 DEF Only, Backups!Tables
  <2>2. QED BY <1>1, <1>2, <2>1 DEF Backups!SoundPartners
<1>5. Backups!Fits(e)
  BY <1>1, <1>2 DEF Only, Backups!Fits, Backups!Tables
<1>6. QED BY <1>1, <1>2, <1>3, <1>4, <1>5 DEF Backups!Sound, Only
-----------------------------------------------------------------------------
(* Every step keeps the rows sound.                                        *)

\* A restore of the configuration that went through was one of a sound archive on
\* a sound database, and until a handler changes it, the database is what that
\* restore made of it.
LastMerge ==
  last.kind = "config" /\ last.outcome = "ok" =>
    /\ Backups!Sound(last.before) /\ SoundArchive(last.archive)
    /\ last.edits \in Nat /\ last.edits <= edits
    /\ edits = last.edits => Merges(last.before, last.archive, install)

RowsInv ==
  /\ Backups!Sound(install)
  /\ backup # None => archive = None /\ Backups!Sound(backup.db)
  /\ archive # None => SoundArchive(archive)
  /\ archive = None => last = Backups!NoRestore
  /\ edits \in Nat /\ LastMerge

LEMMA RowsStart == Backups!Init => RowsInv
<1> SUFFICES ASSUME Backups!Init PROVE RowsInv
  OBVIOUS
<1>1. /\ scenario \in DOMAIN Archives /\ install \in Archives[scenario].installs
      /\ backup = None /\ archive = None /\ edits = 0 /\ last = Backups!NoRestore
  BY DEF Backups!Init
<1>2. Backups!Sound(install)
  BY <1>1, ParamAssumption DEF Backups!Parameters
<1>3. LastMerge
  BY <1>1, RestoreParameters DEF LastMerge, Backups!NoRestore
<1>4. QED BY <1>1, <1>2, <1>3 DEF RowsInv

LEMMA RowsEdited ==
  ASSUME RestoreInv', RowsInv, Backups!Edit
  PROVE  RowsInv'
<1>1. /\ UNCHANGED <<backup, archive, last>> /\ edits' = edits + 1
  BY DEF Backups!Edit, Backups!CreateCompany, Backups!RenameCompany, Backups!DeleteCompany,
         Backups!CreateType, Backups!EditSet, Backups!DeleteSet, Backups!CreateTerms,
         Backups!SignIn, Backups!ChangePassword, Backups!Edited
<1>2. Backups!Sound(install) /\ Backups!SoundAccounts(install')
  BY DEF RowsInv, RestoreInv
<1>3. Backups!Sound(install')
  <2>1. CASE \E n \in Backups!Mix.names :
               \/ Backups!CreateCompany(n) \/ Backups!CreateType(n)
               \/ \E c \in DOMAIN install.companies : Backups!RenameCompany(c, n)
    BY <1>2, <2>1, CompanyCreated, TypeCreated, CompanyRenamed
    DEF Backups!CreateCompany, Backups!CreateType, Backups!RenameCompany, Backups!Edited
  <2>2. CASE \E c \in DOMAIN install.companies : Backups!DeleteCompany(c)
    <3>1. PICK c \in DOMAIN install.companies : Backups!DeleteCompany(c)
      BY <2>2
    <3>2. install' = WithoutCompany(install, c)
      BY <3>1, Zenon DEF Backups!DeleteCompany, Backups!Edited, WithoutCompany
    <3>3. /\ \A x \in DOMAIN install.learners : install.learners[x].company # c
          /\ \A o \in DOMAIN install.offerings : o[1] # c
      BY <3>1 DEF Backups!DeleteCompany
    <3>4. QED BY <1>2, <3>2, <3>3, CompanyDeleted
  <2>3. CASE \E c \in DOMAIN install.companies, p \in install.programs,
                set \in {s[2] : s \in DOMAIN install.sets} \cup {None} :
               (set # None => <<c, set>> \in DOMAIN install.sets) /\ Backups!CreateTerms(p, c, set)
    <3>1. PICK c \in DOMAIN install.companies, p \in install.programs,
               set \in {s[2] : s \in DOMAIN install.sets} \cup {None} :
            (set # None => <<c, set>> \in DOMAIN install.sets) /\ Backups!CreateTerms(p, c, set)
      BY <2>3
    <3>2. install' = WithNewTerms(install, p, c, set)
      BY <3>1, Zenon DEF Backups!CreateTerms, Backups!Edited, WithNewTerms
    <3>3. QED BY <1>2, <3>1, <3>2, TermsCreated
  <2>4. CASE \E s \in DOMAIN install.sets :
               Backups!DeleteSet(s) \/ \E m \in SUBSET install.regions : Backups!EditSet(s, m)
    <3>1. PICK s \in DOMAIN install.sets :
            Backups!DeleteSet(s) \/ \E m \in SUBSET install.regions : Backups!EditSet(s, m)
      BY <2>4
    <3>2. CASE Backups!DeleteSet(s)
      BY <1>2, <3>2, SetDeleted DEF Backups!DeleteSet, Backups!Edited
    <3>3. CASE \E m \in SUBSET install.regions : Backups!EditSet(s, m)
      BY <1>2, <3>3, SetEdited DEF Backups!EditSet, Backups!Edited
    <3>4. QED BY <3>1, <3>2, <3>3
  <2>5. CASE \E u \in DOMAIN install.users : Backups!SignIn(u) \/ Backups!ChangePassword(u)
    BY <1>2, <2>5, PasswordChanged DEF Backups!SignIn, Backups!ChangePassword, Backups!Edited
  <2>6. QED BY <2>1, <2>2, <2>3, <2>4, <2>5 DEF Backups!Edit
<1>4. LastMerge'
  BY <1>1 DEF RowsInv, LastMerge
<1>5. QED BY <1>1, <1>3, <1>4 DEF RowsInv

LEMMA RowsRead ==
  ASSUME RowsInv,
         \/ \E kind \in Backups!Mix.kinds, files \in Backups!Mix.files,
               first \in Backups!Mix.cuts : Backups!BeginBackup(kind, files, first)
         \/ Backups!EndBackup
  PROVE  RowsInv'
<1>1. UNCHANGED <<install, edits, last>> /\ archive = None
  BY DEF Backups!BeginBackup, Backups!EndBackup, RowsInv
<1>2. LastMerge' /\ Backups!Sound(install)' /\ (edits \in Nat)' /\ last' = Backups!NoRestore
  <2>1. LastMerge'
    BY <1>1 DEF RowsInv, LastMerge
  <2>2. QED BY <1>1, <2>1 DEF RowsInv
<1>3. CASE \E kind \in Backups!Mix.kinds, files \in Backups!Mix.files,
              first \in Backups!Mix.cuts : Backups!BeginBackup(kind, files, first)
  <2>1. backup'.db = install /\ archive' = None
    BY <1>1, <1>3 DEF Backups!BeginBackup
  <2>2. QED BY <1>1, <1>2, <2>1 DEF RowsInv
<1>4. CASE Backups!EndBackup
  <2>1. /\ backup # None /\ backup' = None
        /\ Backups!Sound(backup.db) /\ Backups!Sound(install)
    BY <1>4 DEF Backups!EndBackup, RowsInv
  <2>2. /\ archive'.tables = [t \in Backups!Tables |-> Backups!Read(t)]
        /\ archive'.setPartners =
             (IF "sets" \in backup.first THEN backup.db.companies ELSE install.companies)
        /\ archive'.termPartners =
             (IF "terms" \in backup.first THEN backup.db.companies ELSE install.companies)
    BY <1>4 DEF Backups!EndBackup
  <2>3. /\ archive'.tables.companies \in {backup.db.companies, install.companies}
        /\ archive'.tables.types \in {backup.db.types, install.types}
        /\ archive'.tables.sets =
             (IF "sets" \in backup.first THEN backup.db.sets ELSE install.sets)
        /\ archive'.tables.terms =
             (IF "terms" \in backup.first THEN backup.db.terms ELSE install.terms)
    BY <2>2 DEF Backups!Tables, Backups!Read
  <2>4. \A d : Backups!Sound(d) =>
          /\ Backups!Numbered(d.companies) /\ Backups!Numbered(d.types)
          /\ Backups!Paired(DOMAIN d.sets) /\ Backups!Paired(DOMAIN d.terms)
          /\ \A s \in DOMAIN d.sets : s[1] \in DOMAIN d.companies
          /\ \A t \in DOMAIN d.terms : t[2] \in DOMAIN d.companies
    BY DEF Backups!Sound, Backups!SoundNames, Backups!SoundPartners
  <2>5. SoundArchive(archive')
    BY <2>1, <2>2, <2>3, <2>4 DEF SoundArchive
  <2>6. QED BY <1>1, <1>2, <2>1, <2>5 DEF RowsInv
<1>5. QED BY <1>3, <1>4

LEMMA RowsMoved ==
  ASSUME RestoreInv, RowsInv, Backups!MoveToAnotherInstall
  PROVE  RowsInv'
<1>1. /\ install' \in Archives[scenario].others /\ scenario \in DOMAIN Archives
      /\ UNCHANGED <<backup, archive, edits, last>> /\ last = Backups!NoRestore
  BY DEF Backups!MoveToAnotherInstall, Backups!Mix, RestoreInv
<1>2. Backups!Sound(install')
  BY <1>1, ParamAssumption DEF Backups!Parameters
<1>3. LastMerge'
  BY <1>1, RestoreParameters DEF LastMerge, Backups!NoRestore
<1>4. QED BY <1>1, <1>2, <1>3 DEF RowsInv

LEMMA RowsFullyRestored ==
  ASSUME RestoreInv', RowsInv, Backups!RestoreFull
  PROVE  RowsInv'
<1> DEFINE d == Backups!FullyRestored(install, archive)
<1>1. \E outcome : Backups!Restored("full", outcome, d) /\ (outcome = "ok" => Backups!Fits(d))
  <2>1. PICK refused, clashes :
          Backups!Restored("full", CASE refused -> "refused"
                                     [] ~Backups!Fits(d) \/ clashes -> "failed"
                                     [] OTHER -> "ok", d)
    BY Zenon DEF Backups!RestoreFull
  <2> DEFINE outcome == CASE refused -> "refused"
                          [] ~Backups!Fits(d) \/ clashes -> "failed"
                          [] OTHER -> "ok"
  <2> HIDE DEF d
  <2>2. outcome = "ok" => Backups!Fits(d)
    OBVIOUS
  <2>3. Backups!Restored("full", outcome, d)
    BY <2>1
  <2> HIDE DEF outcome
  <2>4. QED BY <2>2, <2>3
<1>2. PICK outcome : Backups!Restored("full", outcome, d) /\ (outcome = "ok" => Backups!Fits(d))
  BY <1>1
<1>3. d = Backups!FullyRestored(install, archive)
  OBVIOUS
<1> HIDE DEF d
<1>4. /\ archive # None /\ UNCHANGED <<backup, archive, edits>> /\ last'.kind = "full"
      /\ install' = (IF outcome = "ok" THEN d ELSE install)
  BY <1>2 DEF Backups!Restored
<1>5. Backups!Sound(install')
  <2>1. CASE outcome = "ok"
    <3>1. Backups!SoundAccounts(d) /\ install' = d
      BY <1>4, <2>1 DEF RestoreInv
    <3>2. QED BY <1>2, <1>3, <1>4, <2>1, <3>1, FullySound DEF RowsInv
  <2>2. CASE outcome # "ok"
    BY <1>4, <2>2 DEF RowsInv
  <2>3. QED BY <2>1, <2>2
<1>6. LastMerge'
  BY <1>4 DEF LastMerge
<1>7. QED BY <1>4, <1>5, <1>6 DEF RowsInv

LEMMA RowsReconfigured ==
  ASSUME RowsInv, Backups!RestoreConfig
  PROVE  RowsInv'
<1> DEFINE whole == \A t \in DOMAIN archive.tables.training :
                      archive.tables.training[t] \in DOMAIN archive.tables.types
           free == \A i \in Backups!NewTypes(install, archive) :
                     Backups!NewTypeId(install, archive, i) \notin DOMAIN install.types
           merged == Backups!Reconfigured(install, archive)
<1>1. \E outcome, d :
        /\ Backups!Restored("config", outcome, d)
        /\ outcome = "ok" => whole /\ free /\ Backups!Fits(merged) /\ d = merged
  <2> DEFINE torn == \E t \in DOMAIN archive.tables.training :
                       archive.tables.training[t] \notin DOMAIN archive.tables.types
             taken_ == \E i \in Backups!NewTypes(install, archive) :
                        Backups!NewTypeId(install, archive, i) \in DOMAIN install.types
             fails == torn \/ taken_ \/ Backups!OfferingsClash(install, <<>>, archive)
                      \/ ~Backups!Fits(merged)
  <2>1. Backups!Restored("config", IF fails THEN "failed" ELSE "ok",
                         IF torn \/ taken_ THEN install ELSE merged)
    BY Zenon DEF Backups!RestoreConfig
  <2>2. ~fails => whole /\ free /\ Backups!Fits(merged) /\ ~torn /\ ~taken_
    OBVIOUS
  <2> HIDE DEF fails, torn, taken_, whole, free, merged
  <2>3. QED BY <2>1, <2>2
<1>2. PICK outcome, d :
        /\ Backups!Restored("config", outcome, d)
        /\ outcome = "ok" => whole /\ free /\ Backups!Fits(merged) /\ d = merged
  BY <1>1
<1>3. outcome = "ok" => d = merged /\ Merges(install, archive, merged)
  BY <1>2 DEF Merges
<1> HIDE DEF merged, whole, free
<1>4. /\ archive # None /\ UNCHANGED <<backup, archive, edits>>
      /\ last'.outcome = outcome /\ last'.before = install
      /\ last'.archive = archive /\ last'.edits = edits
      /\ install' = (IF outcome = "ok" THEN d ELSE install)
  BY <1>2 DEF Backups!Restored
<1>5. Backups!Sound(install) /\ SoundArchive(archive) /\ edits \in Nat
  BY <1>4 DEF RowsInv
<1>6. Backups!Sound(install')
  BY <1>3, <1>4, <1>5, ConfigSound
<1>7. LastMerge'
  BY <1>3, <1>4, <1>5 DEF LastMerge
<1>8. QED BY <1>4, <1>5, <1>6, <1>7 DEF RowsInv

LEMMA RowsKept ==
  ASSUME RestoreInv, RestoreInv', RowsInv, [Backups!Next]_restoreVars
  PROVE  RowsInv'
<1>1. CASE Backups!Edit
  BY <1>1, RowsEdited
<1>2. CASE \/ \E kind \in Backups!Mix.kinds, files \in Backups!Mix.files,
                 first \in Backups!Mix.cuts : Backups!BeginBackup(kind, files, first)
           \/ Backups!EndBackup
  BY <1>2, RowsRead
<1>3. CASE Backups!MoveToAnotherInstall
  BY <1>3, RowsMoved
<1>4. CASE Backups!RestoreFull
  BY <1>4, RowsFullyRestored
<1>5. CASE Backups!RestoreConfig
  BY <1>5, RowsReconfigured
<1>6. CASE UNCHANGED restoreVars
  <2>1. UNCHANGED <<install, backup, archive, edits, last>>
    BY <1>6 DEF restoreVars
  <2>2. QED BY <2>1 DEF RowsInv, LastMerge
<1>7. QED BY <1>1, <1>2, <1>3, <1>4, <1>5, <1>6 DEF Backups!Next

LEMMA RestoreInductive == MCSpec => [](RestoreInv /\ RowsInv)
<1>1. MCInit => RestoreInv /\ RowsInv
  BY RestoreStarts, RowsStart DEF MCInit
<1>2. RestoreInv /\ RowsInv /\ [MCNext]_<<part, learnersVars, restoreVars, planVars>>
        => (RestoreInv /\ RowsInv)'
  <2>1. [MCNext]_<<part, learnersVars, restoreVars, planVars>> => [Backups!Next]_restoreVars
    BY DEF MCNext
  <2>2. QED BY <2>1, RestoreKept, RowsKept
<1>3. QED BY <1>1, <1>2, PTL DEF MCSpec
-----------------------------------------------------------------------------
(* What a restore of the configuration makes of a database.                *)

\* The database and the archive; what the archive holds of a partner.
Of(rows, i, p) == {x \in rows : x[i] = p}
ArchivedSets(a) ==
  {<<a.setPartners[s[1]], s[2], a.tables.sets[s]>> : s \in DOMAIN a.tables.sets}
ArchivedTerms(a) ==
  {<<t[1], a.termPartners[t[2]], a.tables.terms[t]>> : t \in DOMAIN a.tables.terms}
MembersHere(e, rows) == {<<s[1], s[2], s[3] \cap e.regions>> : s \in rows}
LinkedRows(e, rows) ==
  {<<t[1], t[2], IF \E s \in Backups!SetsOf(e) : s[1] = t[2] /\ s[2] = t[3] THEN t[3] ELSE None>> :
     t \in {t \in rows : t[1] \in e.programs}}

\* The steps of the restore, and what each leaves alone.
Steps(d, a, e) ==
  /\ e = Backups!WithTerms(Referenced(d, a), <<>>, a, d.terms, FALSE)
  /\ Backups!Tables \subseteq DOMAIN d
  /\ \A x \in {d, Catalogued(d, a), Grouped(d, a), Referenced(d, a), e} :
       DOMAIN x = DOMAIN d /\ x.companies = d.companies
  /\ \A t \in Backups!Tables \ Backups!InConfig : e[t] = d[t]
  /\ e.types = Catalogued(d, a).types /\ e.nextType = Catalogued(d, a).nextType
  /\ e.training = Catalogued(d, a).training /\ e.regions = Catalogued(d, a).regions
  /\ Catalogued(d, a).sets = d.sets
  /\ e.sets = Grouped(d, a).sets /\ Referenced(d, a).sets = Grouped(d, a).sets
  /\ e.programs = Referenced(d, a).programs

LEMMA MergeSteps ==
  ASSUME NEW d, Backups!Sound(d), NEW a, SoundArchive(a), NEW e, Merges(d, a, e)
  PROVE  Steps(d, a, e)
<1> DEFINE m == Catalogued(d, a)
           g == Grouped(d, a)
           r == Referenced(d, a)
<1>1. \A i \in Backups!NewTypes(d, a) : Backups!NewTypeId(d, a, i) \notin DOMAIN d.types
  BY DEF Merges
<1>2. e = Backups!WithTerms(r, <<>>, a, d.terms, FALSE)
  BY DEF Merges, Backups!Reconfigured, Catalogued, Grouped, Referenced
<1>3. Only(d, m, {"types", "nextType", "regions", "training"})
  BY <1>1, CatalogueMerged
<1>4. Only(m, g, {"sets"})
  BY <1>1, GroupsMerged
<1>5. /\ Only(g, r, {"programs", "requirements", "olx", "offerings"})
      /\ PartnersStay(r, d.companies)
  BY <1>1, ReferenceMerged
<1> HIDE DEF m, g, r
<1>6. /\ Backups!Tables \subseteq DOMAIN d /\ Backups!Paired(DOMAIN d.terms)
      /\ "nextType" \in DOMAIN d
  BY SoundParts DEF Backups!SoundPartners
<1>7. Only(r, e, {"terms"})
  <2>1. "terms" \in DOMAIN r
    BY <1>3, <1>4, <1>5, <1>6 DEF Only, Backups!Tables
  <2>2. \A c \in DOMAIN <<>> : <<>>[c] \in DOMAIN r.companies
    OBVIOUS
  <2>3. QED BY <1>2, <1>6, <2>1, <2>2, TermsRestored
<1>8. \A x \in {d, m, g, r, e} : DOMAIN x = DOMAIN d /\ x.companies = d.companies
  BY <1>3, <1>4, <1>5, <1>6, <1>7 DEF Only, Backups!Tables
<1>9. \A t \in Backups!Tables \ Backups!InConfig : e[t] = d[t]
  BY <1>3, <1>4, <1>5, <1>6, <1>7 DEF Only, Backups!Tables, Backups!InConfig
<1>10. /\ e.types = m.types /\ e.nextType = m.nextType /\ e.training = m.training
       /\ e.regions = m.regions /\ m.sets = d.sets
       /\ e.sets = g.sets /\ r.sets = g.sets /\ e.programs = r.programs
  BY <1>3, <1>4, <1>5, <1>6, <1>7 DEF Only, Backups!Tables
<1>11. QED BY <1>2, <1>6, <1>8, <1>9, <1>10 DEF Steps, m, g, r

\* Without ids of the archive, a row belongs to the partner of the name it carries.
LEMMA PartnerFound ==
  ASSUME NEW d, Backups!Numbered(d.companies)
  PROVE  /\ \A c, name, k : k \in DOMAIN d.companies =>
              (Backups!RowCompany(d, <<>>, c, name) = k <=> d.companies[k] = name)
         /\ \A c, name : Backups!RowCompany(d, <<>>, c, name) # None =>
              Backups!RowCompany(d, <<>>, c, name) \in DOMAIN d.companies
<1>1. \A c, name : Backups!RowCompany(d, <<>>, c, name) =
        IF Backups!Named(d.companies, name) # {} THEN Backups!TheId(d.companies, name) ELSE None
  BY DEF Backups!RowCompany
<1>2. \A k \in DOMAIN d.companies : k # None
  BY NumberedIs, ParamAssumption DEF Backups!Parameters
<1>3. \A c, name : Backups!RowCompany(d, <<>>, c, name) # None =>
        /\ Backups!RowCompany(d, <<>>, c, name) \in DOMAIN d.companies
        /\ d.companies[Backups!RowCompany(d, <<>>, c, name)] = name
  BY <1>1, TheIdIs
<1>4. ASSUME NEW c, NEW name, NEW k \in DOMAIN d.companies, d.companies[k] = name
      PROVE  Backups!RowCompany(d, <<>>, c, name) = k
  <2>1. Backups!Named(d.companies, name) # {} /\ Backups!TheId(d.companies, name) = k
    BY <1>4, TheIdIs
  <2>2. QED BY <1>1, <2>1
<1>5. QED BY <1>2, <1>3, <1>4

LEMMA TrainingsMerged ==
  ASSUME NEW d, Backups!Sound(d), NEW a, SoundArchive(a), NEW e, Merges(d, a, e)
  PROVE  /\ Backups!TrainingsOf(a.tables) \subseteq Backups!TrainingsOf(e)
         /\ e.nextType \notin DOMAIN e.types
<1> DEFINE m == Catalogued(d, a)
<1>1. Steps(d, a, e)
  BY MergeSteps
<1>2. e.types = m.types /\ e.nextType = m.nextType /\ e.training = m.training
  BY <1>1 DEF Steps
<1>3. /\ m.nextType \notin DOMAIN m.types
      /\ \A t \in DOMAIN a.tables.training :
           /\ t \in DOMAIN m.training
           /\ m.training[t] = Backups!TheId(m.types, a.tables.types[a.tables.training[t]])
      /\ \A i \in DOMAIN a.tables.types : Backups!Named(m.types, a.tables.types[i]) # {}
  BY CatalogueMerged DEF Merges
<1> HIDE DEF m
<1>4. ASSUME NEW t \in DOMAIN a.tables.training
      PROVE  /\ t \in DOMAIN e.training
             /\ e.types[e.training[t]] = a.tables.types[a.tables.training[t]]
  <2>1. a.tables.training[t] \in DOMAIN a.tables.types
    BY DEF Merges
  <2>2. QED BY <1>2, <1>3, <2>1, TheIdIs
<1>5. QED BY <1>2, <1>3, <1>4 DEF Backups!TrainingsOf

\* A partner the archive has sets of gets those, of the countries that are here;
\* the others keep theirs.
LEMMA SetsOfPartner ==
  ASSUME NEW d, Backups!Sound(d), NEW a, SoundArchive(a), NEW e, Merges(d, a, e),
         NEW k \in DOMAIN d.companies
  PROVE  LET carried == "sets" \in a.files
                        /\ \E s \in DOMAIN a.tables.sets : a.setPartners[s[1]] = d.companies[k]
         IN  /\ carried =>
                /\ \A x \in DOMAIN e.sets : x[1] = k =>
                     \E s \in DOMAIN a.tables.sets :
                       a.setPartners[s[1]] = d.companies[k] /\ x = <<k, s[2]>>
                /\ \A s \in DOMAIN a.tables.sets : a.setPartners[s[1]] = d.companies[k] =>
                     /\ <<k, s[2]>> \in DOMAIN e.sets
                     /\ e.sets[<<k, s[2]>>] = a.tables.sets[s] \cap e.regions
             /\ ~carried =>
                \A x : x[1] = k => /\ x \in DOMAIN e.sets <=> x \in DOMAIN d.sets
                                   /\ x \in DOMAIN d.sets => e.sets[x] = d.sets[x]
<1> DEFINE m == Catalogued(d, a)
           g == Grouped(d, a)
           rows == {s \in DOMAIN a.tables.sets : Backups!SetCompany(m, <<>>, a, s) # None}
           to(s) == <<Backups!SetCompany(m, <<>>, a, s), s[2]>>
           replaced == {to(s)[1] : s \in rows}
           kept == {s \in DOMAIN m.sets : ~FALSE /\ s[1] \notin replaced}
           archived == {to(s) : s \in rows}
           members(x) == a.tables.sets[CHOOSE s \in rows : to(s) = x] \cap m.regions
<1>1. Steps(d, a, e)
  BY MergeSteps
<1>2. /\ e.sets = g.sets /\ m.sets = d.sets /\ e.regions = m.regions
      /\ m.companies = d.companies /\ DOMAIN m = DOMAIN d /\ Backups!Tables \subseteq DOMAIN d
  BY <1>1 DEF Steps
<1>3. CASE "sets" \notin a.files
  BY <1>2, <1>3 DEF Grouped
<1>4. CASE "sets" \in a.files
  <2>1. g = [m EXCEPT !.sets = [x \in archived \cup kept |->
                                  IF x \in kept THEN m.sets[x] ELSE members(x)]]
    <3>1. g = Backups!WithSets(m, <<>>, a, FALSE)
      BY <1>4 DEF Grouped
    <3>2. QED BY <1>4, <3>1, Zenon DEF Backups!WithSets
  <2>2. ASSUME NEW s \in DOMAIN a.tables.sets
        PROVE  /\ Backups!SetCompany(m, <<>>, a, s) = k <=> a.setPartners[s[1]] = d.companies[k]
               /\ Backups!SetCompany(m, <<>>, a, s) = k => s \in rows
    <3>1. Backups!Numbered(m.companies) /\ k \in DOMAIN m.companies
      BY <1>2, SoundParts DEF Backups!SoundNames
    <3>2. k # None
      BY <3>1, NumberedIs, ParamAssumption DEF Backups!Parameters
    <3>3. Backups!RowCompany(m, <<>>, s[1], a.setPartners[s[1]]) = k
            <=> m.companies[k] = a.setPartners[s[1]]
      <4> HIDE DEF m
      <4>1. Backups!Numbered(m.companies)
        BY <3>1
      <4>2. \A c, name, i : i \in DOMAIN m.companies =>
              (Backups!RowCompany(m, <<>>, c, name) = i <=> m.companies[i] = name)
        BY <4>1, PartnerFound
      <4>3. QED BY <3>1, <4>2
    <3>4. Backups!SetCompany(m, <<>>, a, s) = k <=> d.companies[k] = a.setPartners[s[1]]
      BY <1>2, <3>3 DEF Backups!SetCompany
    <3>5. QED BY <3>2, <3>4
  <2>3. /\ kept = {s \in DOMAIN d.sets : s[1] \notin replaced}
        /\ k \in replaced <=> \E s \in DOMAIN a.tables.sets : a.setPartners[s[1]] = d.companies[k]
        /\ \A x \in archived : \E s \in DOMAIN a.tables.sets : s \in rows /\ x = to(s)
        /\ \A s \in rows : to(s) \in archived
    <3>1. \A s \in rows : to(s)[1] = Backups!SetCompany(m, <<>>, a, s)
      OBVIOUS
    <3>2. QED BY <1>2, <2>2, <3>1
  <2>4. /\ DOMAIN e.sets = archived \cup kept
        /\ \A x \in DOMAIN e.sets : e.sets[x] = IF x \in kept THEN d.sets[x] ELSE members(x)
    <3> HIDE DEF archived, kept, members, m, g
    <3>1. "sets" \in DOMAIN m
      BY <1>2 DEF Backups!Tables
    <3>2. g.sets = [x \in archived \cup kept |-> IF x \in kept THEN m.sets[x] ELSE members(x)]
      BY <2>1, <3>1
    <3>3. QED BY <1>2, <3>2
  <2>5. \A x \in archived : x[1] = k =>
          \E s \in DOMAIN a.tables.sets : a.setPartners[s[1]] = d.companies[k] /\ x = <<k, s[2]>>
    BY <2>2, <2>3
  <2>6. ASSUME NEW s \in DOMAIN a.tables.sets, a.setPartners[s[1]] = d.companies[k]
        PROVE  <<k, s[2]>> \in archived /\ members(<<k, s[2]>>) = a.tables.sets[s] \cap m.regions
    <3>1. s \in rows /\ to(s) = <<k, s[2]>>
      BY <2>2, <2>6
    <3>2. ASSUME NEW x \in rows, to(x) = <<k, s[2]>> PROVE x = s
      <4>1. a.setPartners[x[1]] = a.setPartners[s[1]] /\ x[2] = s[2]
        BY <2>2, <2>6, <3>2
      <4>2. x[1] \in DOMAIN a.setPartners /\ s[1] \in DOMAIN a.setPartners
        BY DEF SoundArchive
      <4>3. x[1] = s[1]
        BY <4>1, <4>2, NumberedIs DEF SoundArchive
      <4>4. QED BY <4>1, <4>3 DEF SoundArchive, Backups!Paired
    <3>3. (CHOOSE x \in rows : to(x) = <<k, s[2]>>) = s
      BY <3>1, <3>2
    <3>4. QED BY <2>3, <3>1, <3>3
  <2> HIDE DEF archived, kept, members, replaced, rows, to, m, g
  <2>7. QED BY <1>2, <1>4, <2>3, <2>4, <2>5, <2>6
<1>5. QED BY <1>3, <1>4
\* The sets of a partner, by the name of the partner.
LEMMA SetsByName ==
  ASSUME NEW d, Backups!Sound(d), NEW k \in DOMAIN d.companies, NEW r
  PROVE  r \in Of(Backups!SetsOf(d), 1, d.companies[k]) <=>
           \E s \in DOMAIN d.sets : s[1] = k /\ r = <<d.companies[k], s[2], d.sets[s]>>
<1>1. /\ \A s \in DOMAIN d.sets : s[1] \in DOMAIN d.companies
      /\ \A i, j \in DOMAIN d.companies : d.companies[i] = d.companies[j] => i = j
  BY SoundParts, NumberedIs DEF Backups!SoundNames, Backups!SoundPartners
<1>2. r \in Of(Backups!SetsOf(d), 1, d.companies[k]) <=>
        /\ r[1] = d.companies[k]
        /\ \E s \in DOMAIN d.sets : r = <<d.companies[s[1]], s[2], d.sets[s]>>
  BY DEF Of, Backups!SetsOf
<1>3. QED BY <1>1, <1>2

LEMMA SetsMerged ==
  ASSUME NEW d, Backups!Sound(d), NEW a, SoundArchive(a), NEW e, Merges(d, a, e),
         Backups!Sound(e), e.companies = d.companies,
         NEW k \in DOMAIN d.companies
  PROVE  Of(Backups!SetsOf(e), 1, d.companies[k]) =
           IF "sets" \in a.files /\ Of(ArchivedSets(a), 1, d.companies[k]) # {}
           THEN MembersHere(e, Of(ArchivedSets(a), 1, d.companies[k]))
           ELSE Of(Backups!SetsOf(d), 1, d.companies[k])
<1> DEFINE p == d.companies[k]
           found == \E s \in DOMAIN a.tables.sets : a.setPartners[s[1]] = p
<1>1. \A r : r \in Of(ArchivedSets(a), 1, p) <=>
               \E s \in DOMAIN a.tables.sets :
                 a.setPartners[s[1]] = p /\ r = <<p, s[2], a.tables.sets[s]>>
  BY DEF Of, ArchivedSets
<1>2. found <=> Of(ArchivedSets(a), 1, p) # {}
  BY <1>1
<1>3. \A r : r \in Of(Backups!SetsOf(e), 1, p) <=>
               \E s \in DOMAIN e.sets : s[1] = k /\ r = <<p, s[2], e.sets[s]>>
  <2>1. k \in DOMAIN e.companies /\ e.companies[k] = p
    OBVIOUS
  <2>2. QED BY <2>1, SetsByName
<1>4. \A r : r \in Of(Backups!SetsOf(d), 1, p) <=>
               \E s \in DOMAIN d.sets : s[1] = k /\ r = <<p, s[2], d.sets[s]>>
  BY SetsByName
<1>5. /\ "sets" \in a.files /\ found =>
           /\ \A x \in DOMAIN e.sets : x[1] = k =>
                \E s \in DOMAIN a.tables.sets : a.setPartners[s[1]] = p /\ x = <<k, s[2]>>
           /\ \A s \in DOMAIN a.tables.sets : a.setPartners[s[1]] = p =>
                /\ <<k, s[2]>> \in DOMAIN e.sets
                /\ e.sets[<<k, s[2]>>] = a.tables.sets[s] \cap e.regions
      /\ ~("sets" \in a.files /\ found) =>
           \A x : x[1] = k => /\ x \in DOMAIN e.sets <=> x \in DOMAIN d.sets
                              /\ x \in DOMAIN d.sets => e.sets[x] = d.sets[x]
  BY SetsOfPartner
<1> HIDE DEF p, found
<1>6. CASE "sets" \in a.files /\ found
  <2>1. ASSUME NEW r
        PROVE  r \in Of(Backups!SetsOf(e), 1, p) <=>
                 \E s \in DOMAIN a.tables.sets :
                   a.setPartners[s[1]] = p /\ r = <<p, s[2], a.tables.sets[s] \cap e.regions>>
    <3>1. ASSUME NEW x \in DOMAIN e.sets, x[1] = k, r = <<p, x[2], e.sets[x]>>
          PROVE  \E s \in DOMAIN a.tables.sets :
                   a.setPartners[s[1]] = p /\ r = <<p, s[2], a.tables.sets[s] \cap e.regions>>
      <4>1. PICK s \in DOMAIN a.tables.sets : a.setPartners[s[1]] = p /\ x = <<k, s[2]>>
        BY <1>5, <1>6, <3>1
      <4>2. e.sets[x] = a.tables.sets[s] \cap e.regions /\ x[2] = s[2]
        BY <1>5, <1>6, <4>1
      <4>3. QED BY <3>1, <4>1, <4>2
    <3>2. ASSUME NEW s \in DOMAIN a.tables.sets, a.setPartners[s[1]] = p,
                 r = <<p, s[2], a.tables.sets[s] \cap e.regions>>
          PROVE  \E x \in DOMAIN e.sets : x[1] = k /\ r = <<p, x[2], e.sets[x]>>
      <4>1. /\ <<k, s[2]>> \in DOMAIN e.sets
            /\ e.sets[<<k, s[2]>>] = a.tables.sets[s] \cap e.regions
        BY <1>5, <1>6, <3>2
      <4>2. <<k, s[2]>>[1] = k /\ r = <<p, <<k, s[2]>>[2], e.sets[<<k, s[2]>>]>>
        BY <3>2, <4>1
      <4>3. QED BY <4>1, <4>2
    <3>3. QED BY <1>3, <3>1, <3>2
  <2>2. ASSUME NEW r
        PROVE  r \in {<<s[1], s[2], s[3] \cap e.regions>> : s \in Of(ArchivedSets(a), 1, p)} <=>
                 \E s \in DOMAIN a.tables.sets :
                   a.setPartners[s[1]] = p /\ r = <<p, s[2], a.tables.sets[s] \cap e.regions>>
    <3>1. ASSUME NEW s \in DOMAIN a.tables.sets, a.setPartners[s[1]] = p,
                 r = <<p, s[2], a.tables.sets[s] \cap e.regions>>
          PROVE  \E x \in Of(ArchivedSets(a), 1, p) : r = <<x[1], x[2], x[3] \cap e.regions>>
      <4>1. <<p, s[2], a.tables.sets[s]>> \in Of(ArchivedSets(a), 1, p)
        BY <1>1, <3>1
      <4>2. QED BY <3>1, <4>1
    <3>2. ASSUME NEW x \in Of(ArchivedSets(a), 1, p), r = <<x[1], x[2], x[3] \cap e.regions>>
          PROVE  \E s \in DOMAIN a.tables.sets :
                   a.setPartners[s[1]] = p /\ r = <<p, s[2], a.tables.sets[s] \cap e.regions>>
      <4>1. PICK s \in DOMAIN a.tables.sets :
              a.setPartners[s[1]] = p /\ x = <<p, s[2], a.tables.sets[s]>>
        BY <1>1
      <4>2. QED BY <3>2, <4>1
    <3>3. QED BY <3>1, <3>2
  <2>3. Of(Backups!SetsOf(e), 1, p) =
          {<<s[1], s[2], s[3] \cap e.regions>> : s \in Of(ArchivedSets(a), 1, p)}
    BY <2>1, <2>2
  <2>4. QED BY <1>2, <1>6, <2>3 DEF p, MembersHere
<1>7. CASE ~("sets" \in a.files /\ found)
  <2>1. \A r : r \in Of(Backups!SetsOf(e), 1, p) <=> r \in Of(Backups!SetsOf(d), 1, p)
    BY <1>3, <1>4, <1>5, <1>7
  <2>2. Of(Backups!SetsOf(e), 1, p) = Of(Backups!SetsOf(d), 1, p)
    BY <2>1 DEF Of
  <2>3. QED BY <1>2, <1>7, <2>2 DEF p
<1>8. QED BY <1>6, <1>7
\* So do its terms, of the programs that are here, each with the set of the name
\* it had, if the partner still has it.
LEMMA TermsOfPartner ==
  ASSUME NEW d, Backups!Sound(d), NEW a, SoundArchive(a), NEW e, Merges(d, a, e),
         NEW k \in DOMAIN d.companies
  PROVE  LET carried == "terms" \in a.files
                        /\ \E t \in DOMAIN a.tables.terms : a.termPartners[t[2]] = d.companies[k]
         IN  /\ carried =>
                /\ \A x \in DOMAIN e.terms : x[2] = k =>
                     \E t \in DOMAIN a.tables.terms :
                       /\ a.termPartners[t[2]] = d.companies[k] /\ t[1] \in e.programs
                       /\ x = <<t[1], k>>
                /\ \A t \in DOMAIN a.tables.terms :
                     a.termPartners[t[2]] = d.companies[k] /\ t[1] \in e.programs =>
                       /\ <<t[1], k>> \in DOMAIN e.terms
                       /\ e.terms[<<t[1], k>>] = Backups!Linked(e, k, a.tables.terms[t])
             /\ ~carried =>
                \A x : x[2] = k =>
                  /\ x \in DOMAIN e.terms <=> x \in DOMAIN d.terms /\ x[1] \in e.programs
                  /\ x \in DOMAIN e.terms => e.terms[x] = Backups!Linked(e, k, d.terms[x])
<1> DEFINE q == Referenced(d, a)
           live == d.terms
           rows == IF "terms" \in a.files
                   THEN {t \in DOMAIN a.tables.terms : Backups!TermCompany(q, <<>>, a, t) # None}
                   ELSE {}
           to(t) == <<t[1], Backups!TermCompany(q, <<>>, a, t)>>
           replaced == {to(t)[2] : t \in rows}
           archived == {to(t) : t \in {t \in rows : t[1] \in q.programs}}
           kept == {t \in DOMAIN live :
                      /\ ~("terms" \in a.files) \/ (~FALSE /\ t[2] \notin replaced)
                      /\ t[1] \in q.programs /\ t[2] \in DOMAIN q.companies}
           set(x) == IF x \in archived
                     THEN a.tables.terms[CHOOSE t \in rows : to(t) = x] ELSE live[x]
           found == \E t \in DOMAIN a.tables.terms : a.termPartners[t[2]] = d.companies[k]
<1>1. Steps(d, a, e)
  BY MergeSteps
<1>2. /\ e.sets = q.sets /\ e.programs = q.programs /\ "terms" \in DOMAIN q
      /\ q.companies = d.companies
      /\ e = Backups!WithTerms(q, <<>>, a, live, FALSE)
  BY <1>1 DEF Steps, Backups!Tables
<1>3. e = [q EXCEPT !.terms = [x \in archived \cup kept |-> Backups!Linked(q, x[2], set(x))]]
  BY <1>2, Zenon DEF Backups!WithTerms
<1>4. ASSUME NEW t \in DOMAIN a.tables.terms
      PROVE  /\ Backups!TermCompany(q, <<>>, a, t) = k
                  <=> a.termPartners[t[2]] = d.companies[k]
             /\ "terms" \in a.files /\ Backups!TermCompany(q, <<>>, a, t) = k => t \in rows
  <2>1. Backups!Numbered(q.companies) /\ k \in DOMAIN q.companies
    BY <1>2, SoundParts DEF Backups!SoundNames
  <2>2. k # None
    BY <2>1, NumberedIs, ParamAssumption DEF Backups!Parameters
  <2>3. Backups!RowCompany(q, <<>>, t[2], a.termPartners[t[2]]) = k
          <=> q.companies[k] = a.termPartners[t[2]]
    <3> HIDE DEF q
    <3>1. Backups!Numbered(q.companies)
      BY <2>1
    <3>2. \A c, name, i : i \in DOMAIN q.companies =>
            (Backups!RowCompany(q, <<>>, c, name) = i <=> q.companies[i] = name)
      BY <3>1, PartnerFound
    <3>3. QED BY <2>1, <3>2
  <2>4. Backups!TermCompany(q, <<>>, a, t) = k <=> d.companies[k] = a.termPartners[t[2]]
    BY <1>2, <2>3 DEF Backups!TermCompany
  <2>5. QED BY <2>2, <2>4
<1>5. k \in replaced <=> "terms" \in a.files /\ found
  <2>1. \A t \in rows : to(t)[2] = Backups!TermCompany(q, <<>>, a, t)
    OBVIOUS
  <2>2. QED BY <1>4, <2>1
<1>6. \A x : x[2] = k =>
        /\ x \in archived =>
             \E t \in DOMAIN a.tables.terms :
               /\ a.termPartners[t[2]] = d.companies[k] /\ t[1] \in e.programs
               /\ x = <<t[1], k>> /\ "terms" \in a.files
        /\ x \in kept <=> /\ x \in DOMAIN d.terms /\ x[1] \in e.programs
                          /\ ~("terms" \in a.files /\ found)
  <2>1. ASSUME NEW x, x[2] = k, x \in archived
        PROVE  \E t \in DOMAIN a.tables.terms :
                 /\ a.termPartners[t[2]] = d.companies[k] /\ t[1] \in e.programs
                 /\ x = <<t[1], k>> /\ "terms" \in a.files
    <3>1. PICK t \in rows : x = to(t) /\ t[1] \in q.programs
      BY <2>1
    <3>2. t \in DOMAIN a.tables.terms /\ "terms" \in a.files
      OBVIOUS
    <3>3. Backups!TermCompany(q, <<>>, a, t) = k
      BY <2>1, <3>1
    <3>4. QED BY <1>2, <1>4, <3>1, <3>2, <3>3
  <2>2. ASSUME NEW x, x[2] = k
        PROVE  x \in kept <=> /\ x \in DOMAIN d.terms /\ x[1] \in e.programs
                              /\ ~("terms" \in a.files /\ found)
    <3> HIDE DEF replaced, found
    <3>1. QED BY <1>2, <1>5, <2>2
  <2>3. QED BY <2>1, <2>2
<1>7. ASSUME NEW t \in DOMAIN a.tables.terms, a.termPartners[t[2]] = d.companies[k],
             t[1] \in e.programs, "terms" \in a.files
      PROVE  <<t[1], k>> \in archived /\ set(<<t[1], k>>) = a.tables.terms[t]
  <2>1. t \in rows /\ to(t) = <<t[1], k>>
    BY <1>4, <1>7
  <2>2. ASSUME NEW x \in rows, to(x) = <<t[1], k>> PROVE x = t
    <3>1. x \in DOMAIN a.tables.terms
      OBVIOUS
    <3>2. a.termPartners[x[2]] = a.termPartners[t[2]] /\ x[1] = t[1]
      BY <1>4, <1>7, <2>2, <3>1
    <3>3. x[2] \in DOMAIN a.termPartners /\ t[2] \in DOMAIN a.termPartners
      BY <3>1 DEF SoundArchive
    <3>4. x[2] = t[2]
      BY <3>2, <3>3, NumberedIs DEF SoundArchive
    <3>5. QED BY <3>1, <3>2, <3>4 DEF SoundArchive, Backups!Paired
  <2>3. (CHOOSE x \in rows : to(x) = <<t[1], k>>) = t
    BY <2>1, <2>2
  <2>4. to(t) \in archived
    BY <1>2, <1>7, <2>1
  <2>5. QED BY <2>1, <2>3, <2>4
<1>8. \A x : x \notin archived => set(x) = d.terms[x]
  OBVIOUS
<1> HIDE DEF archived, kept, set, rows, to, replaced, q
<1>9. /\ DOMAIN e.terms = archived \cup kept
      /\ \A x \in DOMAIN e.terms : e.terms[x] = Backups!Linked(e, x[2], set(x))
  <2>1. e.terms = [x \in archived \cup kept |-> Backups!Linked(q, x[2], set(x))]
    BY <1>2, <1>3
  <2>2. \A c, s : Backups!Linked(q, c, s) = Backups!Linked(e, c, s)
    BY <1>2 DEF Backups!Linked
  <2>3. QED BY <2>1, <2>2
<1>10. CASE "terms" \in a.files /\ found
  <2>1. \A x \in DOMAIN e.terms : x[2] = k =>
          \E t \in DOMAIN a.tables.terms :
            /\ a.termPartners[t[2]] = d.companies[k] /\ t[1] \in e.programs
            /\ x = <<t[1], k>>
    BY <1>6, <1>9, <1>10
  <2>2. ASSUME NEW t \in DOMAIN a.tables.terms, a.termPartners[t[2]] = d.companies[k],
               t[1] \in e.programs
        PROVE  /\ <<t[1], k>> \in DOMAIN e.terms
               /\ e.terms[<<t[1], k>>] = Backups!Linked(e, k, a.tables.terms[t])
    <3>1. <<t[1], k>>[2] = k
      OBVIOUS
    <3>2. QED BY <1>7, <1>9, <1>10, <2>2, <3>1
  <2>3. QED BY <1>10, <2>1, <2>2
<1>11. CASE ~("terms" \in a.files /\ found)
  <2>1. ASSUME NEW x, x[2] = k
        PROVE  /\ x \in DOMAIN e.terms <=> x \in DOMAIN d.terms /\ x[1] \in e.programs
               /\ x \in DOMAIN e.terms => e.terms[x] = Backups!Linked(e, k, d.terms[x])
    <3>1. x \notin archived
      BY <1>6, <1>11, <2>1
    <3>2. QED BY <1>6, <1>8, <1>9, <1>11, <2>1, <3>1
  <2>2. QED BY <1>11, <2>1
<1>12. QED BY <1>10, <1>11
LEMMA TermsByName ==
  ASSUME NEW d, Backups!Sound(d), NEW k \in DOMAIN d.companies, NEW r
  PROVE  r \in Of(Backups!TermsOf(d), 2, d.companies[k]) <=>
           \E t \in DOMAIN d.terms : t[2] = k /\ r = <<t[1], d.companies[k], d.terms[t]>>
<1>1. /\ \A t \in DOMAIN d.terms : t[2] \in DOMAIN d.companies
      /\ \A i, j \in DOMAIN d.companies : d.companies[i] = d.companies[j] => i = j
  BY SoundParts, NumberedIs DEF Backups!SoundNames, Backups!SoundPartners
<1>2. r \in Of(Backups!TermsOf(d), 2, d.companies[k]) <=>
        /\ r[2] = d.companies[k]
        /\ \E t \in DOMAIN d.terms : r = <<t[1], d.companies[t[2]], d.terms[t]>>
  BY DEF Of, Backups!TermsOf
<1>3. QED BY <1>1, <1>2

\* A link to a set is to the set of that name of that partner.
LEMMA LinkedByName ==
  ASSUME NEW e, Backups!Sound(e), NEW k \in DOMAIN e.companies, NEW set
  PROVE  Backups!Linked(e, k, set) =
           IF \E s \in Backups!SetsOf(e) : s[1] = e.companies[k] /\ s[2] = set
           THEN set ELSE None
<1>1. /\ \A s \in DOMAIN e.sets : s = <<s[1], s[2]>> /\ s[1] \in DOMAIN e.companies
      /\ \A i, j \in DOMAIN e.companies : e.companies[i] = e.companies[j] => i = j
  BY SoundParts, NumberedIs
  DEF Backups!SoundNames, Backups!SoundPartners, Backups!Paired
<1>2. ASSUME NEW s \in Backups!SetsOf(e), s[1] = e.companies[k], s[2] = set
      PROVE  <<k, set>> \in DOMAIN e.sets
  <2>1. PICK x \in DOMAIN e.sets : s = <<e.companies[x[1]], x[2], e.sets[x]>>
    BY DEF Backups!SetsOf
  <2>2. e.companies[x[1]] = e.companies[k] /\ x[2] = set
    BY <1>2, <2>1
  <2>3. QED BY <1>1, <2>2
<1>3. ASSUME <<k, set>> \in DOMAIN e.sets
      PROVE  \E s \in Backups!SetsOf(e) : s[1] = e.companies[k] /\ s[2] = set
  <2>1. <<e.companies[<<k, set>>[1]], <<k, set>>[2], e.sets[<<k, set>>]>> \in Backups!SetsOf(e)
    BY <1>3 DEF Backups!SetsOf
  <2>2. QED BY <2>1
<1>4. QED BY <1>2, <1>3 DEF Backups!Linked

\* Rows of terms of one partner, linked.
LEMMA LinkedOfPartner ==
  ASSUME NEW e, Backups!Sound(e), NEW k \in DOMAIN e.companies, NEW rows,
         \A t \in rows : t[2] = e.companies[k], NEW r
  PROVE  r \in LinkedRows(e, rows) <=>
           \E t \in rows : /\ t[1] \in e.programs
                           /\ r = <<t[1], e.companies[k], Backups!Linked(e, k, t[3])>>
<1>1. r \in LinkedRows(e, rows) <=>
        \E t \in rows :
          /\ t[1] \in e.programs
          /\ r = <<t[1], t[2], IF \E s \in Backups!SetsOf(e) : s[1] = t[2] /\ s[2] = t[3]
                               THEN t[3] ELSE None>>
  BY DEF LinkedRows
<1>2. \A t \in rows :
        Backups!Linked(e, k, t[3]) =
          IF \E s \in Backups!SetsOf(e) : s[1] = t[2] /\ s[2] = t[3] THEN t[3] ELSE None
  <2>1. ASSUME NEW t \in rows
        PROVE  Backups!Linked(e, k, t[3]) =
                 IF \E s \in Backups!SetsOf(e) : s[1] = t[2] /\ s[2] = t[3] THEN t[3] ELSE None
    <3>1. Backups!Linked(e, k, t[3]) =
            IF \E s \in Backups!SetsOf(e) : s[1] = e.companies[k] /\ s[2] = t[3]
            THEN t[3] ELSE None
      BY LinkedByName
    <3>2. t[2] = e.companies[k]
      OBVIOUS
    <3>3. QED BY <3>1, <3>2
  <2>2. QED BY <2>1
<1>3. QED BY <1>1, <1>2

LEMMA TermsMerged ==
  ASSUME NEW d, Backups!Sound(d), NEW a, SoundArchive(a), NEW e, Merges(d, a, e),
         Backups!Sound(e), e.companies = d.companies,
         NEW k \in DOMAIN d.companies
  PROVE  Of(Backups!TermsOf(e), 2, d.companies[k]) =
           LinkedRows(e, Of(IF /\ "terms" \in a.files
                               /\ Of(ArchivedTerms(a), 2, d.companies[k]) # {}
                            THEN ArchivedTerms(a) ELSE Backups!TermsOf(d), 2, d.companies[k]))
<1> DEFINE p == d.companies[k]
           found == \E t \in DOMAIN a.tables.terms : a.termPartners[t[2]] = p
<1>1. \A r : r \in Of(ArchivedTerms(a), 2, p) <=>
               \E t \in DOMAIN a.tables.terms :
                 a.termPartners[t[2]] = p /\ r = <<t[1], p, a.tables.terms[t]>>
  BY DEF Of, ArchivedTerms
<1>2. found <=> Of(ArchivedTerms(a), 2, p) # {}
  BY <1>1
<1>3. \A r : r \in Of(Backups!TermsOf(e), 2, p) <=>
               \E t \in DOMAIN e.terms : t[2] = k /\ r = <<t[1], p, e.terms[t]>>
  <2>1. k \in DOMAIN e.companies /\ e.companies[k] = p
    OBVIOUS
  <2>2. QED BY <2>1, TermsByName
<1>4. \A r : r \in Of(Backups!TermsOf(d), 2, p) <=>
               \E t \in DOMAIN d.terms : t[2] = k /\ r = <<t[1], p, d.terms[t]>>
  BY TermsByName
<1>5. /\ "terms" \in a.files /\ found =>
           /\ \A x \in DOMAIN e.terms : x[2] = k =>
                \E t \in DOMAIN a.tables.terms :
                  a.termPartners[t[2]] = p /\ t[1] \in e.programs /\ x = <<t[1], k>>
           /\ \A t \in DOMAIN a.tables.terms :
                a.termPartners[t[2]] = p /\ t[1] \in e.programs =>
                  /\ <<t[1], k>> \in DOMAIN e.terms
                  /\ e.terms[<<t[1], k>>] = Backups!Linked(e, k, a.tables.terms[t])
      /\ ~("terms" \in a.files /\ found) =>
           \A x : x[2] = k =>
             /\ x \in DOMAIN e.terms <=> x \in DOMAIN d.terms /\ x[1] \in e.programs
             /\ x \in DOMAIN e.terms => e.terms[x] = Backups!Linked(e, k, d.terms[x])
  BY TermsOfPartner
<1>6. k \in DOMAIN e.companies /\ e.companies[k] = p
  OBVIOUS
<1> HIDE DEF p, found
<1>7. CASE "terms" \in a.files /\ found
  <2>1. ASSUME NEW r
        PROVE  r \in Of(Backups!TermsOf(e), 2, p) <=>
                 \E t \in DOMAIN a.tables.terms :
                   /\ a.termPartners[t[2]] = p /\ t[1] \in e.programs
                   /\ r = <<t[1], p, Backups!Linked(e, k, a.tables.terms[t])>>
    <3>1. ASSUME NEW x \in DOMAIN e.terms, x[2] = k, r = <<x[1], p, e.terms[x]>>
          PROVE  \E t \in DOMAIN a.tables.terms :
                   /\ a.termPartners[t[2]] = p /\ t[1] \in e.programs
                   /\ r = <<t[1], p, Backups!Linked(e, k, a.tables.terms[t])>>
      <4>1. PICK t \in DOMAIN a.tables.terms :
              a.termPartners[t[2]] = p /\ t[1] \in e.programs /\ x = <<t[1], k>>
        BY <1>5, <1>7, <3>1
      <4>2. e.terms[x] = Backups!Linked(e, k, a.tables.terms[t]) /\ x[1] = t[1]
        BY <1>5, <1>7, <4>1
      <4>3. QED BY <3>1, <4>1, <4>2
    <3>2. ASSUME NEW t \in DOMAIN a.tables.terms, a.termPartners[t[2]] = p,
                 t[1] \in e.programs,
                 r = <<t[1], p, Backups!Linked(e, k, a.tables.terms[t])>>
          PROVE  \E x \in DOMAIN e.terms : x[2] = k /\ r = <<x[1], p, e.terms[x]>>
      <4>1. /\ <<t[1], k>> \in DOMAIN e.terms
            /\ e.terms[<<t[1], k>>] = Backups!Linked(e, k, a.tables.terms[t])
        BY <1>5, <1>7, <3>2
      <4>2. <<t[1], k>>[2] = k /\ r = <<<<t[1], k>>[1], p, e.terms[<<t[1], k>>]>>
        BY <3>2, <4>1
      <4>3. QED BY <4>1, <4>2
    <3>3. QED BY <1>3, <3>1, <3>2
  <2>2. ASSUME NEW r
        PROVE  r \in LinkedRows(e, Of(ArchivedTerms(a), 2, p)) <=>
                 \E t \in DOMAIN a.tables.terms :
                   /\ a.termPartners[t[2]] = p /\ t[1] \in e.programs
                   /\ r = <<t[1], p, Backups!Linked(e, k, a.tables.terms[t])>>
    <3>1. r \in LinkedRows(e, Of(ArchivedTerms(a), 2, p)) <=>
            \E t \in Of(ArchivedTerms(a), 2, p) :
              t[1] \in e.programs /\ r = <<t[1], p, Backups!Linked(e, k, t[3])>>
      <4>1. \A t \in Of(ArchivedTerms(a), 2, p) : t[2] = e.companies[k]
        BY <1>6 DEF Of
      <4>2. QED BY <1>6, <4>1, LinkedOfPartner
    <3>2. ASSUME NEW x \in Of(ArchivedTerms(a), 2, p), x[1] \in e.programs,
                 r = <<x[1], p, Backups!Linked(e, k, x[3])>>
          PROVE  \E t \in DOMAIN a.tables.terms :
                   /\ a.termPartners[t[2]] = p /\ t[1] \in e.programs
                   /\ r = <<t[1], p, Backups!Linked(e, k, a.tables.terms[t])>>
      <4>1. PICK t \in DOMAIN a.tables.terms :
              a.termPartners[t[2]] = p /\ x = <<t[1], p, a.tables.terms[t]>>
        BY <1>1
      <4>2. QED BY <3>2, <4>1
    <3>3. ASSUME NEW t \in DOMAIN a.tables.terms, a.termPartners[t[2]] = p,
                 t[1] \in e.programs,
                 r = <<t[1], p, Backups!Linked(e, k, a.tables.terms[t])>>
          PROVE  \E x \in Of(ArchivedTerms(a), 2, p) :
                   x[1] \in e.programs /\ r = <<x[1], p, Backups!Linked(e, k, x[3])>>
      <4>1. <<t[1], p, a.tables.terms[t]>> \in Of(ArchivedTerms(a), 2, p)
        BY <1>1, <3>3
      <4>2. QED BY <3>3, <4>1
    <3>4. QED BY <3>1, <3>2, <3>3
  <2>3. Of(Backups!TermsOf(e), 2, p) = LinkedRows(e, Of(ArchivedTerms(a), 2, p))
    BY <2>1, <2>2
  <2>4. QED BY <1>2, <1>7, <2>3 DEF p
<1>8. CASE ~("terms" \in a.files /\ found)
  <2>1. ASSUME NEW r
        PROVE  r \in Of(Backups!TermsOf(e), 2, p) <=>
                 \E t \in DOMAIN d.terms :
                   /\ t[2] = k /\ t[1] \in e.programs
                   /\ r = <<t[1], p, Backups!Linked(e, k, d.terms[t])>>
    BY <1>3, <1>5, <1>8
  <2>2. ASSUME NEW r
        PROVE  r \in LinkedRows(e, Of(Backups!TermsOf(d), 2, p)) <=>
                 \E t \in DOMAIN d.terms :
                   /\ t[2] = k /\ t[1] \in e.programs
                   /\ r = <<t[1], p, Backups!Linked(e, k, d.terms[t])>>
    <3>1. r \in LinkedRows(e, Of(Backups!TermsOf(d), 2, p)) <=>
            \E t \in Of(Backups!TermsOf(d), 2, p) :
              t[1] \in e.programs /\ r = <<t[1], p, Backups!Linked(e, k, t[3])>>
      <4>1. \A t \in Of(Backups!TermsOf(d), 2, p) : t[2] = e.companies[k]
        BY <1>6 DEF Of
      <4>2. QED BY <1>6, <4>1, LinkedOfPartner
    <3>2. ASSUME NEW x \in Of(Backups!TermsOf(d), 2, p), x[1] \in e.programs,
                 r = <<x[1], p, Backups!Linked(e, k, x[3])>>
          PROVE  \E t \in DOMAIN d.terms :
                   /\ t[2] = k /\ t[1] \in e.programs
                   /\ r = <<t[1], p, Backups!Linked(e, k, d.terms[t])>>
      <4>1. PICK t \in DOMAIN d.terms : t[2] = k /\ x = <<t[1], p, d.terms[t]>>
        BY <1>4
      <4>2. QED BY <3>2, <4>1
    <3>3. ASSUME NEW t \in DOMAIN d.terms, t[2] = k, t[1] \in e.programs,
                 r = <<t[1], p, Backups!Linked(e, k, d.terms[t])>>
          PROVE  \E x \in Of(Backups!TermsOf(d), 2, p) :
                   x[1] \in e.programs /\ r = <<x[1], p, Backups!Linked(e, k, x[3])>>
      <4>1. <<t[1], p, d.terms[t]>> \in Of(Backups!TermsOf(d), 2, p)
        BY <1>4, <3>3
      <4>2. QED BY <3>3, <4>1
    <3>4. QED BY <3>1, <3>2, <3>3
  <2>3. Of(Backups!TermsOf(e), 2, p) = LinkedRows(e, Of(Backups!TermsOf(d), 2, p))
    BY <2>1, <2>2
  <2>4. QED BY <1>2, <1>8, <2>3 DEF p
<1>9. QED BY <1>7, <1>8
(***************************************************************************)
(* RowsSound: Restore!TypeOK.  Whatever is edited, backed up, moved and    *)
(* restored, for any installs the schema admits, and archives of any       *)
(* version read at any two moments, the rows of the database refer to rows *)
(* that exist and what is read by name has one name and one row: no        *)
(* restore leaves a term, a set, an offering or an access behind whose     *)
(* company, program or set is gone.                                        *)
(***************************************************************************)
THEOREM RowsSound == MCSpec => [](part = "restore" => Backups!TypeOK)
<1>1. RestoreInv /\ RowsInv => (part = "restore" => Backups!TypeOK)
  BY DEF RowsInv, Backups!TypeOK
<1>2. QED BY <1>1, RestoreInductive, PTL

\* The properties of a restore of the configuration, from its two databases.
LEMMA MergedByPartner ==
  ASSUME RowsInv, last.kind = "config", last.outcome = "ok", edits = last.edits
  PROVE  Backups!ConfigMergesByPartner
<1> DEFINE d == last.before
           a == last.archive
           e == install
<1>1. Backups!Sound(d) /\ SoundArchive(a) /\ Merges(d, a, e) /\ Backups!Sound(e)
  BY DEF RowsInv, LastMerge
<1> HIDE DEF d, a, e
<1>2. Steps(d, a, e)
  BY <1>1, MergeSteps
<1>3. /\ \A t \in Backups!Tables \ Backups!InConfig : e[t] = d[t]
      /\ e.companies = d.companies
  BY <1>2 DEF Steps
<1>4. /\ Backups!TrainingsOf(a.tables) \subseteq Backups!TrainingsOf(e)
      /\ e.nextType \notin DOMAIN e.types
  BY <1>1, TrainingsMerged
<1>5. ASSUME NEW p \in {e.companies[c] : c \in DOMAIN e.companies}
      PROVE  /\ Of(Backups!SetsOf(e), 1, p) =
                  IF "sets" \in a.files /\ Of(ArchivedSets(a), 1, p) # {}
                  THEN MembersHere(e, Of(ArchivedSets(a), 1, p))
                  ELSE Of(Backups!SetsOf(d), 1, p)
             /\ Of(Backups!TermsOf(e), 2, p) =
                  LinkedRows(e, Of(IF "terms" \in a.files /\ Of(ArchivedTerms(a), 2, p) # {}
                                   THEN ArchivedTerms(a) ELSE Backups!TermsOf(d), 2, p))
  <2>1. PICK k \in DOMAIN d.companies : p = d.companies[k]
    BY <1>3
  <2>2. Of(Backups!SetsOf(e), 1, d.companies[k]) =
          IF "sets" \in a.files /\ Of(ArchivedSets(a), 1, d.companies[k]) # {}
          THEN MembersHere(e, Of(ArchivedSets(a), 1, d.companies[k]))
          ELSE Of(Backups!SetsOf(d), 1, d.companies[k])
    BY <1>1, <1>3, SetsMerged
  <2>3. Of(Backups!TermsOf(e), 2, d.companies[k]) =
          LinkedRows(e, Of(IF /\ "terms" \in a.files
                              /\ Of(ArchivedTerms(a), 2, d.companies[k]) # {}
                           THEN ArchivedTerms(a) ELSE Backups!TermsOf(d), 2, d.companies[k]))
    BY <1>1, <1>3, TermsMerged
  <2>4. QED BY <2>1, <2>2, <2>3
<1>6. QED
  BY <1>3, <1>4, <1>5
  DEF Backups!ConfigMergesByPartner, Of, ArchivedSets, ArchivedTerms, MembersHere, LinkedRows,
      d, a, e

(***************************************************************************)
(* ConfigMerges: ConfigMergesByPartner.  For any installs, archives,       *)
(* companies and edits, a restore of the configuration that went through   *)
(* leaves learners, completions, accounts and companies alone, gives each  *)
(* partner the archive names the sets and the terms archived under its     *)
(* name and leaves the other partners theirs, and the sequence of the      *)
(* product types is past every id.                                         *)
(***************************************************************************)
THEOREM ConfigMerges == MCSpec => []ConfigMergesByPartner
<1>1. RestoreInv /\ RowsInv => ConfigMergesByPartner
  <2>1. ~(last.kind = "config" /\ last.outcome = "ok" /\ edits = last.edits) =>
          Backups!ConfigMergesByPartner
    BY DEF Backups!ConfigMergesByPartner
  <2>2. QED BY <2>1, MergedByPartner DEF ConfigMergesByPartner
<1>2. QED BY <1>1, RestoreInductive, PTL
-----------------------------------------------------------------------------
(* What a full restore makes of a database.                                *)

\* What becomes of each table.
Fields(d, a, e) ==
  /\ \A x \in {Emptied(d, a), Regrouped(d, a), Programmed(d, a), Agreed(d, a), Peopled(d, a), e} :
       Backups!Tables \subseteq DOMAIN x /\ x.companies = Joined(d, a).companies
  /\ e.types = a.tables.types /\ e.regions = a.tables.regions /\ e.training = a.tables.training
  /\ e.learners = Peopled(d, a).learners /\ e.taken = a.tables.taken
  /\ Emptied(d, a).sets = d.sets /\ Emptied(d, a).regions = a.tables.regions
  /\ e.sets = Regrouped(d, a).sets /\ Programmed(d, a).sets = Regrouped(d, a).sets
  /\ e.terms = Agreed(d, a).terms /\ e.programs = Programmed(d, a).programs
  /\ e.requirements = Programmed(d, a).requirements /\ e.olx = Programmed(d, a).olx
  /\ e.offerings = Programmed(d, a).offerings
  /\ "reference" \notin a.files =>
       /\ e.programs = d.programs /\ e.requirements = {} /\ e.olx = {}
       /\ \A o \in DOMAIN e.offerings : e.offerings[o] = {}
  /\ ~Backups!ReplacesUsers(a) => e.users = d.users /\ e.links = d.links

LEMMA FullFields ==
  ASSUME NEW d, NEW a, NEW e, Staged(d, a, e)
  PROVE  Fields(d, a, e)
<1> DEFINE j == Joined(d, a)
           m == Emptied(d, a)
           g == Regrouped(d, a)
           r == Programmed(d, a)
           t == Agreed(d, a)
           p == Peopled(d, a)
<1>1. /\ Backups!Tables \subseteq DOMAIN d
      /\ Only(d, j, {"companies", "nextCompany"})
      /\ Only(j, m, {"types", "regions", "training", "olx", "requirements", "offerings"})
      /\ Only(m, g, {"sets"})
      /\ Only(g, r, {"programs", "requirements", "olx", "offerings"})
      /\ Only(r, t, {"terms"}) /\ Only(t, p, {"learners", "taken"})
      /\ Only(p, e, {"users", "nextUser", "links"})
      /\ e = IF Backups!ReplacesUsers(a)
             THEN Backups!WithUsers(p, Backups!CompanyIds(d, a), a) ELSE p
  BY DEF Staged
<1>2. /\ m = Backups!WithCatalogue(j, a) /\ p = Backups!WithLearners(t, Backups!CompanyIds(d, a), a)
      /\ "reference" \notin a.files => r = g
  BY DEF Emptied, Peopled, Programmed
<1> HIDE DEF j, m, g, r, t, p
<1>3. \A x \in {j, m, g, r, t, p, e} : DOMAIN x = DOMAIN d
  BY <1>1 DEF Only
<1>4. \A x \in {m, g, r, t, p, e} : x.companies = j.companies
  BY <1>1, <1>3 DEF Only, Backups!Tables
<1>5. /\ m.types = a.tables.types /\ m.regions = a.tables.regions
      /\ m.training = a.tables.training /\ m.olx = {} /\ m.requirements = {}
      /\ \A o \in DOMAIN m.offerings : m.offerings[o] = {}
  BY <1>1, <1>2, <1>3 DEF Backups!WithCatalogue, Backups!Tables
<1>6. p.taken = a.tables.taken
  BY <1>1, <1>2, <1>3 DEF Backups!WithLearners, Backups!Tables
<1>7. /\ e.types = m.types /\ e.regions = m.regions /\ e.training = m.training
      /\ e.learners = p.learners /\ e.taken = p.taken /\ m.sets = d.sets
      /\ e.sets = g.sets /\ r.sets = g.sets /\ e.terms = t.terms /\ e.programs = r.programs
      /\ e.requirements = r.requirements /\ e.olx = r.olx /\ e.offerings = r.offerings
      /\ g.programs = d.programs /\ g.requirements = m.requirements /\ g.olx = m.olx
      /\ g.offerings = m.offerings /\ p.users = d.users /\ p.links = d.links
  BY <1>1, <1>3 DEF Only, Backups!Tables
<1>8. QED
  BY <1>1, <1>2, <1>3, <1>4, <1>5, <1>6, <1>7 DEF Fields, j, m, g, r, t, p

\* A map from the companies of one database to those of the same names of another.
Renumbered(from, to, ids) ==
  /\ DOMAIN ids = DOMAIN from
  /\ \A c \in DOMAIN ids : ids[c] \in DOMAIN to /\ to[ids[c]] = from[c] /\ ids[c] # None
  /\ \A c, x \in DOMAIN ids : ids[c] = ids[x] => c = x

\* With its companies in the archive, a full restore renumbers all of them.
LEMMA CompaniesRenumbered ==
  ASSUME NEW d, NEW a, SoundArchive(a), NEW e, Staged(d, a, e), "companies" \in a.files,
         Backups!SoundNames(e)
  PROVE  Renumbered(a.tables.companies, e.companies, Backups!CompanyIds(d, a))
<1> DEFINE ids == Backups!CompanyIds(d, a)
<1>1. DOMAIN ids = DOMAIN a.tables.companies
  BY DEF Backups!CompanyIds
<1>2. e.companies = Joined(d, a).companies
  BY FullFields DEF Fields
<1>3. \A c \in DOMAIN ids :
        ids[c] \in DOMAIN e.companies /\ e.companies[ids[c]] = a.tables.companies[c]
  BY <1>2 DEF Staged
<1>4. \A c \in DOMAIN e.companies : c # None
  BY NumberedIs, ParamAssumption DEF Backups!Parameters, Backups!SoundNames
<1>5. \A c, x \in DOMAIN a.tables.companies :
        a.tables.companies[c] = a.tables.companies[x] => c = x
  BY NumberedIs DEF SoundArchive
<1> HIDE DEF ids
<1>6. \A c, x \in DOMAIN ids : ids[c] = ids[x] => c = x
  BY <1>1, <1>3, <1>5
<1>7. QED BY <1>1, <1>3, <1>4, <1>6 DEF Renumbered, ids

\* Rows of which the first column is a company, under those of another database.
Rekeyed(old, new, ids) ==
  /\ \A o \in DOMAIN old : <<ids[o[1]], o[2]>> \in DOMAIN new
                           /\ new[<<ids[o[1]], o[2]>>] = old[o]
  /\ \A x \in DOMAIN new : \E o \in DOMAIN old : x = <<ids[o[1]], o[2]>>

ByName(names, rows) == {<<names[o[1]], o[2], rows[o]>> : o \in DOMAIN rows}

\* By name, they are the same rows.
LEMMA SameByName ==
  ASSUME NEW from, NEW to, NEW ids, Renumbered(from, to, ids),
         NEW old, NEW new, Rekeyed(old, new, ids), \A o \in DOMAIN old : o[1] \in DOMAIN from
  PROVE  ByName(to, new) = ByName(from, old)
<1>1. ASSUME NEW o \in DOMAIN old
      PROVE  /\ <<ids[o[1]], o[2]>> \in DOMAIN new
             /\ new[<<ids[o[1]], o[2]>>] = old[o] /\ to[ids[o[1]]] = from[o[1]]
  BY DEF Renumbered, Rekeyed
<1>2. ASSUME NEW o \in DOMAIN old
      PROVE  <<from[o[1]], o[2], old[o]>> \in ByName(to, new)
  <2> DEFINE x == <<ids[o[1]], o[2]>>
  <2>1. x \in DOMAIN new /\ new[x] = old[o] /\ to[x[1]] = from[o[1]] /\ x[2] = o[2]
    BY <1>1
  <2> HIDE DEF x
  <2>2. <<to[x[1]], x[2], new[x]>> \in ByName(to, new)
    BY <2>1 DEF ByName
  <2>3. QED BY <2>1, <2>2
<1>3. ASSUME NEW x \in DOMAIN new
      PROVE  <<to[x[1]], x[2], new[x]>> \in ByName(from, old)
  <2>1. PICK o \in DOMAIN old : x = <<ids[o[1]], o[2]>>
    BY DEF Rekeyed
  <2>2. new[x] = old[o] /\ to[x[1]] = from[o[1]] /\ x[2] = o[2]
    BY <1>1, <2>1
  <2>3. <<from[o[1]], o[2], old[o]>> \in ByName(from, old)
    BY DEF ByName
  <2>4. QED BY <2>2, <2>3
<1>4. QED BY <1>2, <1>3 DEF ByName

\* What an archive holds, when it was read at one moment: all its keys fit.
Whole(a) ==
  /\ Backups!SoundPartners(a.tables) /\ Backups!Fits(a.tables)
  /\ a.setPartners = a.tables.companies /\ a.termPartners = a.tables.companies

\* Archives that have terms have what these name.
OfAVersion(a) ==
  a.kind = "full" /\ "terms" \in a.files => {"reference", "sets"} \subseteq a.files

\* A full restore that fails.
Unfit(d, a) ==
  \/ ~Backups!Fits(Backups!FullyRestored(d, a))
  \/ /\ "reference" \in a.files
     /\ Backups!OfferingsClash(Joined(d, a), Backups!CompanyIds(d, a), a)

\* The sets of the archive come back, whole, and no others.
LEMMA SetsRekeyed ==
  ASSUME NEW d, NEW a, Whole(a), NEW e, Staged(d, a, e), "sets" \in a.files,
         Renumbered(a.tables.companies, e.companies, Backups!CompanyIds(d, a))
  PROVE  Rekeyed(a.tables.sets, e.sets, Backups!CompanyIds(d, a))
<1> DEFINE ids == Backups!CompanyIds(d, a)
           m == Emptied(d, a)
           rows == {s \in DOMAIN a.tables.sets : Backups!SetCompany(m, ids, a, s) # None}
           to(s) == <<Backups!SetCompany(m, ids, a, s), s[2]>>
           replaced == {to(s)[1] : s \in rows}
           kept == {s \in DOMAIN m.sets : ~TRUE /\ s[1] \notin replaced}
           members(x) == a.tables.sets[CHOOSE s \in rows : to(s) = x] \cap m.regions
           moved == [x \in {to(s) : s \in rows} \cup kept |->
                       IF x \in kept THEN m.sets[x] ELSE members(x)]
<1>1. Fields(d, a, e)
  BY FullFields
<1>2. "sets" \in DOMAIN m /\ e.sets = Regrouped(d, a).sets /\ m.regions = a.tables.regions
  BY <1>1 DEF Fields, Backups!Tables
<1>3. Regrouped(d, a) = [m EXCEPT !.sets = moved]
  <2>1. Regrouped(d, a) = Backups!WithSets(m, ids, a, TRUE)
    BY DEF Regrouped
  <2> HIDE DEF m, ids
  <2>2. QED BY <2>1, Zenon DEF Backups!WithSets
<1>4. \A s \in DOMAIN a.tables.sets : /\ s = <<s[1], s[2]>> /\ s[1] \in DOMAIN ids
                                      /\ a.tables.sets[s] \subseteq m.regions
  BY <1>2 DEF Whole, Backups!SoundPartners, Backups!Paired, Renumbered
<1> HIDE DEF m
<1>5. \A s \in DOMAIN a.tables.sets : s \in rows /\ to(s) = <<ids[s[1]], s[2]>>
  BY <1>4 DEF Backups!SetCompany, Backups!RowCompany, Renumbered
<1>6. \A s, x \in DOMAIN a.tables.sets : to(s) = to(x) => s = x
  <2>1. ASSUME NEW s \in DOMAIN a.tables.sets, NEW x \in DOMAIN a.tables.sets, to(s) = to(x)
        PROVE  s = x
    <3>1. ids[s[1]] = ids[x[1]] /\ s[2] = x[2]
      BY <1>5, <2>1
    <3>2. s[1] = x[1]
      BY <1>4, <3>1 DEF Renumbered
    <3>3. QED BY <1>4, <3>1, <3>2
  <2>2. QED BY <2>1
<1>7. kept = {} /\ e.sets = moved
  <2> HIDE DEF moved
  <2>1. QED BY <1>2, <1>3
<1>8. rows = DOMAIN a.tables.sets
  BY <1>5
<1>9. ASSUME NEW s \in DOMAIN a.tables.sets
      PROVE  to(s) \in DOMAIN e.sets /\ e.sets[to(s)] = a.tables.sets[s]
  <2>1. (CHOOSE x \in rows : to(x) = to(s)) = s
    BY <1>6, <1>8
  <2>2. members(to(s)) = a.tables.sets[s]
    BY <1>4, <2>1
  <2>3. to(s) \in {to(x) : x \in rows}
    BY <1>8
  <2> HIDE DEF members, to, rows
  <2>4. QED BY <1>7, <2>2, <2>3
<1>10. \A x \in DOMAIN e.sets : \E s \in DOMAIN a.tables.sets : x = to(s)
  <2> HIDE DEF members, to
  <2>1. QED BY <1>7, <1>8
<1> HIDE DEF to
<1>11. QED BY <1>5, <1>9, <1>10 DEF Rekeyed

\* So do its programs, their requirements and its offerings.
LEMMA OfferingsRekeyed ==
  ASSUME NEW d, NEW a, Whole(a), NEW e, Staged(d, a, e), "reference" \in a.files,
         Renumbered(a.tables.companies, e.companies, Backups!CompanyIds(d, a))
  PROVE  /\ Rekeyed(a.tables.offerings, e.offerings, Backups!CompanyIds(d, a))
         /\ e.programs = a.tables.programs /\ e.requirements = a.tables.requirements
         /\ e.olx = a.tables.olx
<1> DEFINE ids == Backups!CompanyIds(d, a)
           g == Regrouped(d, a)
           rows == {o \in DOMAIN a.tables.offerings : Backups!Placed(g, ids, o[1]) # None}
           to(o) == <<Backups!Placed(g, ids, o[1]), o[2]>>
           titles(x) == a.tables.offerings[CHOOSE o \in rows : to(o) = x]
           moved == [x \in {to(o) : o \in rows} |-> titles(x)]
<1>1. Fields(d, a, e)
  BY FullFields
<1>2. Programmed(d, a) = [g EXCEPT !.programs = a.tables.programs,
                                   !.requirements = a.tables.requirements,
                                   !.olx = a.tables.olx, !.offerings = moved]
  <2>1. Programmed(d, a) = Backups!WithReference(g, ids, a)
    BY DEF Programmed
  <2> HIDE DEF g, ids
  <2>2. QED BY <2>1, Zenon DEF Backups!WithReference
<1>3. /\ {"programs", "requirements", "olx", "offerings"} \subseteq DOMAIN g
      /\ e.programs = Programmed(d, a).programs /\ e.olx = Programmed(d, a).olx
      /\ e.requirements = Programmed(d, a).requirements
      /\ e.offerings = Programmed(d, a).offerings
  BY <1>1 DEF Fields, Backups!Tables
<1>4. \A o \in DOMAIN a.tables.offerings : o = <<o[1], o[2]>> /\ o[1] \in DOMAIN ids
  BY DEF Whole, Backups!SoundPartners, Backups!Paired, Renumbered
<1> HIDE DEF g
<1>5. \A o \in DOMAIN a.tables.offerings : o \in rows /\ to(o) = <<ids[o[1]], o[2]>>
  BY <1>4 DEF Backups!Placed, Renumbered
<1>6. \A o, x \in DOMAIN a.tables.offerings : to(o) = to(x) => o = x
  <2>1. ASSUME NEW o \in DOMAIN a.tables.offerings, NEW x \in DOMAIN a.tables.offerings,
               to(o) = to(x)
        PROVE  o = x
    <3>1. ids[o[1]] = ids[x[1]] /\ o[2] = x[2]
      BY <1>5, <2>1
    <3>2. o[1] = x[1]
      BY <1>4, <3>1 DEF Renumbered
    <3>3. QED BY <1>4, <3>1, <3>2
  <2>2. QED BY <2>1
<1>7. /\ e.offerings = moved /\ e.programs = a.tables.programs
      /\ e.requirements = a.tables.requirements /\ e.olx = a.tables.olx
  <2> HIDE DEF moved
  <2>1. QED BY <1>2, <1>3
<1>8. rows = DOMAIN a.tables.offerings
  BY <1>5
<1>9. ASSUME NEW o \in DOMAIN a.tables.offerings
      PROVE  to(o) \in DOMAIN e.offerings /\ e.offerings[to(o)] = a.tables.offerings[o]
  <2>1. (CHOOSE x \in rows : to(x) = to(o)) = o
    BY <1>6, <1>8
  <2>2. titles(to(o)) = a.tables.offerings[o]
    BY <2>1
  <2>3. to(o) \in {to(x) : x \in rows}
    BY <1>8
  <2> HIDE DEF titles, to, rows
  <2>4. QED BY <1>7, <2>2, <2>3
<1>10. \A x \in DOMAIN e.offerings : \E o \in DOMAIN a.tables.offerings : x = to(o)
  <2> HIDE DEF titles, to
  <2>1. QED BY <1>7, <1>8
<1> HIDE DEF to, rows, moved
<1>11. QED BY <1>5, <1>7, <1>9, <1>10 DEF Rekeyed

\* No two offerings of the archive end up with one key.
LEMMA OfferingsApart ==
  ASSUME NEW d, NEW a, Whole(a), NEW e,
         Renumbered(a.tables.companies, e.companies, Backups!CompanyIds(d, a)), NEW j
  PROVE  ~Backups!OfferingsClash(j, Backups!CompanyIds(d, a), a)
<1> DEFINE ids == Backups!CompanyIds(d, a)
<1>1. \A o \in DOMAIN a.tables.offerings : o = <<o[1], o[2]>> /\ o[1] \in DOMAIN ids
  BY DEF Whole, Backups!SoundPartners, Backups!Paired, Renumbered
<1>2. \A c \in DOMAIN ids : Backups!Placed(j, ids, c) = ids[c]
  BY DEF Backups!Placed
<1> HIDE DEF ids
<1>3. ASSUME NEW o \in DOMAIN a.tables.offerings, NEW x \in DOMAIN a.tables.offerings,
             o[2] = x[2], Backups!Placed(j, ids, o[1]) = Backups!Placed(j, ids, x[1])
      PROVE  o = x
  <2>1. ids[o[1]] = ids[x[1]]
    BY <1>1, <1>2, <1>3
  <2>2. o[1] = x[1]
    BY <1>1, <2>1 DEF Renumbered, ids
  <2>3. QED BY <1>1, <1>3, <2>2
<1>4. QED BY <1>3 DEF Backups!OfferingsClash, ids

\* And its terms, each linked to the set it was.
LEMMA TermsRelinked ==
  ASSUME NEW d, NEW a, Whole(a), NEW e, Staged(d, a, e),
         {"terms", "sets", "reference"} \subseteq a.files,
         Renumbered(a.tables.companies, e.companies, Backups!CompanyIds(d, a))
  PROVE  Backups!TermsOf(e) = Backups!TermsOf(a.tables)
<1> DEFINE ids == Backups!CompanyIds(d, a)
           q == Programmed(d, a)
           rows == IF "terms" \in a.files
                   THEN {t \in DOMAIN a.tables.terms : Backups!TermCompany(q, ids, a, t) # None}
                   ELSE {}
           to(t) == <<t[1], Backups!TermCompany(q, ids, a, t)>>
           replaced == {to(t)[2] : t \in rows}
           archived == {to(t) : t \in {t \in rows : t[1] \in q.programs}}
           kept == {t \in DOMAIN d.terms :
                      /\ ~("terms" \in a.files) \/ (~TRUE /\ t[2] \notin replaced)
                      /\ t[1] \in q.programs /\ t[2] \in DOMAIN q.companies}
           set(x) == IF x \in archived
                     THEN a.tables.terms[CHOOSE t \in rows : to(t) = x] ELSE d.terms[x]
           moved == [x \in archived \cup kept |-> Backups!Linked(q, x[2], set(x))]
<1>1. Fields(d, a, e)
  BY FullFields
<1>2. "terms" \in DOMAIN q /\ e.terms = Agreed(d, a).terms /\ q.sets = e.sets
      /\ q.programs = e.programs
  BY <1>1 DEF Fields, Backups!Tables
<1>3. Agreed(d, a) = [q EXCEPT !.terms = moved]
  <2>1. Agreed(d, a) = Backups!WithTerms(q, ids, a, d.terms, TRUE)
    BY DEF Agreed
  <2> HIDE DEF q, ids
  <2>2. QED BY <2>1, Zenon DEF Backups!WithTerms
<1>4. Rekeyed(a.tables.sets, e.sets, ids) /\ e.programs = a.tables.programs
  BY SetsRekeyed, OfferingsRekeyed
<1>5. \A t \in DOMAIN a.tables.terms :
        /\ t = <<t[1], t[2]>> /\ t[2] \in DOMAIN ids /\ t[1] \in q.programs
        /\ a.tables.terms[t] # None => <<t[2], a.tables.terms[t]>> \in DOMAIN a.tables.sets
  BY <1>2, <1>4 DEF Whole, Backups!SoundPartners, Backups!Paired, Renumbered
<1> HIDE DEF q
<1>6. \A t \in DOMAIN a.tables.terms : t \in rows /\ to(t) = <<t[1], ids[t[2]]>>
  BY <1>5 DEF Backups!TermCompany, Backups!RowCompany, Renumbered
<1>7. rows = DOMAIN a.tables.terms /\ kept = {}
  BY <1>6
<1>8. ASSUME NEW t \in DOMAIN a.tables.terms, NEW x \in DOMAIN a.tables.terms, to(t) = to(x)
      PROVE  t = x
  <2>1. ids[t[2]] = ids[x[2]] /\ t[1] = x[1]
    BY <1>6, <1>8
  <2>2. t[2] = x[2]
    BY <1>5, <2>1 DEF Renumbered
  <2>3. QED BY <1>5, <2>1, <2>2
<1>9. e.terms = moved
  <2> HIDE DEF moved
  <2>1. QED BY <1>2, <1>3
<1>10. ASSUME NEW t \in DOMAIN a.tables.terms
       PROVE  Backups!Linked(q, ids[t[2]], a.tables.terms[t]) = a.tables.terms[t]
  <2>1. a.tables.terms[t] # None => <<ids[t[2]], a.tables.terms[t]>> \in DOMAIN e.sets
    <3>1. SUFFICES ASSUME a.tables.terms[t] # None
                   PROVE  <<ids[t[2]], a.tables.terms[t]>> \in DOMAIN e.sets
      OBVIOUS
    <3> DEFINE s == <<t[2], a.tables.terms[t]>>
    <3>2. s \in DOMAIN a.tables.sets /\ s[1] = t[2] /\ s[2] = a.tables.terms[t]
      BY <1>5, <3>1
    <3> HIDE DEF s
    <3>3. <<ids[s[1]], s[2]>> \in DOMAIN e.sets
      BY <1>4, <3>2 DEF Rekeyed
    <3>4. QED BY <3>2, <3>3
  <2>2. QED BY <1>2, <2>1 DEF Backups!Linked
<1>11. ASSUME NEW t \in DOMAIN a.tables.terms
       PROVE  to(t) \in DOMAIN e.terms /\ e.terms[to(t)] = a.tables.terms[t]
  <2>1. (CHOOSE x \in rows : to(x) = to(t)) = t
    BY <1>7, <1>8
  <2>2. to(t) \in archived
    BY <1>5, <1>7
  <2>3. set(to(t)) = a.tables.terms[t]
    BY <2>1, <2>2
  <2>4. to(t)[2] = ids[t[2]]
    BY <1>6
  <2> HIDE DEF set, to, rows, archived
  <2>5. QED BY <1>9, <1>10, <2>2, <2>3, <2>4
<1>12. \A x \in DOMAIN e.terms : \E t \in DOMAIN a.tables.terms : x = to(t)
  <2>1. \A x \in archived : \E t \in DOMAIN a.tables.terms : x = to(t)
    BY <1>7
  <2> HIDE DEF set, to, archived
  <2>2. QED BY <1>7, <1>9, <2>1
<1> HIDE DEF to, moved, rows, archived, kept, ids
<1>13. \A t \in DOMAIN a.tables.terms : e.companies[ids[t[2]]] = a.tables.companies[t[2]]
  BY <1>5 DEF Renumbered, ids
<1>14. ASSUME NEW r \in Backups!TermsOf(e) PROVE r \in Backups!TermsOf(a.tables)
  <2>1. PICK x \in DOMAIN e.terms : r = <<x[1], e.companies[x[2]], e.terms[x]>>
    BY DEF Backups!TermsOf
  <2>2. PICK t \in DOMAIN a.tables.terms : x = to(t)
    BY <1>12
  <2>3. x[1] = t[1] /\ x[2] = ids[t[2]]
    BY <1>6, <2>2
  <2>4. r = <<t[1], a.tables.companies[t[2]], a.tables.terms[t]>>
    BY <1>11, <1>13, <2>1, <2>2, <2>3
  <2>5. QED BY <2>4 DEF Backups!TermsOf
<1>15. ASSUME NEW r \in Backups!TermsOf(a.tables) PROVE r \in Backups!TermsOf(e)
  <2>1. PICK t \in DOMAIN a.tables.terms :
          r = <<t[1], a.tables.companies[t[2]], a.tables.terms[t]>>
    BY DEF Backups!TermsOf
  <2>2. to(t)[1] = t[1] /\ to(t)[2] = ids[t[2]]
    BY <1>6
  <2>3. r = <<to(t)[1], e.companies[to(t)[2]], e.terms[to(t)]>>
    BY <1>11, <1>13, <2>1, <2>2
  <2>4. QED BY <1>11, <2>3 DEF Backups!TermsOf
<1>16. QED BY <1>14, <1>15

\* Without terms in the archive, those that were here stay, linked by name.
LEMMA TermsStay ==
  ASSUME NEW d, Backups!Sound(d), NEW a, NEW e, Staged(d, a, e), Backups!Sound(e),
         "terms" \notin a.files
  PROVE  Backups!TermsOf(e) = LinkedRows(e, Backups!TermsOf(d))
<1> DEFINE ids == Backups!CompanyIds(d, a)
           q == Programmed(d, a)
           live == d.terms
           rows == IF "terms" \in a.files
                   THEN {t \in DOMAIN a.tables.terms : Backups!TermCompany(q, ids, a, t) # None}
                   ELSE {}
           to(t) == <<t[1], Backups!TermCompany(q, ids, a, t)>>
           replaced == {to(t)[2] : t \in rows}
           archived == {to(t) : t \in {t \in rows : t[1] \in q.programs}}
           kept == {t \in DOMAIN live :
                      /\ ~("terms" \in a.files) \/ (~TRUE /\ t[2] \notin replaced)
                      /\ t[1] \in q.programs /\ t[2] \in DOMAIN q.companies}
           set(x) == IF x \in archived
                     THEN a.tables.terms[CHOOSE t \in rows : to(t) = x] ELSE live[x]
           moved == [x \in archived \cup kept |-> Backups!Linked(q, x[2], set(x))]
<1>1. Fields(d, a, e)
  BY FullFields
<1>2. "terms" \in DOMAIN q /\ e.terms = Agreed(d, a).terms /\ q.sets = e.sets
      /\ q.programs = e.programs /\ q.companies = e.companies
  BY <1>1 DEF Fields, Backups!Tables
<1>3. Agreed(d, a) = [q EXCEPT !.terms = moved]
  <2>1. Agreed(d, a) = Backups!WithTerms(q, ids, a, live, TRUE)
    BY DEF Agreed
  <2> HIDE DEF q, ids, live
  <2>2. QED BY <2>1, Zenon DEF Backups!WithTerms
<1>4. e.terms = moved
  <2> HIDE DEF moved, q
  <2>1. QED BY <1>2, <1>3
<1>5. /\ \A c \in DOMAIN d.companies : c \in DOMAIN e.companies
                                       /\ e.companies[c] = d.companies[c]
      /\ \A t \in DOMAIN d.terms : t[2] \in DOMAIN d.companies
  <2>1. e.companies = Joined(d, a).companies
    BY <1>1 DEF Fields
  <2>2. QED BY <2>1 DEF Staged, Backups!Sound, Backups!SoundPartners
<1> HIDE DEF q
<1>6. archived = {} /\ \A x : x \in kept <=> x \in DOMAIN d.terms /\ x[1] \in e.programs
  BY <1>2, <1>5
<1>7. \A c, v : Backups!Linked(q, c, v) = Backups!Linked(e, c, v)
  BY <1>2 DEF Backups!Linked
<1>8. /\ \A x : x \in DOMAIN e.terms <=> x \in DOMAIN d.terms /\ x[1] \in e.programs
      /\ \A x \in DOMAIN e.terms : e.terms[x] = Backups!Linked(e, x[2], d.terms[x])
  <2>1. \A x : set(x) = d.terms[x]
    BY <1>6
  <2> HIDE DEF set, archived, kept
  <2>2. QED BY <1>4, <1>6, <1>7, <2>1
<1> HIDE DEF moved, archived, kept, rows, to, set, ids, live
<1> DEFINE linked(t) == IF \E s \in Backups!SetsOf(e) : s[1] = t[2] /\ s[2] = t[3]
                        THEN t[3] ELSE None
           row(x) == <<x[1], d.companies[x[2]], d.terms[x]>>
<1>9. ASSUME NEW x \in DOMAIN d.terms
      PROVE  linked(row(x)) = Backups!Linked(e, x[2], d.terms[x])
  <2> DEFINE k == x[2]
             v == d.terms[x]
  <2>1. k \in DOMAIN e.companies /\ e.companies[k] = d.companies[k]
    BY <1>5
  <2>2. row(x)[2] = d.companies[k] /\ row(x)[3] = v
    OBVIOUS
  <2> HIDE DEF k, v, row
  <2>3. Backups!Linked(e, k, v) =
          IF \E s \in Backups!SetsOf(e) : s[1] = e.companies[k] /\ s[2] = v THEN v ELSE None
    BY <2>1, LinkedByName
  <2>4. linked(row(x)) = Backups!Linked(e, k, v)
    BY <2>1, <2>2, <2>3
  <2>5. QED BY <2>4 DEF k, v
<1>10. \A r : r \in LinkedRows(e, Backups!TermsOf(d)) <=>
                \E t \in Backups!TermsOf(d) : t[1] \in e.programs /\ r = <<t[1], t[2], linked(t)>>
  BY DEF LinkedRows
<1>11. \A t : t \in Backups!TermsOf(d) <=> \E x \in DOMAIN d.terms : t = row(x)
  BY DEF Backups!TermsOf
<1>12. \A x : row(x)[1] = x[1] /\ row(x)[2] = d.companies[x[2]]
  OBVIOUS
<1> HIDE DEF linked, row
<1>13. \A r : r \in LinkedRows(e, Backups!TermsOf(d)) <=>
                \E x \in DOMAIN d.terms :
                  x[1] \in e.programs
                  /\ r = <<x[1], d.companies[x[2]], Backups!Linked(e, x[2], d.terms[x])>>
  BY <1>9, <1>10, <1>11, <1>12
<1>14. \A r : r \in Backups!TermsOf(e) <=>
                \E x \in DOMAIN d.terms :
                  x[1] \in e.programs
                  /\ r = <<x[1], d.companies[x[2]], Backups!Linked(e, x[2], d.terms[x])>>
  <2>1. \A r : r \in Backups!TermsOf(e) <=>
                 \E x \in DOMAIN e.terms : r = <<x[1], e.companies[x[2]], e.terms[x]>>
    BY DEF Backups!TermsOf
  <2>2. \A x \in DOMAIN e.terms :
          <<x[1], e.companies[x[2]], e.terms[x]>> =
          <<x[1], d.companies[x[2]], Backups!Linked(e, x[2], d.terms[x])>>
    BY <1>5, <1>8
  <2>3. QED BY <1>8, <2>1, <2>2
<1>15. QED BY <1>13, <1>14

\* Without sets in the archive, those that were here stay, of the countries that
\* are here now.
LEMMA SetsStay ==
  ASSUME NEW d, Backups!Sound(d), NEW a, NEW e, Staged(d, a, e), "sets" \notin a.files
  PROVE  Backups!SetsOf(e) = MembersHere(e, Backups!SetsOf(d))
<1> DEFINE m == Emptied(d, a)
           names(s) == <<d.companies[s[1]], s[2], d.sets[s] \cap e.regions>>
<1>1. Fields(d, a, e)
  BY FullFields
<1>2. /\ "sets" \in DOMAIN m /\ m.sets = d.sets /\ m.regions = e.regions
      /\ e.sets = Regrouped(d, a).sets
  BY <1>1 DEF Fields, Backups!Tables
<1>3. Regrouped(d, a) = [m EXCEPT !.sets = [s \in DOMAIN @ |-> @[s] \cap m.regions]]
  BY DEF Regrouped, Backups!WithSets
<1> HIDE DEF m
<1>4. e.sets = [s \in DOMAIN d.sets |-> d.sets[s] \cap e.regions]
  BY <1>2, <1>3
<1>5. \A s \in DOMAIN d.sets : e.companies[s[1]] = d.companies[s[1]]
  <2>1. e.companies = Joined(d, a).companies
    BY <1>1 DEF Fields
  <2>2. QED BY <2>1 DEF Staged, Backups!Sound, Backups!SoundPartners
<1>6. \A r : r \in Backups!SetsOf(e) <=> \E s \in DOMAIN d.sets : r = names(s)
  BY <1>4, <1>5 DEF Backups!SetsOf
<1>7. \A r : r \in MembersHere(e, Backups!SetsOf(d)) <=> \E s \in DOMAIN d.sets : r = names(s)
  <2> DEFINE row(s) == <<d.companies[s[1]], s[2], d.sets[s]>>
             membersHere(x) == <<x[1], x[2], x[3] \cap e.regions>>
  <2>1. \A r : r \in MembersHere(e, Backups!SetsOf(d)) <=>
                 \E x \in Backups!SetsOf(d) : r = membersHere(x)
    BY DEF MembersHere
  <2>2. \A x : x \in Backups!SetsOf(d) <=> \E s \in DOMAIN d.sets : x = row(s)
    BY DEF Backups!SetsOf
  <2>3. \A s : names(s) = membersHere(row(s))
    OBVIOUS
  <2> HIDE DEF row, names, membersHere
  <2>4. QED BY <2>1, <2>2, <2>3
<1> HIDE DEF names
<1>8. QED BY <1>6, <1>7

\* Its learners come back to the companies they were of.
LEMMA LearnersRekeyed ==
  ASSUME NEW d, NEW a, Whole(a), NEW e, Staged(d, a, e),
         Renumbered(a.tables.companies, e.companies, Backups!CompanyIds(d, a))
  PROVE  /\ DOMAIN e.learners = DOMAIN a.tables.learners
         /\ \A l \in DOMAIN e.learners :
              /\ e.learners[l].company \in DOMAIN e.companies
              /\ e.companies[e.learners[l].company] =
                   a.tables.companies[a.tables.learners[l].company]
              /\ e.learners[l].country = a.tables.learners[l].country
<1> DEFINE ids == Backups!CompanyIds(d, a)
           t == Agreed(d, a)
           moved == [l \in DOMAIN a.tables.learners |->
                       [company |-> Backups!Placed(t, ids, a.tables.learners[l].company),
                        country |-> a.tables.learners[l].country]]
<1>1. Fields(d, a, e)
  BY FullFields
<1>2. "learners" \in DOMAIN t /\ e.learners = Peopled(d, a).learners
  BY <1>1 DEF Fields, Backups!Tables
<1>3. Peopled(d, a) = [t EXCEPT !.learners = moved, !.taken = a.tables.taken]
  BY DEF Peopled, Backups!WithLearners
<1> HIDE DEF t
<1>4. e.learners = moved
  <2> HIDE DEF moved
  <2>1. QED BY <1>2, <1>3
<1>5. \A l \in DOMAIN a.tables.learners : a.tables.learners[l].company \in DOMAIN ids
  BY DEF Whole, Backups!Fits, Renumbered
<1> HIDE DEF ids
<1>6. \A l \in DOMAIN a.tables.learners :
        e.learners[l].company = ids[a.tables.learners[l].company]
        /\ e.learners[l].country = a.tables.learners[l].country
  <2>1. \A l \in DOMAIN a.tables.learners :
          /\ e.learners[l].company = Backups!Placed(t, ids, a.tables.learners[l].company)
          /\ e.learners[l].country = a.tables.learners[l].country
    BY <1>4
  <2>2. \A c \in DOMAIN ids : Backups!Placed(t, ids, c) = ids[c]
    BY DEF Backups!Placed
  <2>3. QED BY <1>5, <2>1, <2>2
<1>7. DOMAIN e.learners = DOMAIN a.tables.learners
  BY <1>4
<1>8. QED BY <1>5, <1>6, <1>7 DEF Renumbered, ids

\* So every key fits.
LEMMA RestoreFits ==
  ASSUME NEW d, NEW a, Whole(a), NEW e, Staged(d, a, e),
         Renumbered(a.tables.companies, e.companies, Backups!CompanyIds(d, a))
  PROVE  Backups!Fits(e)
<1>1. /\ e.types = a.tables.types /\ e.regions = a.tables.regions
      /\ e.training = a.tables.training /\ e.taken = a.tables.taken
      /\ "reference" \notin a.files =>
           /\ e.requirements = {} /\ e.olx = {}
           /\ \A o \in DOMAIN e.offerings : e.offerings[o] = {}
  BY FullFields DEF Fields
<1>2. /\ DOMAIN e.learners = DOMAIN a.tables.learners
      /\ \A l \in DOMAIN e.learners : e.learners[l].company \in DOMAIN e.companies
                                      /\ e.learners[l].country = a.tables.learners[l].country
  BY LearnersRekeyed
<1>3. \A o \in DOMAIN e.offerings : e.offerings[o] \subseteq DOMAIN e.training
  <2>1. CASE "reference" \in a.files
    <3>1. ASSUME NEW x \in DOMAIN e.offerings
          PROVE  \E o \in DOMAIN a.tables.offerings : e.offerings[x] = a.tables.offerings[o]
      BY <2>1, OfferingsRekeyed DEF Rekeyed
    <3>2. QED BY <1>1, <3>1 DEF Whole, Backups!Fits
  <2>2. CASE "reference" \notin a.files
    BY <1>1, <2>2
  <2>3. QED BY <2>1, <2>2
<1>4. /\ \A x \in e.olx : {x[1], x[2]} \subseteq DOMAIN e.training
      /\ \A x \in e.requirements : x[1] \in e.programs /\ x[2] \in DOMAIN e.training
  <2>1. CASE "reference" \in a.files
    <3>1. /\ e.olx = a.tables.olx /\ e.requirements = a.tables.requirements
          /\ e.programs = a.tables.programs
      BY <2>1, OfferingsRekeyed
    <3>2. QED BY <1>1, <3>1 DEF Whole, Backups!Fits
  <2>2. CASE "reference" \notin a.files
    BY <1>1, <2>2
  <2>3. QED BY <2>1, <2>2
<1>5. QED BY <1>1, <1>2, <1>3, <1>4 DEF Whole, Backups!Fits

\* The companies an account has access to, by name.
Access(d, u) == {d.companies[l[2]] : l \in {l \in d.links : l[1] = u}}
Account(d, u) == <<d.users[u].name, d.users[u].admin, Access(d, u)>>

LEMMA AccountsByName ==
  ASSUME NEW d, NEW r
  PROVE  r \in Backups!AccountsOf(d) <=> \E u \in DOMAIN d.users : r = Account(d, u)
BY DEF Backups!AccountsOf, Account, Access

\* Without accounts in the archive, those that were here keep their access.
LEMMA AccountsKept ==
  ASSUME NEW d, Backups!Sound(d), NEW a, NEW e, Staged(d, a, e), ~Backups!ReplacesUsers(a)
  PROVE  Backups!AccountsOf(e) = Backups!AccountsOf(d)
<1>1. e.users = d.users /\ e.links = d.links /\ e.companies = Joined(d, a).companies
  BY FullFields DEF Fields
<1>2. \A l \in d.links : e.companies[l[2]] = d.companies[l[2]]
  BY <1>1 DEF Staged, Backups!Sound, Backups!SoundPartners
<1>3. \A u : Access(e, u) = Access(d, u)
  BY <1>1, <1>2 DEF Access
<1>4. \A u : Account(e, u) = Account(d, u)
  BY <1>1, <1>3 DEF Account
<1>5. \A r : r \in Backups!AccountsOf(e) <=> r \in Backups!AccountsOf(d)
  BY <1>1, <1>4, AccountsByName
<1>6. QED BY <1>5 DEF Backups!AccountsOf

\* With them, every account has its access under its new id.
LEMMA AccountsReplaced ==
  ASSUME NEW d, Backups!Sound(d), NEW a, Whole(a), Accounts(a.tables.users),
         NEW e, Staged(d, a, e), Backups!ReplacesUsers(a),
         Renumbered(a.tables.companies, e.companies, Backups!CompanyIds(d, a))
  PROVE  Backups!AccountsOf(e) = Backups!AccountsOf(a.tables)
<1> DEFINE ids == Backups!CompanyIds(d, a)
           p == Peopled(d, a)
           users == a.tables.users
           new(u) == p.nextUser + Backups!Cardinality({x \in DOMAIN users : x < u})
           company(c) == IF c \in DOMAIN ids THEN ids[c]
                         ELSE IF c \in DOMAIN p.companies THEN c ELSE None
           account(u) == [name |-> users[u].name, admin |-> users[u].admin,
                          epoch |-> Backups!EpochFloor(p, a)]
           us == [i \in {new(u) : u \in DOMAIN users} |->
                    account(CHOOSE u \in DOMAIN users : new(u) = i)]
           links == {<<new(l[1]), company(l[2])>> :
                       l \in {l \in a.tables.links : l[1] \in DOMAIN users /\ company(l[2]) # None}}
<1>1. \E next : e = [p EXCEPT !.users = us, !.links = links, !.nextUser = next]
  <2>1. e = Backups!WithUsers(p, ids, a)
    BY DEF Staged
  <2> HIDE DEF p, ids
  <2>2. QED BY <2>1, Zenon DEF Backups!WithUsers
<1>2. "users" \in DOMAIN p /\ "links" \in DOMAIN p
  BY FullFields DEF Fields, Backups!Tables
<1>3. p.nextUser \in Nat
  <2>1. "nextUser" \in DOMAIN d /\ d.nextUser \in Nat
    BY DEF Backups!Sound, Backups!SoundAccounts
  <2>2. p.nextUser = d.nextUser
    BY <2>1 DEF Staged, Only
  <2>3. QED BY <2>1, <2>2
<1> HIDE DEF p
<1>4. e.users = us /\ e.links = links
  <2> HIDE DEF us, links
  <2>1. QED BY <1>1, <1>2
<1>5. \A u, x \in DOMAIN users : new(u) = new(x) => u = x
  <2> DEFINE given == [u \in DOMAIN users |-> p.nextUser + Rank(DOMAIN users, u)]
  <2>1. \A u \in DOMAIN users : new(u) = given[u]
    BY DEF Rank
  <2>2. DOMAIN users \in SUBSET Nat /\ IsFiniteSet(DOMAIN users)
    BY DEF Accounts
  <2>3. \A u \in DOMAIN users : given[u] = p.nextUser + Rank(DOMAIN users, u)
    OBVIOUS
  <2> HIDE DEF given, new, users
  <2>4. \A u, x \in DOMAIN users : given[u] = given[x] => u = x
    BY <1>3, <2>2, <2>3, IdsGiven
  <2>5. QED BY <2>1, <2>4
<1> HIDE DEF new
<1>6. ASSUME NEW u \in DOMAIN users
      PROVE  new(u) \in DOMAIN e.users /\ e.users[new(u)].name = users[u].name
             /\ e.users[new(u)].admin = users[u].admin
  <2>1. (CHOOSE x \in DOMAIN users : new(x) = new(u)) = u
    BY <1>5
  <2>2. new(u) \in {new(x) : x \in DOMAIN users}
    OBVIOUS
  <2>3. us[new(u)] = account(u) /\ new(u) \in DOMAIN us
    BY <2>1, <2>2
  <2>4. account(u).name = users[u].name /\ account(u).admin = users[u].admin
    OBVIOUS
  <2> HIDE DEF us, account
  <2>5. QED BY <1>4, <2>3, <2>4
<1>7. \A i \in DOMAIN e.users : \E u \in DOMAIN users : i = new(u)
  <2>1. DOMAIN us = {new(u) : u \in DOMAIN users}
    OBVIOUS
  <2> HIDE DEF us
  <2>2. QED BY <1>4, <2>1
<1>8. \A l \in a.tables.links :
        /\ l[1] \in DOMAIN users /\ l[2] \in DOMAIN ids /\ company(l[2]) = ids[l[2]]
        /\ company(l[2]) # None /\ e.companies[company(l[2])] = a.tables.companies[l[2]]
  BY DEF Whole, Backups!SoundPartners, Renumbered
<1> HIDE DEF company, us
<1>9. /\ \A l \in a.tables.links : <<new(l[1]), company(l[2])>> \in e.links
      /\ \A k \in e.links : \E l \in a.tables.links : k = <<new(l[1]), company(l[2])>>
  BY <1>4, <1>8
<1> HIDE DEF links
<1>10. ASSUME NEW u \in DOMAIN users PROVE Access(e, new(u)) = Access(a.tables, u)
  <2>1. ASSUME NEW c \in Access(e, new(u)) PROVE c \in Access(a.tables, u)
    <3>1. PICK k \in e.links : k[1] = new(u) /\ c = e.companies[k[2]]
      BY DEF Access
    <3>2. PICK l \in a.tables.links : k = <<new(l[1]), company(l[2])>>
      BY <1>9
    <3>3. l[1] = u /\ c = a.tables.companies[l[2]]
      BY <1>5, <1>8, <3>1, <3>2
    <3>4. QED BY <3>3 DEF Access
  <2>2. ASSUME NEW c \in Access(a.tables, u) PROVE c \in Access(e, new(u))
    <3>1. PICK l \in a.tables.links : l[1] = u /\ c = a.tables.companies[l[2]]
      BY DEF Access
    <3> DEFINE k == <<new(u), company(l[2])>>
    <3>2. k \in e.links /\ k[1] = new(u) /\ e.companies[k[2]] = c
      BY <1>8, <1>9, <3>1
    <3> HIDE DEF k
    <3>3. QED BY <3>2 DEF Access
  <2>3. QED BY <2>1, <2>2
<1>11. \A u \in DOMAIN users : Account(e, new(u)) = Account(a.tables, u)
  BY <1>6, <1>10 DEF Account
<1>12. \A r : r \in Backups!AccountsOf(e) <=> r \in Backups!AccountsOf(a.tables)
  <2>1. \A r : r \in Backups!AccountsOf(e) <=> \E i \in DOMAIN e.users : r = Account(e, i)
    BY AccountsByName
  <2>2. \A r : r \in Backups!AccountsOf(a.tables) <=>
                 \E u \in DOMAIN users : r = Account(a.tables, u)
    BY AccountsByName
  <2>3. QED BY <1>6, <1>7, <1>11, <2>1, <2>2
<1>13. QED BY <1>12 DEF Backups!AccountsOf

\* What a full restore brings back, and what stays, by name.
LEMMA RestoredByName ==
  ASSUME NEW d, Backups!Sound(d), NEW a, SoundArchive(a), Whole(a),
         Accounts(a.tables.users), "companies" \in a.files, OfAVersion(a), a.kind = "full",
         NEW e, Backups!Sound(e), e = Backups!FullyRestored(d, a)
  PROVE  /\ Backups!LearnersOf(e) = Backups!LearnersOf(a.tables) /\ e.taken = a.tables.taken
         /\ Backups!TrainingsOf(e) = Backups!TrainingsOf(a.tables)
         /\ e.regions = a.tables.regions
         /\ "reference" \in a.files => Backups!ReferenceOf(e) = Backups!ReferenceOf(a.tables)
         /\ Backups!SetsOf(e) = IF "sets" \in a.files THEN Backups!SetsOf(a.tables)
                                ELSE MembersHere(e, Backups!SetsOf(d))
         /\ Backups!TermsOf(e) = IF "terms" \in a.files THEN Backups!TermsOf(a.tables)
                                 ELSE LinkedRows(e, Backups!TermsOf(d))
         /\ Backups!AccountsOf(e) =
              Backups!AccountsOf(IF Backups!ReplacesUsers(a) THEN a.tables ELSE d)
<1> DEFINE ids == Backups!CompanyIds(d, a)
<1>1. Staged(d, a, e)
  BY FullyStaged
<1>2. Renumbered(a.tables.companies, e.companies, ids)
  <2>1. Backups!SoundNames(e)
    BY DEF Backups!Sound
  <2>2. QED BY <1>1, <2>1, CompaniesRenumbered
<1>3. /\ e.types = a.tables.types /\ e.regions = a.tables.regions
      /\ e.training = a.tables.training /\ e.taken = a.tables.taken
  BY <1>1, FullFields DEF Fields
<1>4. Backups!LearnersOf(e) = Backups!LearnersOf(a.tables)
  <2>1. /\ DOMAIN e.learners = DOMAIN a.tables.learners
        /\ \A l \in DOMAIN e.learners :
             /\ e.learners[l].company \in DOMAIN e.companies
             /\ e.companies[e.learners[l].company] =
                  a.tables.companies[a.tables.learners[l].company]
             /\ e.learners[l].country = a.tables.learners[l].country
    BY <1>1, <1>2, LearnersRekeyed
  <2>2. QED BY <2>1 DEF Backups!LearnersOf
<1>5. Backups!TrainingsOf(e) = Backups!TrainingsOf(a.tables)
  BY <1>3 DEF Backups!TrainingsOf
<1>6. ASSUME "reference" \in a.files
      PROVE  Backups!ReferenceOf(e) = Backups!ReferenceOf(a.tables)
  <2>1. /\ Rekeyed(a.tables.offerings, e.offerings, ids)
        /\ e.programs = a.tables.programs /\ e.requirements = a.tables.requirements
        /\ e.olx = a.tables.olx
    BY <1>1, <1>2, <1>6, OfferingsRekeyed
  <2>2. \A o \in DOMAIN a.tables.offerings : o[1] \in DOMAIN a.tables.companies
    BY DEF Whole, Backups!SoundPartners
  <2>3. ByName(e.companies, e.offerings) = ByName(a.tables.companies, a.tables.offerings)
    BY <1>2, <2>1, <2>2, SameByName
  <2>4. Backups!OfferingsOf(e) = Backups!OfferingsOf(a.tables)
    BY <2>3 DEF ByName, Backups!OfferingsOf
  <2>5. QED BY <2>1, <2>4 DEF Backups!ReferenceOf
<1>7. ASSUME "sets" \in a.files PROVE Backups!SetsOf(e) = Backups!SetsOf(a.tables)
  <2>1. Rekeyed(a.tables.sets, e.sets, ids)
    BY <1>1, <1>2, <1>7, SetsRekeyed
  <2>2. \A s \in DOMAIN a.tables.sets : s[1] \in DOMAIN a.tables.companies
    BY DEF Whole, Backups!SoundPartners
  <2>3. ByName(e.companies, e.sets) = ByName(a.tables.companies, a.tables.sets)
    BY <1>2, <2>1, <2>2, SameByName
  <2>4. QED BY <2>3 DEF ByName, Backups!SetsOf
<1>8. "sets" \notin a.files => Backups!SetsOf(e) = MembersHere(e, Backups!SetsOf(d))
  BY <1>1, SetsStay
<1>9. "terms" \in a.files => Backups!TermsOf(e) = Backups!TermsOf(a.tables)
  BY <1>1, <1>2, TermsRelinked DEF OfAVersion
<1>10. "terms" \notin a.files => Backups!TermsOf(e) = LinkedRows(e, Backups!TermsOf(d))
  BY <1>1, TermsStay
<1>11. Backups!AccountsOf(e) =
         Backups!AccountsOf(IF Backups!ReplacesUsers(a) THEN a.tables ELSE d)
  <2>1. CASE Backups!ReplacesUsers(a)
    BY <1>1, <1>2, <2>1, AccountsReplaced
  <2>2. CASE ~Backups!ReplacesUsers(a)
    BY <1>1, <2>2, AccountsKept
  <2>3. QED BY <2>1, <2>2
<1>12. QED BY <1>3, <1>4, <1>5, <1>6, <1>7, <1>8, <1>9, <1>10, <1>11

\* What the last full restore was one of.  It failed for its rows, and until a
\* handler changes it, the database is what the restore made of it.
LastFull ==
  last.kind = "full" =>
    /\ Backups!Sound(last.before) /\ SoundArchive(last.archive)
    /\ Accounts(last.archive.tables.users) /\ last.archive.kind = "full"
    /\ OfAVersion(last.archive) /\ (last.archive.whole => Whole(last.archive))
    /\ last.edits \in Nat /\ last.edits <= edits
    /\ last.outcome = "failed" => Unfit(last.before, last.archive)
    /\ last.outcome = "ok" /\ edits = last.edits =>
         install = Backups!FullyRestored(last.before, last.archive)

ReadInv ==
  /\ backup # None => /\ backup.kind \in Archives[scenario].kinds
                      /\ backup.files \in Archives[scenario].files
  /\ archive # None => OfAVersion(archive) /\ (archive.whole => Whole(archive))
  /\ LastFull

LEMMA ReadStart == Backups!Init => ReadInv
<1> SUFFICES ASSUME Backups!Init PROVE ReadInv
  OBVIOUS
<1>1. backup = None /\ archive = None /\ last = Backups!NoRestore
  BY DEF Backups!Init
<1>2. last.kind # "full"
  BY <1>1, RestoreParameters DEF Backups!NoRestore
<1>3. QED BY <1>1, <1>2 DEF ReadInv, LastFull

\* A backup during which nothing changed is the database of one moment.
LEMMA ReadWhole ==
  ASSUME RestoreInv, RowsInv, ReadInv, Backups!EndBackup
  PROVE  OfAVersion(archive') /\ (archive'.whole => Whole(archive'))
<1>1. /\ backup # None /\ archive'.kind = backup.kind /\ archive'.files = backup.files
      /\ archive'.tables = [t \in Backups!Tables |-> Backups!Read(t)]
      /\ archive'.setPartners =
           (IF "sets" \in backup.first THEN backup.db.companies ELSE install.companies)
      /\ archive'.termPartners =
           (IF "terms" \in backup.first THEN backup.db.companies ELSE install.companies)
      /\ archive'.whole <=> backup.db = install
  BY DEF Backups!EndBackup
<1>2. OfAVersion(archive')
  BY <1>1, ParamAssumption DEF RestoreInv, ReadInv, OfAVersion, Backups!Parameters
<1>3. ASSUME archive'.whole PROVE Whole(archive')
  <2>1. \A t \in Backups!Tables : Backups!Read(t) = install[t]
    BY <1>1, <1>3 DEF Backups!Read
  <2>2. \A t \in Backups!Tables : archive'.tables[t] = install[t]
    BY <1>1, <2>1
  <2>3. archive'.setPartners = install.companies /\ archive'.termPartners = install.companies
    BY <1>1, <1>3
  <2>4. Backups!SoundPartners(install) /\ Backups!Fits(install)
    BY DEF RowsInv, Backups!Sound
  <2> DEFINE tables == archive'.tables
  <2>5. /\ tables.companies = install.companies /\ tables.types = install.types
        /\ tables.regions = install.regions /\ tables.training = install.training
        /\ tables.olx = install.olx /\ tables.learners = install.learners
        /\ tables.taken = install.taken /\ tables.users = install.users
        /\ tables.links = install.links /\ tables.programs = install.programs
        /\ tables.requirements = install.requirements /\ tables.offerings = install.offerings
        /\ tables.sets = install.sets /\ tables.terms = install.terms
    BY <2>2 DEF Backups!Tables
  <2> HIDE DEF tables
  <2>6. Backups!SoundPartners(tables)
    BY <2>4, <2>5 DEF Backups!SoundPartners
  <2>7. Backups!Fits(tables)
    BY <2>4, <2>5 DEF Backups!Fits
  <2>8. QED BY <2>3, <2>5, <2>6, <2>7 DEF Whole, tables
<1>4. QED BY <1>2, <1>3

LEMMA ReadTaken ==
  ASSUME RestoreInv, RowsInv, ReadInv,
         \/ \E kind \in Backups!Mix.kinds, files \in Backups!Mix.files,
               first \in Backups!Mix.cuts : Backups!BeginBackup(kind, files, first)
         \/ Backups!EndBackup
  PROVE  ReadInv'
<1>1. UNCHANGED <<scenario, install, edits, last>> /\ archive = None
  BY DEF Backups!BeginBackup, Backups!EndBackup, RowsInv
<1>2. LastFull'
  BY <1>1 DEF ReadInv, LastFull, Unfit
<1>3. CASE \E kind \in Backups!Mix.kinds, files \in Backups!Mix.files,
              first \in Backups!Mix.cuts : Backups!BeginBackup(kind, files, first)
  <2>1. /\ backup'.kind \in Archives[scenario].kinds /\ backup'.files \in Archives[scenario].files
        /\ archive' = None
    BY <1>1, <1>3 DEF Backups!BeginBackup, Backups!Mix
  <2>2. QED BY <1>1, <1>2, <2>1 DEF ReadInv
<1>4. CASE Backups!EndBackup
  <2>1. backup' = None
    BY <1>4 DEF Backups!EndBackup
  <2>2. OfAVersion(archive') /\ (archive'.whole => Whole(archive'))
    BY <1>4, ReadWhole
  <2>3. QED BY <1>2, <2>1, <2>2 DEF ReadInv
<1>5. QED BY <1>3, <1>4

LEMMA ReadRestored ==
  ASSUME RestoreInv, RowsInv, ReadInv, Backups!RestoreFull
  PROVE  ReadInv'
<1> DEFINE d == Backups!FullyRestored(install, archive)
           clashes == /\ "reference" \in archive.files
                      /\ Backups!OfferingsClash(Joined(install, archive),
                                                Backups!CompanyIds(install, archive), archive)
<1>1. \E outcome : /\ Backups!Restored("full", outcome, d)
                   /\ outcome = "failed" => ~Backups!Fits(d) \/ clashes
  <2>1. PICK refused :
          Backups!Restored("full", CASE refused -> "refused"
                                     [] ~Backups!Fits(d) \/ clashes -> "failed"
                                     [] OTHER -> "ok", d)
    BY Zenon DEF Backups!RestoreFull, Joined
  <2> DEFINE outcome == CASE refused -> "refused"
                          [] ~Backups!Fits(d) \/ clashes -> "failed"
                          [] OTHER -> "ok"
  <2> HIDE DEF d, clashes
  <2>2. outcome = "failed" => ~Backups!Fits(d) \/ clashes
    OBVIOUS
  <2>3. Backups!Restored("full", outcome, d)
    BY <2>1
  <2> HIDE DEF outcome
  <2>4. QED BY <2>2, <2>3
<1>2. PICK outcome : /\ Backups!Restored("full", outcome, d)
                     /\ outcome = "failed" => ~Backups!Fits(d) \/ clashes
  BY <1>1
<1>3. outcome = "failed" => Unfit(install, archive)
  BY <1>2 DEF Unfit
<1>4. d = Backups!FullyRestored(install, archive)
  OBVIOUS
<1> HIDE DEF d, clashes
<1>5. /\ archive # None /\ archive.kind = "full" /\ UNCHANGED <<scenario, backup, archive, edits>>
      /\ last'.outcome = outcome /\ last'.before = install
      /\ last'.archive = archive /\ last'.edits = edits
      /\ install' = (IF outcome = "ok" THEN d ELSE install)
  BY <1>2 DEF Backups!Restored
<1>6. /\ Backups!Sound(install) /\ SoundArchive(archive) /\ edits \in Nat
      /\ Accounts(archive.tables.users)
  BY <1>5 DEF RowsInv, RestoreInv, ArchiveInv
<1>7. OfAVersion(archive) /\ (archive.whole => Whole(archive))
  BY <1>5 DEF ReadInv
<1>8. LastFull'
  BY <1>3, <1>4, <1>5, <1>6, <1>7 DEF LastFull
<1>9. QED BY <1>5, <1>7, <1>8 DEF ReadInv

LEMMA ReadKept ==
  ASSUME RestoreInv, RowsInv, ReadInv, [Backups!Next]_restoreVars
  PROVE  ReadInv'
<1>1. CASE Backups!Edit
  <2>1. /\ UNCHANGED <<scenario, backup, archive, last>> /\ edits' = edits + 1
    BY <1>1
    DEF Backups!Edit, Backups!CreateCompany, Backups!RenameCompany, Backups!DeleteCompany,
        Backups!CreateType, Backups!EditSet, Backups!DeleteSet, Backups!CreateTerms,
        Backups!SignIn, Backups!ChangePassword, Backups!Edited
  <2>2. edits \in Nat
    BY DEF RowsInv
  <2>3. LastFull'
    BY <2>1, <2>2 DEF ReadInv, LastFull
  <2>4. QED BY <2>1, <2>3 DEF ReadInv
<1>2. CASE \/ \E kind \in Backups!Mix.kinds, files \in Backups!Mix.files,
                 first \in Backups!Mix.cuts : Backups!BeginBackup(kind, files, first)
           \/ Backups!EndBackup
  BY <1>2, ReadTaken
<1>3. CASE Backups!MoveToAnotherInstall
  <2>1. UNCHANGED <<scenario, backup, archive, last>> /\ last = Backups!NoRestore
    BY <1>3 DEF Backups!MoveToAnotherInstall
  <2>2. last'.kind # "full"
    BY <2>1, RestoreParameters DEF Backups!NoRestore
  <2>3. QED BY <2>1, <2>2 DEF ReadInv, LastFull
<1>4. CASE Backups!RestoreFull
  BY <1>4, ReadRestored
<1>5. CASE Backups!RestoreConfig
  <2>1. PICK outcome, d : Backups!Restored("config", outcome, d)
    BY <1>5, Zenon DEF Backups!RestoreConfig
  <2>2. UNCHANGED <<scenario, backup, archive>> /\ last'.kind = "config"
    BY <2>1 DEF Backups!Restored
  <2>3. QED BY <2>2 DEF ReadInv, LastFull
<1>6. CASE UNCHANGED restoreVars
  <2>1. UNCHANGED <<scenario, install, backup, archive, edits, last>>
    BY <1>6 DEF restoreVars
  <2>2. QED BY <2>1 DEF ReadInv, LastFull
<1>7. QED BY <1>1, <1>2, <1>3, <1>4, <1>5, <1>6 DEF Backups!Next

\* The property of a full restore, from its two databases.
LEMMA FullByName ==
  ASSUME RowsInv, ReadInv, last.kind = "full", last.archive.whole,
         "companies" \in last.archive.files
  PROVE  Backups!FullRestoreIsExact
<1> DEFINE d == last.before
           a == last.archive
           full == Backups!FullyRestored(d, a)
<1>1. /\ Backups!Sound(d) /\ SoundArchive(a) /\ Whole(a) /\ Accounts(a.tables.users)
      /\ a.kind = "full" /\ OfAVersion(a)
      /\ last.outcome = "failed" => Unfit(d, a)
      /\ last.outcome = "ok" /\ edits = last.edits => install = full
      /\ "companies" \in a.files /\ Backups!Sound(install)
  BY DEF RowsInv, ReadInv, LastFull
<1> HIDE DEF d, a
<1>2. ~Unfit(d, a)
  <2>1. full = Backups!FullyRestored(d, a)
    OBVIOUS
  <2> HIDE DEF full
  <2>2. Staged(d, a, full) /\ Backups!SoundNames(full)
    BY <1>1, <2>1, FullyStaged
  <2>3. Renumbered(a.tables.companies, full.companies, Backups!CompanyIds(d, a))
    BY <1>1, <2>2, CompaniesRenumbered
  <2>4. Backups!Fits(full)
    BY <1>1, <2>2, <2>3, RestoreFits
  <2>5. ~Backups!OfferingsClash(Joined(d, a), Backups!CompanyIds(d, a), a)
    BY <1>1, <2>3, OfferingsApart
  <2>6. QED BY <2>1, <2>4, <2>5 DEF Unfit
<1>3. ASSUME last.outcome = "ok", edits = last.edits
      PROVE  /\ Backups!LearnersOf(install) = Backups!LearnersOf(a.tables)
             /\ install.taken = a.tables.taken
             /\ Backups!TrainingsOf(install) = Backups!TrainingsOf(a.tables)
             /\ install.regions = a.tables.regions
             /\ "reference" \in a.files =>
                  Backups!ReferenceOf(install) = Backups!ReferenceOf(a.tables)
             /\ Backups!SetsOf(install) = IF "sets" \in a.files THEN Backups!SetsOf(a.tables)
                                          ELSE MembersHere(install, Backups!SetsOf(d))
             /\ Backups!TermsOf(install) = IF "terms" \in a.files THEN Backups!TermsOf(a.tables)
                                           ELSE LinkedRows(install, Backups!TermsOf(d))
             /\ Backups!AccountsOf(install) =
                  Backups!AccountsOf(IF Backups!ReplacesUsers(a) THEN a.tables ELSE d)
  <2>1. install = Backups!FullyRestored(d, a)
    BY <1>1, <1>3
  <2> DEFINE e == install
  <2>2. Backups!Sound(e) /\ e = Backups!FullyRestored(d, a)
    BY <1>1, <2>1
  <2>3. QED BY <1>1, <2>2, RestoredByName
<1>4. QED
  BY <1>1, <1>2, <1>3 DEF Backups!FullRestoreIsExact, MembersHere, LinkedRows, d, a

LEMMA FullInductive == MCSpec => [](RestoreInv /\ RowsInv /\ ReadInv)
<1>1. MCInit => ReadInv
  BY ReadStart DEF MCInit
<1>2. RestoreInv /\ RowsInv /\ ReadInv /\ [MCNext]_<<part, learnersVars, restoreVars, planVars>>
        => ReadInv'
  <2>1. [MCNext]_<<part, learnersVars, restoreVars, planVars>> => [Backups!Next]_restoreVars
    BY DEF MCNext
  <2>2. QED BY <2>1, ReadKept
<1>3. QED BY <1>1, <1>2, RestoreInductive, PTL DEF MCSpec

(***************************************************************************)
(* FullRestores: FullRestoreIsExact.  For any installs, any archive read   *)
(* at one moment and any edits before the restore: a full restore that is  *)
(* not refused goes through, on this install or another, and brings back   *)
(* what the archive holds, every row under the partner it was archived     *)
(* under, whatever the ids are on either side; what the archive is too old *)
(* to hold stays, as far as what it names does.                            *)
(***************************************************************************)
THEOREM FullRestores == MCSpec => []FullRestoreIsExact
<1>1. RowsInv /\ ReadInv => FullRestoreIsExact
  <2>1. ~(last.kind = "full" /\ last.archive.whole /\ "companies" \in last.archive.files) =>
          Backups!FullRestoreIsExact
    BY DEF Backups!FullRestoreIsExact
  <2>2. QED BY <2>1, FullByName DEF FullRestoreIsExact
<1>2. QED BY <1>1, FullInductive, PTL
-----------------------------------------------------------------------------
(* Learners and their imports.                                             *)

LEMMA LearnersAlone == MCSpec => Learning!Spec
<1>1. MCInit => Learning!Init BY DEF MCInit
<1>2. [MCNext]_<<part, learnersVars, restoreVars, planVars>> => [Learning!Next]_Learning!vars
  BY DEF MCNext, learnersVars, Learning!vars
<1>3. QED BY <1>1, <1>2, PTL DEF MCSpec, Learning!Spec

(***************************************************************************)
(* Whatever requests and imports overlap, for any tables, files and users: *)
(* learners have a company and a country, completions a learner and a      *)
(* training, companies names of their own.                                 *)
(***************************************************************************)
THEOREM LearnersTyped == MCSpec => [](part = "learners" => Learning!TypeOK)
<1>1. Learning!Spec => []Learning!TypeOK
  BY ParamAssumption, Learning!TablesSound
<1>2. Learning!TypeOK => (part = "learners" => Learning!TypeOK)
  OBVIOUS
<1>3. QED BY <1>1, <1>2, LearnersAlone, PTL

(***************************************************************************)
(* TenantsKeptApart: an Admin's request that nothing overlaps, an import   *)
(* of any file included, leaves other companies' learners and completions  *)
(* as they are, step by step, and puts nobody in a company the Admin       *)
(* cannot access.                                                          *)
(***************************************************************************)
THEOREM TenantsApart == MCSpec => TenantsKeptApart
<1>1. Learning!Spec => Learning!TenantsKeptApart
  BY ParamAssumption, Learning!RequestsKeepApart
<1>2. QED BY <1>1, LearnersAlone, PTL DEF TenantsKeptApart

(***************************************************************************)
(* ImportIsExact.  However requests and imports overlap, and whichever     *)
(* chunks are rolled back and run again: an import that has ended reports  *)
(* as many learners and completions as it inserted.  One that nothing      *)
(* overlaps has left what its rows come to one by one, and refused those   *)
(* they refuse, in chunks of any size; and an export, imported again, has  *)
(* changed nothing.                                                        *)
(***************************************************************************)
THEOREM Imports == MCSpec => []ImportIsExact
<1>1. Learning!Spec => []Learning!ImportIsExact
  BY ParamAssumption, Learning!ImportsExact
<1>2. Learning!ImportIsExact => ImportIsExact BY DEF ImportIsExact
<1>3. QED BY <1>1, <1>2, LearnersAlone, PTL
=============================================================================
