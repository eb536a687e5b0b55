----------------------------- MODULE Allocation -----------------------------
(***************************************************************************)
(* Who to certify: the greedy allocation of people to the gaps of a        *)
(* compliance plan (allocateCandidates).                                   *)
(*                                                                         *)
(* A gap is a requirement instance that is short: how many people it needs,*)
(* the certifications any of which it accepts, and its pool, the people who*)
(* could be certified at little cost, each with a tier and, for somebody   *)
(* whose certification lapsed, those they held.  A person earns ONE        *)
(* certification: each gap they are credited to narrows the certifications *)
(* they may still earn to those that every one of their gaps accepts.      *)
(*                                                                         *)
(* The loops are unrolled: one step takes up a gap, nominates a person for *)
(* it, offers the person to one of the gap's counterparts, or moves on.    *)
(* Gaps are numbered in the order the requirements were read.              *)
(***************************************************************************)
EXTENDS Naturals, FiniteSets

CONSTANTS
  People,
  Certs,   \* certifications, each a pair of a Full Title and a type
  Nobody

TierRank == [renewal |-> 0, easyWin |-> 1, lapsed |-> 2, legacy |-> 3]
Tiers == DOMAIN TierRank

IsGap(g) ==
  /\ g.need \in Nat \ {0} /\ g.accepts \subseteq Certs /\ g.accepts # {}
  /\ DOMAIN g.pool \subseteq People
  /\ \A p \in DOMAIN g.pool : g.pool[p].tier \in Tiers /\ g.pool[p].held \subseteq Certs

IsPlan(plan) == /\ DOMAIN plan \subseteq Nat \ {0}
                /\ \A i \in DOMAIN plan : IsGap(plan[i])

Parameters == IsFiniteSet(People) /\ Nobody \notin People

VARIABLES
  gaps,      \* the gaps of this plan; never changes
  current,   \* the gap being filled, 0 between two gaps
  done,      \* gaps that have been taken up and left
  tried,     \* members of the current gap's pool that have been considered
  who,       \* the person being credited
  pairs,     \* the certifications who may still earn
  offers,    \* the gaps who is still to be offered to
  committed, \* committedPairs; {} for somebody who is not committed
  topTier,   \* committedTier, as a set of at most one
  credited,  \* the pairs of a person and a gap
  filled     \* how many people each gap has been credited with

vars == <<gaps, current, done, tried, who, pairs, offers, committed, topTier,
          credited, filled>>

Gaps == DOMAIN gaps
Pool(i) == DOMAIN gaps[i].pool
Accepts(i) == gaps[i].accepts
Full(i) == filled[i] >= gaps[i].need

\* The gaps a person committed to gap i might serve as well.
Counterparts(i) == {j \in Gaps : j # i /\ Accepts(j) \cap Accepts(i) # {}}

\* How many of them somebody could serve.
Coverage(p, i) == Cardinality({j \in Counterparts(i) \cup {i} : p \in Pool(j)})

-----------------------------------------------------------------------------
Fresh ==
  /\ current = 0 /\ done = {} /\ tried = {}
  /\ who = Nobody /\ pairs = {} /\ offers = {}
  /\ committed = [p \in People |-> {}]
  /\ topTier = [p \in People |-> {}]
  /\ credited = {}
  /\ filled = [i \in Gaps |-> 0]

Init == IsPlan(gaps) /\ Fresh

\* The sort is stable: of two gaps as close to done, the one read first.
Before(i, j) ==
  \/ gaps[i].need < gaps[j].need
  \/ gaps[i].need = gaps[j].need /\ i <= j

TakeUp(i) ==
  /\ current = 0 /\ i \in Gaps \ done
  /\ \A j \in Gaps \ done : Before(i, j)
  /\ current' = i /\ tried' = {}
  /\ UNCHANGED <<gaps, done, who, pairs, offers, committed, topTier, credited, filled>>

\* Between two people of one tier and one coverage it is the database's order.
Preferred(p, i) ==
  \A q \in Pool(i) \ tried :
    LET rank(x) == TierRank[gaps[i].pool[x].tier]
    IN \/ rank(p) < rank(q)
       \/ rank(p) = rank(q) /\ Coverage(p, i) >= Coverage(q, i)

\* A first commitment starts from what the gap accepts; for somebody whose
\* certification lapsed, from those of them they held.
FirstPairs(p, i) ==
  LET held == gaps[i].pool[p].held \cap Accepts(i)
  IN IF held # {} THEN held ELSE Accepts(i)

StartPairs(p, i) == IF committed[p] # {} THEN committed[p] ELSE FirstPairs(p, i)

Considered(p) ==
  /\ current # 0 /\ who = Nobody /\ ~Full(current)
  /\ p \in Pool(current) \ tried /\ Preferred(p, current)
  /\ tried' = tried \cup {p}
  /\ UNCHANGED <<gaps, current, done, committed, credited, filled>>

\* Somebody who has been spent on an unrelated certification.
PassOver(p) ==
  /\ Considered(p)
  /\ StartPairs(p, current) \cap Accepts(current) = {}
  /\ UNCHANGED <<who, pairs, offers, topTier>>

Nominate(p) ==
  /\ Considered(p)
  /\ StartPairs(p, current) \cap Accepts(current) # {}
  /\ who' = p /\ pairs' = StartPairs(p, current) /\ offers' = Counterparts(current) \cup {current}
  /\ topTier' = IF topTier[p] # {} THEN topTier
                ELSE [topTier EXCEPT ![p] = {gaps[current].pool[p].tier}]

\* Variant: somebody is credited to a gap again whenever a counterpart comes up.
CreditsAgain(i) ==
  ~Full(i) /\ who \in Pool(i) /\ pairs \cap Accepts(i) # {}

Credits(i) ==
  /\ ~Full(i) /\ <<who, i>> \notin credited /\ who \in Pool(i)
  /\ pairs \cap Accepts(i) # {}

\* One turn of the loop over the counterparts: the gap itself, then the others
\* in the order they were read.
Offer(i) ==
  /\ who # Nobody /\ i \in offers
  /\ i # current => current \notin offers /\ \A j \in offers : i <= j
  /\ offers' = offers \ {i}
  /\ IF Credits(i)
     THEN /\ pairs' = pairs \cap Accepts(i)
          /\ credited' = credited \cup {<<who, i>>}
          /\ filled' = [filled EXCEPT ![i] = @ + 1]
     ELSE UNCHANGED <<pairs, credited, filled>>
  /\ UNCHANGED <<gaps, current, done, tried, who, committed, topTier>>

Commit ==
  /\ who # Nobody /\ offers = {}
  /\ committed' = [committed EXCEPT ![who] = pairs]
  /\ who' = Nobody /\ pairs' = {}
  /\ UNCHANGED <<gaps, current, done, tried, offers, topTier, credited, filled>>

Leave ==
  /\ current # 0 /\ who = Nobody
  /\ Full(current) \/ Pool(current) \subseteq tried
  /\ done' = done \cup {current} /\ current' = 0
  /\ UNCHANGED <<gaps, tried, who, pairs, offers, committed, topTier, credited, filled>>

Next ==
  \/ \E i \in Gaps : TakeUp(i) \/ Offer(i)
  \/ \E p \in People : PassOver(p) \/ Nominate(p)
  \/ Commit \/ Leave

Spec == Init /\ [][Next]_vars

Finished == done = Gaps

\* netNewByInstance: what is left of a gap for brand-new training.
NetNew(i) == IF Full(i) THEN 0 ELSE gaps[i].need - filled[i]
-----------------------------------------------------------------------------
TypeOK ==
  /\ IsPlan(gaps)
  /\ current \in Gaps \cup {0} /\ done \subseteq Gaps
  /\ tried \subseteq People /\ who \in People \cup {Nobody}
  /\ pairs \subseteq Certs /\ offers \subseteq Gaps
  /\ committed \in [People -> SUBSET Certs]
  /\ topTier \in [People -> SUBSET Tiers]
  /\ credited \subseteq People \X Gaps
  /\ filled \in [Gaps -> Nat]

\* The certifications p may still earn, the ones being narrowed included.
Earns(p) == IF who = p THEN pairs ELSE committed[p]

\* One exam is all a person sits: there is a certification that every gap they
\* are credited to accepts (Each credit narrows what the person is committed to).
SpentOnce ==
  \A c \in credited : /\ Earns(c[1]) # {} /\ Earns(c[1]) \subseteq Accepts(c[2])
                      /\ c[1] \in Pool(c[2])

\* A gap is charged with each person once, and with no more people than it needs
\* (the guard against crediting a person again whenever a counterpart comes up).
ChargedOnce ==
  \A i \in Gaps : /\ filled[i] = Cardinality({p \in People : <<p, i>> \in credited})
                  /\ filled[i] <= gaps[i].need

\* Nobody is certified from scratch for a gap while somebody in its pool is idle:
\* a gap left short has credited its whole pool, but for the people spent on
\* certifications it does not accept.
NobodyOverlooked ==
  \A i \in done : ~Full(i) =>
    \A p \in Pool(i) : \/ <<p, i>> \in credited
                       \/ committed[p] # {} /\ Earns(p) \cap Accepts(i) = {}

\* The three together: what the figures of a plan rest on (allocateCandidates).
AllocationSound == SpentOnce /\ ChargedOnce /\ NobodyOverlooked
=============================================================================
