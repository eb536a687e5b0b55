--------------------------- MODULE CompliancePlan ---------------------------
(***************************************************************************)
(* A compliance plan: the gaps of the requirements a request is about, how *)
(* many people certify to close them, which specialisations of a tier are  *)
(* the cheapest, and whom to certify (Allocation); beside it the ladder of *)
(* the program dashboards, which says whether a tier is reached.           *)
(*                                                                         *)
(* A request holds the catalogue's programs, the people in its companies   *)
(* and what it asks for.  Countries and specialisations are numbered in the*)
(* order of their names; 0 stands for no country.  A completion is current,*)
(* expiring within the renewal window, expired, or coming: its date lies   *)
(* within the window.  A Country Set goes by its members.                  *)
(*                                                                         *)
(* minimumPerTheatre and the minimum number of countries, which no plan    *)
(* counts, sentences and the order of lists are left out; every training   *)
(* has been reviewed.                                                      *)
(***************************************************************************)
EXTENDS Allocation, FiniteSetsExt, SequencesExt

CONSTANTS
  Titles, Theatres,
  PairOf,      \* the pair of a Full Title and a type a title counts as
  LeadsTo,     \* certification[] of a title
  ReplacedBy,  \* replacedBy[] of a title
  TheatreOf,   \* of a country
  Requests,    \* requests by name
  None

AllCountries == DOMAIN TheatreOf
Statuses == [now |-> {"current", "expiring"}, horizon |-> {"current", "coming"},
             ever |-> {"current", "expiring", "expired", "coming"}, none |-> {}]

VARIABLES
  question,    \* the name of the request; never changes
  taken,       \* what the people hold: person, title and status
  counted      \* countedInstances: what the targets count; never changes

q == Requests[question]
ProgramOf(row) == q.programs[row.program]
-----------------------------------------------------------------------------
(* The populations a program's requirements are counted over.              *)

Scope(countries, theatres) == [countries |-> countries, theatres |-> theatres]

InPopulation(scope, place) ==
  place.country \in scope.countries /\ place.theatre \in scope.theatres

Population(level, scope, depth) == [level |-> level, scope |-> scope, depth |-> depth]

Excluded(name) ==
  /\ q.level = "Theatre"
  /\ LET included == q.programs[name].theatres IN included # {} /\ q.theatre \notin included

RowsOf(name) ==
  SelectSeq(q.rows, LAMBDA r : r.program = name /\
                       ~(Excluded(name) /\ r.level \in {"Theatre", "TargetCountries"}))

\* Whether the view is judged over the partner's target countries as well.
HasTargets(name) ==
  q.level = "Theatre" /\ \E r \in ToSet(RowsOf(name)) : r.level = "TargetCountries"

\* The members of the set that lie in the theatre.
TargetCountries(name) == {c \in q.area[name] : TheatreOf[c] = q.theatre}

Populations(name) ==
  CASE q.level = "Global" -> {Population("Global", Scope(AllCountries, Theatres), 2)}
    [] q.level = "Theatre" ->
         {Population("Theatre", Scope(AllCountries, {q.theatre}), 2)} \cup
         IF HasTargets(name)
         THEN {Population("TargetCountries", Scope(TargetCountries(name), Theatres), 1)}
         ELSE {}
    [] OTHER -> {Population(q.level, Scope(q.area[name], Theatres), 2)}

Targeted == {t.program : t \in ToSet(q.targets)}

\* Two programs share an area when their populations are nested: the same
\* countries, or one theatre in which at most one target set is in play.
AreaKey(name) ==
  LET sets == {q.area[p] : p \in {x \in Targeted : HasTargets(x)}} IN
  IF q.level # "Theatre" THEN q.area[name]
  ELSE IF HasTargets(name) THEN q.area[name]
  ELSE IF Cardinality(sets) = 1 THEN CHOOSE s \in sets : TRUE
  ELSE {0}
-----------------------------------------------------------------------------
(* Who holds what.                                                         *)

PairsOf(titles) == {PairOf[t] : t \in titles}

\* The people in a population with a completion of any spelling of the pairs.
Holders(accepts, when, scope) ==
  {p \in People : InPopulation(scope, q.people[p]) /\
     \E x \in taken : x[1] = p /\ PairOf[x[2]] \in accepts /\ x[3] \in Statuses[when]}

\* Whatever leads to a certification, and a legacy one that it replaces.
PathTitles(index, accepts) == {t \in Titles : PairsOf(index[t]) \cap accepts # {}}

\* No query is made for the horizon when nobody holds it today.
AtHorizon(accepts, scope) ==
  IF Holders(accepts, "now", scope) = {} THEN {} ELSE Holders(accepts, "horizon", scope)

Missing(required, n) == IF required > n THEN required - n ELSE 0

\* Variant: whatever the window, the gap of today.
SizeGapToday(required, now, later) == Missing(required, now)

\* Planning for the window means closing the gap now and holding it then.
SizeGap(required, now, later) ==
  LET today == Missing(required, now)
  IN IF q.planForWindow THEN Max({today, Missing(required, later)}) ELSE today

\* The cheapest way to certify each person there is one for.
PoolOf(accepts, scope) ==
  LET now == Holders(accepts, "now", scope)
      paths(index) == Holders(PairsOf(PathTitles(index, accepts)), "now", scope)
      by == [renewal |-> IF q.planForWindow THEN now \ AtHorizon(accepts, scope) ELSE {},
             easyWin |-> paths(LeadsTo) \ now,
             lapsed  |-> Holders(accepts, "ever", scope) \ now,
             legacy  |-> paths(ReplacedBy) \ now]
      tier(p) == CHOOSE t \in Tiers : /\ p \in by[t]
                                      /\ \A u \in Tiers : p \in by[u] => TierRank[t] <= TierRank[u]
      held(p) == {PairOf[x[2]] : x \in {y \in taken : y[1] = p}} \cap accepts
  IN [p \in UNION {by[t] : t \in Tiers} |->
        [tier |-> tier(p), held |-> IF tier(p) = "lapsed" THEN held(p) ELSE {}]]

\* A requirement counted over a population, or over one country of it.
Instance(row, g, scope, country) ==
  LET accepts == PairsOf(row.titles)
      short == SizeGap(row.quantity, Cardinality(Holders(accepts, "now", scope)),
                       Cardinality(AtHorizon(accepts, scope)))
  IN [row |-> row, key |-> AreaKey(row.program), scope |-> scope,
      depth |-> IF country = 0 THEN g.depth ELSE 0, country |-> country,
      accepts |-> accepts, short |-> short,
      pool |-> IF short > 0 THEN PoolOf(accepts, scope) ELSE <<>>]

EachCountry(row) ==
  row.each /\ row.level \in {"Region", "CountrySet", "TargetCountries"}

\* An "each country" row is never met in an area without countries.
Unmet(row, g) ==
  [Instance(row, g, g.scope, 0) EXCEPT !.short = Max({1, row.quantity}), !.pool = <<>>]

InstancesIn(row, g) ==
  LET slice(c) == Instance(row, g, Scope({c}, g.scope.theatres), c)
      Slices(countries) == [i \in DOMAIN countries |-> slice(countries[i])]
  IN CASE ~EachCountry(row) -> <<Instance(row, g, g.scope, 0)>>
       [] g.scope.countries = {} -> <<Unmet(row, g)>>
       [] OTHER -> Slices(SetToSortSeq(g.scope.countries, <))

\* A row is counted over the population of its own level, if the view has one.
InstancesOf(row) ==
  LET found == {InstancesIn(row, g) : g \in {x \in Populations(row.program) : x.level = row.level}}
  IN IF found = {} THEN <<>> ELSE CHOOSE insts \in found : TRUE
-----------------------------------------------------------------------------
(* How many people a set of gaps takes.  A cohort is so many new holders of *)
(* one of its certifications, in its population.                            *)

\* Variant: one country's holders count for another's.
InsideByDepth(cohort, i) == cohort.depth <= i.depth

\* Populations within one area are nested: a country, the target countries, all.
Inside(cohort, i) ==
  IF cohort.country # 0 THEN i.country \in {0, cohort.country}
  ELSE i.country = 0 /\ cohort.depth <= i.depth

\* What one cohort does for a gap that is still a.left short.
Credit(a, cohort, i) ==
  LET both == cohort.pairs \cap i.accepts
      take == Min({cohort.count, a.left})
      used == [cohort EXCEPT !.pairs = both, !.count = take]
      kept == [cohort EXCEPT !.count = @ - take]
  IN IF a.left = 0 \/ both = {} \/ ~Inside(cohort, i)
     THEN [a EXCEPT !.cohorts = Append(@, cohort)]
     ELSE IF take < cohort.count
     THEN [a EXCEPT !.cohorts = Append(@, kept), !.split = Append(@, used), !.left = @ - take]
     ELSE [a EXCEPT !.cohorts = Append(@, used), !.left = @ - take]

\* The cohorts once a gap of n has been closed with them, and with a new one.
Absorb(cohorts, i, n) ==
  LET r == FoldLeft(LAMBDA a, c : Credit(a, c, i),
                    [cohorts |-> <<>>, split |-> <<>>, left |-> n], cohorts)
      new == [pairs |-> i.accepts, country |-> i.country, depth |-> i.depth, count |-> r.left]
  IN r.cohorts \o r.split \o IF r.left > 0 THEN <<new>> ELSE <<>>

\* Innermost first, then the fewest certifications, the largest gap, and the id.
Earlier(x, y) ==
  LET i == x.inst  j == y.inst IN
  \/ i.depth < j.depth
  \/ i.depth = j.depth /\
     \/ Cardinality(i.accepts) < Cardinality(j.accepts)
     \/ Cardinality(i.accepts) = Cardinality(j.accepts) /\
        \/ x.value > y.value
        \/ x.value = y.value /\
           \/ i.row.id < j.row.id
           \/ i.row.id = j.row.id /\ i.country < j.country

AreaCost(items) ==
  LET order == SortSeq(items, Earlier)
      cohorts == FoldLeft(LAMBDA cs, x : Absorb(cs, x.inst, x.value), <<>>, order)
  IN FoldLeft(LAMBDA n, c : n + c.count, 0, cohorts)

\* groupCost, of pairs of an instance and its gap.
GroupCost(items) ==
  LET open == SelectSeq(items, LAMBDA x : x.value > 0)
      area(k) == SelectSeq(open, LAMBDA x : x.inst.key = k)
      keys == {open[i].inst.key : i \in DOMAIN open}
  IN MapThenSumSet(LAMBDA k : AreaCost(area(k)), keys)

ShortOf(insts) == [i \in DOMAIN insts |-> [inst |-> insts[i], value |-> insts[i].short]]

-----------------------------------------------------------------------------
(* What a target counts.                                                   *)

IsGate(row) == ProgramOf(row).tiered /\ row.spec = None /\ row.tier = None

\* The requirements in play for a target.
Active(t, row) ==
  CASE t.mode = "specialisations" /\ t.specs # {} -> row.spec \in t.specs
    [] t.mode = "tier" -> \/ row.spec # None /\ row.purpose = "qualification"
                          \/ row.tier = t.tier \/ IsGate(row)
    [] OTHER -> TRUE

BuildInstances(t) ==
  FoldLeft(LAMBDA insts, row : insts \o IF Active(t, row) THEN InstancesOf(row) ELSE <<>>,
           <<>>, RowsOf(t.program))

OfSpec(insts, names) == SelectSeq(insts, LAMBDA i : i.row.spec \in names)
GatesOf(insts) == SelectSeq(insts, LAMBDA i : IsGate(i.row))
Specs(insts) == {insts[i].row.spec : i \in DOMAIN insts} \ {None}

Achieved(insts, name) ==
  \A i \in DOMAIN OfSpec(insts, {name}) : OfSpec(insts, {name})[i].short = 0

\* What a set of specialisations takes on top of the program-wide requirements.
SpecSetCost(insts, names) == GroupCost(ShortOf(GatesOf(insts) \o OfSpec(insts, names)))

\* The specialisation that adds least to those chosen; of several, the first name.
Cheapest(insts, chosen, left) ==
  LET cost == [n \in left |-> SpecSetCost(insts, chosen \cup {n})]
  IN CHOOSE n \in left : \A m \in left : \/ cost[n] < cost[m]
                                         \/ cost[n] = cost[m] /\ n <= m

\* As many as the tier still asks for, one at a time.
ChosenSpecs(t, insts) ==
  LET remaining == {n \in Specs(insts) : ~Achieved(insts, n)}
      required == q.programs[t.program].tiers[t.tier]
      needed == Missing(required, Cardinality(Specs(insts) \ remaining))
      pick[n \in Nat] ==
        IF n = 0 THEN {}
        ELSE pick[n - 1] \cup {Cheapest(insts, pick[n - 1], remaining \ pick[n - 1])}
  IN pick[Min({needed, Cardinality(remaining)})]

\* A tier counts its own requirements, those of every tier and of the
\* specialisations chosen; any other target counts all of its instances.
CountedOf(t) ==
  LET insts == BuildInstances(t) IN
  IF t.mode # "tier" THEN insts
  ELSE SelectSeq(insts, LAMBDA i : i.row.spec = None \/ i.row.spec \in ChosenSpecs(t, insts))

Open == SelectSeq(counted, LAMBDA i : i.short > 0)

GapsOf(insts) ==
  [i \in DOMAIN insts |-> [need |-> insts[i].short, accepts |-> insts[i].accepts,
                           pool |-> insts[i].pool]]

PlanInit ==
  /\ question \in DOMAIN Requests
  /\ taken \in q.histories
  /\ counted = FoldLeft(LAMBDA insts, t : insts \o CountedOf(t), <<>>, q.targets)
  /\ gaps = GapsOf(Open) /\ Fresh

PlanNext == Next /\ UNCHANGED <<question, taken, counted>>

\* What the gaps would take from new people, beyond those credited to them.
Remainders(insts) == [i \in DOMAIN insts |-> [inst |-> insts[i], value |-> NetNew(i)]]
NetNewTotal == GroupCost(Remainders(Open))
-----------------------------------------------------------------------------
(* The program dashboards, once the plan has been carried out: everybody   *)
(* who was nominated has earned one certification, and so has each of the  *)
(* newcomers, who are a pair of a country and a certification.             *)

PlaceOf(newcomer) == [country |-> newcomer[1], theatre |-> TheatreOf[newcomer[1]]]

Count(earned, newcomers, accepts, scope, when) ==
  Cardinality(Holders(accepts, when, scope) \cup
              {p \in DOMAIN earned : earned[p] \in accepts /\ InPopulation(scope, q.people[p])})
  + Cardinality({n \in DOMAIN newcomers :
                   newcomers[n][2] \in accepts /\ InPopulation(scope, PlaceOf(newcomers[n]))})

\* requirementCompliant, of a row and the population it is counted over.
RequirementMet(row, earned, newcomers, when) ==
  LET pops == {x \in Populations(row.program) : x.level = row.level}
      g == CHOOSE x \in pops : TRUE
      has(scope) == Count(earned, newcomers, PairsOf(row.titles), scope, when)
  IN IF EachCountry(row)
     THEN /\ g.scope.countries # {}
          /\ \A c \in g.scope.countries : has(Scope({c}, g.scope.theatres)) >= row.quantity
     ELSE has(g.scope) >= row.quantity

InView(row) == \E x \in Populations(row.program) : x.level = row.level

\* evaluateTierLadder, of the rows that are met.  The requirements of a
\* specialisation for a tier count in one mode of the program, those for being
\* deployed at all in another, the tier's own in the third.
TierReached(name, tier, met) ==
  LET rows == {r \in ToSet(RowsOf(name)) : InView(r)}
      all(P(_)) == \A r \in rows : P(r) => r \in met
      qualifies(r, s) == r.spec = s /\ r.tier = None /\ r.purpose = "qualification"
      achieved == {s \in {r.spec : r \in rows} \ {None} :
                     (\E r \in rows : qualifies(r, s)) /\ all(LAMBDA r : qualifies(r, s))}
      required == q.programs[name].tiers[tier]
      deployed ==
        CASE q.programs[name].mode = "perAchievedSpecialisation" ->
               all(LAMBDA r : r.spec \in achieved /\ r.tier = None /\ r.purpose = "deployment")
          [] q.programs[name].mode = "perTierPerSpecialisation" ->
               Cardinality({s \in achieved : all(LAMBDA r : r.spec = s /\ r.tier = tier)}) >= required
          [] OTHER -> all(LAMBDA r : r.spec = None /\ r.tier = tier)
  IN /\ Cardinality(achieved) >= required /\ deployed
     /\ all(LAMBDA r : r.spec = None /\ r.tier = None)
-----------------------------------------------------------------------------
PlanTypeOK ==
  /\ question \in DOMAIN Requests /\ taken \in q.histories
  /\ gaps = GapsOf(Open) /\ IsPlan(gaps)
  /\ committed \in [People -> SUBSET Certs] /\ credited \subseteq People \X Gaps

\* Requirements that people can meet: there is somewhere to certify them.
Reachable(i) == i.scope.countries # {}

Newcomers(n) == [1 .. n -> AllCountries \X UNION {Accepts(i) : i \in Gaps}]

\* n people are enough for what is left of the gaps.
Enough(n) ==
  \E new \in Newcomers(n) :
    \A i \in DOMAIN Open : Reachable(Open[i]) =>
      Count(<<>>, new, Open[i].accepts, Open[i].scope, "none") >= NetNew(i)

\* The grouping this replaces: a certification list at a time, over one area.
ExactListCost ==
  LET groups == {<<Open[i].key, Open[i].accepts>> : i \in DOMAIN Open}
      of(k, d) == {i \in DOMAIN Open : <<Open[i].key, Open[i].accepts>> = k /\ Open[i].depth = d}
      largest(S) == Max({NetNew(i) : i \in S} \cup {0})
      country(k) == MapThenSumSet(
        LAMBDA c : largest({i \in of(k, 0) : Open[i].country = c}), AllCountries)
  IN MapThenSumSet(
       LAMBDA k : Max({country(k), largest(of(k, 1)), largest(of(k, 2))}), groups)

\* The number of new people is that of a plan that can be carried out ("Every
\* figure is a feasible plan ... so this never under-counts") and no more than
\* each list of certifications would take by itself ("it never charges more than
\* the older exact-list grouping did"), whoever has been credited so far.
CostIsHonest == who = Nobody => Enough(NetNewTotal) /\ NetNewTotal <= ExactListCost

\* Somebody who holds nothing today but whose completion lies within the window
\* can stand in for the future of a gap and leave today's open.
NothingComing == \A x \in taken : x[3] # "coming"

\* A tier that people alone can reach, of the modes the plan knows about.
Attainable(t) ==
  /\ t.mode = "tier"
  /\ q.programs[t.program].mode # "perAchievedSpecialisation"
  /\ LET insts == BuildInstances(t) IN
       /\ Cardinality(Specs(insts)) >= q.programs[t.program].tiers[t.tier]
       /\ \A i \in DOMAIN insts : Reachable(insts[i])

\* A finished plan closes its gaps and reaches its tiers, as the dashboards count
\* them, whichever of their certifications the nominated people earn: now, and
\* at the end of the window when it is planned for.
PlanCloses ==
  Finished /\ (q.planForWindow => NothingComing) =>
    \A earned \in {f \in [{p \in People : committed[p] # {}} -> Certs] :
                     \A p \in DOMAIN f : f[p] \in committed[p]} :
    \E new \in Newcomers(NetNewTotal) :
    \A when \in {"now"} \cup (IF q.planForWindow THEN {"horizon"} ELSE {}) :
      LET met == {row \in ToSet(q.rows) : InView(row) /\ RequirementMet(row, earned, new, when)}
      IN /\ \A i \in DOMAIN counted : LET c == counted[i] IN Reachable(c) =>
              Count(earned, new, c.accepts, c.scope, when) >= c.row.quantity
         /\ \A t \in ToSet(q.targets) : Attainable(t) => TierReached(t.program, t.tier, met)
=============================================================================
