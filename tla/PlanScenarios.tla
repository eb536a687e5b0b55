---------------------------- MODULE PlanScenarios ----------------------------
(***************************************************************************)
(* Small catalogues, people and questions for CompliancePlan.              *)
(***************************************************************************)
EXTENDS Naturals, Sequences, TLC

CONSTANT None

\* Two countries in one theatre and one in another.
TheatreOf == <<"EMEA", "EMEA", "AMER">>
In(country) == [country |-> country, theatre |-> TheatreOf[country]]

\* Two spellings of one certification, a course that leads to it, and a legacy
\* certification it replaces.
PairOf == [a |-> "A", a2 |-> "A", b |-> "B", c |-> "C", pre |-> "P", old |-> "O"]
LeadsTo == [t \in DOMAIN PairOf |-> IF t = "pre" THEN {"a"} ELSE {}]
ReplacedBy == [t \in DOMAIN PairOf |-> IF t = "old" THEN {"a2"} ELSE {}]

Row(id, program, spec, level, quantity, titles) ==
  [id |-> id, program |-> program, spec |-> spec, tier |-> None, purpose |-> "qualification",
   level |-> level, each |-> FALSE, quantity |-> quantity, titles |-> titles]

Each(row) == [row EXCEPT !.each = TRUE]
ForTier(row, tier) == [row EXCEPT !.tier = tier, !.purpose = "deployment"]

Whole(program) == [program |-> program, mode |-> "all", tier |-> None, specs |-> {}]
Tier(tier) == [program |-> "p", mode |-> "tier", tier |-> tier, specs |-> {}]
Named(specs) == [program |-> "p", mode |-> "specialisations", tier |-> None, specs |-> specs]

Plain == [tiered |-> FALSE, mode |-> "flat", theatres |-> {}, tiers |-> <<>>]
Tiered == [Plain EXCEPT !.tiered = TRUE, !.tiers = [gold |-> 1, top |-> 2]]
-----------------------------------------------------------------------------
(* What the people hold.                                                   *)

Nothing == {}

\* One of each way to be close to a certification.
Starters == {<<"ann", "pre", "current">>, <<"bob", "b", "expired">>, <<"cy", "old", "current">>}

\* People who could earn any of several, and who held several.
Spread == {<<"ann", "pre", "current">>, <<"bob", "pre", "expiring">>, <<"cy", "a", "expired">>,
           <<"cy", "b", "expired">>, <<"ann", "c", "expired">>}

\* Certifications that run out in the window; one of them renewed by another spelling.
Fading == {<<"ann", "a", "expiring">>, <<"bob", "b", "current">>, <<"cy", "pre", "current">>,
           <<"bob", "a2", "expiring">>}

\* Somebody who holds what they could earn.
Double == {<<"ann", "a", "current">>, <<"ann", "pre", "current">>, <<"bob", "b", "expired">>,
           <<"bob", "a2", "expired">>}

\* A completion dated after today.
Dated == {<<"ann", "a", "expiring">>, <<"bob", "b", "coming">>, <<"cy", "c", "current">>}
-----------------------------------------------------------------------------
(* Questions.                                                              *)

\* A certification beside lists of alternatives that it is one of.
Family ==
  [programs |-> [p |-> Plain],
   people |-> [ann |-> In(1), bob |-> In(1), cy |-> In(2)],
   rows |-> << Row(1, "p", 1, "Global", 1, {"a"}), Row(2, "p", 2, "Global", 2, {"a", "b"}),
               Row(3, "p", 3, "Global", 1, {"b"}), Row(4, "p", None, "Global", 2, {"c", "b"}) >>,
   targets |-> <<Whole("p")>>, level |-> "Global", theatre |-> None, area |-> [p |-> {1, 2, 3}],
   planForWindow |-> FALSE, histories |-> {Nothing, Starters, Spread, Fading, Double}]

\* Lists that overlap two by two, so that one person cannot serve all three.
Triangle ==
  [Family EXCEPT
     !.rows = << Row(1, "p", 1, "Global", 1, {"a", "b"}), Row(2, "p", 1, "Global", 1, {"b", "c"}),
                 Row(3, "p", 2, "Global", 1, {"a", "c"}) >>,
     !.histories = {Nothing, Spread, Double}]

Windowed(x) == [x EXCEPT !.planForWindow = TRUE, !.histories = {Fading, Dated, Starters}]

\* Each country of a set beside the set as a whole.
Set ==
  [Family EXCEPT !.level = "CountrySet", !.area = [p |-> {1, 2}],
     !.rows = << Each(Row(1, "p", 1, "CountrySet", 1, {"a"})), Row(2, "p", 1, "CountrySet", 3, {"a", "b"}),
                 Each(Row(3, "p", 2, "CountrySet", 1, {"b"})), Row(4, "p", 2, "CountrySet", 2, {"b"}) >>]

\* The same of one certification.
Pooled ==
  [Set EXCEPT !.rows = << Each(Row(1, "p", 1, "CountrySet", 1, {"b"})), Row(2, "p", 1, "CountrySet", 2, {"b"}) >>]

\* A set that has lost its countries.
Emptied == [Set EXCEPT !.area = [p |-> {}]]

\* Two programs with target countries, one without, and one that leaves the
\* theatre out; the target countries of the first two are the same, or not.  One
\* person's theatre is not their country's.
Theatre ==
  [Family EXCEPT !.level = "Theatre", !.theatre = "EMEA", !.people.cy = [@ EXCEPT !.theatre = "AMER"],
     !.programs = [p |-> Plain, r |-> Plain, x |-> Plain, y |-> [Plain EXCEPT !.theatres = {"AMER"}]],
     !.area = [p |-> {1, 3}, r |-> {1, 3}, x |-> {}, y |-> {1}],
     !.targets = <<Whole("p"), Whole("r"), Whole("x"), Whole("y")>>,
     !.rows = << Each(Row(1, "p", 1, "TargetCountries", 1, {"a"})), Row(2, "p", 1, "Theatre", 2, {"a", "b"}),
                 Row(3, "r", 2, "TargetCountries", 2, {"b", "a"}), Row(4, "x", 2, "Theatre", 2, {"a"}),
                 Row(5, "y", 2, "Theatre", 2, {"c"}), Row(6, "y", 2, "Global", 2, {"c"}) >>]
Apart == [Theatre EXCEPT !.area.r = {2}]

\* A tier of a program with a requirement of every tier, where specialisations
\* share certifications with each other and with the tier.
Ladder(tier) ==
  [Family EXCEPT !.programs = [p |-> Tiered], !.targets = <<Tier(tier)>>,
     !.rows = << Row(1, "p", 1, "Global", 1, {"a"}), Row(2, "p", 2, "Global", 2, {"a", "b"}),
                 Row(3, "p", 3, "Global", 1, {"b"}), Row(4, "p", 3, "Global", 1, {"a"}),
                 Row(5, "p", None, "Global", 1, {"c"}),
                 ForTier(Row(6, "p", None, "Global", 2, {"b"}), "gold"),
                 ForTier(Row(7, "p", None, "Global", 2, {"b", "c"}), "top") >>]

\* The same where a tier asks for its requirements of every specialisation.
PerSpecialisation(tier) ==
  [Ladder(tier) EXCEPT !.programs.p.mode = "perTierPerSpecialisation",
     !.rows = SubSeq(@, 1, 5) \o
              << ForTier(Row(6, "p", 1, "Global", 1, {"b"}), "gold"),
                 ForTier(Row(7, "p", 2, "Global", 1, {"b"}), "gold"),
                 ForTier(Row(8, "p", 3, "Global", 2, {"a"}), "gold"),
                 ForTier(Row(9, "p", 1, "Global", 1, {"c"}), "top"),
                 ForTier(Row(10, "p", 2, "Global", 1, {"b"}), "top") >>]

Questions ==
  [family |-> Family, triangle |-> Triangle, window |-> Windowed(Family),
   set |-> Set, pooled |-> Pooled, emptied |-> Emptied, windowedSet |-> Windowed(Set),
   theatre |-> Theatre, apart |-> Apart,
   gold |-> Ladder("gold"), top |-> Ladder("top"), windowedTop |-> Windowed(Ladder("top")),
   goldEach |-> PerSpecialisation("gold"), topEach |-> PerSpecialisation("top"),
   named |-> [Ladder("gold") EXCEPT !.targets = <<Named({2, 3})>>]]
=============================================================================
