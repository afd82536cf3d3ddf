------------------------------ MODULE PrizeRules -----------------------------
(***************************************************************************)
(* The prize rules of the seven lotteries (domain/compare.py and           *)
(* domain/prize_tables.py): from the numbers of a draw and of a ticket to  *)
(* hits, and from hits to a tier and its amount under the table in force   *)
(* on the day of the draw.  Dates are numbers YYYYMMDD, amounts are in     *)
(* cents, numbers are sequences (a partition lottery ignores their order). *)
(***************************************************************************)
EXTENDS Integers, Sequences, FiniteSets

CONSTANT None   \* "no value": no amount yet, no tier

ASSUME NoneAssumption == None \notin Int

Codes == {"ssq", "dlt", "qlc", "fc3d", "qxc", "pl3", "pl5"}

-----------------------------------------------------------------------------
(* Hits.                                                                   *)

InCommon(s, t) == Cardinality({s[i] : i \in DOMAIN s} \cap {t[i] : i \in DOMAIN t})
InPlace(s, t) == Cardinality({i \in DOMAIN s \cap DOMAIN t : s[i] = t[i]})

Partition(draw, combo) ==
  [front |-> InCommon(draw.front, combo.front), back |-> InCommon(draw.back, combo.back)]

Positional(draw, combo) ==
  [front |-> InPlace(draw.front, combo.front), back |-> 0]

QxcHybrid(draw, combo) ==
  [front |-> InPlace(draw.front, combo.front),
   back  |-> IF draw.back # <<>> /\ combo.back # <<>> /\ draw.back[1] = combo.back[1]
             THEN 1 ELSE 0]

Hits(code, draw, combo) ==
  IF code \in {"ssq", "dlt", "qlc"} THEN Partition(draw, combo)
  ELSE IF code = "qxc" THEN QxcHybrid(draw, combo)
  ELSE Positional(draw, combo)

-----------------------------------------------------------------------------
(* Tables: one tier after the other, each with the hits <<front, back>>    *)
(* that win it and its amount (None for a floating tier).                  *)

Floating(hits) == [hits |-> hits, amount |-> None]
Fixed(hits, cents) == [hits |-> hits, amount |-> cents]

Ssq == << Floating({<<6, 1>>}),
          Floating({<<6, 0>>}),
          Fixed({<<5, 1>>}, 300000),
          Fixed({<<5, 0>>, <<4, 1>>}, 20000),
          Fixed({<<4, 0>>, <<3, 1>>}, 1000),
          Fixed({<<2, 1>>, <<1, 1>>, <<0, 1>>}, 500) >>

Dlt2019 == << Floating({<<5, 2>>}),
              Floating({<<5, 1>>}),
              Fixed({<<5, 0>>}, 1000000),
              Fixed({<<4, 2>>}, 300000),
              Fixed({<<4, 1>>}, 30000),
              Fixed({<<3, 2>>}, 20000),
              Fixed({<<4, 0>>}, 10000),
              Fixed({<<3, 1>>, <<2, 2>>}, 1500),
              Fixed({<<3, 0>>, <<1, 2>>, <<2, 1>>, <<0, 2>>}, 500) >>

Dlt2026 == << Floating({<<5, 2>>}),
              Floating({<<5, 1>>}),
              Fixed({<<5, 0>>, <<4, 2>>}, 500000),
              Fixed({<<4, 1>>}, 30000),
              Fixed({<<4, 0>>, <<3, 2>>}, 15000),
              Fixed({<<3, 1>>, <<2, 2>>}, 1500),
              Fixed({<<3, 0>>, <<1, 2>>, <<2, 1>>, <<0, 2>>}, 500) >>

(* mutant: the amounts of the fifth and sixth tier exchanged               *)
QlcExchanged == << Floating({<<7, 0>>, <<7, 1>>}),
                   Floating({<<6, 1>>}),
                   Floating({<<6, 0>>}),
                   Fixed({<<5, 1>>}, 20000),
                   Fixed({<<5, 0>>}, 1000),
                   Fixed({<<4, 1>>}, 5000),
                   Fixed({<<4, 0>>}, 500) >>

Qlc == << Floating({<<7, 0>>, <<7, 1>>}),
          Floating({<<6, 1>>}),
          Floating({<<6, 0>>}),
          Fixed({<<5, 1>>}, 20000),
          Fixed({<<5, 0>>}, 5000),
          Fixed({<<4, 1>>}, 1000),
          Fixed({<<4, 0>>}, 500) >>

Qxc == << Floating({<<6, 1>>}),
          Floating({<<6, 0>>}),
          Fixed({<<5, 1>>}, 300000),
          Fixed({<<5, 0>>, <<4, 1>>}, 50000),
          Fixed({<<4, 0>>, <<3, 1>>}, 3000),
          Fixed({<<3, 0>>, <<2, 1>>, <<1, 1>>, <<0, 1>>}, 500) >>

Fc3d == << Fixed({<<3, 0>>}, 104000) >>
Pl3  == << Fixed({<<3, 0>>}, 104000) >>
Pl5  == << Fixed({<<5, 0>>}, 10000000) >>

(* The tables of a lottery with the day each comes into force; 0 stands    *)
(* for date.min.                                                           *)
NewRules == 20260131   \* dlt's nine tiers become seven

Since(day, table) == [from |-> day, tiers |-> table]

VersionedTables ==
  [ssq  |-> {Since(0, Ssq)},
   dlt  |-> {Since(0, Dlt2019), Since(NewRules, Dlt2026)},
   qlc  |-> {Since(0, Qlc)},
   qxc  |-> {Since(0, Qxc)},
   fc3d |-> {Since(0, Fc3d)},
   pl3  |-> {Since(0, Pl3)},
   pl5  |-> {Since(0, Pl5)}]

Latest(tables) == CHOOSE v \in tables : \A w \in tables : w.from <= v.from

(* get_tiers: the table in force on that day.                              *)
GetTiers(code, date) == Latest({v \in VersionedTables[code] : v.from <= date}).tiers

(* PRIZE_TABLES: the tables of today.                                      *)
PrizeTables == [code \in Codes |-> Latest(VersionedTables[code]).tiers]

(* _match_tier: the first tier won, or None.                               *)
MatchTier(code, hits, date) ==
  LET tiers == GetTiers(code, date)
      won == {i \in DOMAIN tiers : <<hits.front, hits.back>> \in tiers[i].hits}
  IN  IF won = {} THEN None ELSE CHOOSE i \in won : \A j \in won : i <= j

(* The amount of a tier: fixed, or None.                                   *)
AmountOf(code, tier, date) == IF tier = None THEN None ELSE GetTiers(code, date)[tier].amount

IsFloat(code, tier, date) == tier # None /\ AmountOf(code, tier, date) = None

(* mutant: the floating tiers written down once, before qlc's third        *)
FirstAndSecond == {1, 2}

(* refill_service._FLOAT_TIERS: floating tiers of any lottery of today.    *)
FloatTiers ==
  {i \in 1..9 : \E code \in Codes :
     i \in DOMAIN PrizeTables[code] /\ PrizeTables[code][i].amount = None}

(* append_multiplier, in tenths: only the first two tiers of dlt.          *)
AppendTenths(code, tier) == IF code = "dlt" /\ tier \in {1, 2} THEN 18 ELSE 10

-----------------------------------------------------------------------------

(* The most numbers a ticket can hit, <<front, back>>.                     *)
MostHits == [ssq |-> <<6, 1>>, dlt |-> <<5, 2>>, qlc |-> <<7, 1>>, qxc |-> <<6, 1>>,
             fc3d |-> <<3, 0>>, pl3 |-> <<3, 0>>, pl5 |-> <<5, 0>>]

Possible(code) == [front : 0..MostHits[code][1], back : 0..MostHits[code][2]]

Eve == 20260130

(* The tables agree with themselves on either side of the change of rules: *)
(* more hits never lose a prize or get a worse tier, and a better tier     *)
(* never pays less; and the change, which merged nine tiers of dlt into    *)
(* seven, neither made a win of any hits nor took one away.                *)
RulesAreConsistent ==
  /\ \A code \in Codes, date \in {Eve, NewRules} : \A h, g \in Possible(code) :
       LET tier == MatchTier(code, h, date)
           better == MatchTier(code, g, date)
       IN  /\ g.front >= h.front /\ g.back >= h.back /\ tier # None =>
                better # None /\ better <= tier
           /\ tier # None /\ better # None /\ better < tier =>
                \/ AmountOf(code, better, date) = None
                \/ /\ AmountOf(code, tier, date) # None
                   /\ AmountOf(code, tier, date) < AmountOf(code, better, date)
  /\ \A code \in Codes : \A h \in Possible(code) :
       MatchTier(code, h, Eve) = None <=> MatchTier(code, h, NewRules) = None
==============================================================================
