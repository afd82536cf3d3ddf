------------------------- MODULE FloatRefill_proofs -------------------------
(***************************************************************************)
(* Proofs about FloatRefill, for any rows, tickets, draws, announcements   *)
(* and ages.  First the tables of PrizeRules: every table in force has at  *)
(* most nine tiers, only the first three may float, and it agrees with     *)
(* itself, on any day; the comparators' hits are those it was compared on. *)
(* Then an inductive invariant: a row's tier is one of its lottery's and   *)
(* without an amount only when it floats; what a refill has read is a      *)
(* floating tier; what the recompare command holds fits a ticket of the    *)
(* row, and covers every refilled amount that the command takes away.      *)
(***************************************************************************)
EXTENDS FloatRefill, FiniteSetTheorems, TLAPS

Tables == {Ssq, Dlt2019, Dlt2026, Qlc, Qxc, Fc3d, Pl3, Pl5}

-----------------------------------------------------------------------------
(* The tables in force.                                                    *)

LEMMA OnlyTable ==
  ASSUME NEW t, NEW date \in Nat
  PROVE  Latest({v \in {Since(0, t)} : v.from <= date}).tiers = t
<1>1. {v \in {Since(0, t)} : v.from <= date} = {Since(0, t)}
  BY DEF Since
<1>2. Latest({Since(0, t)}) = Since(0, t)
  BY DEF Latest, Since
<1> QED BY <1>1, <1>2 DEF Since

LEMMA TwoTables ==
  ASSUME NEW t, NEW u, NEW day \in Nat, day > 0, NEW date \in Nat
  PROVE  Latest({v \in {Since(0, t), Since(day, u)} : v.from <= date}).tiers \in {t, u}
<1> DEFINE old == Since(0, t)
           new == Since(day, u)
           s == {v \in {old, new} : v.from <= date}
<1>0. /\ old.from = 0 /\ old.tiers = t
      /\ new.from = day /\ new.tiers = u
  BY DEF Since
<1> HIDE DEF old, new
<1>1. \E v \in s : \A w \in s : w.from <= v.from
  <2>1. CASE day <= date
    <3>1. new \in s
      BY <1>0, <2>1
    <3>2. \A w \in s : w.from <= new.from
      BY <1>0
    <3> QED BY <3>1, <3>2
  <2>2. CASE ~ day <= date
    <3>1. s = {old}
      BY <1>0, <2>2
    <3> QED BY <1>0, <3>1
  <2> QED BY <2>1, <2>2
<1>2. Latest(s) \in s
  BY <1>1 DEF Latest
<1>3. Latest(s).tiers \in {t, u}
  BY <1>0, <1>2
<1> QED BY <1>3 DEF old, new

(* The tables of each lottery, in the order of time.                       *)
TablesOf ==
  [ssq |-> {Ssq}, dlt |-> {Dlt2019, Dlt2026}, qlc |-> {Qlc}, qxc |-> {Qxc},
   fc3d |-> {Fc3d}, pl3 |-> {Pl3}, pl5 |-> {Pl5}]

LEMMA OneOfItsTables ==
  ASSUME NEW code \in Codes, NEW date \in Nat
  PROVE  GetTiers(code, date) \in TablesOf[code] /\ TablesOf[code] \subseteq Tables
<1>1. NewRules \in Nat /\ NewRules > 0
  BY SMT DEF NewRules
<1>2. CASE code = "dlt"
  BY <1>1, <1>2, TwoTables DEF GetTiers, Tables, TablesOf, VersionedTables
<1>3. CASE code # "dlt"
  BY <1>3, OnlyTable DEF GetTiers, Tables, TablesOf, VersionedTables, Codes
<1> QED BY <1>2, <1>3

LEMMA TablesWellFormed ==
  ASSUME NEW t \in Tables
  PROVE  /\ DOMAIN t \subseteq 1..9
         /\ \A i \in DOMAIN t : t[i].amount \in Amount
         /\ \A i \in DOMAIN t : t[i].amount = None => i \in 1..3
<1> USE NoneAssumption DEF Amount, Floating, Fixed
<1>1. CASE t = Ssq BY <1>1, SMT DEF Ssq
<1>2. CASE t = Dlt2019 BY <1>2, SMT DEF Dlt2019
<1>3. CASE t = Dlt2026 BY <1>3, SMT DEF Dlt2026
<1>4. CASE t = Qlc BY <1>4, SMT DEF Qlc
<1>5. CASE t = Qxc BY <1>5, SMT DEF Qxc
<1>6. CASE t = Fc3d BY <1>6, SMT DEF Fc3d
<1>7. CASE t = Pl3 BY <1>7, SMT DEF Pl3
<1>8. CASE t = Pl5 BY <1>8, SMT DEF Pl5
<1> QED BY <1>1, <1>2, <1>3, <1>4, <1>5, <1>6, <1>7, <1>8 DEF Tables

LEMMA LeastTier ==
  ASSUME NEW S \in SUBSET (1..9), S # {}
  PROVE  \E i \in S : \A j \in S : i <= j
<1> SUFFICES ASSUME \A i \in S : \E j \in S : j < i PROVE FALSE
  OBVIOUS
<1>1. 1 \notin S /\ 2 \notin S /\ 3 \notin S
  OBVIOUS
<1>2. 4 \notin S /\ 5 \notin S /\ 6 \notin S
  BY <1>1
<1>3. 7 \notin S /\ 8 \notin S /\ 9 \notin S
  BY <1>1, <1>2
<1>4. PICK i \in S : TRUE
  OBVIOUS
<1>5. i \in 1..9
  OBVIOUS
<1> QED
  BY <1>1, <1>2, <1>3, <1>4, <1>5

(* The first tier that the hits win, if they win any.                      *)
LEMMA FirstTier ==
  ASSUME NEW code \in Codes, NEW date \in Nat, NEW h
  PROVE  LET t == GetTiers(code, date)
             tier == MatchTier(code, h, date)
         IN  \/ /\ tier = None
                /\ \A i \in DOMAIN t : <<h.front, h.back>> \notin t[i].hits
             \/ /\ tier \in DOMAIN t /\ tier \in 1..9 /\ tier # None
                /\ <<h.front, h.back>> \in t[tier].hits
                /\ \A i \in DOMAIN t : <<h.front, h.back>> \in t[i].hits => tier <= i
<1> DEFINE t == GetTiers(code, date)
           tier == MatchTier(code, h, date)
           won == {i \in DOMAIN t : <<h.front, h.back>> \in t[i].hits}
<1>1. tier = IF won = {} THEN None ELSE CHOOSE i \in won : \A j \in won : i <= j
  BY DEF MatchTier
<1>2. DOMAIN t \subseteq 1..9 /\ won \subseteq 1..9
  BY OneOfItsTables, TablesWellFormed
<1>3. CASE won = {}
  BY <1>1, <1>3
<1>4. CASE won # {}
  <2>1. \E i \in won : \A j \in won : i <= j
    <3> HIDE DEF won
    <3> QED
      BY <1>2, <1>4, LeastTier
  <2>2. tier \in won /\ \A j \in won : tier <= j
    <3> HIDE DEF won
    <3> QED
      BY <1>1, <1>4, <2>1
  <2> QED
    BY <1>2, <2>2, NoneAssumption
<1> QED
  BY <1>3, <1>4

(* The lotteries that no source knows have fixed amounts only.             *)
LEMMA UnroutedAreFixed ==
  ASSUME NEW code \in Codes \ (CwlCodes \cup SportteryCodes), NEW date \in Nat
  PROVE  \A i \in DOMAIN GetTiers(code, date) : GetTiers(code, date)[i].amount # None
<1>1. code \in {"fc3d", "pl3", "pl5"}
  BY DEF Codes, CwlCodes, SportteryCodes
<1>2. GetTiers(code, date) \in {Fc3d, Pl3, Pl5}
  <2>1. VersionedTables[code] \in {{Since(0, Fc3d)}, {Since(0, Pl3)}, {Since(0, Pl5)}}
    BY <1>1 DEF VersionedTables
  <2> QED BY <2>1, OnlyTable DEF GetTiers
<1>3. \A t \in {Fc3d, Pl3, Pl5} : \A i \in DOMAIN t : t[i].amount # None
  BY NoneAssumption, SMT DEF Fc3d, Pl3, Pl5, Fixed
<1> QED BY <1>2, <1>3

LEMMA RoutedMayAnnounce ==
  ASSUME NEW code \in CwlCodes \cup SportteryCodes
  PROVE  "amount" \in Outcomes(code)
<1>1. CASE code \in CwlCodes
  <2>1. "amount" \in DOMAIN CwlLookup /\ CwlLookup["amount"] = "amount"
    BY DEF CwlLookup
  <2> QED BY <1>1, <2>1 DEF Outcomes
<1>2. CASE code \notin CwlCodes
  <2>1. "amount" \in DOMAIN JsonLookup /\ JsonLookup["amount"] = "amount"
    BY DEF JsonLookup
  <2>2. "amount" \in DOMAIN PdfLookup
    BY DEF PdfLookup
  <2>3. SportteryLookup("amount", "amount") = "amount"
    BY <2>1 DEF SportteryLookup
  <2> QED BY <1>2, <2>1, <2>2, <2>3 DEF Outcomes
<1> QED BY <1>1, <1>2

LEMMA QlcInForce == PrizeTables["qlc"] = Qlc
<1>1. Latest({Since(0, Qlc)}) = Since(0, Qlc)
  BY DEF Latest, Since
<1>2. VersionedTables["qlc"] = {Since(0, Qlc)}
  BY DEF VersionedTables
<1>3. "qlc" \in Codes
  BY DEF Codes
<1>4. PrizeTables["qlc"] = Latest(VersionedTables["qlc"]).tiers
  BY <1>3 DEF PrizeTables
<1> QED BY <1>1, <1>2, <1>4 DEF Since

LEMMA FirstThreeFloat == 1..3 \subseteq FloatTiers /\ FloatTiers \subseteq 1..9
<1>1. \A i \in 1..3 : i \in DOMAIN Qlc /\ Qlc[i].amount = None
  BY SMT DEF Qlc, Floating, Fixed
<1> QED BY <1>1, QlcInForce DEF FloatTiers, Codes

-----------------------------------------------------------------------------
(* The rules agree with themselves.                                        *)

(* More hits of either kind win a tier that is no worse.                   *)
Grows(t, front, back) ==
  \A f, g \in 0 .. front, b, c \in 0 .. back : \A i \in DOMAIN t :
    f <= g /\ b <= c /\ <<f, b>> \in t[i].hits =>
      \E j \in DOMAIN t : j <= i /\ <<g, c>> \in t[j].hits

LEMMA TablesGrow ==
  ASSUME NEW code \in Codes, NEW t \in TablesOf[code]
  PROVE  Grows(t, MostHits[code][1], MostHits[code][2])
<1> USE DEF Floating, Fixed, Grows
<1>1. Grows(Ssq, 6, 1) BY SMT DEF Ssq
<1>2. Grows(Dlt2019, 5, 2) BY SMT DEF Dlt2019
<1>3. Grows(Dlt2026, 5, 2) BY SMT DEF Dlt2026
<1>4. Grows(Qlc, 7, 1) BY SMT DEF Qlc
<1>5. Grows(Qxc, 6, 1) BY SMT DEF Qxc
<1>6. Grows(Fc3d, 3, 0) BY SMT DEF Fc3d
<1>7. Grows(Pl3, 3, 0) BY SMT DEF Pl3
<1>8. Grows(Pl5, 5, 0) BY SMT DEF Pl5
<1> HIDE DEF Floating, Fixed, Grows
<1> QED
  BY <1>1, <1>2, <1>3, <1>4, <1>5, <1>6, <1>7, <1>8 DEF Codes, TablesOf, MostHits

(* A better tier of a table floats or pays more.                           *)
Descends(t) ==
  \A i, j \in DOMAIN t : i < j =>
    t[i].amount = None \/ (t[j].amount # None /\ t[j].amount < t[i].amount)

LEMMA TablesDescend ==
  ASSUME NEW t \in Tables PROVE Descends(t)
<1> USE NoneAssumption DEF Floating, Fixed, Descends
<1>1. Descends(Ssq) BY SMT DEF Ssq
<1>2. Descends(Dlt2019) BY SMT DEF Dlt2019
<1>3. Descends(Dlt2026) BY SMT DEF Dlt2026
<1>4. Descends(Qlc) BY SMT DEF Qlc
<1>5. Descends(Qxc) BY SMT DEF Qxc
<1>6. Descends(Fc3d) BY SMT DEF Fc3d
<1>7. Descends(Pl3) BY SMT DEF Pl3
<1>8. Descends(Pl5) BY SMT DEF Pl5
<1> HIDE DEF Floating, Fixed, Descends
<1> QED
  BY <1>1, <1>2, <1>3, <1>4, <1>5, <1>6, <1>7, <1>8 DEF Tables

(* The nine tiers of dlt and the seven that replaced them are won by the   *)
(* same hits.                                                              *)
LEMMA SameWins ==
  ASSUME NEW f \in 0 .. 5, NEW b \in 0 .. 2
  PROVE  (\E i \in DOMAIN Dlt2019 : <<f, b>> \in Dlt2019[i].hits)
           <=> (\E i \in DOMAIN Dlt2026 : <<f, b>> \in Dlt2026[i].hits)
BY SMT DEF Dlt2019, Dlt2026, Floating, Fixed

(* The rules of any lottery agree with themselves on every day, and from   *)
(* one day to another (get_tiers, _match_tier and the prize tables).       *)
LEMMA RulesOfADay ==
  ASSUME NEW code \in Codes, NEW date \in Nat, NEW h \in Possible(code), NEW g \in Possible(code),
         NEW tier, tier = MatchTier(code, h, date), tier # None,
         NEW better, better = MatchTier(code, g, date)
  PROVE  /\ g.front >= h.front /\ g.back >= h.back => better # None /\ better <= tier
         /\ better # None /\ better < tier =>
              \/ AmountOf(code, better, date) = None
              \/ /\ AmountOf(code, tier, date) # None
                 /\ AmountOf(code, tier, date) < AmountOf(code, better, date)
<1> DEFINE t == GetTiers(code, date)
<1>1. t \in TablesOf[code] /\ t \in Tables
  BY OneOfItsTables
<1>2. /\ tier \in DOMAIN t /\ tier \in 1..9
      /\ <<h.front, h.back>> \in t[tier].hits
  BY FirstTier
<1>3. \/ better = None /\ \A i \in DOMAIN t : <<g.front, g.back>> \notin t[i].hits
      \/ /\ better \in DOMAIN t /\ better \in 1..9 /\ better # None
         /\ \A i \in DOMAIN t : <<g.front, g.back>> \in t[i].hits => better <= i
  BY FirstTier
<1>4. ASSUME g.front >= h.front, g.back >= h.back PROVE better # None /\ better <= tier
  <2>1. Grows(t, MostHits[code][1], MostHits[code][2])
    BY <1>1, TablesGrow
  <2>2. /\ h.front \in 0 .. MostHits[code][1] /\ h.back \in 0 .. MostHits[code][2]
        /\ g.front \in 0 .. MostHits[code][1] /\ g.back \in 0 .. MostHits[code][2]
    BY DEF Possible
  <2>3. \E j \in DOMAIN t : j <= tier /\ <<g.front, g.back>> \in t[j].hits
    BY <1>2, <1>4, <2>1, <2>2 DEF Grows
  <2>4. DOMAIN t \subseteq 1..9
    BY <1>1, TablesWellFormed
  <2> HIDE DEF t
  <2> QED
    BY <1>2, <1>3, <2>3, <2>4
<1>5. ASSUME better # None, better < tier
      PROVE  \/ AmountOf(code, better, date) = None
             \/ /\ AmountOf(code, tier, date) # None
                /\ AmountOf(code, tier, date) < AmountOf(code, better, date)
  <2>1. Descends(t)
    BY <1>1, TablesDescend
  <2>2. AmountOf(code, tier, date) = t[tier].amount /\ AmountOf(code, better, date) = t[better].amount
    BY <1>5 DEF AmountOf
  <2> HIDE DEF t
  <2> QED
    BY <1>2, <1>3, <1>5, <2>1, <2>2 DEF Descends
<1> QED
  BY <1>4, <1>5

LEMMA WinsOfTwoDays ==
  ASSUME NEW code \in Codes, NEW h \in Possible(code), NEW date \in Nat, NEW day \in Nat
  PROVE  MatchTier(code, h, date) = None <=> MatchTier(code, h, day) = None
<1> DEFINE t == GetTiers(code, date)
           u == GetTiers(code, day)
           Won(v) == \E i \in DOMAIN v : <<h.front, h.back>> \in v[i].hits
<1>1. t \in TablesOf[code] /\ u \in TablesOf[code]
  BY OneOfItsTables
<1>2. MatchTier(code, h, date) = None <=> ~ Won(t)
  BY FirstTier
<1>3. MatchTier(code, h, day) = None <=> ~ Won(u)
  BY FirstTier
<1>4. Won(t) <=> Won(u)
  <2>1. CASE code = "dlt"
    <3>1. h.front \in 0 .. 5 /\ h.back \in 0 .. 2
      BY <2>1 DEF Possible, MostHits
    <3>2. t \in {Dlt2019, Dlt2026} /\ u \in {Dlt2019, Dlt2026}
      BY <1>1, <2>1 DEF TablesOf
    <3>3. Won(Dlt2019) <=> Won(Dlt2026)
      BY <3>1, SameWins
    <3> HIDE DEF t, u, Won
    <3> QED
      BY <3>2, <3>3
  <2>2. CASE code # "dlt"
    <3>1. t = u
      BY <1>1, <2>2 DEF TablesOf, Codes
    <3> QED
      BY <3>1
  <2> QED
    BY <2>1, <2>2
<1> QED
  BY <1>2, <1>3, <1>4

THEOREM RulesAgree == RulesAreConsistent
<1>1. Eve \in Nat /\ NewRules \in Nat
  BY DEF Eve, NewRules
<1> QED
  BY <1>1, RulesOfADay, WinsOfTwoDays DEF RulesAreConsistent

-----------------------------------------------------------------------------
(* From numbers to hits.                                                   *)

(* No more numbers than the lottery asks for (SPECS).                      *)
WellFormed(code, nums) ==
  /\ nums \in Numbers
  /\ Len(nums.front) <= MostHits[code][1]
  /\ Len(nums.back) <= MostHits[code][2]

LEMMA ValuesOf ==
  ASSUME NEW s \in Seq(Nat)
  PROVE  /\ IsFiniteSet({s[i] : i \in DOMAIN s})
         /\ Cardinality({s[i] : i \in DOMAIN s}) <= Len(s)
<1> DEFINE n == Len(s)
           T == {s[i] : i \in DOMAIN s}
           f == [i \in 1..n |-> s[i]]
<1>1. n \in Nat /\ DOMAIN s = 1..n
  OBVIOUS
<1>2. f \in Surjection(1..n, T)
  BY <1>1 DEF Surjection
<1>3. ExistsSurjection(1..n, T)
  BY <1>2 DEF ExistsSurjection
<1> QED
  BY <1>1, <1>3, FS_NatSurjection, FS_SurjCardinalityBound

LEMMA InCommonBound ==
  ASSUME NEW s, NEW t \in Seq(Nat)
  PROVE  InCommon(s, t) \in 0 .. Len(t)
<1> DEFINE S == {s[i] : i \in DOMAIN s}
           T == {t[i] : i \in DOMAIN t}
<1>1. IsFiniteSet(T) /\ Cardinality(T) <= Len(t)
  BY ValuesOf
<1>2. IsFiniteSet(S \cap T) /\ Cardinality(S \cap T) <= Cardinality(T)
  BY <1>1, FS_Intersection
<1>3. Cardinality(S \cap T) \in Nat /\ Cardinality(T) \in Nat
  BY <1>1, <1>2, FS_CardinalityType
<1>4. InCommon(s, t) = Cardinality(S \cap T)
  BY DEF InCommon
<1> HIDE DEF S, T
<1> QED
  BY <1>1, <1>2, <1>3, <1>4

LEMMA InPlaceBound ==
  ASSUME NEW s, NEW t \in Seq(Nat)
  PROVE  InPlace(s, t) \in 0 .. Len(t)
<1> DEFINE P == {i \in DOMAIN s \cap DOMAIN t : s[i] = t[i]}
<1>1. P \subseteq 1 .. Len(t) /\ Len(t) \in Nat
  OBVIOUS
<1>2. IsFiniteSet(1 .. Len(t)) /\ Cardinality(1 .. Len(t)) = Len(t)
  <2>1. /\ IsFiniteSet(1 .. Len(t))
        /\ Cardinality(1 .. Len(t)) = IF 1 > Len(t) THEN 0 ELSE Len(t) - 1 + 1
    BY <1>1, 1 \in Int, Len(t) \in Int, FS_Interval
  <2> QED
    BY <1>1, <2>1
<1>3. IsFiniteSet(P) /\ Cardinality(P) <= Len(t)
  BY <1>1, <1>2, FS_Subset
<1>4. Cardinality(P) \in Nat
  BY <1>3, FS_CardinalityType
<1> QED
  BY <1>3, <1>4 DEF InPlace

(* The comparators return hits of the range that the tables agree on.      *)
LEMMA HitsArePossible ==
  ASSUME NEW code \in Codes, NEW d, NEW c, WellFormed(code, c)
  PROVE  Hits(code, d, c) \in Possible(code)
<1>1. c.front \in Seq(Nat) /\ c.back \in Seq(Nat)
  BY DEF WellFormed, Numbers
<1>2. /\ InCommon(d.front, c.front) \in 0 .. Len(c.front)
      /\ InCommon(d.back, c.back) \in 0 .. Len(c.back)
      /\ InPlace(d.front, c.front) \in 0 .. Len(c.front)
  BY <1>1, InCommonBound, InPlaceBound
<1>3. /\ MostHits[code][1] \in Nat /\ MostHits[code][2] \in Nat
      /\ Len(c.front) \in Nat /\ Len(c.front) <= MostHits[code][1]
      /\ Len(c.back) \in Nat /\ Len(c.back) <= MostHits[code][2]
  BY <1>1 DEF WellFormed, MostHits, Codes
<1>4. /\ InCommon(d.front, c.front) \in 0 .. MostHits[code][1]
      /\ InCommon(d.back, c.back) \in 0 .. MostHits[code][2]
      /\ InPlace(d.front, c.front) \in 0 .. MostHits[code][1]
      /\ 0 \in 0 .. MostHits[code][2]
  BY <1>2, <1>3
<1>5. CASE code \in {"ssq", "dlt", "qlc"}
  BY <1>4, <1>5 DEF Hits, Partition, Possible
<1>6. CASE code = "qxc"
  <2>1. MostHits[code][2] = 1
    BY <1>6 DEF MostHits
  <2> QED
    BY <1>4, <1>6, <2>1 DEF Hits, QxcHybrid, Possible
<1>7. CASE code \in {"fc3d", "pl3", "pl5"}
  BY <1>4, <1>7 DEF Hits, Positional, Possible
<1> QED
  BY <1>5, <1>6, <1>7 DEF Codes

(* A ticket that hits at least as many numbers of either kind as another   *)
(* wins whenever the other does, and no worse a tier, on any day and in    *)
(* any lottery (compare).                                                  *)
THEOREM MoreHitsNeverLose ==
  ASSUME NEW code \in Codes, NEW date \in Nat, NEW d, NEW a, NEW b,
         WellFormed(code, a), WellFormed(code, b),
         Hits(code, d, b).front >= Hits(code, d, a).front,
         Hits(code, d, b).back >= Hits(code, d, a).back,
         MatchTier(code, Hits(code, d, a), date) # None
  PROVE  /\ MatchTier(code, Hits(code, d, b), date) # None
         /\ MatchTier(code, Hits(code, d, b), date) <= MatchTier(code, Hits(code, d, a), date)
<1>1. Hits(code, d, a) \in Possible(code) /\ Hits(code, d, b) \in Possible(code)
  BY HitsArePossible
<1> QED
  BY <1>1, RulesOfADay

-----------------------------------------------------------------------------
(* The inductive invariant.                                                *)

TiersOf(r) == DOMAIN GetTiers(Code[r], DrawDate[r])
Floats(r, tier) == IsFloat(Code[r], tier, DrawDate[r])
Fits(r, tier, amount) == \E t \in Tickets[r] : amount = Worth(r, tier, t)

WonTiers ==
  \A r \in Rows : row[r].tier # None =>
    /\ row[r].tier \in TiersOf(r)
    /\ row[r].amount = None => Floats(r, row[r].tier)

ReadFloating ==
  \A p \in Processes : \A r \in batch[p] :
    /\ row[r] \in Row
    /\ read[p][r].tier \in TiersOf(r)
    /\ Floats(r, read[p][r].tier)

KeptFits ==
  \A r \in Rows : kept[r].tier # None =>
    /\ kept[r].amount # None
    /\ ~ kept[r].bad => Fits(r, kept[r].tier, kept[r].amount)

FilledFloats ==
  \A r \in filled : row[r].tier # None /\ Floats(r, row[r].tier)

HeldIsKept ==
  \A r \in held :
    redo[r] = "compare" /\ row[r].tier \notin Reclassified(r) =>
      kept[r].tier = row[r].tier

FilledOrKept ==
  \A r \in filled :
    row[r].amount # None \/ (redo[r] = "restore" /\ kept[r].tier = row[r].tier)

RowsInv  == WonTiers /\ ReadFloating
CliShape ==
  /\ cli # "redo" => \A r \in Rows : redo[r] = "no"
  /\ stage["cli"] = "rows" => cli = "refill"

FillInv  == CliShape /\ FilledFloats /\ HeldIsKept /\ FilledOrKept
IInv == TypeOK /\ RowsInv /\ KeptFits /\ AmountFitsTier /\ FillInv

-----------------------------------------------------------------------------
(* What the operators return.                                              *)

LEMMA TiersFit ==
  ASSUME NEW r \in Rows
  PROVE  /\ TiersOf(r) \subseteq 1..9
         /\ \A i \in TiersOf(r) : AmountOf(Code[r], i, DrawDate[r]) \in Amount
         /\ \A i \in TiersOf(r) : Floats(r, i) => i \in FloatTiers
         /\ ~ Floats(r, None)
<1>1. Code[r] \in Codes /\ DrawDate[r] \in Nat
  BY RefillAssumption
<1>2. GetTiers(Code[r], DrawDate[r]) \in Tables
  BY <1>1, OneOfItsTables
<1>3. None \notin 1..9
  BY NoneAssumption
<1>4. \A i \in TiersOf(r) :
       AmountOf(Code[r], i, DrawDate[r]) = GetTiers(Code[r], DrawDate[r])[i].amount
  BY <1>2, <1>3, TablesWellFormed DEF TiersOf, AmountOf
<1>5. TiersOf(r) \subseteq 1..9
  BY <1>2, TablesWellFormed DEF TiersOf
<1>6. \A i \in TiersOf(r) : AmountOf(Code[r], i, DrawDate[r]) \in Amount
  BY <1>2, <1>4, TablesWellFormed DEF TiersOf
<1>7. \A i \in TiersOf(r) : Floats(r, i) => i \in FloatTiers
  BY <1>2, <1>4, TablesWellFormed, FirstThreeFloat DEF TiersOf, Floats, IsFloat
<1>8. ~ Floats(r, None)
  BY DEF Floats, IsFloat
<1> QED
  BY <1>5, <1>6, <1>7, <1>8

LEMMA VerdictFits ==
  ASSUME NEW r \in Rows
  PROVE  Verdict(r) \in TiersOf(r) \cup {None}
<1>1. Code[r] \in Codes /\ DrawDate[r] \in Nat
  BY RefillAssumption
<1> DEFINE hits == Hits(Code[r], draw[r], ticket[r].combo)
           tier == MatchTier(Code[r], hits, DrawDate[r])
<1>2. tier \in TiersOf(r) \/ tier = None
  BY <1>1, FirstTier DEF TiersOf
<1> QED
  BY <1>2 DEF Verdict

LEMMA TicketsFit ==
  ASSUME NEW r \in Rows, NEW t \in Tickets[r]
  PROVE  t.multiplier \in Nat /\ t.append \in BOOLEAN
BY RefillAssumption DEF Ticket

LEMMA PrizeFits ==
  ASSUME NEW r \in Rows, NEW tier \in TiersOf(r), NEW t \in Tickets[r]
  PROVE  Prize(r, tier, t) \in Nat
<1>1. tier \in 1..9
  BY TiersFit
<1>2. Official[r][tier] \in Nat
  BY <1>1, RefillAssumption
<1>3. t.multiplier \in Nat /\ t.append \in BOOLEAN
  BY TicketsFit
<1>4. \A n \in Nat : n \div 10 \in Nat
  OBVIOUS
<1>5. \A m, n \in Nat : m * n \in Nat
  OBVIOUS
<1>6. AppendTenths(Code[r], tier) \in Nat
  BY DEF AppendTenths
<1> DEFINE tenths == IF t.append THEN AppendTenths(Code[r], tier) ELSE 10
<1>7. tenths \in Nat
  BY <1>6
<1> HIDE DEF tenths
<1>8. (Official[r][tier] * tenths) \div 10 \in Nat
  BY <1>2, <1>4, <1>5, <1>7
<1>9. ((Official[r][tier] * tenths) \div 10) * t.multiplier \in Nat
  BY <1>3, <1>5, <1>8
<1> QED
  BY <1>9 DEF Prize, tenths

LEMMA JudgedFits ==
  ASSUME TypeOK, NEW r \in Rows
  PROVE  /\ Judged(r) \in Row
         /\ Judged(r).tier = Verdict(r)
         /\ Judged(r).tier # None =>
              /\ Judged(r).tier \in TiersOf(r)
              /\ Judged(r).amount = None => Floats(r, Judged(r).tier)
         /\ Judged(r).amount # None => Fits(r, Judged(r).tier, Judged(r).amount)
<1> DEFINE tier == Verdict(r)
           cents == AmountOf(Code[r], tier, DrawDate[r])
           amount == FixedAmount(r, tier)
<1>1. ticket[r] \in Tickets[r] /\ row[r] \in Row \cup {NoRow} /\ now \in Nat
  BY DEF TypeOK, TablesOK
<1>2. ticket[r].multiplier \in Nat
  BY <1>1, TicketsFit
<1>3. tier \in TiersOf(r) \cup {None}
  BY VerdictFits
<1>4. tier = None => cents = None
  BY DEF AmountOf
<1>5. cents \in Amount
  BY <1>3, <1>4, TiersFit DEF Amount
<1>6. amount = IF cents = None THEN None ELSE cents * ticket[r].multiplier
  BY DEF FixedAmount
<1>7. \A m, n \in Nat : m * n \in Nat
  OBVIOUS
<1>8. amount \in Amount /\ (cents # None => amount # None)
  BY <1>2, <1>5, <1>6, <1>7, NoneAssumption DEF Amount
<1>9. Floats(r, tier) <=> tier # None /\ cents = None
  BY DEF Floats, IsFloat
<1>10. ASSUME amount # None PROVE amount = Worth(r, tier, ticket[r])
  <2>1. cents # None /\ tier # None /\ ~ Floats(r, tier)
    BY <1>4, <1>6, <1>9, <1>10
  <2> QED
    BY <2>1, <1>6 DEF Worth, Floats
<1>11. tier \in Tier
  BY <1>3, TiersFit DEF Tier
<1> HIDE DEF tier, amount, cents
<1>12. /\ Judged(r) \in Row
       /\ Judged(r).tier = tier /\ Judged(r).amount = amount
  <2>1. row[r] # NoRow => row[r].created \in Nat
    BY <1>1 DEF Row
  <2> QED
    BY <1>1, <1>8, <1>11, <2>1 DEF Judged, Row, tier, amount
<1> QED
  BY <1>1, <1>3, <1>6, <1>8, <1>9, <1>10, <1>12 DEF Fits, tier, amount

(* A row in a floating tier is a real row, and its tier is read correctly. *)
LEMMA OpenFloats ==
  ASSUME TypeOK, WonTiers, NEW r \in Rows, Open(r)
  PROVE  row[r] \in Row /\ row[r].tier \in TiersOf(r) /\ Floats(r, row[r].tier)
<1>1. row[r].tier # None
  BY FirstThreeFloat, NoneAssumption DEF Open
<1>2. row[r] \in Row
  BY <1>1 DEF TypeOK, TablesOK, NoRow
<1> QED
  BY <1>1, <1>2 DEF WonTiers, Open

-----------------------------------------------------------------------------
(* Initial states and steps.                                               *)

LEMMA UnreadFits ==
  /\ Unread \in [Rows -> Reading]
  /\ \A r \in Rows : Unread[r].ticket \in Tickets[r]
<1>1. \A r \in Rows : (CHOOSE t \in Tickets[r] : TRUE) \in Tickets[r]
  BY RefillAssumption
<1> QED
  BY <1>1 DEF Unread, Reading, Tier

(* A row with a tier has been judged.                                      *)
LEMMA RowTypes ==
  ASSUME TypeOK, NEW r \in Rows
  PROVE  /\ row[r].tier \in Tier /\ row[r].amount \in Amount
         /\ row[r].tier # None => row[r] \in Row
<1>1. row[r] \in Row \/ row[r] = NoRow
  BY DEF TypeOK, TablesOK
<1>2. CASE row[r] = NoRow
  BY <1>2 DEF NoRow, Tier, Amount
<1>3. CASE row[r] \in Row
  BY <1>3 DEF Row
<1> QED
  BY <1>1, <1>2, <1>3

(* All that asking for a row can change of it.                             *)
LEMMA AskChanges ==
  ASSUME row \in [Rows -> Row \cup {NoRow}], NEW p \in Processes, NEW r \in Rows, Ask(p, r)
  PROVE  \A q \in Rows : /\ q # r => row'[q] = row[q]
                         /\ row'[q].tier = row[q].tier
                         /\ row'[q].created = row[q].created
                         /\ row'[q].corrected = row[q].corrected
<1>1. CASE Announced(p, r)
  BY <1>1 DEF Announced, Row, NoRow
<1>2. CASE NotYet
  BY <1>2 DEF NotYet
<1>3. CASE PermanentError(p, r)
  BY <1>3 DEF PermanentError, Row, NoRow
<1> QED
  BY <1>1, <1>2, <1>3 DEF Ask

LEMMA InitIInv == Init => IInv
<1> SUFFICES ASSUME Init PROVE IInv
  OBVIOUS
<1>1. TablesOK
  BY DEF Init, TablesOK
<1>2. JobsOK
  BY UnreadFits DEF Init, JobsOK, Kept, Nothing, Tier, Amount, Processes
<1>3. HistoryOK
  BY DEF Init, HistoryOK
<1>4. RowsInv
  BY DEF Init, RowsInv, WonTiers, ReadFloating, NoRow
<1>5. KeptFits /\ AmountFitsTier
  BY DEF Init, KeptFits, AmountFitsTier, NoRow, Nothing
<1>6. FillInv
  BY DEF Init, FillInv, CliShape, Processes, FilledFloats, HeldIsKept, FilledOrKept
<1> QED
  BY <1>1, <1>2, <1>3, <1>4, <1>5, <1>6 DEF IInv, TypeOK

(* Every step keeps the types.                                             *)
LEMMA StepTypes ==
  ASSUME TypeOK, RowsInv, [Next]_vars
  PROVE  TablesOK' /\ JobsOK' /\ HistoryOK'
<1> USE DEF TypeOK
<1> USE DEF refillVars, cliVars, ghostVars, answerVars, boundVars, Processes
<1>1. ASSUME NEW r \in Rows, Compare(r) PROVE TablesOK' /\ JobsOK' /\ HistoryOK'
  <2>1. TablesOK'
    BY <1>1, JudgedFits DEF TablesOK, Compare
  <2>2. JobsOK'
    BY <1>1 DEF JobsOK, Compare
  <2>3. HistoryOK'
    BY <1>1 DEF HistoryOK, Compare, AnswersLapse
  <2> QED
    BY <2>1, <2>2, <2>3
<1>2. ASSUME NEW r \in Rows, NEW d \in DrawNumbers[r], Reopen(r, d)
      PROVE  TablesOK' /\ JobsOK' /\ HistoryOK'
  <2>1. TablesOK'
    BY <1>2 DEF TablesOK, Reopen
  <2>2. JobsOK'
    BY <1>2 DEF JobsOK, Reopen
  <2>3. HistoryOK'
    BY <1>2 DEF HistoryOK, Reopen
  <2> QED
    BY <2>1, <2>2, <2>3
<1>3. ASSUME NEW r \in Rows, NEW t \in Tickets[r], EditTicket(r, t)
      PROVE  TablesOK' /\ JobsOK' /\ HistoryOK'
  <2>1. TablesOK'
    BY <1>3 DEF TablesOK, EditTicket
  <2>2. JobsOK'
    BY <1>3 DEF JobsOK, EditTicket
  <2>3. HistoryOK'
    BY <1>3 DEF HistoryOK, EditTicket
  <2> QED
    BY <2>1, <2>2, <2>3
<1>4. ASSUME StartRefill PROVE TablesOK' /\ JobsOK' /\ HistoryOK'
  <2>1. TablesOK'
    BY <1>4 DEF TablesOK, StartRefill, BeginRefill
  <2>2. HistoryOK'
    BY <1>4 DEF HistoryOK, StartRefill, BeginRefill
  <2>3. \A q \in Rows : row[q].tier \in Tier
    BY RowTypes
  <2>4. Selected(now - MaxAge) \subseteq Rows
    BY DEF Selected
  <2>5. now - MaxAge \in Int
    BY RefillAssumption DEF TablesOK
  <2>6. JobsOK'
    BY <1>4, <2>3, <2>4, <2>5, UnreadFits DEF TablesOK, JobsOK, StartRefill, BeginRefill, Reading
  <2> QED
    BY <2>1, <2>2, <2>6
<1>5. ASSUME ForceRefill PROVE TablesOK' /\ JobsOK' /\ HistoryOK'
  <2>1. TablesOK'
    BY <1>5 DEF TablesOK, ForceRefill, BeginRefill
  <2>2. HistoryOK'
    BY <1>5 DEF HistoryOK, ForceRefill, BeginRefill
  <2>3. \A q \in Rows : row[q].tier \in Tier
    BY RowTypes
  <2>4. Selected(None) \subseteq Rows
    BY DEF Selected
  <2>6. JobsOK'
    BY <1>5, <2>3, <2>4, UnreadFits DEF TablesOK, JobsOK, ForceRefill, BeginRefill, Reading
  <2> QED
    BY <2>1, <2>2, <2>6
<1>6. ASSUME NEW p \in Processes, NEW r \in Rows, Ask(p, r)
      PROVE  TablesOK' /\ JobsOK' /\ HistoryOK'
  <2>1. row' \in [Rows -> Row \cup {NoRow}]
    <3>1. row[r] \in Row
      BY <1>6 DEF JobsOK, Ask, RowsInv, ReadFloating
    <3>2. CASE Announced(p, r)
      <4>1. Prize(r, read[p][r].tier, read[p][r].ticket) \in Amount
        BY <1>6, PrizeFits DEF JobsOK, Ask, RowsInv, ReadFloating, Amount
      <4> QED
        BY <3>1, <3>2, <4>1 DEF TablesOK, Announced, Row
    <3>3. CASE NotYet
      BY <3>3 DEF TablesOK, NotYet
    <3>4. CASE PermanentError(p, r)
      BY <3>1, <3>4 DEF TablesOK, PermanentError, Row
    <3> QED
      BY <1>6, <3>2, <3>3, <3>4 DEF Ask
  <2>2. TablesOK'
    BY <1>6, <2>1 DEF TablesOK, Ask
  <2>3. JobsOK'
    BY <1>6 DEF JobsOK, Ask
  <2>4. HistoryOK'
    <3>1. asked' \subseteq Rows /\ held' = held /\ changes' = changes /\ crashes' = crashes
      BY <1>6 DEF HistoryOK, Ask, AskFor
    <3>2. /\ crossed' \subseteq Rows /\ filled' \subseteq Rows
          /\ refused' \subseteq Rows /\ mistaken' \subseteq Rows
      BY <1>6 DEF HistoryOK, Ask, Announced, NotYet, PermanentError
    <3> QED
      BY <3>1, <3>2 DEF HistoryOK
  <2> QED
    BY <2>2, <2>3, <2>4
<1>7. ASSUME NEW p \in Processes, NEW r \in Rows, WriteFails(p, r)
      PROVE  TablesOK' /\ JobsOK' /\ HistoryOK'
  <2>1. TablesOK'
    BY <1>7 DEF TablesOK, WriteFails
  <2>2. JobsOK'
    BY <1>7 DEF JobsOK, WriteFails
  <2>3. HistoryOK'
    BY <1>7 DEF HistoryOK, WriteFails, AskFor
  <2> QED
    BY <2>1, <2>2, <2>3
<1>8. ASSUME NEW p \in Processes, NEW success \in BOOLEAN, MarkExpired(p, success)
      PROVE  TablesOK' /\ JobsOK' /\ HistoryOK'
  <2>1. TablesOK'
    <3>1. \A r \in Expired(p) : row[r] \in Row
      BY OpenFloats DEF Expired, RowsInv
    <3>2. row' \in [Rows -> Row \cup {NoRow}]
      BY <1>8, <3>1 DEF TablesOK, MarkExpired, Row
    <3> QED
      BY <1>8, <3>2 DEF TablesOK, MarkExpired
  <2>2. JobsOK'
    BY <1>8, UnreadFits DEF JobsOK, MarkExpired, Forget
  <2>3. HistoryOK'
    BY <1>8 DEF HistoryOK, MarkExpired
  <2> QED
    BY <2>1, <2>2, <2>3
<1>9. ASSUME StartRecompare PROVE TablesOK' /\ JobsOK' /\ HistoryOK'
  <2>1. TablesOK'
    BY <1>9 DEF TablesOK, StartRecompare
  <2>2. JobsOK'
    BY <1>9 DEF JobsOK, StartRecompare
  <2>3. HistoryOK'
    BY <1>9 DEF HistoryOK, StartRecompare
  <2> QED
    BY <2>1, <2>2, <2>3
<1>10. ASSUME NEW r \in Rows, Snapshot(r) PROVE TablesOK' /\ JobsOK' /\ HistoryOK'
  <2>1. TablesOK'
    BY <1>10 DEF TablesOK, Snapshot
  <2>2. JobsOK'
    <3>1. Preserved(r) => row[r] \in Row
      BY RowTypes DEF Preserved, IsFloat
    <3>2. (IF Preserved(r)
           THEN [tier |-> row[r].tier, amount |-> row[r].amount, bad |-> r \in crossed]
           ELSE Nothing) \in Kept
      BY <3>1, RowTypes DEF Kept, Nothing, Tier, Amount
    <3> QED
      BY <1>10, <3>2 DEF JobsOK, Snapshot
  <2>3. HistoryOK'
    BY <1>10 DEF HistoryOK, Snapshot
  <2> QED
    BY <2>1, <2>2, <2>3
<1>11. ASSUME NEW r \in Rows, CompareAgain(r) PROVE TablesOK' /\ JobsOK' /\ HistoryOK'
  <2>1. TablesOK'
    BY <1>11, JudgedFits DEF TablesOK, CompareAgain
  <2>2. JobsOK'
    BY <1>11 DEF JobsOK, CompareAgain
  <2>3. HistoryOK'
    BY <1>11 DEF HistoryOK, CompareAgain, AnswersLapse
  <2> QED
    BY <2>1, <2>2, <2>3
<1>12. ASSUME NEW r \in Rows, SkipDraw(r) PROVE TablesOK' /\ JobsOK' /\ HistoryOK'
  <2>1. TablesOK'
    BY <1>12 DEF TablesOK, SkipDraw
  <2>2. JobsOK'
    BY <1>12 DEF JobsOK, SkipDraw, Kept, Nothing, Tier, Amount
  <2>3. HistoryOK'
    BY <1>12 DEF HistoryOK, SkipDraw
  <2> QED
    BY <2>1, <2>2, <2>3
<1>13. ASSUME NEW r \in Rows, Restore(r) PROVE TablesOK' /\ JobsOK' /\ HistoryOK'
  <2>1. TablesOK'
    <3>1. ASSUME CanRestore(r) PROVE row[r] \in Row /\ kept[r].amount \in Amount
      BY <3>1, RowTypes DEF JobsOK, CanRestore, Kept
    <3> QED
      BY <1>13, <3>1 DEF TablesOK, Restore, Row
  <2>2. JobsOK'
    BY <1>13 DEF JobsOK, Restore, Kept, Nothing, Tier, Amount
  <2>3. HistoryOK'
    BY <1>13 DEF HistoryOK, Restore
  <2> QED
    BY <2>1, <2>2, <2>3
<1>14. ASSUME NEW p \in Processes, Crash(p) PROVE TablesOK' /\ JobsOK' /\ HistoryOK'
  <2>1. TablesOK'
    BY <1>14 DEF TablesOK, Crash, Forget
  <2>2. JobsOK'
    <3>1. /\ stage' \in [Processes -> {"idle", "rows"}] /\ batch' \in [Processes -> SUBSET Rows]
          /\ read' \in [Processes -> [Rows -> Reading]]
          /\ \A o \in Processes, r \in Rows : read'[o][r].ticket \in Tickets[r]
          /\ cutoff' \in [Processes -> Int \cup {None}]
      BY <1>14, UnreadFits DEF JobsOK, Crash, Forget
    <3>2. Nothing \in Kept
      BY DEF Kept, Nothing, Tier, Amount
    <3>3. /\ cli' \in {"idle", "redo", "refill"} /\ kept' \in [Rows -> Kept]
          /\ redo' \in [Rows -> {"no", "todo", "compare", "restore"}]
      BY <1>14, <3>2 DEF JobsOK, Crash
    <3> QED
      BY <3>1, <3>3 DEF JobsOK
  <2>3. HistoryOK'
    BY <1>14 DEF HistoryOK, Crash
  <2> QED
    BY <2>1, <2>2, <2>3
<1>15. ASSUME PassTime PROVE TablesOK' /\ JobsOK' /\ HistoryOK'
  <2>1. TablesOK'
    BY <1>15 DEF TablesOK, PassTime
  <2>2. JobsOK'
    BY <1>15 DEF JobsOK, PassTime
  <2>3. HistoryOK'
    BY <1>15 DEF HistoryOK, PassTime
  <2> QED
    BY <2>1, <2>2, <2>3
<1>16. CASE UNCHANGED vars
  BY <1>16 DEF vars, TablesOK, JobsOK, HistoryOK
<1> QED
  BY <1>1, <1>2, <1>3, <1>4, <1>5, <1>6, <1>7, <1>8, <1>9, <1>10,
     <1>11, <1>12, <1>13, <1>14, <1>15, <1>16 DEF Next

(* Every step keeps rows and readings in their tiers.                      *)
LEMMA StepRows ==
  ASSUME TypeOK, TypeOK', RowsInv, [Next]_vars
  PROVE  WonTiers' /\ ReadFloating'
<1>0. /\ row \in [Rows -> Row \cup {NoRow}] /\ row' \in [Rows -> Row \cup {NoRow}]
      /\ batch \in [Processes -> SUBSET Rows] /\ read \in [Processes -> [Rows -> Reading]]
      /\ \A p \in Processes, r \in Rows : read[p][r].ticket \in Tickets[r]
      /\ redo \in [Rows -> {"no", "todo", "compare", "restore"}] /\ kept \in [Rows -> Kept]
      /\ stage \in [Processes -> {"idle", "rows"}]
      /\ \A r \in Rows : ticket[r] \in Tickets[r]
      /\ crossed \subseteq Rows /\ filled \subseteq Rows /\ held \subseteq Rows
  BY DEF TypeOK, TablesOK, JobsOK, HistoryOK
<1> USE <1>0 DEF refillVars, cliVars, ghostVars, answerVars, boundVars
<1> USE DEF RowsInv, WonTiers, ReadFloating
<1>1. ASSUME NEW r \in Rows, Compare(r) PROVE WonTiers' /\ ReadFloating'
  <2>1. WonTiers'
    BY <1>1, JudgedFits DEF Compare
  <2>2. ReadFloating'
    BY <1>1, JudgedFits DEF Compare
  <2> QED
    BY <2>1, <2>2
<1>2. ASSUME NEW r \in Rows, NEW d \in DrawNumbers[r], Reopen(r, d)
      PROVE  WonTiers' /\ ReadFloating'
  BY <1>2 DEF Reopen
<1>3. ASSUME NEW r \in Rows, NEW t \in Tickets[r], EditTicket(r, t)
      PROVE  WonTiers' /\ ReadFloating'
  BY <1>3 DEF EditTicket
<1>4. ASSUME StartRefill PROVE WonTiers' /\ ReadFloating'
  <2>1. WonTiers'
    BY <1>4 DEF StartRefill, BeginRefill
  <2>2. ReadFloating'
    BY <1>4, OpenFloats DEF StartRefill, BeginRefill, Selected
  <2> QED
    BY <2>1, <2>2
<1>5. ASSUME ForceRefill PROVE WonTiers' /\ ReadFloating'
  <2>1. WonTiers'
    BY <1>5 DEF ForceRefill, BeginRefill
  <2>2. ReadFloating'
    BY <1>5, OpenFloats DEF ForceRefill, BeginRefill, Selected
  <2> QED
    BY <2>1, <2>2
<1>6. ASSUME NEW p \in Processes, NEW r \in Rows, Ask(p, r)
      PROVE  WonTiers' /\ ReadFloating'
  <2>1. WonTiers'
    <3>1. row[r] \in Row
      BY <1>6 DEF Ask
    <3>2. CASE Announced(p, r)
      <4>1. Prize(r, read[p][r].tier, read[p][r].ticket) # None
        BY <1>6, PrizeFits, NoneAssumption DEF Ask
      <4> QED
        BY <1>6, <3>1, <3>2, <4>1 DEF Announced, Row
    <3>3. CASE NotYet
      BY <3>3 DEF NotYet
    <3>4. CASE PermanentError(p, r)
      BY <3>1, <3>4 DEF PermanentError, Row
    <3> QED
      BY <1>6, <3>2, <3>3, <3>4 DEF Ask
  <2>2. ReadFloating'
    <3>1. \A q \in Rows : row[q] \in Row => row'[q] \in Row
      <4>1. \A q \in Rows : row'[q] \in Row \cup {NoRow} /\ row'[q].created = row[q].created
        BY <1>6, AskChanges
      <4> QED
        BY <4>1, NoneAssumption DEF Row, NoRow
    <3>2. batch'[p] = batch[p] \ {r} /\ read' = read
      BY <1>6 DEF Ask
    <3>3. \A o \in Processes \ {p} : batch'[o] = batch[o]
      BY <1>6 DEF Ask
    <3> QED
      BY <3>1, <3>2, <3>3
  <2> QED
    BY <2>1, <2>2
<1>7. ASSUME NEW p \in Processes, NEW r \in Rows, WriteFails(p, r)
      PROVE  WonTiers' /\ ReadFloating'
  BY <1>7 DEF WriteFails
<1>8. ASSUME NEW p \in Processes, NEW success \in BOOLEAN, MarkExpired(p, success)
      PROVE  WonTiers' /\ ReadFloating'
  <2>1. WonTiers'
    <3>1. \A r \in Rows : row'[r].tier = row[r].tier /\ row'[r].amount = row[r].amount
      <4>1. \A r \in Expired(p) : row[r] \in Row
        BY OpenFloats DEF Expired
      <4> QED
        BY <1>8, <4>1 DEF MarkExpired, Row
    <3> QED
      BY <3>1
  <2>2. ReadFloating'
    <3>1. \A r \in Rows : row[r] \in Row => row'[r] \in Row
      BY <1>8 DEF MarkExpired, Row
    <3>2. batch'[p] = {} /\ batch' = batch
      BY <1>8 DEF MarkExpired
    <3>3. \A o \in Processes \ {p} : read'[o] = read[o]
      BY <1>8 DEF MarkExpired, Forget
    <3> QED
      BY <3>1, <3>2, <3>3
  <2> QED
    BY <2>1, <2>2
<1>9. ASSUME StartRecompare PROVE WonTiers' /\ ReadFloating'
  BY <1>9 DEF StartRecompare
<1>10. ASSUME NEW r \in Rows, Snapshot(r) PROVE WonTiers' /\ ReadFloating'
  BY <1>10 DEF Snapshot
<1>11. ASSUME NEW r \in Rows, CompareAgain(r) PROVE WonTiers' /\ ReadFloating'
  <2>1. WonTiers'
    BY <1>11, JudgedFits DEF CompareAgain
  <2>2. ReadFloating'
    BY <1>11, JudgedFits DEF CompareAgain
  <2> QED
    BY <2>1, <2>2
<1>12. ASSUME NEW r \in Rows, SkipDraw(r) PROVE WonTiers' /\ ReadFloating'
  BY <1>12 DEF SkipDraw
<1>13. ASSUME NEW r \in Rows, Restore(r) PROVE WonTiers' /\ ReadFloating'
  <2>1. WonTiers'
    <3>1. CanRestore(r) => row[r] \in Row
      BY RowTypes DEF CanRestore
    <3> QED
      BY <1>13, <3>1 DEF Restore, CanRestore, Row
  <2>2. ReadFloating'
    <3>1. \A q \in Rows : row[q] \in Row => row'[q] \in Row
      <4>1. CanRestore(r) => row[r] \in Row /\ kept[r].amount \in Amount
        BY RowTypes DEF CanRestore, Kept
      <4> QED
        BY <1>13, <4>1 DEF Restore, Row
    <3> QED
      BY <1>13, <3>1 DEF Restore
  <2> QED
    BY <2>1, <2>2
<1>14. ASSUME NEW p \in Processes, Crash(p) PROVE WonTiers' /\ ReadFloating'
  <2>1. WonTiers'
    BY <1>14 DEF Crash, Forget
  <2>2. ReadFloating'
    BY <1>14 DEF Crash, Forget
  <2> QED
    BY <2>1, <2>2
<1>15. ASSUME PassTime PROVE WonTiers' /\ ReadFloating'
  BY <1>15 DEF PassTime
<1>16. CASE UNCHANGED vars
  BY <1>16 DEF vars
<1> QED
  BY <1>1, <1>2, <1>3, <1>4, <1>5, <1>6, <1>7, <1>8, <1>9, <1>10,
     <1>11, <1>12, <1>13, <1>14, <1>15, <1>16 DEF Next

(* Every step keeps amounts that fit.                                      *)
LEMMA StepFits ==
  ASSUME TypeOK, TypeOK', RowsInv, KeptFits, AmountFitsTier, [Next]_vars
  PROVE  KeptFits' /\ AmountFitsTier'
<1>0. /\ row \in [Rows -> Row \cup {NoRow}] /\ row' \in [Rows -> Row \cup {NoRow}]
      /\ batch \in [Processes -> SUBSET Rows] /\ read \in [Processes -> [Rows -> Reading]]
      /\ \A p \in Processes, r \in Rows : read[p][r].ticket \in Tickets[r]
      /\ redo \in [Rows -> {"no", "todo", "compare", "restore"}] /\ kept \in [Rows -> Kept]
      /\ stage \in [Processes -> {"idle", "rows"}]
      /\ \A r \in Rows : ticket[r] \in Tickets[r]
      /\ crossed \subseteq Rows /\ filled \subseteq Rows /\ held \subseteq Rows
  BY DEF TypeOK, TablesOK, JobsOK, HistoryOK
<1> USE <1>0 DEF refillVars, cliVars, ghostVars, answerVars, boundVars
<1> USE DEF KeptFits, AmountFitsTier
<1>1. ASSUME NEW r \in Rows, Compare(r) PROVE KeptFits' /\ AmountFitsTier'
  <2>1. KeptFits'
    BY <1>1 DEF Compare
  <2>2. AmountFitsTier'
    BY <1>1, JudgedFits DEF Compare, Fits
  <2> QED
    BY <2>1, <2>2
<1>2. ASSUME NEW r \in Rows, NEW d \in DrawNumbers[r], Reopen(r, d)
      PROVE  KeptFits' /\ AmountFitsTier'
  BY <1>2 DEF Reopen
<1>3. ASSUME NEW r \in Rows, NEW t \in Tickets[r], EditTicket(r, t)
      PROVE  KeptFits' /\ AmountFitsTier'
  BY <1>3 DEF EditTicket
<1>4. ASSUME StartRefill PROVE KeptFits' /\ AmountFitsTier'
  BY <1>4 DEF StartRefill, BeginRefill
<1>5. ASSUME ForceRefill PROVE KeptFits' /\ AmountFitsTier'
  BY <1>5 DEF ForceRefill, BeginRefill
<1>6. ASSUME NEW p \in Processes, NEW r \in Rows, Ask(p, r)
      PROVE  KeptFits' /\ AmountFitsTier'
  <2>1. KeptFits'
    BY <1>6 DEF Ask
  <2>2. AmountFitsTier'
    <3>1. row[r] \in Row /\ Floats(r, read[p][r].tier) /\ read[p][r].ticket \in Tickets[r]
      BY <1>6 DEF Ask, RowsInv, ReadFloating
    <3>2. CASE Announced(p, r)
      <4>1. ASSUME r \notin crossed' PROVE row[r].tier = read[p][r].tier
        BY <1>6, <3>2, <4>1 DEF Announced, UpToDate
      <4>2. row'[r].tier = row[r].tier
            /\ row'[r].amount = Prize(r, read[p][r].tier, read[p][r].ticket)
        BY <3>1, <3>2 DEF Announced, Row
      <4>3. \A q \in Rows \ {r} : row'[q] = row[q] /\ (q \in crossed' <=> q \in crossed)
        BY <3>2 DEF Announced
      <4>4. r \notin crossed' => row'[r].amount = Worth(r, row'[r].tier, read[p][r].ticket)
        BY <3>1, <4>1, <4>2 DEF Worth, Floats, IsFloat
      <4> QED
        BY <3>1, <4>3, <4>4
    <3>3. CASE NotYet
      BY <3>3 DEF NotYet
    <3>4. CASE PermanentError(p, r)
      BY <3>1, <3>4 DEF PermanentError, Row
    <3> QED
      BY <1>6, <3>2, <3>3, <3>4 DEF Ask
  <2> QED
    BY <2>1, <2>2
<1>7. ASSUME NEW p \in Processes, NEW r \in Rows, WriteFails(p, r)
      PROVE  KeptFits' /\ AmountFitsTier'
  BY <1>7 DEF WriteFails
<1>8. ASSUME NEW p \in Processes, NEW success \in BOOLEAN, MarkExpired(p, success)
      PROVE  KeptFits' /\ AmountFitsTier'
  <2>1. KeptFits'
    BY <1>8 DEF MarkExpired
  <2>2. AmountFitsTier'
    <3>1. \A r \in Rows : row'[r].tier = row[r].tier /\ row'[r].amount = row[r].amount
      <4>1. \A r \in Expired(p) : row[r] \in Row
        BY OpenFloats DEF Expired, RowsInv
      <4> QED
        BY <1>8, <4>1 DEF MarkExpired, Row
    <3>2. crossed' = crossed
      BY <1>8 DEF MarkExpired
    <3> QED
      BY <3>1, <3>2
  <2> QED
    BY <2>1, <2>2
<1>9. ASSUME StartRecompare PROVE KeptFits' /\ AmountFitsTier'
  BY <1>9 DEF StartRecompare
<1>10. ASSUME NEW r \in Rows, Snapshot(r) PROVE KeptFits' /\ AmountFitsTier'
  <2>1. KeptFits'
    BY <1>10 DEF Snapshot, Preserved, Nothing, Fits
  <2>2. AmountFitsTier'
    BY <1>10 DEF Snapshot
  <2> QED
    BY <2>1, <2>2
<1>11. ASSUME NEW r \in Rows, CompareAgain(r) PROVE KeptFits' /\ AmountFitsTier'
  <2>1. KeptFits'
    BY <1>11 DEF CompareAgain
  <2>2. AmountFitsTier'
    BY <1>11, JudgedFits DEF CompareAgain, Fits
  <2> QED
    BY <2>1, <2>2
<1>12. ASSUME NEW r \in Rows, SkipDraw(r) PROVE KeptFits' /\ AmountFitsTier'
  <2>1. KeptFits'
    BY <1>12 DEF SkipDraw, Nothing
  <2>2. AmountFitsTier'
    BY <1>12 DEF SkipDraw
  <2> QED
    BY <2>1, <2>2
<1>13. ASSUME NEW r \in Rows, Restore(r) PROVE KeptFits' /\ AmountFitsTier'
  <2>1. KeptFits'
    BY <1>13 DEF Restore, Nothing
  <2>2. AmountFitsTier'
    <3>1. CASE CanRestore(r)
      <4>1. row[r] \in Row
        BY <3>1, RowTypes DEF CanRestore
      <4>2. row'[r].tier = kept[r].tier /\ row'[r].amount = kept[r].amount
        BY <1>13, <3>1, <4>1 DEF Restore, CanRestore, Row
      <4>3. r \notin crossed' => ~ kept[r].bad
        BY <1>13, <3>1 DEF Restore
      <4>4. \A q \in Rows \ {r} : row'[q] = row[q] /\ (q \in crossed' <=> q \in crossed)
        BY <1>13 DEF Restore
      <4> QED
        BY <3>1, <4>2, <4>3, <4>4 DEF CanRestore, Fits
    <3>2. CASE ~ CanRestore(r)
      BY <1>13, <3>2 DEF Restore
    <3> QED
      BY <3>1, <3>2
  <2> QED
    BY <2>1, <2>2
<1>14. ASSUME NEW p \in Processes, Crash(p) PROVE KeptFits' /\ AmountFitsTier'
  <2>1. KeptFits'
    BY <1>14 DEF Crash, Forget, Nothing
  <2>2. AmountFitsTier'
    BY <1>14 DEF Crash, Forget
  <2> QED
    BY <2>1, <2>2
<1>15. ASSUME PassTime PROVE KeptFits' /\ AmountFitsTier'
  BY <1>15 DEF PassTime
<1>16. CASE UNCHANGED vars
  BY <1>16 DEF vars
<1> QED
  BY <1>1, <1>2, <1>3, <1>4, <1>5, <1>6, <1>7, <1>8, <1>9, <1>10,
     <1>11, <1>12, <1>13, <1>14, <1>15, <1>16 DEF Next

(* Every step keeps refilled amounts, or the command holds them.           *)
LEMMA StepFill ==
  ASSUME TypeOK, TypeOK', RowsInv, KeptFits, FillInv, [Next]_vars
  PROVE  CliShape' /\ FilledFloats' /\ HeldIsKept' /\ FilledOrKept'
<1>0. /\ row \in [Rows -> Row \cup {NoRow}] /\ row' \in [Rows -> Row \cup {NoRow}]
      /\ batch \in [Processes -> SUBSET Rows] /\ read \in [Processes -> [Rows -> Reading]]
      /\ \A p \in Processes, r \in Rows : read[p][r].ticket \in Tickets[r]
      /\ redo \in [Rows -> {"no", "todo", "compare", "restore"}] /\ kept \in [Rows -> Kept]
      /\ stage \in [Processes -> {"idle", "rows"}]
      /\ \A r \in Rows : ticket[r] \in Tickets[r]
      /\ crossed \subseteq Rows /\ filled \subseteq Rows /\ held \subseteq Rows
  BY DEF TypeOK, TablesOK, JobsOK, HistoryOK
<1> USE <1>0 DEF refillVars, cliVars, ghostVars, answerVars, boundVars
<1> USE DEF FillInv, CliShape, FilledFloats, HeldIsKept, FilledOrKept
<1>1. ASSUME NEW r \in Rows, Compare(r)
      PROVE  CliShape' /\ FilledFloats' /\ HeldIsKept' /\ FilledOrKept'
  <2>1. CliShape'
    BY <1>1 DEF Compare
  <2>2. FilledFloats'
    BY <1>1 DEF Compare
  <2>3. HeldIsKept'
    BY <1>1 DEF Compare, Reclassified
  <2>4. FilledOrKept'
    BY <1>1 DEF Compare
  <2> QED
    BY <2>1, <2>2, <2>3, <2>4
<1>2. ASSUME NEW r \in Rows, NEW d \in DrawNumbers[r], Reopen(r, d)
      PROVE  CliShape' /\ FilledFloats' /\ HeldIsKept' /\ FilledOrKept'
  BY <1>2 DEF Reopen
<1>3. ASSUME NEW r \in Rows, NEW t \in Tickets[r], EditTicket(r, t)
      PROVE  CliShape' /\ FilledFloats' /\ HeldIsKept' /\ FilledOrKept'
  BY <1>3 DEF EditTicket
<1>4. ASSUME StartRefill PROVE CliShape' /\ FilledFloats' /\ HeldIsKept' /\ FilledOrKept'
  <2>1. CliShape'
    BY <1>4 DEF StartRefill, BeginRefill, Processes
  <2>2. FilledFloats'
    BY <1>4 DEF StartRefill, BeginRefill
  <2>3. HeldIsKept'
    BY <1>4 DEF StartRefill, BeginRefill
  <2>4. FilledOrKept'
    BY <1>4 DEF StartRefill, BeginRefill
  <2> QED
    BY <2>1, <2>2, <2>3, <2>4
<1>5. ASSUME ForceRefill PROVE CliShape' /\ FilledFloats' /\ HeldIsKept' /\ FilledOrKept'
  <2>1. CliShape'
    BY <1>5 DEF ForceRefill, BeginRefill, Processes
  <2>2. FilledFloats'
    BY <1>5 DEF ForceRefill, BeginRefill
  <2>3. HeldIsKept'
    BY <1>5 DEF ForceRefill, BeginRefill
  <2>4. FilledOrKept'
    BY <1>5 DEF ForceRefill, BeginRefill
  <2> QED
    BY <2>1, <2>2, <2>3, <2>4
<1>6. ASSUME NEW p \in Processes, NEW r \in Rows, Ask(p, r)
      PROVE  CliShape' /\ FilledFloats' /\ HeldIsKept' /\ FilledOrKept'
  <2>1. row[r] \in Row /\ Floats(r, read[p][r].tier) /\ read[p][r].tier # None
    BY <1>6, TiersFit DEF Ask, RowsInv, ReadFloating
  <2>2. held' = held /\ redo' = redo /\ kept' = kept /\ cli' = cli /\ stage' = stage
    BY <1>6 DEF Ask
  <2>3. CASE Announced(p, r)
    <3>1. Prize(r, read[p][r].tier, read[p][r].ticket) # None
      BY <1>6, PrizeFits, NoneAssumption DEF Ask, RowsInv, ReadFloating
    <3>2. /\ row'[r].tier = row[r].tier /\ row'[r].amount # None
          /\ \A q \in Rows \ {r} : row'[q] = row[q]
      BY <2>1, <2>3, <3>1 DEF Announced, Row
    <3>3. filled' \ {r} = filled \ {r} /\ (r \in filled' => row[r].tier = read[p][r].tier)
      BY <2>3 DEF Announced, UpToDate
    <3>4. FilledFloats'
      BY <2>1, <3>2, <3>3
    <3>5. HeldIsKept'
      BY <2>2, <3>2 DEF Reclassified
    <3>6. FilledOrKept'
      BY <2>2, <3>2, <3>3
    <3> QED
      BY <2>2, <3>4, <3>5, <3>6
  <2>4. CASE NotYet
    BY <2>2, <2>4 DEF NotYet, Reclassified
  <2>5. CASE PermanentError(p, r)
    <3>1. \A q \in Rows : row'[q].tier = row[q].tier /\ row'[q].amount = row[q].amount
      BY <2>1, <2>5 DEF PermanentError, Row
    <3>2. filled' = filled
      BY <2>5 DEF PermanentError
    <3> QED
      BY <2>2, <3>1, <3>2 DEF Reclassified
  <2> QED
    BY <1>6, <2>3, <2>4, <2>5 DEF Ask
<1>7. ASSUME NEW p \in Processes, NEW r \in Rows, WriteFails(p, r)
      PROVE  CliShape' /\ FilledFloats' /\ HeldIsKept' /\ FilledOrKept'
  <2>1. CliShape'
    BY <1>7 DEF WriteFails, Processes
  <2>2. FilledFloats'
    BY <1>7 DEF WriteFails
  <2>3. HeldIsKept'
    BY <1>7 DEF WriteFails
  <2>4. FilledOrKept'
    BY <1>7 DEF WriteFails
  <2> QED
    BY <2>1, <2>2, <2>3, <2>4
<1>8. ASSUME NEW p \in Processes, NEW success \in BOOLEAN, MarkExpired(p, success)
      PROVE  CliShape' /\ FilledFloats' /\ HeldIsKept' /\ FilledOrKept'
  <2>1. CliShape'
    BY <1>8 DEF MarkExpired, Forget, Processes
  <2>2. FilledFloats'
    <3>1. \A r \in Rows : row'[r].tier = row[r].tier
      BY <1>8, OpenFloats DEF MarkExpired, Expired, RowsInv, Row
    <3> QED
      BY <1>8, <3>1 DEF MarkExpired
  <2>3. HeldIsKept'
    <3>1. \A r \in Rows : row'[r].tier = row[r].tier
      BY <1>8, OpenFloats DEF MarkExpired, Expired, RowsInv, Row
    <3> QED
      BY <1>8, <3>1 DEF MarkExpired, Reclassified
  <2>4. FilledOrKept'
    <3>1. \A r \in Rows : row'[r].tier = row[r].tier /\ row'[r].amount = row[r].amount
      BY <1>8, OpenFloats DEF MarkExpired, Expired, RowsInv, Row
    <3> QED
      BY <1>8, <3>1 DEF MarkExpired
  <2> QED
    BY <2>1, <2>2, <2>3, <2>4
<1>9. ASSUME StartRecompare
      PROVE  CliShape' /\ FilledFloats' /\ HeldIsKept' /\ FilledOrKept'
  BY <1>9 DEF StartRecompare
<1>10. ASSUME NEW r \in Rows, Snapshot(r)
      PROVE  CliShape' /\ FilledFloats' /\ HeldIsKept' /\ FilledOrKept'
  <2>1. CliShape'
    BY <1>10 DEF Snapshot
  <2>2. FilledFloats'
    BY <1>10 DEF Snapshot
  <2>3. HeldIsKept'
    <3>1. CASE r \in filled /\ row[r].tier \notin Reclassified(r)
      <4>1. row[r].amount # None
        BY <1>10, <3>1 DEF Snapshot
      <4>2. Preserved(r)
        BY <3>1, <4>1 DEF Preserved, Floats
      <4> QED
        BY <1>10, <3>1, <4>2 DEF Snapshot, Reclassified
    <3>2. CASE ~ (r \in filled /\ row[r].tier \notin Reclassified(r))
      BY <1>10, <3>2 DEF Snapshot, Reclassified
    <3> QED
      BY <3>1, <3>2
  <2>4. FilledOrKept'
    BY <1>10 DEF Snapshot
  <2> QED
    BY <2>1, <2>2, <2>3, <2>4
<1>11. ASSUME NEW r \in Rows, CompareAgain(r)
      PROVE  CliShape' /\ FilledFloats' /\ HeldIsKept' /\ FilledOrKept'
  <2>1. Judged(r).tier = Verdict(r)
    BY JudgedFits
  <2>2. row'[r].tier = Verdict(r) /\ \A q \in Rows \ {r} : row'[q] = row[q]
    BY <1>11, <2>1 DEF CompareAgain
  <2>3. r \in filled' => /\ Verdict(r) = row[r].tier /\ r \in held /\ r \in filled
                         /\ row[r].tier \notin Reclassified(r)
    BY <1>11 DEF CompareAgain
  <2>4. /\ filled' \ {r} = filled \ {r} /\ held' = held \ {r} /\ kept' = kept
        /\ redo'[r] = "restore" /\ \A q \in Rows \ {r} : redo'[q] = redo[q]
    BY <1>11 DEF CompareAgain
  <2>5. CliShape'
    BY <1>11 DEF CompareAgain
  <2>6. FilledFloats'
    BY <2>2, <2>3, <2>4
  <2>7. HeldIsKept'
    BY <2>2, <2>4 DEF Reclassified
  <2>8. FilledOrKept'
    <3>1. r \in filled' => kept[r].tier = row'[r].tier
      BY <1>11, <2>2, <2>3 DEF CompareAgain
    <3> QED
      BY <2>2, <2>4, <3>1
  <2> QED
    BY <2>5, <2>6, <2>7, <2>8
<1>12. ASSUME NEW r \in Rows, SkipDraw(r)
      PROVE  CliShape' /\ FilledFloats' /\ HeldIsKept' /\ FilledOrKept'
  BY <1>12 DEF SkipDraw
<1>13. ASSUME NEW r \in Rows, Restore(r)
      PROVE  CliShape' /\ FilledFloats' /\ HeldIsKept' /\ FilledOrKept'
  <2>1. /\ filled' = filled /\ held' = held
        /\ redo'[r] = "no" /\ \A q \in Rows \ {r} : redo'[q] = redo[q] /\ kept'[q] = kept[q]
    BY <1>13 DEF Restore
  <2>2. \A q \in Rows \ {r} : row'[q] = row[q]
    BY <1>13 DEF Restore
  <2>3. row'[r].tier = row[r].tier
    BY <1>13, RowTypes DEF Restore, CanRestore, Row
  <2>4. r \in filled => row'[r].amount # None
    <3>1. CASE CanRestore(r)
      <4>1. row[r] \in Row /\ kept[r].amount # None
        BY <3>1, RowTypes DEF CanRestore, KeptFits
      <4> QED
        BY <1>13, <3>1, <4>1 DEF Restore, Row
    <3>2. CASE ~ CanRestore(r)
      BY <1>13, <3>2 DEF Restore, CanRestore
    <3> QED
      BY <3>1, <3>2
  <2>5. CliShape'
    BY <1>13 DEF Restore
  <2>6. FilledFloats'
    BY <2>1, <2>2, <2>3
  <2>7. HeldIsKept'
    BY <2>1, <2>2, <2>3 DEF Reclassified
  <2>8. FilledOrKept'
    BY <2>1, <2>2, <2>4
  <2> QED
    BY <2>5, <2>6, <2>7, <2>8
<1>14. ASSUME NEW p \in Processes, Crash(p)
      PROVE  CliShape' /\ FilledFloats' /\ HeldIsKept' /\ FilledOrKept'
  <2>1. CliShape'
    BY <1>14 DEF Crash, Forget, Processes
  <2>2. FilledFloats'
    BY <1>14 DEF Crash, Forget
  <2>3. HeldIsKept'
    BY <1>14 DEF Crash, Forget, Reclassified
  <2>4. FilledOrKept'
    BY <1>14 DEF Crash, Forget
  <2> QED
    BY <2>1, <2>2, <2>3, <2>4
<1>15. ASSUME PassTime PROVE CliShape' /\ FilledFloats' /\ HeldIsKept' /\ FilledOrKept'
  BY <1>15 DEF PassTime
<1>16. CASE UNCHANGED vars
  BY <1>16 DEF vars
<1> QED
  BY <1>1, <1>2, <1>3, <1>4, <1>5, <1>6, <1>7, <1>8, <1>9, <1>10,
     <1>11, <1>12, <1>13, <1>14, <1>15, <1>16 DEF Next

LEMMA Inductive == Spec => []IInv
<1>1. IInv /\ [Next]_vars => IInv'
  <2> SUFFICES ASSUME IInv, [Next]_vars PROVE IInv'
    OBVIOUS
  <2>1. TypeOK'
    BY StepTypes DEF IInv, TypeOK
  <2>2. RowsInv'
    BY <2>1, StepRows DEF IInv, RowsInv
  <2>3. KeptFits' /\ AmountFitsTier'
    BY <2>1, StepFits DEF IInv
  <2>4. FillInv'
    BY <2>1, StepFill DEF IInv, FillInv
  <2> QED
    BY <2>1, <2>2, <2>3, <2>4 DEF IInv
<1> QED
  BY <1>1, InitIInv, PTL DEF Spec

-----------------------------------------------------------------------------

(* The tables, the jobs of refill and recomparison and the history keep    *)
(* their types.                                                            *)
THEOREM TypeCorrect == Spec => []TypeOK
BY Inductive, PTL DEF IInv

(* An amount is what the row's tier pays for a ticket of the row, whatever *)
(* compared, refilled, corrected, restored or crashed in between, unless a *)
(* refill wrote it that had read another tier.                             *)
THEOREM AmountsFit == Spec => []AmountFitsTier
BY Inductive, PTL DEF IInv

(* No win waits in a tier that the refill job does not select, or in a     *)
(* lottery that no source announces, under any version of any table.       *)
THEOREM WaitsAreSeen == Spec => []EveryWaitIsSeen
<1>1. IInv => EveryWaitIsSeen
  <2> SUFFICES ASSUME IInv, NEW r \in Rows, row[r].tier # None, row[r].amount = None
               PROVE  row[r].tier \in FloatTiers /\ "amount" \in Outcomes(Code[r])
    BY DEF EveryWaitIsSeen
  <2>1. row[r].tier \in TiersOf(r) /\ Floats(r, row[r].tier)
    BY DEF IInv, RowsInv, WonTiers
  <2>2. row[r].tier \in FloatTiers
    BY <2>1, TiersFit
  <2>3. Code[r] \in Codes /\ DrawDate[r] \in Nat
    BY RefillAssumption
  <2>4. GetTiers(Code[r], DrawDate[r])[row[r].tier].amount = None
    BY <2>1 DEF Floats, IsFloat, AmountOf
  <2>5. Code[r] \in CwlCodes \cup SportteryCodes
    BY <2>1, <2>3, <2>4, UnroutedAreFixed DEF TiersOf
  <2> QED BY <2>2, <2>5, RoutedMayAnnounce
<1> QED
  BY <1>1, Inductive, PTL

(* The recompare command gives back every refilled amount it has taken     *)
(* away, whatever runs between its comparison and its restoring.           *)
THEOREM RefillsAreKept == Spec => []RefilledIsKept
<1>1. IInv => RefilledIsKept
  BY DEF IInv, FillInv, FilledOrKept, RefilledIsKept
<1> QED
  BY <1>1, Inductive, PTL

(* A job's cutoff lies at least MaxAge back, and further with every day    *)
(* that the job takes.                                                     *)
CutoffsPast == \A p \in Processes : cutoff[p] # None => cutoff[p] <= now - MaxAge

(* What a job is about to ask is still the question, or the row was judged *)
(* again.                                                                  *)
ReadOrCorrected ==
  \A p \in Processes : \A r \in batch[p] : UpToDate(p, r) \/ row[r].corrected

LEMMA StepReadings ==
  ASSUME IInv, ReadOrCorrected, [Next]_vars
  PROVE  ReadOrCorrected'
<1>0. /\ row \in [Rows -> Row \cup {NoRow}]
      /\ batch \in [Processes -> SUBSET Rows] /\ read \in [Processes -> [Rows -> Reading]]
      /\ \A p \in Processes : \A r \in batch[p] : row[r] \in Row
  BY DEF IInv, TypeOK, TablesOK, JobsOK, RowsInv, ReadFloating
<1> USE <1>0 DEF ReadOrCorrected, UpToDate, refillVars
<1>a. ASSUME \A q \in Rows : row'[q].tier = row[q].tier /\ row'[q].corrected = row[q].corrected,
             \A o \in Processes : batch'[o] \subseteq batch[o],
             \A o \in Processes : batch'[o] # {} => read'[o] = read[o]
      PROVE  ReadOrCorrected'
  BY <1>a
<1>b. ASSUME row' = row, batch' = batch, read' = read PROVE ReadOrCorrected'
  BY <1>b
<1>1. ASSUME NEW r \in Rows, Compare(r) \/ CompareAgain(r) PROVE ReadOrCorrected'
  <2>1. row' = [row EXCEPT ![r] = Judged(r)] /\ batch' = batch /\ read' = read
    BY <1>1 DEF Compare, CompareAgain
  <2>2. \A p \in Processes : r \in batch[p] => Judged(r).corrected
    <3>1. \A p \in Processes : r \in batch[p] => row[r] # NoRow
      BY NoneAssumption DEF Row, NoRow
    <3>2. Judged(r).corrected = (row[r] # NoRow)
      BY DEF Judged
    <3> QED
      BY <3>1, <3>2
  <2> QED
    BY <2>1, <2>2
<1>2. ASSUME NEW p \in Processes, NEW r \in Rows, Ask(p, r) PROVE ReadOrCorrected'
  <2>2. \A q \in Rows : row'[q].tier = row[q].tier /\ row'[q].corrected = row[q].corrected
    BY <1>2, AskChanges
  <2>3. read' = read /\ \A o \in Processes : batch'[o] \subseteq batch[o]
    BY <1>2 DEF Ask
  <2> QED
    BY <1>a, <2>2, <2>3
<1>3. ASSUME NEW p \in Processes, NEW r \in Rows, WriteFails(p, r) PROVE ReadOrCorrected'
  BY <1>3, <1>a DEF WriteFails
<1>4. ASSUME NEW p \in Processes, NEW success \in BOOLEAN, MarkExpired(p, success)
      PROVE  ReadOrCorrected'
  <2>1. \A q \in Rows : row'[q].tier = row[q].tier /\ row'[q].corrected = row[q].corrected
    <3>1. \A q \in Expired(p) : q \in Rows /\ row[q] \in Row
      BY OpenFloats DEF Expired, IInv, RowsInv
    <3> QED
      BY <1>4, <3>1 DEF MarkExpired, Row
  <2>2. batch' = batch /\ batch[p] = {} /\ \A o \in Processes \ {p} : read'[o] = read[o]
    BY <1>4 DEF MarkExpired, Forget
  <2> QED
    BY <1>a, <2>1, <2>2
<1>5. ASSUME NEW p \in Processes, NEW from, BeginRefill(p, from) PROVE ReadOrCorrected'
  <2>1. row' = row /\ \A o \in Processes \ {p} : batch'[o] = batch[o] /\ read'[o] = read[o]
    BY <1>5 DEF BeginRefill
  <2>2. \A r \in batch'[p] : r \in Rows /\ read'[p][r].tier = row[r].tier
    BY <1>5 DEF BeginRefill, Selected
  <2> QED
    BY <2>1, <2>2
<1>6. ASSUME NEW r \in Rows, Restore(r) PROVE ReadOrCorrected'
  <2>1. \A q \in Rows : row'[q].tier = row[q].tier /\ row'[q].corrected = row[q].corrected
    <3>1. CanRestore(r) => row[r] \in Row
      BY RowTypes DEF CanRestore, IInv
    <3> QED
      BY <1>6, <3>1 DEF Restore, Row
  <2>2. batch' = batch /\ read' = read
    BY <1>6 DEF Restore
  <2> QED
    BY <1>a, <2>1, <2>2
<1>7. ASSUME NEW p \in Processes, Crash(p) PROVE ReadOrCorrected'
  <2>1. row' = row /\ batch' = [batch EXCEPT ![p] = {}] /\ read' = [read EXCEPT ![p] = Unread]
    BY <1>7 DEF Crash, Forget
  <2> QED
    BY <1>a, <2>1
<1>8. CASE StartRefill \/ ForceRefill
  BY <1>5, <1>8 DEF StartRefill, ForceRefill, Processes
<1>9. ASSUME \/ PassTime \/ StartRecompare \/ UNCHANGED vars
             \/ \E r \in Rows :
                  \/ \E d \in DrawNumbers[r] : Reopen(r, d)
                  \/ \E t \in Tickets[r] : EditTicket(r, t)
                  \/ Snapshot(r) \/ SkipDraw(r)
      PROVE  ReadOrCorrected'
  BY <1>9, <1>b DEF PassTime, StartRecompare, vars, Reopen, EditTicket, Snapshot, SkipDraw
<1> QED
  BY <1>1, <1>2, <1>3, <1>4, <1>6, <1>7, <1>8, <1>9 DEF Next

(* Every step keeps the cutoffs and the reasons.                           *)
LEMMA StepReasons ==
  ASSUME IInv, ReadOrCorrected, CutoffsPast, WrittenOffForAReason, [Next]_vars
  PROVE  CutoffsPast' /\ WrittenOffForAReason'
<1> USE RefillAssumption
<1>t. /\ now \in Nat /\ cutoff \in [Processes -> Int \cup {None}]
      /\ row \in [Rows -> Row \cup {NoRow}]
      /\ \A p \in Processes : \A r \in batch[p] : row[r] \in Row
  BY DEF IInv, TypeOK, TablesOK, JobsOK, RowsInv, ReadFloating
<1>a. ASSUME row' = row, answerVars' = answerVars, cutoff' = cutoff, now' = now \/ now' = now + 1
      PROVE  CutoffsPast' /\ WrittenOffForAReason'
  <2>1. CutoffsPast'
    BY <1>a, <1>t DEF CutoffsPast
  <2>2. WrittenOffForAReason'
    <3> SUFFICES ASSUME NEW r \in Rows, row[r].unresolved, r \notin refused,
                        ~ (r \in mistaken /\ row[r].corrected)
                 PROVE  row[r].created + MaxAge < now'
      BY <1>a DEF WrittenOffForAReason, answerVars
    <3>1. row[r].created + MaxAge < now /\ row[r].created \in Nat
      BY <1>t DEF WrittenOffForAReason, Row, NoRow
    <3> QED
      BY <3>1, <1>a, <1>t
  <2> QED
    BY <2>1, <2>2
<1>1. ASSUME NEW r \in Rows, Compare(r) \/ CompareAgain(r)
      PROVE  CutoffsPast' /\ WrittenOffForAReason'
  <2>1. row' = [row EXCEPT ![r] = Judged(r)] /\ AnswersLapse(r) /\ cutoff' = cutoff /\ now' = now
    BY <1>1 DEF Compare, CompareAgain, refillVars
  <2>2. ~ row'[r].unresolved
    BY <2>1, <1>t DEF Judged
  <2>3. \A q \in Rows \ {r} : /\ row'[q] = row[q]
                              /\ q \in refused => q \in refused'
                              /\ q \in mistaken => q \in mistaken'
    BY <2>1, <1>t DEF AnswersLapse
  <2> QED
    BY <2>1, <2>2, <2>3 DEF CutoffsPast, WrittenOffForAReason
<1>2. ASSUME NEW p \in Processes, NEW r \in Rows, Ask(p, r)
      PROVE  CutoffsPast' /\ WrittenOffForAReason'
  <2>1. cutoff' = cutoff /\ now' = now /\ row[r] \in Row /\ (UpToDate(p, r) \/ row[r].corrected)
    BY <1>2, <1>t DEF Ask, ReadOrCorrected
  <2>2. \A q \in Rows : /\ q # r => row'[q] = row[q]
                        /\ row'[q].created = row[q].created
                        /\ row'[q].corrected = row[q].corrected
                        /\ q \in refused => q \in refused'
                        /\ q \in mistaken => q \in mistaken'
    BY <1>2, <1>t, AskChanges DEF Ask, Announced, NotYet, PermanentError
  <2>3. row'[r].unresolved
          => row[r].unresolved \/ r \in refused' \/ (r \in mistaken' /\ row'[r].corrected)
    <3>1. CASE Announced(p, r)
      BY <3>1, <2>1, <1>t DEF Announced, Row
    <3>2. CASE NotYet
      BY <3>2 DEF NotYet
    <3>3. CASE PermanentError(p, r)
      BY <3>3, <2>1, <2>2 DEF PermanentError
    <3> QED
      BY <1>2, <3>1, <3>2, <3>3 DEF Ask
  <2> QED
    BY <2>1, <2>2, <2>3 DEF CutoffsPast, WrittenOffForAReason
<1>3. ASSUME NEW p \in Processes, NEW r \in Rows, WriteFails(p, r)
      PROVE  CutoffsPast' /\ WrittenOffForAReason'
  BY <1>3 DEF WriteFails, CutoffsPast, WrittenOffForAReason
<1>4. ASSUME NEW r \in Rows, Restore(r) PROVE CutoffsPast' /\ WrittenOffForAReason'
  <2>1. cutoff' = cutoff /\ now' = now /\ refused' = refused /\ mistaken' = mistaken
    BY <1>4 DEF Restore, refillVars, answerVars
  <2>2. \A q \in Rows : /\ row'[q].unresolved = row[q].unresolved
                        /\ row'[q].created = row[q].created
                        /\ row'[q].corrected = row[q].corrected
    BY <1>4, <1>t DEF Restore, Row, NoRow
  <2> QED
    BY <2>1, <2>2 DEF CutoffsPast, WrittenOffForAReason
<1>5. ASSUME NEW p \in Processes, NEW success \in BOOLEAN, MarkExpired(p, success)
      PROVE  CutoffsPast' /\ WrittenOffForAReason'
  <2>1. /\ now' = now /\ refused' = refused /\ mistaken' = mistaken
        /\ cutoff' = [cutoff EXCEPT ![p] = None]
    BY <1>5 DEF MarkExpired, Forget, ghostVars, answerVars
  <2>2. CutoffsPast'
    BY <2>1, <1>t DEF CutoffsPast
  <2>3. ASSUME NEW q \in Expired(p) PROVE row[q].created + MaxAge < now
    <3>1. q \in Rows /\ cutoff[p] # None /\ row[q].created < cutoff[p] /\ Open(q)
      BY DEF Expired
    <3>2. row[q] \in Row
      BY <3>1, <1>t, NoneAssumption DEF Open, NoRow, FloatTiers
    <3>3. row[q].created \in Nat /\ cutoff[p] \in Int /\ cutoff[p] <= now - MaxAge
      BY <3>1, <3>2, <1>t DEF Row, CutoffsPast
    <3> QED
      BY <3>1, <3>3, <1>t
  <2>4. ASSUME NEW q \in Rows
        PROVE  /\ row'[q].created = row[q].created /\ row'[q].corrected = row[q].corrected
               /\ row'[q].unresolved => row[q].unresolved \/ q \in Expired(p)
    <3>1. \/ row'[q] = row[q]
          \/ q \in Expired(p) /\ row'[q] = [row[q] EXCEPT !.unresolved = TRUE]
      BY <1>5 DEF MarkExpired
    <3>2. row[q] \in Row \cup {NoRow}
      BY <1>t
    <3> QED
      BY <3>1, <3>2 DEF Row, NoRow
  <2>5. WrittenOffForAReason'
    BY <2>1, <2>3, <2>4 DEF WrittenOffForAReason
  <2> QED
    BY <2>2, <2>5
<1>6. ASSUME NEW p \in Processes, Crash(p) PROVE CutoffsPast' /\ WrittenOffForAReason'
  <2>1. /\ now' = now /\ refused' = refused /\ mistaken' = mistaken /\ row' = row
        /\ cutoff' = [cutoff EXCEPT ![p] = None]
    BY <1>6 DEF Crash, Forget, answerVars
  <2> QED
    BY <2>1, <1>t DEF CutoffsPast, WrittenOffForAReason
<1>7. ASSUME NEW p \in Processes, NEW from, from = None \/ from = now - MaxAge, BeginRefill(p, from)
      PROVE  CutoffsPast' /\ WrittenOffForAReason'
  <2>1. /\ now' = now /\ refused' = refused /\ mistaken' = mistaken /\ row' = row
        /\ cutoff' = [cutoff EXCEPT ![p] = from]
    BY <1>7 DEF BeginRefill, ghostVars, answerVars
  <2>2. CutoffsPast'
    BY <2>1, <1>7, <1>t DEF CutoffsPast
  <2> QED
    BY <2>1, <2>2 DEF WrittenOffForAReason
<1>8. CASE StartRefill \/ ForceRefill
  BY <1>7, <1>8 DEF StartRefill, ForceRefill, Processes
<1>9. CASE PassTime
  BY <1>9, <1>a DEF PassTime, refillVars, ghostVars
<1>10. CASE StartRecompare
  BY <1>10, <1>a DEF StartRecompare, refillVars, ghostVars
<1>11. ASSUME NEW r \in Rows,
              \/ \E d \in DrawNumbers[r] : Reopen(r, d)
              \/ \E t \in Tickets[r] : EditTicket(r, t)
              \/ Snapshot(r) \/ SkipDraw(r)
       PROVE  CutoffsPast' /\ WrittenOffForAReason'
  BY <1>11, <1>a DEF Reopen, EditTicket, Snapshot, SkipDraw, refillVars, ghostVars
<1>12. CASE UNCHANGED vars
  BY <1>12, <1>a DEF vars, refillVars, ghostVars
<1> QED
  BY <1>1, <1>2, <1>3, <1>4, <1>5, <1>6, <1>8, <1>9, <1>10, <1>11, <1>12 DEF Next

(* A row is written off by a final answer about the verdict it has, or for *)
(* its age; only one that was judged again can also be written off by an   *)
(* answer about an earlier verdict (refill, _mark_expired_unresolved).     *)
THEOREM WriteOffsHaveAReason == Spec => []WrittenOffForAReason
<1>1. Init => ReadOrCorrected /\ CutoffsPast /\ WrittenOffForAReason
  BY DEF Init, ReadOrCorrected, CutoffsPast, WrittenOffForAReason, NoRow
<1>2. IInv /\ ReadOrCorrected /\ [Next]_vars => ReadOrCorrected'
  BY StepReadings
<1>3. IInv /\ ReadOrCorrected /\ CutoffsPast /\ WrittenOffForAReason /\ [Next]_vars
        => CutoffsPast' /\ WrittenOffForAReason'
  BY StepReasons
<1> QED
  BY <1>1, <1>2, <1>3, Inductive, PTL DEF Spec

(* Whatever the lottery and the day, a row is judged under rules that      *)
(* agree with themselves (compare_combination).                            *)
THEOREM JudgedByTheRules == Spec => []JudgedConsistently
<1>1. JudgedConsistently
  BY RulesAgree DEF JudgedConsistently
<1> QED
  BY <1>1, PTL
=============================================================================
