----------------------------- MODULE PrizeSources ----------------------------
(***************************************************************************)
(* What the refill job makes of the answer of an official source when it   *)
(* asks for the amount of a floating tier (adapters/cwl_prize.py and       *)
(* adapters/sporttery_prize.py, routed by main._build_amount_lookup):      *)
(*   "amount"     the amount is announced                                  *)
(*   "notYet"     not announced yet (None)                                 *)
(*   "transient"  any other exception: asked again in the next round       *)
(*   "permanent"  PermanentLookupError: the row is written off at once     *)
(* An answer stands for all that are read alike: "error" is a failure of   *)
(* the network, an HTTP status or an answer that is no object, "pending" a *)
(* tier without its amount, "garbled" an amount that is no number.         *)
(***************************************************************************)

(* CwlPrizeSource.lookup_amount                                            *)
CwlLookup ==
  [error |-> "transient", unreadable |-> "transient", stateNotZero |-> "notYet",
   empty |-> "notYet", noTier |-> "notYet", pending |-> "notYet",
   garbled |-> "permanent", amount |-> "amount"]

(* SportteryPrizeSource._lookup_json and _extract_tier_amount; "fallback": *)
(* the answer is not of the shape expected.                                *)
JsonLookup ==
  [error |-> "transient", stateNotZero |-> "transient", unreadable |-> "fallback",
   noLevels |-> "fallback", empty |-> "notYet", otherIssue |-> "notYet",
   noTier |-> "notYet", pending |-> "notYet", garbled |-> "permanent",
   amount |-> "amount"]

(* SportteryPrizeSource._lookup_pdf and _parse_pdf_amount; "drift": a text *)
(* in which the tier is not found.                                         *)
PdfLookup ==
  [missing |-> "notYet", blank |-> "notYet", error |-> "transient",
   tooLarge |-> "permanent", corrupt |-> "permanent", drift |-> "permanent",
   amount |-> "amount"]

(* SportteryPrizeSource.lookup_amount: the bulletin in PDF is asked only   *)
(* when the JSON cannot be read, not when it says "not yet" or fails.      *)
SportteryLookup(json, pdf) ==
  IF JsonLookup[json] = "fallback" THEN PdfLookup[pdf] ELSE JsonLookup[json]

CwlCodes       == {"ssq", "qlc"}
SportteryCodes == {"dlt", "qxc"}

(* _build_amount_lookup: what may come of asking for an amount; a lottery  *)
(* that neither source knows is never announced.                           *)
Outcomes(code) ==
  IF code \in CwlCodes THEN {CwlLookup[answer] : answer \in DOMAIN CwlLookup}
  ELSE IF code \in SportteryCodes
  THEN {SportteryLookup(json, pdf) : json \in DOMAIN JsonLookup, pdf \in DOMAIN PdfLookup}
  ELSE {"notYet"}
=============================================================================
