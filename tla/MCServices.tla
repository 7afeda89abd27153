------------------------------ MODULE MCServices ------------------------------
(* Services on small data.                                                 *)
EXTENDS Services

(* Pasts of a key that teach to raise its confidence, and nothing.         *)
MCCount(confirmed, overestimated) ==
  [confirmed |-> confirmed, mitigated |-> 0, partially |-> 0,
   overestimated |-> overestimated, other |-> 0]
MCPast == {MCCount(7, 0), MCCount(3, 2)}

(* Nothing; a part of the region; the whole of it and, graver, a part.     *)
MCNotice(whole, types) == [whole |-> whole, types |-> types]
MCNotices == {{}, {MCNotice(FALSE, <<"artillery">>)},
              {MCNotice(TRUE, <<"air">>), MCNotice(FALSE, <<"air", "chemical">>)}}

(* Fast, slow and grounded threats, with each way to tell a time, and one  *)
(* whose date cannot be read.                                              *)
MCThreat(type, predictive, eta) ==
  [region |-> "r1", type |-> type, predictive |-> predictive, eta |-> eta, dated |-> TRUE]
MCEta(form, from, n) == [form |-> form, from |-> from, n |-> n]
MCCard == {MCThreat("shahed", FALSE, MCEta("none", 0, 0)),
           MCThreat("kab", TRUE, MCEta("minutes_range", 5, 10)),
           MCThreat("ballistic", FALSE, MCEta("hours_minutes", 1, 20)),
           [MCThreat("fpv", FALSE, MCEta("none", 0, 0)) EXCEPT !.dated = FALSE]}

(* Shelters in cells 3 by 2: two at one place, two side by side, some on   *)
(* either side of the edge of a cell; a search wider than the farthest     *)
(* question for a place.                                                   *)
MCRegionOf(x) == IF x < 9 THEN "west" ELSE "east"
MCTier(id) == IF id \in {"garage", "cellar"} THEN 1 ELSE IF id = "clinic" THEN 2 ELSE 0
MCAt(id, x, y) ==
  [id |-> id, at |-> <<x, y>>, region |-> MCRegionOf(x), tier |-> MCTier(id)]
MCRegionFiles == {{MCAt("school", 2, 2)}, {}}
MCGov == {MCAt("metro", 2, 2), MCAt("cellar", 9, 5)}
MCElem(id, x, y) ==
  [id |-> id, at |-> <<x, y>>, region |-> MCRegionOf(x), tier |-> MCTier(id),
   defence |-> id # "bus stop"]
MCElement == {MCElem("bunker", 3, 2), MCElem("garage", 9, 8), MCElem("subway", 9, 9),
              MCElem("clinic", 15, 6), MCElem("ward", 15, 6), MCElem("bus stop", 9, 7)}
MCSearch(x, radius, limit) == [at |-> <<x, 6>>, radius |-> radius, limit |-> limit]
MCQuery == {MCSearch(1, 0, 1), MCSearch(1, 3, 1), MCSearch(1, 4, 3), MCSearch(1, 7, 1),
            MCSearch(11, 3, 1), MCSearch(11, 4, 3)}

(* The south of the country: bearings and distances between its centres.   *)
MCOblast == <<"crimea", "odesa", "mykolaiv", "kherson", "kirovohrad", "dnipro",
              "vinnytsia", "cherkasy">>
MCBorder ==
  [crimea |-> <<"kherson">>,
   odesa |-> <<"vinnytsia", "kirovohrad", "mykolaiv">>,
   mykolaiv |-> <<"odesa", "kirovohrad", "dnipro", "kherson">>,
   kherson |-> <<"mykolaiv", "dnipro", "crimea">>,
   kirovohrad |-> <<"cherkasy", "vinnytsia", "odesa", "mykolaiv", "dnipro">>,
   dnipro |-> <<"kirovohrad", "mykolaiv", "kherson">>,
   vinnytsia |-> <<"cherkasy", "kirovohrad", "odesa">>,
   cherkasy |-> <<"vinnytsia", "kirovohrad">>]
MCWay == {<<"odesa", "vinnytsia", 321, 349>>, <<"odesa", "kirovohrad", 37, 252>>,
  <<"odesa", "mykolaiv", 68, 113>>, <<"mykolaiv", "odesa", 248, 113>>,
  <<"mykolaiv", "kirovohrad", 10, 168>>, <<"mykolaiv", "dnipro", 64, 279>>,
  <<"mykolaiv", "kherson", 120, 62>>, <<"kherson", "mykolaiv", 300, 62>>,
  <<"kherson", "dnipro", 53, 272>>, <<"kherson", "crimea", 132, 188>>,
  <<"kirovohrad", "cherkasy", 347, 105>>, <<"kirovohrad", "vinnytsia", 281, 289>>,
  <<"kirovohrad", "odesa", 217, 252>>, <<"kirovohrad", "mykolaiv", 190, 168>>,
  <<"kirovohrad", "dnipro", 91, 205>>, <<"dnipro", "kirovohrad", 271, 205>>,
  <<"dnipro", "mykolaiv", 244, 279>>, <<"dnipro", "kherson", 233, 272>>,
  <<"vinnytsia", "cherkasy", 87, 261>>, <<"vinnytsia", "kirovohrad", 101, 289>>,
  <<"vinnytsia", "odesa", 141, 349>>, <<"cherkasy", "vinnytsia", 267, 261>>,
  <<"cherkasy", "kirovohrad", 167, 105>>, <<"crimea", "kherson", 312, 188>>}
MCPair == {<<w[1], w[2]>> : w \in MCWay}
MCOf(n) == [p \in MCPair |-> (CHOOSE w \in MCWay : <<w[1], w[2]>> = p)[n]]
MCCourse == MCOf(3)
MCFar == MCOf(4)
MCCorridor == {<<"odesa", "mykolaiv", "kirovohrad", "cherkasy">>,
               <<"mykolaiv", "kirovohrad", "vinnytsia">>}
MCRule(kind, from, to, type, score, n, active, minutes) ==
  [kind |-> kind, from |-> from, to |-> to, type |-> type, score |-> score,
   n |-> n, active |-> active, minutes |-> minutes]
MCExperience == {MCRule("route", "odesa", "vinnytsia", "any", 86, 9, TRUE, 0),
                 MCRule("route", "odesa", "vinnytsia", "any", 60, 5, TRUE, 0),
                 MCRule("route", "kherson", "dnipro", "any", 90, 6, FALSE, 0),
                 MCRule("route", "kherson", "mykolaiv", "any", 50, 9, TRUE, 0),
                 MCRule("eta_math", "mykolaiv", "kirovohrad", "shahed", 70, 4, TRUE, 80)}
MCConfirmed == [p \in MCPair |-> IF p = <<"kherson", "dnipro">> THEN 4 ELSE 0]

(* Threats with a heading, a direction or neither, slow and fast, and one  *)
(* that does not travel.                                                   *)
MCOver(level, type, predictive, heading, vector, speed) ==
  [level |-> level, type |-> type, predictive |-> predictive,
   heading |-> heading, vector |-> vector, speed |-> speed]
MCQuiet == MCOver("none", "unknown", FALSE, NoHeading, "unknown", 0)
MCNorth == MCOver("critical", "shahed", FALSE, 20, "unknown", 0)
MCWest == MCOver("high", "cruise_missile", FALSE, NoHeading, "southeast_to_northwest", 0)
MCSlow == MCOver("low", "shahed", FALSE, 300, "unknown", 100)
MCBlind == MCOver("medium", "shahed", FALSE, NoHeading, "unknown", 0)
MCBomb == MCOver("high", "kab", FALSE, 20, "unknown", 0)
MCYellow == MCOver("low", "shahed", TRUE, NoHeading, "unknown", 0)
MCSky ==
  {[card |-> [r \in ToSet(MCOblast) |->
      CASE r = "odesa" -> o [] r = "mykolaiv" -> m [] r = "kherson" -> k
        [] r = "kirovohrad" -> c [] r = "vinnytsia" -> v [] OTHER -> MCQuiet],
    cold |-> cold] :
   o \in {MCQuiet, MCNorth, MCSlow, MCBlind}, m \in {MCQuiet, MCNorth, MCWest, MCBlind},
   k \in {MCQuiet, MCNorth, MCSlow, MCBomb}, c \in {MCQuiet, MCWest, MCSlow},
   v \in {MCQuiet, MCYellow}, cold \in {{}, {<<"cherkasy", "cruise_missile">>}}}
===============================================================================
