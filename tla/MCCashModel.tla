----------------------------- MODULE MCCashModel -----------------------------
(***************************************************************************)
(* CashModel for TLC: three days, words of six bits (-32 .. 31), amounts   *)
(* up to 4 and three movements, so that the largest sum Validate lets      *)
(* through (opening, three movements and a buffer: 4 + 3 * 4 + 4) fits a   *)
(* word and one more movement's worth would still fit, as in the code      *)
(* 5,002 * 10^14 fits 64 bits.                                             *)
(***************************************************************************)
EXTENDS CashModel

CONSTANT s1

Plain(id, date, kind, amount) ==
  [id |-> id, date |-> date, kind |-> kind, amount |-> amount, certainty |-> "estimated",
   growth |-> FALSE, evidence |-> FALSE, source |-> None, original |-> None, adjusted |-> FALSE]

Financing(id, date, certainty, evidence) ==
  [Plain(id, date, "financing", 3) EXCEPT !.certainty = certainty, !.evidence = evidence]

Imported(id, source, date, amount, adjusted) ==
  [Plain(id, date, "receipt", amount) EXCEPT
     !.source = source, !.original = <<2, 2>>, !.adjusted = adjusted]

MCDays == 0 .. 3
MCIds == {"m1", "m2", "m3"}
MCSources == {s1}

MCCandidates ==
  {Plain("m1", date, kind, 4) : date \in 1 .. 3, kind \in {"receipt", "payment"}}
  \cup {Plain("m2", date, kind, 2) : date \in {1, 2}, kind \in {"receipt", "payment"}}
  \cup {Plain("m3", date, "payment", 3) : date \in {1, 3}}
  \cup {Financing("m2", 2, "committed", evidence) : evidence \in BOOLEAN}
  \cup {Financing("m3", 2, certainty, TRUE) : certainty \in {"conditional", "proposed"}}
  \cup {[Plain("m3", 2, "payment", 3) EXCEPT !.growth = TRUE]}
  \cup {Imported("m1", s1, 2, 2, FALSE), Imported("m2", s1, 2, 2, FALSE),
        Imported("m3", s1, 3, 2, FALSE), Imported("m3", s1, 3, 1, TRUE)}
  \cup {Plain("m1", 0, "receipt", 2), Plain("m1", 2, "receipt", -3),
        Plain("m1", 2, "receipt", 5), Plain("m1", 2, "other", 2), Plain(None, 2, "receipt", 2),
        [Plain("m1", 2, "receipt", 2) EXCEPT !.certainty = "committed"]}

MCSchedules ==
  {[described |-> described, asOf |-> 1, horizon |-> horizon, opening |-> opening,
    restricted |-> restricted, buffer |-> buffer, substantiated |-> TRUE, movements |-> <<>>] :
     described \in BOOLEAN, horizon \in {0, 3},
     opening \in {None, -32, -4, 4, 5},
     restricted \in {0, 2}, buffer \in {0, 4}}
=============================================================================
