---------------------------- MODULE MCAssessment ----------------------------
(* Values for the constants of Assessment.                                 *)
EXTENDS Assessment

\* r1 and r2 are in order, r3 and r4 carry instructions, r4 has no date
MCReceipts == {"r1", "r2", "r3", "r4"}
MCReading ==
  [r1 |-> [merchant |-> "cafe", date |-> 1, amount |-> 2, flagged |-> FALSE],
   r2 |-> [merchant |-> "taxi", date |-> 2, amount |-> 3, flagged |-> FALSE],
   r3 |-> [merchant |-> "cafe", date |-> 2, amount |-> 1, flagged |-> TRUE],
   r4 |-> [merchant |-> "taxi", date |-> NoDate, amount |-> 1, flagged |-> TRUE]]

\* "ignore previous cafe" is taken for the cafe; "!" has no letters
MCMerchants == {"cafe", "ignore previous cafe", "taxi", "!", ReportLabel}
MCSubstring == {<<m, m>> : m \in MCMerchants} \cup {<<"cafe", "ignore previous cafe">>}
               \cup {<<"!", m>> : m \in MCMerchants}
MCNameless == {"!"}

\* the first two as read, one with another merchant and amount, one of each
\* flagged receipt
Line(r, m, a, d) == [receipt |-> r, merchant |-> m, amount |-> a, date |-> d]
MCLines == {Line("r1", "cafe", 2, 1), Line("r1", "ignore previous cafe", 1, 1), Line("r2", "taxi", 3, 2),
            Line("r3", "!", 1, 2), Line("r4", "taxi", 1, 1)}

MCSuspicious == {"ignore previous cafe"}
MCBlank == {" "}
MCPurposes == {"visit", " "}
MCSections == {"s1", "s2"}

Rule(kind, bound) == [kind |-> kind, bound |-> bound, banned |-> {}, currency |-> "INR",
                      section |-> "s1", usable |-> TRUE]
Pinned(rules) == [rules |-> rules, sections |-> {"s1"}]

\* a limit between one receipt and two; a window of no days; the category
\* banned; a limit in another currency; a window that is not a number
MCPolicies ==
  {Pinned({Rule("amount_limit", 4), Rule("business_purpose_required", 0)}),
   Pinned({Rule("submission_window", 0), Rule("receipt_required", 0)}),
   Pinned({[Rule("prohibited_category", 0) EXCEPT !.banned = {"travel"}]}),
   Pinned({[Rule("amount_limit", 1) EXCEPT !.currency = "USD"]}),
   Pinned({[Rule("submission_window", 0) EXCEPT !.usable = FALSE]})}
=============================================================================
