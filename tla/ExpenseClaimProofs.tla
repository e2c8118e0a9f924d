------------------------- MODULE ExpenseClaimProofs -------------------------
(***************************************************************************)
(* Proofs about ExpenseClaim, for every set of receipts, users, tabs, keys *)
(* and codes, and for every bound.  The inductive invariant adds to the    *)
(* type invariant what the handlers rely on without checking: the report   *)
(* is in order, and attempts and decisions never run ahead of the claim.   *)
(***************************************************************************)
EXTENDS ExpenseClaim, TLAPS

(* Attempts exist for the revisions before the claim's, and for its own    *)
(* once it has left SUBMITTED.                                             *)
AttemptHistory ==
  /\ \A a \in attempts : a.revision <= claim.revision
  /\ claim.state = "NONE" => attempts = {}
  /\ attempts # {} => LatestAttempts(attempts) # {}

-----------------------------------------------------------------------------
(* Lemmas about the operators.                                             *)

(* What a client may submit is a sequence of lines.                        *)
LEMMA ItemListsAreLines ==
  ASSUME NEW items \in ItemLists
  PROVE  \E n \in 1..MaxLines : items \in [1..n -> Line]
<1>1. PICK n \in 1..MaxLines : items \in [1..n -> Items]
  BY DEF ItemLists
<1>2. Amounts \subseteq Nat
  BY ConstantsAssumption
<1>3. Items \subseteq Line
  BY <1>2 DEF Items, Line
<1> QED
  BY <1>1, <1>3

(* A storable header computed from lines is a header.                      *)
LEMMA HeaderOfLines ==
  ASSUME NEW n \in Nat \ {0}, NEW items \in [1..n -> Line], Storable(Header(items))
  PROVE  Header(items) \in HeaderType
<1>1. Header(items).amount \in Nat
  BY DEF Storable
<1>2. Total(items) \in Nat
  BY <1>1 DEF Header
<1>3. items[1].receipt \in Receipts
  BY DEF Line
<1>4. [p \in DOMAIN items |-> items[p].receipt] \in Seq(Receipts)
  <2>1. DOMAIN items = 1..n
    OBVIOUS
  <2>2. [p \in 1..n |-> items[p].receipt] \in [1..n -> Receipts]
    BY DEF Line
  <2> QED
    BY <2>1, <2>2
<1> QED
  BY <1>2, <1>3, <1>4 DEF Header, HeaderType

(* add_report_links makes links, and they are current.                     *)
LEMMA ReportLinksAreLinks ==
  ASSUME NEW n \in Nat, NEW items \in [1..n -> Line], NEW revision \in Nat,
         NEW old \in SUBSET LinkType
  PROVE  /\ ReportLinks(revision, items, old) \in SUBSET LinkType
         /\ Current(ReportLinks(revision, items, old)) = ReportLinks(revision, items, old)
<1>1. ASSUME NEW p \in 1..n, NEW previous \in SUBSET LinkType
      PROVE  /\ NewLink(revision, p, items[p], previous) \in LinkType
             /\ NewLink(revision, p, items[p], previous).current
  <2>1. items[p] \in Line
    OBVIOUS
  <2>2. (IF previous = {} THEN NoLink ELSE LinkId(CHOOSE l \in previous : TRUE))
          \in Nat \X Nat
    BY DEF NoLink, LinkId, LinkType
  <2>3. AttachmentType(revision, items[p], previous) \in Kinds
    BY DEF AttachmentType, Kinds
  <2> QED
    BY <2>1, <2>2, <2>3 DEF NewLink, LinkType, Line
<1>2. \A l \in ReportLinks(revision, items, old) : l \in LinkType /\ l.current
  <2> SUFFICES ASSUME NEW p \in 1..n
               PROVE  LET l == NewLink(revision, p, items[p], {m \in old : m.position = p})
                      IN  l \in LinkType /\ l.current
    BY DEF ReportLinks
  <2> QED
    BY <1>1
<1> QED
  BY <1>2 DEF Current

(* Superseding links leaves none of them current.                          *)
LEMMA SupersededAreLinks ==
  ASSUME NEW ls \in SUBSET LinkType
  PROVE  Superseded(ls) \in SUBSET LinkType /\ Current(Superseded(ls)) = {}
BY DEF Superseded, LinkType, Current

(* The lines of links can be shown.                                        *)
LEMMA LinesAreShown ==
  ASSUME NEW ls \in SUBSET LinkType
  PROVE  LinesOf(ls) \in SUBSET Shown
BY DEF LinesOf, LineOf, Current, LinkType, Shown, Line

(* A report in order carries over as a sequence of lines.                  *)
LEMMA CarriedAreLines ==
  ASSUME TypeOK, ReportInOrder
  PROVE  \E n \in Nat : Carried \in [1..n -> Line]
<1>1. PICK n \in 0..MaxLines : Positions(Current(links)) = 1..n
  BY DEF ReportInOrder
<1>2. ASSUME NEW p \in 1..n
      PROVE  ByPosition(Current(links))[p] \in LinkType
  <2>1. \E l \in Current(links) : l.position = p
    BY <1>1 DEF Positions
  <2>2. (CHOOSE l \in Current(links) : l.position = p) \in Current(links)
    BY <2>1
  <2> QED
    BY <1>1, <2>2 DEF ByPosition, Current, TypeOK
<1>3. ASSUME NEW l \in LinkType
      PROVE  CarriedAmount(l) \in Nat
  BY ConstantsAssumption DEF CarriedAmount, Or, TypeOK, LinkType, ClaimType, HeaderType, NoAmount
<1>4. Carried = [p \in 1..n |->
                   [receipt |-> ByPosition(Current(links))[p].receipt,
                    amount |-> CarriedAmount(ByPosition(Current(links))[p])]]
  BY <1>1 DEF Carried, ByPosition
<1>5. n \in Nat
  BY ConstantsAssumption
<1> QED
  BY <1>2, <1>3, <1>4, <1>5 DEF Line, LinkType

-----------------------------------------------------------------------------
(* The type invariant.                                                     *)

(* The part of the inductive invariant that types the rows.                *)
RowsInv == TypeOK /\ ReportInOrder /\ ReportNotEmpty /\ AttemptHistory

(* The recommendation a reader finds is one that was recorded.             *)
LEMMA RecommendedType ==
  ASSUME TypeOK, AttemptHistory
  PROVE  /\ Recommended(attempts) \in Recommendations \cup {"NONE"}
         /\ Observed \in Recommendations
<1>1. CASE attempts = {}
  BY <1>1 DEF Recommended, Observed, Recommendations
<1>2. CASE attempts # {}
  <2>1. (CHOOSE a \in LatestAttempts(attempts) : TRUE) \in attempts
    BY <1>2 DEF AttemptHistory, LatestAttempts
  <2> QED
    BY <1>2, <2>1 DEF Recommended, Observed, TypeOK, AttemptType
<1> QED
  BY <1>1, <1>2

(* The rows are well typed before the claim exists.                        *)
LEMMA RowsInit == Init => RowsInv
<1> SUFFICES ASSUME Init PROVE RowsInv
  OBVIOUS
<1>1. claim \in ClaimType
  BY DEF Init, NoClaim, NoHeader, ClaimType, HeaderType
<1>2. export \in ExportType
  BY DEF Init, NoExport, EmptyCsv, ExportType, CsvType
<1>3. views \in [Tabs -> ViewType]
  BY DEF Init, NoView, ViewType
<1>4. ReportInOrder
  <2>1. Current(links) = {}
    BY DEF Init, Current
  <2>2. Positions(Current(links)) = 1..0
    BY <2>1 DEF Positions
  <2>3. 0 \in 0..MaxLines
    BY ConstantsAssumption
  <2> QED
    BY <2>1, <2>2, <2>3 DEF ReportInOrder
<1>5. AttemptHistory /\ ReportNotEmpty
  BY DEF Init, NoClaim, AttemptHistory, ReportNotEmpty
<1> QED
  BY <1>1, <1>2, <1>3, <1>4, <1>5 DEF Init, RowsInv, TypeOK

(* A report links its items in order.                                      *)
LEMMA ReportLinksInOrder ==
  ASSUME NEW n \in 1..MaxLines, NEW items \in [1..n -> Line], NEW revision \in Nat,
         NEW old \in SUBSET LinkType, NEW ls \in SUBSET LinkType,
         Current(ls) = {},
         links' = ls \cup ReportLinks(revision, items, old)
  PROVE  /\ links' \in SUBSET LinkType
         /\ ReportInOrder'
         /\ ReportNotEmpty'
<1> DEFINE new == ReportLinks(revision, items, old)
<1>1. new \in SUBSET LinkType /\ Current(new) = new
  BY ReportLinksAreLinks, ConstantsAssumption
<1>2. Current(links') = new
  BY <1>1 DEF Current
<1> DEFINE link(p) == NewLink(revision, p, items[p], {l \in old : l.position = p})
<1>3. new = {link(p) : p \in 1..n}
  BY DEF ReportLinks
<1>4. \A p \in 1..n : link(p).position = p
  BY DEF NewLink
<1> HIDE DEF link, new
<1>5. Positions(new) = 1..n
  BY <1>3, <1>4 DEF Positions
<1>6. \A l, m \in new : l.position = m.position => l = m
  BY <1>3, <1>4
<1>7. n \in 0..MaxLines
  BY ConstantsAssumption
<1>8. links' \in SUBSET LinkType
  BY <1>1 DEF new
<1>9. new # {}
  BY <1>3, ConstantsAssumption
<1> QED
  BY <1>2, <1>5, <1>6, <1>7, <1>8, <1>9 DEF ReportInOrder, ReportNotEmpty

(* Moving the claim to another state leaves a claim row.                   *)
LEMMA MovedType ==
  ASSUME claim \in ClaimType, NEW to \in States
  PROVE  /\ Moved(to) \in ClaimType
         /\ Moved(to).state = to
         /\ Moved(to).revision = claim.revision
         /\ Moved(to).header = claim.header
         /\ Moved(to).rowVersion = claim.rowVersion + 1
<1> DEFINE next == claim.rowVersion + 1
<1>1. next \in Nat
  BY DEF ClaimType
<1>2. Moved(to) = [claim EXCEPT !.state = to, !.rowVersion = next]
  BY DEF Moved
<1> HIDE DEF next
<1>3. Moved(to) \in ClaimType
  BY <1>1, <1>2 DEF ClaimType
<1>4. /\ Moved(to).state = to
      /\ Moved(to).revision = claim.revision
      /\ Moved(to).header = claim.header
      /\ Moved(to).rowVersion = next
  <2>1. DOMAIN claim = {"state", "revision", "rowVersion", "header", "asked"}
    BY DEF ClaimType
  <2> QED
    BY <1>2, <2>1
<1> QED
  BY <1>3, <1>4 DEF next

(* What every resubmission does to the claim row and its history.          *)
LEMMA ResubmittedType ==
  ASSUME RowsInv, NEW header \in HeaderType, NEW newLinks, Resubmitted(header, newLinks)
  PROVE  /\ claim' \in ClaimType
         /\ claim'.state = "SUBMITTED"
         /\ claim'.revision = claim.revision + 1
         /\ claim'.rowVersion = claim.rowVersion + 1
         /\ AttemptHistory'
<1>1. claim \in ClaimType /\ "SUBMITTED" \in States
  BY DEF RowsInv, TypeOK, States
<1>2. /\ claim' \in ClaimType
      /\ claim'.state = "SUBMITTED"
      /\ claim'.revision = claim.revision + 1
      /\ claim'.rowVersion = claim.rowVersion + 1
  <2> DEFINE moved == Moved("SUBMITTED")
  <2>1. /\ moved \in ClaimType /\ moved.state = "SUBMITTED"
        /\ moved.revision = claim.revision /\ moved.rowVersion = claim.rowVersion + 1
    BY <1>1, MovedType
  <2>2. claim' = [moved EXCEPT !.revision = @ + 1, !.header = header, !.asked = FALSE]
    BY DEF Resubmitted
  <2> HIDE DEF moved
  <2>3. claim' = [state |-> "SUBMITTED", revision |-> claim.revision + 1,
                  rowVersion |-> claim.rowVersion + 1, header |-> header, asked |-> FALSE]
    BY <2>1, <2>2 DEF ClaimType
  <2>4. claim.revision + 1 \in Nat /\ claim.rowVersion + 1 \in Nat
    BY <1>1 DEF ClaimType
  <2> QED
    BY <1>1, <2>3, <2>4 DEF ClaimType
<1>3. AttemptHistory'
  BY <1>1, <1>2 DEF Resubmitted, RowsInv, AttemptHistory, TypeOK, AttemptType, ClaimType,
     LatestAttempts
<1> QED
  BY <1>2, <1>3

(* A resubmission with lines keeps the rows in order.                      *)
LEMMA ReportKeepsRows ==
  ASSUME RowsInv, NEW n \in 1..MaxLines, NEW items \in [1..n -> Line], Report(items)
  PROVE  RowsInv'
<1>1. Resubmitted(Header(items),
        Superseded(links) \cup ReportLinks(claim.revision + 1, items, Current(links)))
  BY DEF Report
<1>2. Header(items) \in HeaderType
  BY <1>1, HeaderOfLines, ConstantsAssumption DEF Resubmitted
<1>3. claim' \in ClaimType /\ AttemptHistory'
  BY <1>1, <1>2, ResubmittedType
<1>4. /\ Superseded(links) \in SUBSET LinkType
      /\ Current(Superseded(links)) = {}
      /\ Current(links) \in SUBSET LinkType
  BY SupersededAreLinks DEF RowsInv, TypeOK, Current
<1>5. claim.revision + 1 \in Nat
  BY DEF RowsInv, TypeOK, ClaimType
<1>6. links' = Superseded(links) \cup ReportLinks(claim.revision + 1, items, Current(links))
  BY <1>1 DEF Resubmitted
<1>7. links' \in SUBSET LinkType /\ ReportInOrder' /\ ReportNotEmpty'
  BY <1>4, <1>5, <1>6, ReportLinksInOrder
<1> QED
  BY <1>1, <1>3, <1>7 DEF Resubmitted, RowsInv, TypeOK

(* Every step keeps the rows well typed and in order.                      *)
LEMMA RowsStep == RowsInv /\ [Next]_vars => RowsInv'
<1> SUFFICES ASSUME RowsInv, [Next]_vars PROVE RowsInv'
  OBVIOUS
<1>1. ASSUME NEW t \in Tabs, ReadRow(t) \/ ReadAttempts(t) \/ ReadLinks(t)
      PROVE  RowsInv'
  <2>1. UNCHANGED stored
    BY <1>1 DEF ReadRow, ReadAttempts, ReadLinks
  <2>2. views' \in [Tabs -> ViewType]
    <3>1. views \in [Tabs -> ViewType] /\ NoView \in ViewType
      BY DEF RowsInv, TypeOK, NoView, ViewType
    <3>2. claim.rowVersion \in Nat /\ claim.state \in States \cup {"NONE"}
          /\ claim.header.amount \in Nat
      BY DEF RowsInv, TypeOK, ClaimType, HeaderType
    <3>3. Recommended(attempts) \in Recommendations \cup {"NONE"}
      BY RecommendedType DEF RowsInv
    <3>4. LinesOf(links) \in SUBSET Shown
      BY LinesAreShown DEF RowsInv, TypeOK
    <3>5. CASE ReadRow(t)
      BY <3>1, <3>2, <3>5 DEF ReadRow, ViewType
    <3>6. CASE ReadAttempts(t)
      BY <3>1, <3>3, <3>6 DEF ReadAttempts, ViewType
    <3>7. CASE ReadLinks(t)
      BY <3>1, <3>4, <3>7 DEF ReadLinks, ViewType
    <3> QED
      BY <1>1, <3>5, <3>6, <3>7
  <2> QED
    BY <2>1, <2>2 DEF stored, RowsInv, TypeOK, ReportInOrder, ReportNotEmpty, AttemptHistory
<1>2. ASSUME NEW t \in Tabs, NEW n \in 1..MaxLines, NEW items \in [1..n -> Line],
             Submit(t, items)
      PROVE  RowsInv'
  <2>1. Header(items) \in HeaderType
    BY <1>2, HeaderOfLines, ConstantsAssumption DEF Submit
  <2>2. claim' \in ClaimType /\ claim'.state = "SUBMITTED" /\ claim'.revision = 1
    BY <1>2, <2>1 DEF Submit, NoClaim, ClaimType, States
  <2>3. links' = {} \cup ReportLinks(1, items, {}) /\ Current({}) = {}
    BY <1>2 DEF Submit, Current
  <2>4. links' \in SUBSET LinkType /\ ReportInOrder' /\ ReportNotEmpty'
    BY <2>3, ReportLinksInOrder
  <2>5. AttemptHistory'
    BY <1>2, <2>2 DEF Submit, RowsInv, AttemptHistory
  <2> QED
    BY <1>2, <2>2, <2>4, <2>5 DEF Submit, RowsInv, TypeOK
<1>3. ASSUME NEW recommendation \in Recommendations, Assess(recommendation)
      PROVE  RowsInv'
  <2>1. claim \in ClaimType /\ "AWAITING_REVIEW" \in States
    BY DEF RowsInv, TypeOK, States
  <2>2. /\ claim' \in ClaimType
        /\ claim'.state = "AWAITING_REVIEW"
        /\ claim'.revision = claim.revision
    BY <1>3, <2>1, MovedType DEF Assess
  <2>3. LinesOf(links) \in SUBSET Shown
    BY LinesAreShown DEF RowsInv, TypeOK
  <2> DEFINE new == [revision |-> claim.revision, recommendation |-> recommendation,
                     evidence |-> LinesOf(links)]
  <2>4. attempts' = attempts \cup {new} /\ new \in AttemptType
    BY <1>3, <2>1, <2>3 DEF Assess, AttemptType, ClaimType
  <2>5. attempts' \in SUBSET AttemptType
    BY <2>4 DEF RowsInv, TypeOK
  <2>6. \A a \in attempts' : a.revision <= claim'.revision
    BY <2>1, <2>2, <2>4 DEF RowsInv, AttemptHistory, ClaimType
  <2>7. new \in LatestAttempts(attempts')
    BY <2>2, <2>4, <2>6 DEF LatestAttempts
  <2>8. AttemptHistory'
    BY <2>2, <2>6, <2>7 DEF AttemptHistory
  <2> QED
    BY <1>3, <2>2, <2>5, <2>8 DEF Assess, RowsInv, TypeOK, ReportInOrder, ReportNotEmpty
<1>4. ASSUME NEW t \in Tabs, NEW key \in Keys, NEW body \in BodyType, Decide(t, key, body)
      PROVE  RowsInv'
  <2>1. claim \in ClaimType /\ Target[body.action] \in States
    BY DEF RowsInv, TypeOK, Target, BodyType, Actions, States
  <2>2. claim' \in ClaimType /\ claim'.state # "NONE" /\ claim'.revision = claim.revision
    <3> DEFINE moved == Moved(Target[body.action])
               asked == body.action = "REQUEST_INFORMATION"
    <3>1. /\ moved \in ClaimType /\ moved.state \in States
          /\ moved.revision = claim.revision
      BY <2>1, MovedType
    <3>2. claim' = [moved EXCEPT !.asked = asked]
      BY <1>4 DEF Decide
    <3>3. asked \in BOOLEAN
      OBVIOUS
    <3> HIDE DEF moved, asked
    <3>4. claim' = [state |-> moved.state, revision |-> moved.revision,
                    rowVersion |-> moved.rowVersion, header |-> moved.header,
                    asked |-> asked]
      BY <3>1, <3>2 DEF ClaimType
    <3>5. claim' \in ClaimType
      BY <3>1, <3>3, <3>4 DEF ClaimType
    <3> QED
      BY <3>1, <3>4, <3>5 DEF States
  <2>3. /\ LinesOf(links) \in SUBSET Shown
        /\ Observed \in Recommendations
        /\ UserOf[t] \in Users
        /\ views[t].version \in Nat
    BY LinesAreShown, RecommendedType, ConstantsAssumption DEF RowsInv, TypeOK, ViewType
  <2>4. decisions' \in SUBSET DecisionType
    BY <1>4, <2>1, <2>3 DEF Decide, DecisionType, RowsInv, TypeOK, ClaimType
  <2>5. AttemptHistory' /\ ReportInOrder' /\ ReportNotEmpty'
    BY <1>4, <2>2 DEF Decide, RowsInv, AttemptHistory, ReportInOrder, ReportNotEmpty
  <2> QED
    BY <1>4, <2>2, <2>4, <2>5 DEF Decide, RowsInv, TypeOK
<1>5. ASSUME NEW t \in Tabs, NEW items \in ItemLists,
             ResubmitAppend(t, items) \/ ResubmitReplace(t, items)
      PROVE  RowsInv'
  <2>1. PICK n \in 1..MaxLines : items \in [1..n -> Line]
    BY ItemListsAreLines
  <2>2. CASE ResubmitReplace(t, items)
    BY <2>1, <2>2, ReportKeepsRows DEF ResubmitReplace
  <2>3. CASE ResubmitAppend(t, items)
    <3>1. PICK m \in Nat : Carried \in [1..m -> Line]
      BY CarriedAreLines DEF RowsInv
    <3>2. n \in Nat /\ n >= 1
      BY <2>1, ConstantsAssumption
    <3>3. Carried \in Seq(Line) /\ Len(Carried) = m /\ items \in Seq(Line) /\ Len(items) = n
      BY <2>1, <3>1, <3>2
    <3>4. Appended(items) \in Seq(Line) /\ Len(Appended(items)) = m + n
      BY <3>3 DEF Appended
    <3>5. m + n \in 1..MaxLines
      BY <2>3, <3>1, <3>2, <3>4, ConstantsAssumption DEF ResubmitAppend
    <3>6. Appended(items) \in [1..(m + n) -> Line]
      BY <3>4
    <3> QED
      BY <2>3, <3>5, <3>6, ReportKeepsRows DEF ResubmitAppend
  <2> QED
    BY <1>5, <2>2, <2>3
<1>6. ASSUME NEW t \in Tabs, NEW receipt \in Receipts, ResubmitReceipt(t, receipt)
      PROVE  RowsInv'
  <2> DEFINE item == [receipt |-> receipt, amount |-> Or(Extracted[receipt], claim.header.amount)]
             link(l) == [NewLink(claim.revision + 1, 1, item, {l})
                           EXCEPT !.kind = "REPLACEMENT_RECEIPT"]
  <2>1. PICK previous \in Current(links) :
          Resubmitted(Header(<<item>>), Superseded(links) \cup {link(previous)})
    BY <1>6 DEF ResubmitReceipt
  <2>2. claim.header.amount \in Nat /\ Extracted[receipt] \in Nat /\ claim.revision \in Nat
    BY ConstantsAssumption DEF RowsInv, TypeOK, ClaimType, HeaderType
  <2>3. item \in Line
    BY <2>2 DEF Or, NoAmount, Line
  <2>4. <<item>> \in [1..1 -> Line]
    BY <2>3
  <2>5. Header(<<item>>) \in HeaderType
    <3>1. Storable(Header(<<item>>)) /\ 1 \in Nat \ {0}
      BY <2>1 DEF Resubmitted
    <3> HIDE DEF item
    <3> QED
      BY <2>4, <3>1, HeaderOfLines
  <2>6. claim' \in ClaimType /\ AttemptHistory'
    BY <2>1, <2>5, ResubmittedType
  <2>7. previous \in LinkType
    BY DEF RowsInv, TypeOK, Current
  <2>8. LinkId(CHOOSE l \in {previous} : TRUE) \in Nat \X Nat
    BY <2>7 DEF LinkId, LinkType
  <2>9. link(previous) \in LinkType /\ link(previous).current /\ link(previous).position = 1
    <3> DEFINE new == NewLink(claim.revision + 1, 1, item, {previous})
               kind == AttachmentType(claim.revision + 1, item, {previous})
               older == LinkId(CHOOSE l \in {previous} : TRUE)
    <3>1. new = [revision |-> claim.revision + 1, position |-> 1,
                 receipt |-> item.receipt, amount |-> item.amount,
                 kind |-> kind, current |-> TRUE, supersedes |-> older]
      <4> HIDE DEF item
      <4> QED
        BY DEF NewLink
    <3>2. kind \in Kinds /\ older \in Nat \X Nat
      BY <2>8 DEF AttachmentType, Kinds
    <3>3. item.receipt \in Receipts /\ item.amount \in Nat /\ claim.revision + 1 \in Nat
      BY <2>2, <2>3 DEF Line
    <3> HIDE DEF item, kind, older, new
    <3>4. new \in LinkType /\ new.current /\ new.position = 1
      BY <3>1, <3>2, <3>3 DEF LinkType
    <3>5. "REPLACEMENT_RECEIPT" \in Kinds
      BY DEF Kinds
    <3>6. [new EXCEPT !.kind = "REPLACEMENT_RECEIPT"] \in LinkType
      BY <3>4, <3>5 DEF LinkType
    <3>7. [new EXCEPT !.kind = "REPLACEMENT_RECEIPT"].current
      BY <3>4 DEF LinkType
    <3>8. [new EXCEPT !.kind = "REPLACEMENT_RECEIPT"].position = 1
      BY <3>4 DEF LinkType
    <3> QED
      BY <3>6, <3>7, <3>8 DEF new
  <2> HIDE DEF link
  <2>10. Superseded(links) \in SUBSET LinkType /\ Current(Superseded(links)) = {}
    BY SupersededAreLinks DEF RowsInv, TypeOK
  <2>11. links' = Superseded(links) \cup {link(previous)}
    BY <2>1 DEF Resubmitted
  <2>12. Current(links') = {link(previous)}
    BY <2>9, <2>10, <2>11 DEF Current
  <2>13. Positions(Current(links')) = 1..1 /\ 1 \in 0..MaxLines
    BY <2>9, <2>12, ConstantsAssumption DEF Positions
  <2>14. ReportInOrder' /\ ReportNotEmpty'
    BY <2>12, <2>13 DEF ReportInOrder, ReportNotEmpty
  <2>15. links' \in SUBSET LinkType
    BY <2>9, <2>10, <2>11
  <2> QED
    BY <2>1, <2>6, <2>14, <2>15 DEF Resubmitted, RowsInv, TypeOK
<1>7. ASSUME NEW t \in Tabs, ResubmitPurpose(t)
      PROVE  RowsInv'
  <2>1. claim.header \in HeaderType /\ Resubmitted(claim.header, links)
    BY <1>7 DEF ResubmitPurpose, RowsInv, TypeOK, ClaimType
  <2>2. claim' \in ClaimType /\ AttemptHistory'
    BY <2>1, ResubmittedType
  <2> QED
    BY <1>7, <2>1, <2>2 DEF ResubmitPurpose, MayResubmit, Resubmitted, RowsInv, TypeOK,
       ReportInOrder, ReportNotEmpty
<1>8. ASSUME NEW t \in Tabs, NEW code \in Codes, ExportSucceeds(t, code) \/ ExportFails(t, code)
      PROVE  RowsInv'
  <2>1. claim \in ClaimType /\ {"EXPORTED", "EXPORT_FAILED"} \subseteq States
    BY DEF RowsInv, TypeOK, States
  <2>2. claim' \in ClaimType /\ claim'.state # "NONE" /\ claim'.revision = claim.revision
    BY <1>8, <2>1, MovedType DEF ExportSucceeds, ExportFails
  <2>3. CsvLines \in SUBSET Shown
    <3>1. Current(links) # {}
      BY <1>8 DEF ExportSucceeds, ExportFails, MayExport, RowsInv, ReportNotEmpty
    <3>2. claim.header.amount \in Nat
      BY <2>1 DEF ClaimType, HeaderType
    <3>3. \A l \in Current(links) :
            l.position \in Nat /\ l.receipt \in Receipts /\ l.amount \in Nat
      BY DEF Current, RowsInv, TypeOK, LinkType
    <3> QED
      BY <3>1, <3>2, <3>3 DEF CsvLines, Shown, Line, Or, NoAmount
  <2>4. export' \in ExportType
    BY <1>8, <2>3 DEF ExportSucceeds, ExportFails, ExportType, CsvType, EmptyCsv
  <2> QED
    BY <1>8, <2>2, <2>4 DEF ExportSucceeds, ExportFails, MayExport, RowsInv, TypeOK,
       ReportInOrder, ReportNotEmpty, AttemptHistory
<1>9. ASSUME UNCHANGED vars
      PROVE  RowsInv'
  BY <1>9 DEF vars, stored, RowsInv, TypeOK, ReportInOrder, ReportNotEmpty, AttemptHistory
<1>10. ASSUME NEW t \in Tabs, NEW item \in Items, SubmitExpense(t, item)
       PROVE  RowsInv'
  <2>1. Amounts \subseteq Nat
    BY ConstantsAssumption
  <2>2. item \in Line
    BY <2>1 DEF Items, Line
  <2>3. <<item>> \in [1..1 -> Line] /\ 1 \in 1..MaxLines
    BY <2>2, ConstantsAssumption
  <2> QED
    BY <1>2, <1>10, <2>3 DEF SubmitExpense
<1>11. ASSUME NEW t \in Tabs, NEW items \in ItemLists, SubmitReport(t, items)
       PROVE  RowsInv'
  BY <1>2, <1>11, ItemListsAreLines DEF SubmitReport
<1> QED
  BY <1>1, <1>3, <1>4, <1>5, <1>6, <1>7, <1>8, <1>9, <1>10, <1>11 DEF Next

(* The rows of a claim keep their types, whatever the sizes of its report, *)
(* its history and its audience.                                           *)
THEOREM TypeCorrect == Spec => []TypeOK
<1>1. RowsInv => TypeOK
  BY DEF RowsInv
<1> QED
  BY RowsInit, RowsStep, <1>1, PTL DEF Spec

-----------------------------------------------------------------------------
(* Optimistic concurrency.                                                 *)

\* The steps that only read.
Reads == \E t \in Tabs : ReadRow(t) \/ ReadAttempts(t) \/ ReadLinks(t)

\* Before it is submitted, a claim is no row at all.
Unborn == claim.state = "NONE" => claim = NoClaim

(* What every handler that changes a claim does to its version.            *)
Stamped ==
  /\ claim'.rowVersion = claim.rowVersion + 1
  /\ claim'.state # "NONE"
  /\ UNCHANGED views

(* Every resubmission stamps the row and opens a revision.                 *)
LEMMA ResubmittedStamps ==
  ASSUME claim \in ClaimType, NEW header, NEW newLinks, Resubmitted(header, newLinks)
  PROVE  /\ Stamped
         /\ claim'.state = "SUBMITTED"
         /\ claim'.revision = claim.revision + 1
         /\ claim'.header = header
<1> DEFINE moved == Moved("SUBMITTED")
<1>1. "SUBMITTED" \in States
  BY DEF States
<1>2. moved \in ClaimType /\ moved.state = "SUBMITTED"
      /\ moved.rowVersion = claim.rowVersion + 1 /\ moved.revision = claim.revision
  BY <1>1, MovedType
<1>3. claim' = [moved EXCEPT !.revision = @ + 1, !.header = header, !.asked = FALSE]
      /\ UNCHANGED views
  BY DEF Resubmitted
<1> HIDE DEF moved
<1>4. DOMAIN moved = {"state", "revision", "rowVersion", "header", "asked"}
  BY <1>2 DEF ClaimType
<1> QED
  BY <1>2, <1>3, <1>4 DEF Stamped

(* A decision stamps the row and moves it to the action's target.          *)
LEMMA DecideStamps ==
  ASSUME claim \in ClaimType, NEW t, NEW key, NEW body \in BodyType, Decide(t, key, body)
  PROVE  /\ Stamped
         /\ claim'.state = Target[body.action]
         /\ claim'.revision = claim.revision
         /\ claim'.header = claim.header
<1> DEFINE moved == Moved(Target[body.action])
<1>1. Target[body.action] \in States
  BY DEF Target, BodyType, Actions, States
<1>2. /\ moved \in ClaimType /\ moved.state = Target[body.action]
      /\ moved.rowVersion = claim.rowVersion + 1 /\ moved.revision = claim.revision
      /\ moved.header = claim.header
  BY <1>1, MovedType
<1>3. claim' = [moved EXCEPT !.asked = body.action = "REQUEST_INFORMATION"]
      /\ UNCHANGED views
  BY DEF Decide
<1> HIDE DEF moved
<1>4. DOMAIN moved = {"state", "revision", "rowVersion", "header", "asked"}
  BY <1>2 DEF ClaimType
<1> QED
  BY <1>1, <1>2, <1>3, <1>4 DEF Stamped, States

(* A step reads, stutters, or stamps the row.                              *)
LEMMA StepsStamp ==
  ASSUME RowsInv, Unborn, [Next]_vars
  PROVE  UNCHANGED vars \/ Reads \/ Stamped
<1> USE DEF Stamped
<1>1. claim \in ClaimType
  BY DEF RowsInv, TypeOK
<1>2. ASSUME NEW t \in Tabs, NEW items, Submit(t, items)
      PROVE  Stamped
  <2>1. claim.rowVersion = 0
    BY <1>2 DEF Submit, Unborn, NoClaim
  <2> QED
    BY <1>2, <2>1 DEF Submit, NoClaim
<1>3. ASSUME NEW to \in States, claim' = Moved(to), UNCHANGED views
      PROVE  Stamped
  BY <1>1, <1>3, MovedType DEF States
<1>4. ASSUME NEW recommendation \in Recommendations, Assess(recommendation)
      PROVE  Stamped
  BY <1>3, <1>4 DEF Assess, States
<1>5. ASSUME NEW t \in Tabs, NEW key \in Keys, NEW body \in BodyType, Decide(t, key, body)
      PROVE  Stamped
  BY <1>1, <1>5, DecideStamps
<1>6. ASSUME NEW t \in Tabs, NEW items,
             ResubmitAppend(t, items) \/ ResubmitReplace(t, items)
      PROVE  Stamped
  BY <1>1, <1>6, ResubmittedStamps DEF ResubmitAppend, ResubmitReplace, Report
<1>7. ASSUME NEW t \in Tabs, NEW receipt, ResubmitReceipt(t, receipt)
      PROVE  Stamped
  BY <1>1, <1>7, ResubmittedStamps DEF ResubmitReceipt
<1>8. ASSUME NEW t \in Tabs, ResubmitPurpose(t)
      PROVE  Stamped
  BY <1>1, <1>8, ResubmittedStamps DEF ResubmitPurpose
<1>9. ASSUME NEW t \in Tabs, NEW code, ExportSucceeds(t, code) \/ ExportFails(t, code)
      PROVE  Stamped
  BY <1>3, <1>9 DEF ExportSucceeds, ExportFails, States
<1> HIDE DEF Stamped
<1>10. CASE UNCHANGED vars
  BY <1>10
<1>11. CASE Next
  BY <1>2, <1>4, <1>5, <1>6, <1>7, <1>8, <1>9, <1>11
     DEF Next, Reads, SubmitExpense, SubmitReport
<1> QED
  BY <1>10, <1>11

(* The inductive invariant behind FreshViewIsTrue.                         *)
VersionInv == RowsInv /\ Unborn /\ FreshViewIsTrue

(* Every step keeps fresh views true.                                      *)
LEMMA VersionStep == VersionInv /\ [Next]_vars => VersionInv'
<1> SUFFICES ASSUME VersionInv, [Next]_vars PROVE VersionInv'
  OBVIOUS
<1>1. RowsInv'
  BY RowsStep DEF VersionInv
<1>2. views \in [Tabs -> ViewType] /\ claim.rowVersion \in Nat
  BY DEF VersionInv, RowsInv, TypeOK, ClaimType
<1>3. \A t \in Tabs : views[t].version \in Nat
  BY <1>2 DEF ViewType
<1>4. CASE UNCHANGED vars
  BY <1>1, <1>4 DEF vars, stored, VersionInv, Unborn, FreshViewIsTrue
<1>5. CASE Stamped
  <2>1. \A t \in Tabs : views'[t].version < claim'.rowVersion
    BY <1>2, <1>3, <1>5 DEF Stamped, VersionInv, FreshViewIsTrue
  <2>2. claim'.rowVersion \in Nat
    BY <1>2, <1>5 DEF Stamped
  <2>3. FreshViewIsTrue'
    BY <1>3, <1>5, <2>1, <2>2 DEF Stamped, FreshViewIsTrue
  <2> QED
    BY <1>1, <1>5, <2>3 DEF Stamped, VersionInv, Unborn
<1>6. CASE Reads
  <2>1. PICK t \in Tabs : ReadRow(t) \/ ReadAttempts(t) \/ ReadLinks(t)
    BY <1>6 DEF Reads
  <2>2. UNCHANGED stored
    BY <2>1 DEF ReadRow, ReadAttempts, ReadLinks
  <2>3. \A u \in Tabs : u # t => views'[u] = views[u]
    BY <1>2, <2>1 DEF ReadRow, ReadAttempts, ReadLinks
  <2> DEFINE Shows(view) ==
        /\ view.version <= claim.rowVersion
        /\ view.stage # "NONE" /\ view.version = claim.rowVersion =>
             /\ view.state = claim.state
             /\ view.amount = claim.header.amount
             /\ view.stage \in {"ASSESSMENT", "SHOWN"} =>
                  view.recommendation = Recommended(attempts)
             /\ view.stage = "SHOWN" => view.lines = LinesOf(links)
  <2>4. \A u \in Tabs : Shows(views[u])
    BY DEF VersionInv, FreshViewIsTrue
  <2>5. Shows(views'[t])
    <3>1. CASE ReadRow(t)
      <4>1. /\ views'[t].stage = "ROW" /\ views'[t].version = claim.rowVersion
            /\ views'[t].state = claim.state /\ views'[t].amount = claim.header.amount
        BY <1>2, <3>1 DEF ReadRow, NoView
      <4> QED
        BY <1>2, <4>1
    <3>2. CASE ReadAttempts(t)
      <4>1. /\ views[t].stage = "ROW" /\ views'[t].stage = "ASSESSMENT"
            /\ views'[t].version = views[t].version /\ views'[t].state = views[t].state
            /\ views'[t].amount = views[t].amount
            /\ views'[t].recommendation = Recommended(attempts)
        BY <1>2, <3>2 DEF ReadAttempts, ViewType
      <4> QED
        BY <2>4, <4>1
    <3>3. CASE ReadLinks(t)
      <4>1. /\ views[t].stage = "ASSESSMENT" /\ views'[t].stage = "SHOWN"
            /\ views'[t].version = views[t].version /\ views'[t].state = views[t].state
            /\ views'[t].amount = views[t].amount
            /\ views'[t].recommendation = views[t].recommendation
            /\ views'[t].lines = LinesOf(links)
        BY <1>2, <3>3 DEF ReadLinks, ViewType
      <4> QED
        BY <2>4, <4>1
    <3> QED
      BY <2>1, <3>1, <3>2, <3>3
  <2>6. \A u \in Tabs : Shows(views'[u])
    BY <2>3, <2>4, <2>5
  <2>7. FreshViewIsTrue'
    BY <2>2, <2>6 DEF stored, FreshViewIsTrue
  <2> QED
    BY <1>1, <2>2, <2>7 DEF stored, VersionInv, Unborn
<1> QED
  BY <1>4, <1>5, <1>6, StepsStamp DEF VersionInv

(* Comparing row versions is enough: what a tab of the stored version      *)
(* shows is what is stored, whatever the order of reads and handlers.      *)
THEOREM FreshViews == Spec => []FreshViewIsTrue
<1>1. Init => VersionInv
  <2> SUFFICES ASSUME Init PROVE VersionInv
    OBVIOUS
  <2>1. Unborn
    BY DEF Init, Unborn
  <2>2. FreshViewIsTrue
    BY DEF Init, NoClaim, NoView, FreshViewIsTrue
  <2> QED
    BY RowsInit, <2>1, <2>2 DEF VersionInv
<1>2. VersionInv => FreshViewIsTrue
  BY DEF VersionInv
<1> QED
  BY <1>1, VersionStep, <1>2, PTL DEF Spec
=============================================================================
