------------------------- MODULE ReportClientProofs -------------------------
(***************************************************************************)
(* Proofs about ReportClient, for any number of receipts, claims and       *)
(* requests.  The busy flag means that at most one upload or request is    *)
(* open (Alone); hence what a success throws away is part of what its      *)
(* request carried (Pending), and that is filed (Filings).  A receipt has  *)
(* one place on the page, and a request only carries receipts of one       *)
(* place (Places): no success clears what another request has filed.       *)
(***************************************************************************)
EXTENDS ReportClient, SequenceTheorems, TLAPS

Homes == Ids \cup {0}

(* The receipts on the page that are meant for a new report, or for one    *)
(* claim.                                                                  *)
At(h) == IF h = 0 THEN drafts ELSE staged[h]

Open == {q \in DOMAIN requests : requests[q].told \in {"NOTHING", "DONE"}}

(* What requests and lists refer to exists.                                *)
Rows ==
  /\ \A q \in DOMAIN requests :
       /\ requests[q].claim = 0 <=> requests[q].kind = "SUBMIT"
       /\ requests[q].claim # 0 => requests[q].claim \in DOMAIN claims
       /\ requests[q].kind = "DECIDE" => requests[q].items = {}
       /\ requests[q].items \subseteq kept
       /\ requests[q].told \in {"DONE", "REFRESHED"} => requests[q].server = "DONE"
  /\ \A list \in late \cup {shown} : DOMAIN list \subseteq DOMAIN claims

(* At most one upload or one request is open, and then the buttons are     *)
(* disabled.                                                               *)
Alone ==
  /\ ~busy => uploads = {} /\ Open = {}
  /\ uploads # {} => Open = {}
  /\ \A u, v \in uploads : u = v
  /\ \A p, q \in Open : p = q

(* A receipt has one place, on the page and in the requests.               *)
Places ==
  /\ \A h, k \in Homes : h # k => At(h) \cap At(k) = {}
  /\ \A u \in uploads : u.files \cap kept = {}
  /\ \A q \in DOMAIN requests, k \in Homes :
       requests[q].claim # k => requests[q].items \cap At(k) = {}
  /\ \A p, q \in DOMAIN requests :
       requests[p].claim # requests[q].claim => requests[p].items \cap requests[q].items = {}

(* Claims hold what was carried by the requests the server accepted.       *)
Filings ==
  /\ \A q \in DOMAIN requests : requests[q].server = "DONE" =>
       \A r \in requests[q].items : \E c \in DOMAIN claims : r \in claims[c].items
  /\ \A c \in DOMAIN claims : \A r \in claims[c].items : \E q \in DOMAIN requests :
       /\ r \in requests[q].items
       /\ requests[q].server = "DONE"
       /\ requests[q].claim \in {0, c}

(* While a request has no answer, its place holds nothing it does not      *)
(* carry.                                                                  *)
Pending ==
  \A q \in DOMAIN requests :
    requests[q].told = "NOTHING" /\ (requests[q].claim = 0 \/ requests[q].items # {})
      => At(requests[q].claim) \subseteq requests[q].items

(* Some submission of this receipt has failed as far as the page knows.    *)
Lost(r) == \E q \in DOMAIN requests :
  /\ r \in requests[q].items
  /\ requests[q].kind = "SUBMIT"
  /\ requests[q].told = "ERROR"

(* A submission under way repeats what is filed only after such a failure. *)
Retried ==
  \A q \in DOMAIN requests :
    requests[q].claim = 0 /\ requests[q].told = "NOTHING" /\ requests[q].server = "SENT" =>
      \A r \in requests[q].items, c \in DOMAIN claims : r \in claims[c].items => Lost(r)

ClientInv ==
  /\ TypeOK /\ Rows /\ Alone /\ Places /\ Filings /\ Pending /\ Retried
  /\ NothingKeptIsLost /\ FiledIsCleared /\ TwiceOnlyAfterLoss

-----------------------------------------------------------------------------
(***************************************************************************)
(* What the actions do to places, requests and claims, apart from lists    *)
(* and roles.                                                              *)
(***************************************************************************)
SameSent ==
  /\ DOMAIN requests' = DOMAIN requests
  /\ \A p \in DOMAIN requests :
       /\ requests'[p].kind = requests[p].kind
       /\ requests'[p].claim = requests[p].claim
       /\ requests'[p].items = requests[p].items
SameTold == \A p \in DOMAIN requests : requests'[p].told = requests[p].told
SameServer == \A p \in DOMAIN requests : requests'[p].server = requests[p].server
SamePlaces ==
  /\ \A h \in Homes : At(h)' = At(h)
  /\ kept' = kept /\ removed' = removed

Picking == \E to \in Homes, files \in SUBSET (Files \ kept) :
  /\ ~busy /\ busy' = TRUE
  /\ uploads' = uploads \cup {[to |-> to, files |-> files]}
  /\ SamePlaces /\ requests' = requests /\ claims' = claims

Settling == \E u \in uploads : \E clean \in SUBSET u.files :
  /\ \A h \in Homes : At(h)' = IF h = u.to THEN At(h) \cup clean ELSE At(h)
  /\ kept' = kept \cup clean /\ removed' = removed
  /\ uploads' = uploads \ {u} /\ busy' = FALSE
  /\ requests' = requests /\ claims' = claims

Removing == \E h \in Homes : \E r \in At(h) :
  /\ \A k \in Homes : At(k)' = IF k = h THEN At(k) \ {r} ELSE At(k)
  /\ removed' = removed \cup {r} /\ kept' = kept
  /\ uploads' = uploads /\ busy' = busy /\ requests' = requests /\ claims' = claims

Pressing == \E n \in Nat \ DOMAIN requests :
  /\ ~busy /\ busy' = TRUE
  /\ DOMAIN requests' = DOMAIN requests \cup {n}
  /\ \A p \in DOMAIN requests : requests'[p] = requests[p]
  /\ requests'[n].claim \in Homes
  /\ requests'[n].claim = 0 <=> requests'[n].kind = "SUBMIT"
  /\ requests'[n].claim # 0 => requests'[n].claim \in DOMAIN claims
  /\ requests'[n].kind = "DECIDE" => requests'[n].items = {}
  /\ \/ requests'[n].items = At(requests'[n].claim)
     \/ requests'[n].items = {} /\ requests'[n].claim # 0
  /\ requests'[n].server = "SENT" /\ requests'[n].told = "NOTHING"
  /\ SamePlaces /\ uploads' = uploads /\ claims' = claims

Succeeding == \E q \in DOMAIN requests :
  /\ requests[q].told = "NOTHING" /\ requests[q].server = "DONE"
  /\ SameSent /\ SameServer
  /\ \A p \in DOMAIN requests : requests'[p].told = IF p = q THEN "DONE" ELSE requests[p].told
  /\ \A h \in Homes : At(h)' =
       IF h = requests[q].claim /\ (h = 0 \/ requests[q].items # {}) THEN {} ELSE At(h)
  /\ kept' = kept /\ removed' = removed
  /\ uploads' = uploads /\ busy' = busy /\ claims' = claims

Telling == \E q \in DOMAIN requests, what \in {"REFRESHED", "ERROR"} :
  /\ requests[q].told = IF what = "ERROR" THEN "NOTHING" ELSE "DONE"
  /\ SameSent /\ SameServer
  /\ \A p \in DOMAIN requests : requests'[p].told = IF p = q THEN what ELSE requests[p].told
  /\ SamePlaces /\ busy' = FALSE /\ uploads' = uploads /\ claims' = claims

Accepts(q) ==
  /\ requests[q].server = "SENT"
  /\ SameSent /\ SameTold
  /\ \A p \in DOMAIN requests : requests'[p].server = IF p = q THEN "DONE" ELSE requests[p].server
  /\ SamePlaces /\ busy' = busy /\ uploads' = uploads

Filing == \E q \in DOMAIN requests, n \in Nat \ DOMAIN claims :
  /\ requests[q].claim = 0
  /\ Accepts(q)
  /\ DOMAIN claims' = DOMAIN claims \cup {n}
  /\ \A c \in DOMAIN claims : claims'[c].items = claims[c].items
  /\ claims'[n].items = requests[q].items

Adding == \E q \in DOMAIN requests :
  /\ requests[q].claim \in DOMAIN claims
  /\ Accepts(q)
  /\ DOMAIN claims' = DOMAIN claims
  /\ \A c \in DOMAIN claims : claims'[c].items =
       IF c = requests[q].claim THEN claims[c].items \cup requests[q].items ELSE claims[c].items

Resting ==
  /\ SameSent /\ SameTold /\ SamePlaces
  /\ \A p \in DOMAIN requests :
       \/ requests'[p].server = requests[p].server
       \/ requests[p].server = "SENT"
          /\ (requests'[p].server = "REFUSED" \/ requests[p].items = {})
  /\ busy' = busy /\ uploads' = uploads
  /\ DOMAIN claims' = DOMAIN claims
  /\ \A c \in DOMAIN claims : claims'[c].items = claims[c].items

Shape ==
  \/ Picking \/ Settling \/ Removing \/ Pressing \/ Succeeding \/ Telling
  \/ Filing \/ Adding \/ Resting

-----------------------------------------------------------------------------
(* Writing one field of one request.                                       *)
LEMMA ToldChanges ==
  ASSUME requests \in Seq(Request), NEW q \in DOMAIN requests,
         NEW what \in {"NOTHING", "DONE", "REFRESHED", "ERROR"}, Told(q, what)
  PROVE  /\ requests' \in Seq(Request)
         /\ SameSent /\ SameServer
         /\ \A p \in DOMAIN requests : requests'[p].told = IF p = q THEN what ELSE requests[p].told
  <1>1. \A p \in DOMAIN requests : requests[p] \in Request
    BY ElementOfSeq, LenProperties
  <1>2. requests'[q] = [requests[q] EXCEPT !.told = what] /\ requests'[q] \in Request
    BY <1>1 DEF Told, Request
  <1>3. DOMAIN requests' = DOMAIN requests /\ \A p \in DOMAIN requests : p # q => requests'[p] = requests[p]
    BY DEF Told
  <1>4. requests' = [p \in 1..Len(requests) |-> requests'[p]] /\ Len(requests) \in Nat
    BY LenProperties DEF Told
  <1>5. \A p \in 1..Len(requests) : requests'[p] \in Request
    BY <1>1, <1>2, <1>3, LenProperties
  <1>6. requests' \in Seq(Request)
    BY <1>4, <1>5, IsASeq
  <1> QED
    BY <1>1, <1>2, <1>3, <1>6 DEF SameSent, SameServer, Request

LEMMA OutcomeChanges ==
  ASSUME requests \in Seq(Request), NEW q \in DOMAIN requests,
         NEW what \in {"SENT", "DONE", "REFUSED"}, Outcome(q, what)
  PROVE  /\ requests' \in Seq(Request)
         /\ SameSent /\ SameTold
         /\ \A p \in DOMAIN requests : requests'[p].server = IF p = q THEN what ELSE requests[p].server
  <1>1. \A p \in DOMAIN requests : requests[p] \in Request
    BY ElementOfSeq, LenProperties
  <1>2. requests'[q] = [requests[q] EXCEPT !.server = what] /\ requests'[q] \in Request
    BY <1>1 DEF Outcome, Request
  <1>3. DOMAIN requests' = DOMAIN requests /\ \A p \in DOMAIN requests : p # q => requests'[p] = requests[p]
    BY DEF Outcome
  <1>4. requests' = [p \in 1..Len(requests) |-> requests'[p]] /\ Len(requests) \in Nat
    BY LenProperties DEF Outcome
  <1>5. \A p \in 1..Len(requests) : requests'[p] \in Request
    BY <1>1, <1>2, <1>3, LenProperties
  <1>6. requests' \in Seq(Request)
    BY <1>4, <1>5, IsASeq
  <1> QED
    BY <1>1, <1>2, <1>3, <1>6 DEF SameSent, SameTold, Request

-----------------------------------------------------------------------------
(***************************************************************************)
(* Each action keeps the types and has one of the shapes.                  *)
(***************************************************************************)
Listed == \A list \in late \cup {shown} : DOMAIN list \subseteq DOMAIN claims

Typed == TypeOK' /\ Listed' /\ Shape

LEMMA NoHomeIsZero == 0 \notin Ids
  BY ClientAssumption DEF Ids

LEMMA UploadTyped ==
  ASSUME TypeOK, Rows, ~busy, NEW to \in Homes, NEW files \in SUBSET Unpicked, Upload(to, files)
  PROVE  Typed
  <1>1. files \in SUBSET (Files \ kept)
    BY DEF Unpicked
  <1>2. TypeOK'
    BY <1>1 DEF TypeOK, Upload, server, screen, Homes
  <1>3. Listed'
    BY DEF Rows, Listed, Upload, server, screen
  <1>4. Picking
    BY <1>1 DEF Picking, Upload, server, screen, SamePlaces, At
  <1> QED
    BY <1>2, <1>3, <1>4 DEF Typed, Shape

LEMMA SettlesTyped ==
  ASSUME TypeOK, Rows, NEW u \in uploads, NEW clean, UploadSettles(u, clean)
  PROVE  Typed
  <1>1. /\ clean \subseteq u.files /\ u.to \in Homes /\ u.files \subseteq Files
        /\ kept' = kept \cup clean /\ removed' = removed /\ uploads' = uploads \ {u}
        /\ busy' = FALSE /\ requests' = requests /\ claims' = claims
        /\ role' = role /\ shown' = shown /\ late' = late
    BY DEF UploadSettles, TypeOK, Homes, server, screen
  <1>2. /\ drafts' = IF u.to = 0 THEN drafts \cup clean ELSE drafts
        /\ u.to = 0 => staged' = staged
        /\ u.to # 0 => staged' = [staged EXCEPT ![u.to] = @ \cup clean]
    BY DEF UploadSettles
  <1>3. drafts' \subseteq kept' /\ staged' \in [Ids -> SUBSET kept']
    BY <1>1, <1>2 DEF TypeOK, Homes
  <1>4. TypeOK'
    BY <1>1, <1>3 DEF TypeOK
  <1>5. Listed'
    BY <1>1 DEF Rows, Listed
  <1>6. \A h \in Homes : At(h)' = IF h = u.to THEN At(h) \cup clean ELSE At(h)
    BY <1>1, <1>2, NoHomeIsZero DEF TypeOK, Homes, At
  <1>7. Settling
    BY <1>1, <1>6 DEF Settling
  <1> QED
    BY <1>4, <1>5, <1>7 DEF Typed, Shape

LEMMA RemoveTyped ==
  ASSUME TypeOK, Rows, NEW r \in Files,
         RemoveDraft(r) \/ \E c \in Ids : RemoveStaged(c, r)
  PROVE  Typed
  <1>1. CASE RemoveDraft(r)
    <2>1. TypeOK' /\ Listed'
      BY <1>1 DEF RemoveDraft, TypeOK, Rows, Listed, server, screen
    <2>2. /\ r \in At(0)
          /\ \A k \in Homes : At(k)' = IF k = 0 THEN At(k) \ {r} ELSE At(k)
      BY <1>1, NoHomeIsZero DEF RemoveDraft, Homes, At
    <2>3. Removing
      BY <1>1, <2>2 DEF RemoveDraft, Removing, server, Homes
    <2> QED
      BY <2>1, <2>3 DEF Typed, Shape
  <1>2. ASSUME NEW c \in Ids, RemoveStaged(c, r)
        PROVE  Typed
    <2>1. TypeOK' /\ Listed'
      BY <1>2 DEF RemoveStaged, TypeOK, Rows, Listed, server, screen
    <2>2. /\ r \in At(c) /\ c \in Homes
          /\ \A k \in Homes : At(k)' = IF k = c THEN At(k) \ {r} ELSE At(k)
      BY <1>2, NoHomeIsZero DEF RemoveStaged, Homes, At, TypeOK
    <2>3. Removing
      BY <1>2, <2>2 DEF RemoveStaged, Removing, server
    <2> QED
      BY <2>1, <2>3 DEF Typed, Shape
  <1> QED
    BY <1>1, <1>2

LEMMA SendTyped ==
  ASSUME TypeOK, Rows, ~busy,
         NEW kind \in {"SUBMIT", "RESUBMIT", "DECIDE"}, NEW c \in Homes, NEW items,
         NEW fields \in SUBSET Fields, NEW version \in Nat,
         Sends(kind, c, items, fields, version),
         c = 0 <=> kind = "SUBMIT", c # 0 => c \in DOMAIN claims,
         kind = "DECIDE" => items = {},
         items = At(c) \/ (items = {} /\ c # 0)
  PROVE  Typed
  <1> DEFINE n == Len(requests) + 1
             q == [kind |-> kind, claim |-> c, items |-> items, fields |-> fields,
                   row_version |-> version, server |-> "SENT", told |-> "NOTHING"]
  <1>1. q \in Request
    BY DEF TypeOK, Request, Homes, At
  <1>2. requests' = Append(requests, q)
    BY DEF Sends
  <1>3. /\ requests' \in Seq(Request)
        /\ n \in Nat \ DOMAIN requests
        /\ DOMAIN requests' = DOMAIN requests \cup {n}
        /\ \A p \in DOMAIN requests : requests'[p] = requests[p]
        /\ requests'[n] = q
    BY <1>1, <1>2, AppendProperties, LenProperties DEF TypeOK
  <1>4. TypeOK'
    BY <1>3 DEF TypeOK, Sends, screen, staging
  <1>5. Listed'
    BY DEF Rows, Listed, Sends, screen
  <1>6. Pressing
    BY <1>3 DEF Pressing, Sends, screen, staging, SamePlaces, At
  <1> QED
    BY <1>4, <1>5, <1>6 DEF Typed, Shape

LEMMA PressTyped ==
  ASSUME TypeOK, Rows,
         \/ PressSubmit
         \/ \E c \in Ids : PressResubmit(c)
         \/ \E c \in Ids, fields \in Asks : PressDecide(c, fields)
  PROVE  Typed
  <1>1. CASE PressSubmit
    BY <1>1, SendTyped DEF PressSubmit, Homes, At
  <1>2. ASSUME NEW c \in Ids, PressResubmit(c)
        PROVE  Typed
    <2>1. c \in DOMAIN claims /\ c # 0 /\ c \in Homes
      BY <1>2, NoHomeIsZero DEF PressResubmit, Asked, Rows, Homes
    <2>2. ~busy /\ Sends("RESUBMIT", c, IF ReceiptAsked(c) THEN staged[c] ELSE {}, {}, 0)
      BY <1>2 DEF PressResubmit
    <2>3. At(c) = staged[c]
      BY <2>1 DEF At
    <2>4. CASE ReceiptAsked(c)
      BY <2>1, <2>2, <2>3, <2>4, SendTyped
    <2>5. CASE ~ReceiptAsked(c)
      BY <2>1, <2>2, <2>3, <2>5, SendTyped
    <2> QED
      BY <2>4, <2>5
  <1>3. ASSUME NEW c \in Ids, NEW fields \in Asks, PressDecide(c, fields)
        PROVE  Typed
    <2>1. c \in DOMAIN claims /\ c # 0 /\ c \in Homes /\ c \in DOMAIN shown
      BY <1>3, NoHomeIsZero DEF PressDecide, Rows, Homes
    <2>2. shown[c].row_version \in Nat /\ fields \in SUBSET Fields
      <3>1. shown \in Seq(Claim)
        BY DEF TypeOK
      <3>2. shown[c] \in Claim
        BY <2>1, <3>1, ElementOfSeq, LenProperties
      <3> QED
        BY <3>2, ClientAssumption DEF Claim
    <2>3. ~busy /\ Sends("DECIDE", c, {}, fields, shown[c].row_version)
      BY <1>3 DEF PressDecide
    <2> QED
      BY <2>1, <2>2, <2>3, SendTyped
  <1> QED
    BY <1>1, <1>2, <1>3

LEMMA SuccessTyped ==
  ASSUME TypeOK, Rows, NEW q \in DOMAIN requests,
         SubmitSucceeds(q) \/ ResubmitSucceeds(q) \/ DecideSucceeds(q)
  PROVE  Typed
  <1> DEFINE c == requests[q].claim
  <1>1. requests \in Seq(Request) /\ shown \in Seq(Claim) /\ claims \in Seq(Claim)
    BY DEF TypeOK
  <1>2. requests[q] \in Request
    BY <1>1, ElementOfSeq, LenProperties
  <1>3. /\ requests[q].told = "NOTHING" /\ requests[q].server = "DONE"
        /\ Told(q, "DONE")
    BY DEF SubmitSucceeds, ResubmitSucceeds, DecideSucceeds, Answered
  <1>4. /\ requests' \in Seq(Request) /\ SameSent /\ SameServer
        /\ \A p \in DOMAIN requests : requests'[p].told = IF p = q THEN "DONE" ELSE requests[p].told
    BY <1>1, <1>3, ToldChanges
  <1>5. /\ claims' = claims /\ role' = role /\ late' = late /\ kept' = kept /\ removed' = removed
        /\ uploads' = uploads /\ busy' = busy
    BY DEF SubmitSucceeds, ResubmitSucceeds, DecideSucceeds, screen, staging
  <1>6. /\ shown' \in Seq(Claim)
        /\ DOMAIN shown' \subseteq DOMAIN claims
    <2>1. CASE ResubmitSucceeds(q)
      <3>1. c \in DOMAIN claims
        BY <1>2, <2>1 DEF ResubmitSucceeds, Answered, Rows
      <3>2. claims[c] \in Claim /\ \A d \in 1..Len(shown) : shown[d] \in Claim
        BY <1>1, <3>1, ElementOfSeq, LenProperties
      <3>3. DOMAIN shown = 1..Len(shown) /\ Len(shown) \in Nat
        BY <1>1, LenProperties
      <3>4. shown' = [d \in 1..Len(shown) |-> IF d = c THEN claims[c] ELSE shown[d]]
        BY <2>1, <3>3 DEF ResubmitSucceeds
      <3>5. \A d \in 1..Len(shown) : (IF d = c THEN claims[c] ELSE shown[d]) \in Claim
        BY <3>2
      <3>6. [d \in 1..Len(shown) |-> IF d = c THEN claims[c] ELSE shown[d]] \in Seq(Claim)
        BY <3>3, <3>5, IsASeq
      <3> QED
        BY <3>3, <3>4, <3>6 DEF Rows
    <2>2. CASE SubmitSucceeds(q) \/ DecideSucceeds(q)
      BY <1>1, <2>2 DEF SubmitSucceeds, DecideSucceeds, screen, Rows
    <2> QED
      BY <2>1, <2>2
  <1>7. /\ drafts' \subseteq kept /\ staged' \in [Ids -> SUBSET kept]
        /\ \A h \in Homes : At(h)' =
             IF h = c /\ (h = 0 \/ requests[q].items # {}) THEN {} ELSE At(h)
    <2>1. CASE SubmitSucceeds(q)
      <3>1. c = 0 /\ drafts' = {} /\ staged' = staged
        BY <2>1 DEF SubmitSucceeds, Answered, Rows
      <3> QED
        BY <3>1 DEF TypeOK, At
    <2>2. CASE ResubmitSucceeds(q)
      <3>1. c \in Ids /\ c # 0
        BY <1>2, <2>2 DEF ResubmitSucceeds, Answered, Rows, Request
      <3>2. /\ drafts' = drafts
            /\ staged' = IF requests[q].items = {} THEN staged ELSE [staged EXCEPT ![c] = {}]
        BY <2>2 DEF ResubmitSucceeds
      <3> QED
        BY <3>1, <3>2, NoHomeIsZero DEF TypeOK, At, Homes
    <2>3. CASE DecideSucceeds(q)
      <3>1. c # 0 /\ requests[q].items = {} /\ drafts' = drafts /\ staged' = staged
        BY <2>3 DEF DecideSucceeds, Answered, Rows, staging
      <3> QED
        BY <3>1 DEF TypeOK, At
    <2> QED
      BY <2>1, <2>2, <2>3
  <1>8. TypeOK' /\ Listed'
    BY <1>4, <1>5, <1>6, <1>7 DEF TypeOK, Rows, Listed
  <1>9. Succeeding
    BY <1>3, <1>4, <1>5, <1>7 DEF Succeeding
  <1> QED
    BY <1>8, <1>9 DEF Typed, Shape

LEMMA TellTyped ==
  ASSUME TypeOK, Rows, NEW q \in DOMAIN requests, RefreshEnds(q) \/ RequestFails(q)
  PROVE  Typed
  <1>1. requests \in Seq(Request)
    BY DEF TypeOK
  <1>2. /\ claims' = claims /\ role' = role /\ late' = late /\ shown' \in {claims, shown}
        /\ busy' = FALSE
        /\ drafts' = drafts /\ staged' = staged /\ uploads' = uploads
        /\ kept' = kept /\ removed' = removed
    BY DEF RefreshEnds, RequestFails, screen, staging
  <1>3. SamePlaces
    BY <1>2 DEF SamePlaces, At
  <1>4. CASE RefreshEnds(q)
    <2>1. Told(q, "REFRESHED") /\ requests[q].told = "DONE"
      BY <1>4 DEF RefreshEnds
    <2>2. requests' \in Seq(Request) /\ Telling
      BY <1>1, <1>2, <1>3, <2>1, ToldChanges DEF Telling
    <2> QED
      BY <1>2, <2>2 DEF Typed, Shape, TypeOK, Listed, Rows
  <1>5. CASE RequestFails(q)
    <2>1. Told(q, "ERROR") /\ requests[q].told = "NOTHING"
      BY <1>5 DEF RequestFails
    <2>2. requests' \in Seq(Request) /\ Telling
      BY <1>1, <1>2, <1>3, <2>1, ToldChanges DEF Telling
    <2> QED
      BY <1>2, <2>2 DEF Typed, Shape, TypeOK, Listed, Rows
  <1> QED
    BY <1>4, <1>5

LEMMA ScreenTyped ==
  ASSUME TypeOK, Rows,
         \/ ReadList
         \/ \E r \in {"Employee", "Reviewer"} : ViewAs(r)
         \/ \E list \in late : ShowList(list)
         \/ UNCHANGED vars
  PROVE  Typed
  <1>1. /\ claims' = claims /\ requests' = requests /\ busy' = busy
        /\ drafts' = drafts /\ staged' = staged /\ uploads' = uploads
        /\ kept' = kept /\ removed' = removed
        /\ role' \in {"Employee", "Reviewer"}
    BY DEF ReadList, ViewAs, ShowList, server, screen, staging, vars, TypeOK
  <1>2. \A list \in (late \cup {shown})' : list \in late \cup {shown, claims}
    BY DEF ReadList, ViewAs, ShowList, vars, screen
  <1>3. \A list \in late \cup {shown, claims} :
          list \in Seq(Claim) /\ DOMAIN list \subseteq DOMAIN claims
    BY DEF TypeOK, Rows
  <1>4. shown' \in Seq(Claim) /\ late' \subseteq Seq(Claim)
    BY <1>2, <1>3
  <1>5. TypeOK' /\ Listed'
    BY <1>1, <1>2, <1>3, <1>4 DEF TypeOK, Listed
  <1>6. Resting
    BY <1>1 DEF Resting, SameSent, SameTold, SamePlaces, At
  <1> QED
    BY <1>5, <1>6 DEF Typed, Shape

(* Moving a claim on keeps its receipts.                                   *)
LEMMA MovedClaim ==
  ASSUME NEW claim \in Claim, NEW fields \in SUBSET Fields
  PROVE  /\ Reviewed(claim, fields) \in Claim /\ Reviewed(claim, fields).items = claim.items
         /\ Moved(claim, "AWAITING_REVIEW", fields) \in Claim
         /\ Moved(claim, "AWAITING_REVIEW", fields).items = claim.items
  BY DEF Reviewed, Moved, Claim

(* Writing one claim.                                                      *)
LEMMA ClaimChanges ==
  ASSUME claims \in Seq(Claim), NEW c \in DOMAIN claims, NEW claim \in Claim,
         claims' = [claims EXCEPT ![c] = claim]
  PROVE  /\ claims' \in Seq(Claim)
         /\ DOMAIN claims' = DOMAIN claims
         /\ \A d \in DOMAIN claims : claims'[d] = IF d = c THEN claim ELSE claims[d]
  BY ExceptSeq, LenProperties

LEMMA RestTyped ==
  ASSUME TypeOK, Rows, claims' \in Seq(Claim), DOMAIN claims' = DOMAIN claims,
         \A c \in DOMAIN claims : claims'[c].items = claims[c].items,
         requests' \in Seq(Request), SameSent, SameTold,
         \A p \in DOMAIN requests :
           \/ requests'[p].server = requests[p].server
           \/ requests[p].server = "SENT"
              /\ (requests'[p].server = "REFUSED" \/ requests[p].items = {}),
         UNCHANGED <<screen, staging, busy>>
  PROVE  Typed
  <1>1. TypeOK'
    BY DEF TypeOK, screen, staging
  <1>2. Listed'
    BY DEF Listed, Rows, screen
  <1>3. SamePlaces
    BY DEF SamePlaces, At, staging
  <1>4. Resting
    BY <1>3 DEF Resting, staging
  <1> QED
    BY <1>1, <1>2, <1>4 DEF Typed, Shape

LEMMA FileTyped ==
  ASSUME TypeOK, Rows, NEW q \in DOMAIN requests, FileReport(q)
  PROVE  Typed
  <1> DEFINE n == Len(claims) + 1
             claim == [items |-> requests[q].items, state |-> "SUBMITTED",
                       fields |-> {}, row_version |-> 1]
  <1>1. requests \in Seq(Request) /\ claims \in Seq(Claim)
    BY DEF TypeOK
  <1>2. requests[q] \in Request
    BY <1>1, ElementOfSeq, LenProperties
  <1>3. claim \in Claim
    BY <1>2 DEF Claim, Request
  <1>4. /\ claims' = Append(claims, claim) /\ Outcome(q, "DONE")
        /\ UNCHANGED <<screen, staging, busy>>
        /\ requests[q].kind = "SUBMIT" /\ requests[q].server = "SENT"
    BY DEF FileReport, Arrives
  <1>5. /\ claims' \in Seq(Claim)
        /\ n \in Nat \ DOMAIN claims
        /\ DOMAIN claims' = DOMAIN claims \cup {n}
        /\ \A c \in DOMAIN claims : claims'[c] = claims[c]
        /\ claims'[n] = claim
    BY <1>1, <1>3, <1>4, AppendProperties, LenProperties
  <1>6. /\ requests' \in Seq(Request) /\ SameSent /\ SameTold
        /\ \A p \in DOMAIN requests : requests'[p].server = IF p = q THEN "DONE" ELSE requests[p].server
    BY <1>1, <1>4, OutcomeChanges
  <1>7. TypeOK'
    BY <1>4, <1>5, <1>6 DEF TypeOK, screen, staging
  <1>8. Listed'
    BY <1>4, <1>5 DEF Listed, Rows, screen
  <1>9. Accepts(q)
    BY <1>4, <1>6 DEF Accepts, SamePlaces, At, staging
  <1>10. Filing
    BY <1>4, <1>5, <1>9 DEF Filing, Rows
  <1> QED
    BY <1>7, <1>8, <1>10 DEF Typed, Shape

LEMMA AnswerTyped ==
  ASSUME TypeOK, Rows, NEW q \in DOMAIN requests, Resubmit(q)
  PROVE  Typed
  <1> DEFINE c == requests[q].claim
             claim == [items |-> claims[c].items \cup requests[q].items, state |-> "SUBMITTED",
                       fields |-> {}, row_version |-> claims[c].row_version + 1]
  <1>1. requests \in Seq(Request) /\ claims \in Seq(Claim)
    BY DEF TypeOK
  <1>2. c \in DOMAIN claims
    BY DEF Resubmit, Arrives, Rows
  <1>3. requests[q] \in Request /\ claims[c] \in Claim
    BY <1>1, <1>2, ElementOfSeq, LenProperties
  <1>4. claim \in Claim
    BY <1>3 DEF Claim, Request
  <1>5. /\ claims' = [claims EXCEPT ![c] = claim] /\ Outcome(q, "DONE")
        /\ UNCHANGED <<screen, staging, busy>> /\ requests[q].server = "SENT"
    BY DEF Resubmit, Arrives
  <1>6. /\ claims' \in Seq(Claim)
        /\ DOMAIN claims' = DOMAIN claims
        /\ \A d \in DOMAIN claims : claims'[d] = IF d = c THEN claim ELSE claims[d]
    BY <1>1, <1>2, <1>4, <1>5, ClaimChanges
  <1>7. /\ requests' \in Seq(Request) /\ SameSent /\ SameTold
        /\ \A p \in DOMAIN requests : requests'[p].server = IF p = q THEN "DONE" ELSE requests[p].server
    BY <1>1, <1>5, OutcomeChanges
  <1>8. TypeOK'
    BY <1>5, <1>6, <1>7 DEF TypeOK, screen, staging
  <1>9. Listed'
    BY <1>5, <1>6 DEF Listed, Rows, screen
  <1>10. Accepts(q)
    BY <1>5, <1>7 DEF Accepts, SamePlaces, At, staging
  <1>11. \A d \in DOMAIN claims : claims'[d].items =
           IF d = c THEN claims[d].items \cup requests[q].items ELSE claims[d].items
    <2>1. claim.items = claims[c].items \cup requests[q].items
      OBVIOUS
    <2> HIDE DEF claim
    <2> QED
      BY <1>6, <2>1
  <1>12. Adding
    BY <1>2, <1>6, <1>10, <1>11 DEF Adding
  <1> QED
    BY <1>8, <1>9, <1>12 DEF Typed, Shape

LEMMA DecisionTyped ==
  ASSUME TypeOK, Rows,
         \/ \E q \in DOMAIN requests : Decide(q)
         \/ \E q \in DOMAIN requests : Refuse(q)
         \/ \E c \in DOMAIN claims : Assess(c)
         \/ \E c \in DOMAIN claims, fields \in Asks : DecideElsewhere(c, fields)
  PROVE  Typed
  <1>1. requests \in Seq(Request) /\ claims \in Seq(Claim)
    BY DEF TypeOK
  <1>2. \A p \in DOMAIN requests : requests[p] \in Request
    BY <1>1, ElementOfSeq, LenProperties
  <1>3. \A d \in DOMAIN claims : claims[d] \in Claim
    BY <1>1, ElementOfSeq, LenProperties
  <1>4. ASSUME requests' = requests
        PROVE  requests' \in Seq(Request) /\ SameSent /\ SameTold /\ SameServer
    BY <1>1, <1>4 DEF SameSent, SameTold, SameServer
  <1>5. ASSUME NEW q \in DOMAIN requests, Decide(q)
        PROVE  Typed
    <2> DEFINE c == requests[q].claim
    <2>1. c \in DOMAIN claims /\ requests[q].items = {} /\ requests[q].server = "SENT"
      BY <1>5 DEF Decide, Arrives, Rows
    <2>2. requests[q].fields \in SUBSET Fields
      BY <1>2 DEF Request
    <2>3. /\ Reviewed(claims[c], requests[q].fields) \in Claim
          /\ Reviewed(claims[c], requests[q].fields).items = claims[c].items
      BY <1>3, <2>1, <2>2, MovedClaim
    <2>4. /\ claims' = [claims EXCEPT ![c] = Reviewed(claims[c], requests[q].fields)]
          /\ Outcome(q, "DONE") /\ UNCHANGED <<screen, staging, busy>>
      BY <1>5 DEF Decide
    <2>5. /\ claims' \in Seq(Claim)
          /\ DOMAIN claims' = DOMAIN claims
          /\ \A d \in DOMAIN claims : claims'[d].items = claims[d].items
      BY <1>1, <2>1, <2>3, <2>4, ClaimChanges
    <2>6. /\ requests' \in Seq(Request) /\ SameSent /\ SameTold
          /\ \A p \in DOMAIN requests : requests'[p].server = IF p = q THEN "DONE" ELSE requests[p].server
      BY <1>1, <2>4, OutcomeChanges
    <2> QED
      BY <2>1, <2>4, <2>5, <2>6, RestTyped
  <1>6. ASSUME NEW q \in DOMAIN requests, Refuse(q)
        PROVE  Typed
    <2>1. /\ requests[q].server = "SENT" /\ Outcome(q, "REFUSED")
          /\ claims' = claims /\ UNCHANGED <<screen, staging, busy>>
      BY <1>6 DEF Refuse
    <2>2. /\ requests' \in Seq(Request) /\ SameSent /\ SameTold
          /\ \A p \in DOMAIN requests : requests'[p].server = IF p = q THEN "REFUSED" ELSE requests[p].server
      BY <1>1, <2>1, OutcomeChanges
    <2> QED
      BY <1>1, <2>1, <2>2, RestTyped
  <1>7. ASSUME NEW c \in DOMAIN claims, Assess(c)
        PROVE  Typed
    <2> DEFINE claim == Moved(claims[c], "AWAITING_REVIEW", claims[c].fields)
    <2>1. claim \in Claim /\ claim.items = claims[c].items
      <3>1. claims[c] \in Claim /\ claims[c].fields \in SUBSET Fields
        BY <1>3 DEF Claim
      <3> QED
        BY <3>1, MovedClaim
    <2>2. claims' = [claims EXCEPT ![c] = claim]
      BY <1>7 DEF Assess
    <2>3. /\ claims' \in Seq(Claim)
          /\ DOMAIN claims' = DOMAIN claims
          /\ \A d \in DOMAIN claims : claims'[d].items = claims[d].items
      BY <1>1, <2>1, <2>2, ClaimChanges
    <2>4. requests' = requests /\ UNCHANGED <<screen, staging, busy>>
      BY <1>7 DEF Assess
    <2> QED
      BY <1>4, <2>3, <2>4, RestTyped DEF SameServer
  <1>8. ASSUME NEW c \in DOMAIN claims, NEW fields \in Asks, DecideElsewhere(c, fields)
        PROVE  Typed
    <2>1. Reviewed(claims[c], fields) \in Claim /\ Reviewed(claims[c], fields).items = claims[c].items
      BY <1>3, ClientAssumption, MovedClaim
    <2>2. /\ claims' = [claims EXCEPT ![c] = Reviewed(claims[c], fields)]
          /\ requests' = requests /\ UNCHANGED <<screen, staging, busy>>
      BY <1>8 DEF DecideElsewhere
    <2>3. /\ claims' \in Seq(Claim)
          /\ DOMAIN claims' = DOMAIN claims
          /\ \A d \in DOMAIN claims : claims'[d].items = claims[d].items
      BY <1>1, <2>1, <2>2, ClaimChanges
    <2> QED
      BY <1>4, <2>2, <2>3, RestTyped DEF SameServer
  <1> QED
    BY <1>5, <1>6, <1>7, <1>8

LEMMA StepTyped ==
  ASSUME TypeOK, Rows, [Next]_vars
  PROVE  Typed
  <1>1. ASSUME NEW files \in SUBSET Unpicked, PickForReport(files)
        PROVE  Typed
    BY <1>1, UploadTyped DEF PickForReport, Homes
  <1>2. ASSUME NEW c \in Ids, NEW files \in SUBSET Unpicked, PickForRequest(c, files)
        PROVE  Typed
    BY <1>2, UploadTyped DEF PickForRequest, Homes
  <1>3. ASSUME NEW u \in uploads, NEW clean \in SUBSET Files, UploadSettles(u, clean)
        PROVE  Typed
    BY <1>3, SettlesTyped
  <1>4. ASSUME NEW r \in Files, RemoveDraft(r) \/ \E c \in Ids : RemoveStaged(c, r)
        PROVE  Typed
    BY <1>4, RemoveTyped
  <1>5. CASE \/ PressSubmit
             \/ \E c \in Ids : PressResubmit(c)
             \/ \E c \in Ids, fields \in Asks : PressDecide(c, fields)
    BY <1>5, PressTyped
  <1>6. ASSUME NEW q \in DOMAIN requests,
               SubmitSucceeds(q) \/ ResubmitSucceeds(q) \/ DecideSucceeds(q)
        PROVE  Typed
    BY <1>6, SuccessTyped
  <1>7. ASSUME NEW q \in DOMAIN requests, RefreshEnds(q) \/ RequestFails(q)
        PROVE  Typed
    BY <1>7, TellTyped
  <1>8. ASSUME NEW q \in DOMAIN requests, FileReport(q) \/ Resubmit(q)
        PROVE  Typed
    BY <1>8, FileTyped, AnswerTyped
  <1>9. CASE \/ \E q \in DOMAIN requests : Decide(q)
             \/ \E q \in DOMAIN requests : Refuse(q)
             \/ \E c \in DOMAIN claims : Assess(c)
             \/ \E c \in DOMAIN claims, fields \in Asks : DecideElsewhere(c, fields)
    BY <1>9, DecisionTyped
  <1>10. CASE \/ ReadList
              \/ \E r \in {"Employee", "Reviewer"} : ViewAs(r)
              \/ \E list \in late : ShowList(list)
              \/ UNCHANGED vars
    BY <1>10, ScreenTyped
  <1> QED
    BY <1>1, <1>2, <1>3, <1>4, <1>5, <1>6, <1>7, <1>8, <1>9, <1>10 DEF Next

-----------------------------------------------------------------------------
(***************************************************************************)
(* Each part of the invariant is kept by a step of each shape.             *)
(***************************************************************************)
LEMMA Staging ==
  /\ Staged = UNION {At(h) : h \in Homes}
  /\ Staged' = UNION {At(h)' : h \in Homes}
  BY NoHomeIsZero DEF Staged, At, Homes

LEMMA Typing ==
  ASSUME TypeOK
  PROVE  /\ \A h \in Homes : At(h) \subseteq kept
         /\ \A q \in DOMAIN requests :
              /\ requests[q].claim \in Homes
              /\ requests[q].told \in {"NOTHING", "DONE", "REFRESHED", "ERROR"}
         /\ 0 \notin DOMAIN claims
  <1>1. requests \in Seq(Request) /\ claims \in Seq(Claim)
    BY DEF TypeOK
  <1>2. \A q \in DOMAIN requests : requests[q] \in Request
    BY <1>1, ElementOfSeq, LenProperties
  <1>3. 0 \notin DOMAIN claims
    BY <1>1, LenProperties
  <1>4. \A h \in Homes : At(h) \subseteq kept
    BY DEF TypeOK, At, Homes
  <1> QED
    BY <1>2, <1>3, <1>4 DEF Request, Homes

(* What the server does is not seen on the page.                           *)
LEMMA Unseen ==
  ASSUME Filing \/ Adding \/ Resting
  PROVE  /\ SameSent /\ SameTold /\ SamePlaces /\ uploads' = uploads /\ busy' = busy
         /\ DOMAIN claims \subseteq DOMAIN claims'
         /\ \A p \in DOMAIN requests : requests[p].server = "DONE" => requests'[p].server = "DONE"
  <1>1. CASE Filing
    BY <1>1 DEF Filing, Accepts
  <1>2. CASE Adding
    BY <1>2 DEF Adding, Accepts
  <1>3. CASE Resting
    BY <1>3 DEF Resting
  <1> QED
    BY <1>1, <1>2, <1>3

(* A failure the page has shown stays.                                     *)
LEMMA LostStays ==
  ASSUME NEW r, Lost(r), Shape
  PROVE  Lost(r)'
  <1>1. PICK q \in DOMAIN requests :
          r \in requests[q].items /\ requests[q].kind = "SUBMIT" /\ requests[q].told = "ERROR"
    BY DEF Lost
  <1>2. CASE Picking \/ Settling \/ Removing
    BY <1>1, <1>2 DEF Picking, Settling, Removing, Lost
  <1>3. CASE Pressing
    BY <1>1, <1>3 DEF Pressing, Lost
  <1>4. CASE Succeeding
    BY <1>1, <1>4 DEF Succeeding, SameSent, Lost
  <1>5. CASE Telling
    BY <1>1, <1>5 DEF Telling, SameSent, Lost
  <1>6. CASE Filing \/ Adding \/ Resting
    BY <1>1, <1>6, Unseen DEF SameSent, SameTold, Lost
  <1> QED
    BY <1>2, <1>3, <1>4, <1>5, <1>6 DEF Shape

LEMMA RowsKept ==
  ASSUME TypeOK, Rows, Typed
  PROVE  Rows'
  <1>1. Listed'
    BY DEF Typed
  <1>2. CASE Picking \/ Settling \/ Removing
    BY <1>1, <1>2 DEF Picking, Settling, Removing, SamePlaces, Rows, Listed
  <1>3. CASE Pressing
    <2>1. PICK n \in Nat \ DOMAIN requests :
            /\ DOMAIN requests' = DOMAIN requests \cup {n}
            /\ \A p \in DOMAIN requests : requests'[p] = requests[p]
            /\ requests'[n].claim = 0 <=> requests'[n].kind = "SUBMIT"
            /\ requests'[n].claim # 0 => requests'[n].claim \in DOMAIN claims
            /\ requests'[n].kind = "DECIDE" => requests'[n].items = {}
            /\ requests'[n].items \subseteq kept
            /\ requests'[n].told = "NOTHING"
            /\ kept' = kept /\ claims' = claims
      BY <1>3, Typing DEF Pressing, SamePlaces
    <2> QED
      BY <1>1, <2>1 DEF Rows, Listed
  <1>4. CASE Succeeding
    BY <1>1, <1>4 DEF Succeeding, SameSent, SameServer, Rows, Listed
  <1>5. CASE Telling
    BY <1>1, <1>5 DEF Telling, SameSent, SameServer, SamePlaces, Rows, Listed
  <1>6. CASE Filing \/ Adding \/ Resting
    BY <1>1, <1>6, Unseen DEF SameSent, SameTold, SamePlaces, Rows, Listed
  <1> QED
    BY <1>2, <1>3, <1>4, <1>5, <1>6 DEF Typed, Shape

LEMMA AloneKept ==
  ASSUME Rows, Alone, Typed
  PROVE  Alone'
  <1>1. CASE Picking
    <2>1. uploads = {} /\ Open = {} /\ Open' = Open /\ busy' = TRUE
      BY <1>1 DEF Picking, Alone, Open
    <2>2. \A u, v \in uploads' : u = v
      BY <1>1, <2>1 DEF Picking
    <2> QED
      BY <2>1, <2>2 DEF Alone
  <1>2. CASE Settling
    <2>1. uploads' = {} /\ Open' = {} /\ Open = {}
      BY <1>2 DEF Settling, Alone, Open
    <2> QED
      BY <2>1 DEF Alone
  <1>3. CASE Removing
    <2>1. Open' = Open /\ uploads' = uploads /\ busy' = busy
      BY <1>3 DEF Removing, Open
    <2> QED
      BY <2>1 DEF Alone
  <1>4. CASE Pressing
    <2>1. uploads' = {} /\ busy' = TRUE /\ \A p, q \in Open' : p = q
      BY <1>4 DEF Pressing, Alone, Open
    <2> QED
      BY <2>1 DEF Alone
  <1>5. CASE Succeeding
    <2>1. Open' = Open /\ uploads' = uploads /\ busy' = busy
      BY <1>5 DEF Succeeding, SameSent, Open
    <2> QED
      BY <2>1 DEF Alone
  <1>6. CASE Telling
    <2>1. PICK q \in DOMAIN requests, what \in {"REFRESHED", "ERROR"} :
            /\ requests[q].told = IF what = "ERROR" THEN "NOTHING" ELSE "DONE"
            /\ SameSent
            /\ \A p \in DOMAIN requests : requests'[p].told = IF p = q THEN what ELSE requests[p].told
            /\ busy' = FALSE /\ uploads' = uploads
      BY <1>6 DEF Telling
    <2>2. q \in Open
      BY <2>1 DEF Open
    <2>3. Open' \subseteq Open \ {q}
      BY <2>1 DEF Open, SameSent
    <2>4. uploads = {} /\ Open' = {}
      BY <2>2, <2>3 DEF Alone
    <2> QED
      BY <2>1, <2>4 DEF Alone
  <1>7. CASE Filing \/ Adding \/ Resting
    <2>1. Open' = Open /\ uploads' = uploads /\ busy' = busy
      BY <1>7, Unseen DEF SameSent, SameTold, Open
    <2> QED
      BY <2>1 DEF Alone
  <1> QED
    BY <1>1, <1>2, <1>3, <1>4, <1>5, <1>6, <1>7 DEF Typed, Shape

LEMMA PlacesKept ==
  ASSUME TypeOK, Rows, Alone, Places, Typed
  PROVE  Places'
  <1>1. CASE Picking
    BY <1>1 DEF Picking, SamePlaces, Places
  <1>2. CASE Settling
    <2>1. PICK u \in uploads : \E clean \in SUBSET u.files :
            /\ \A h \in Homes : At(h)' = IF h = u.to THEN At(h) \cup clean ELSE At(h)
            /\ uploads' = uploads \ {u} /\ requests' = requests
      BY <1>2 DEF Settling
    <2>2. PICK clean \in SUBSET u.files :
            \A h \in Homes : At(h)' = IF h = u.to THEN At(h) \cup clean ELSE At(h)
      BY <2>1
    <2>3. uploads' = {} /\ requests' = requests
      BY <2>1 DEF Alone
    <2>4. clean \cap kept = {} /\ \A h \in Homes : At(h) \subseteq kept
      BY Typing DEF Places
    <2>5. ASSUME NEW h \in Homes, NEW k \in Homes, h # k
          PROVE  At(h)' \cap At(k)' = {}
      BY <2>2, <2>4, <2>5 DEF Places
    <2>6. ASSUME NEW q \in DOMAIN requests, NEW k \in Homes, requests[q].claim # k
          PROVE  requests[q].items \cap At(k)' = {}
      BY <2>2, <2>4, <2>6 DEF Places, Rows
    <2> QED
      BY <2>3, <2>5, <2>6 DEF Places
  <1>3. CASE Removing
    BY <1>3 DEF Removing, Places
  <1>4. CASE Pressing
    BY <1>4 DEF Pressing, SamePlaces, Places
  <1>5. CASE Succeeding
    BY <1>5 DEF Succeeding, SameSent, Places
  <1>6. CASE Telling
    BY <1>6 DEF Telling, SameSent, SamePlaces, Places
  <1>7. CASE Filing \/ Adding \/ Resting
    BY <1>7, Unseen DEF SameSent, SamePlaces, Places
  <1> QED
    BY <1>1, <1>2, <1>3, <1>4, <1>5, <1>6, <1>7 DEF Typed, Shape

LEMMA FilingsKept ==
  ASSUME TypeOK, Rows, Filings, Typed
  PROVE  Filings'
  <1>1. CASE Picking \/ Settling \/ Removing
    BY <1>1 DEF Picking, Settling, Removing, Filings
  <1>2. CASE Pressing
    BY <1>2 DEF Pressing, Filings
  <1>3. CASE Succeeding
    BY <1>3 DEF Succeeding, SameSent, SameServer, Filings
  <1>4. CASE Telling
    BY <1>4 DEF Telling, SameSent, SameServer, Filings
  <1>5. CASE Filing
    <2>1. PICK q \in DOMAIN requests, n \in Nat \ DOMAIN claims :
            /\ requests[q].claim = 0 /\ Accepts(q)
            /\ DOMAIN claims' = DOMAIN claims \cup {n}
            /\ \A c \in DOMAIN claims : claims'[c].items = claims[c].items
            /\ claims'[n].items = requests[q].items
      BY <1>5 DEF Filing
    <2>2. \A p \in DOMAIN requests' : requests'[p].server = "DONE" =>
            \A r \in requests'[p].items : \E c \in DOMAIN claims' : r \in claims'[c].items
      BY <2>1 DEF Accepts, SameSent, Filings
    <2>3. \A c \in DOMAIN claims' : \A r \in claims'[c].items : \E p \in DOMAIN requests' :
            r \in requests'[p].items /\ requests'[p].server = "DONE" /\ requests'[p].claim \in {0, c}
      BY <2>1 DEF Accepts, SameSent, Filings
    <2> QED
      BY <2>2, <2>3 DEF Filings
  <1>6. CASE Adding
    <2>1. PICK q \in DOMAIN requests :
            /\ requests[q].claim \in DOMAIN claims /\ Accepts(q)
            /\ DOMAIN claims' = DOMAIN claims
            /\ \A c \in DOMAIN claims : claims'[c].items =
                 IF c = requests[q].claim THEN claims[c].items \cup requests[q].items ELSE claims[c].items
      BY <1>6 DEF Adding
    <2>2. /\ SameSent /\ requests'[q].server = "DONE"
          /\ \A p \in DOMAIN requests : p # q => requests'[p].server = requests[p].server
      BY <2>1 DEF Accepts
    <2>3. ASSUME NEW p \in DOMAIN requests, requests'[p].server = "DONE", NEW r \in requests[p].items
          PROVE  \E c \in DOMAIN claims : r \in claims'[c].items
      <3>1. CASE p = q
        BY <2>1, <2>3, <3>1
      <3>2. CASE p # q
        <4>1. PICK c \in DOMAIN claims : r \in claims[c].items
          BY <2>2, <2>3, <3>2 DEF Filings
        <4> QED
          BY <2>1, <4>1
      <3> QED
        BY <3>1, <3>2
    <2>4. ASSUME NEW c \in DOMAIN claims, NEW r \in claims'[c].items
          PROVE  \E p \in DOMAIN requests :
                   r \in requests[p].items /\ requests'[p].server = "DONE" /\ requests[p].claim \in {0, c}
      <3>1. CASE r \in claims[c].items
        <4>1. PICK p \in DOMAIN requests :
                r \in requests[p].items /\ requests[p].server = "DONE" /\ requests[p].claim \in {0, c}
          BY <3>1 DEF Filings
        <4> QED
          BY <2>2, <4>1
      <3>2. CASE c = requests[q].claim /\ r \in requests[q].items
        BY <2>2, <3>2
      <3> QED
        BY <2>1, <2>4, <3>1, <3>2
    <2> QED
      BY <2>1, <2>2, <2>3, <2>4 DEF Filings, SameSent
  <1>7. CASE Resting
    BY <1>7 DEF Resting, SameSent, Filings
  <1> QED
    BY <1>1, <1>2, <1>3, <1>4, <1>5, <1>6, <1>7 DEF Typed, Shape

LEMMA PendingKept ==
  ASSUME TypeOK, Rows, Alone, Pending, Typed
  PROVE  Pending'
  <1>1. CASE Picking \/ Settling
    <2>1. Open = {} /\ requests' = requests
      BY <1>1 DEF Picking, Settling, Alone
    <2> QED
      BY <2>1 DEF Open, Pending
  <1>2. CASE Removing
    <2>1. requests' = requests /\ \A h \in Homes : At(h)' \subseteq At(h)
      BY <1>2 DEF Removing
    <2> QED
      BY <2>1, Typing DEF Pending
  <1>3. CASE Pressing
    <2>1. Open = {}
      BY <1>3 DEF Pressing, Alone
    <2> QED
      BY <1>3, <2>1 DEF Pressing, SamePlaces, Open, Pending
  <1>4. CASE Succeeding
    <2>1. /\ SameSent /\ \A h \in Homes : At(h)' \subseteq At(h)
          /\ \A p \in DOMAIN requests : requests'[p].told = "NOTHING" => requests[p].told = "NOTHING"
      BY <1>4 DEF Succeeding
    <2> QED
      BY <2>1, Typing DEF SameSent, Pending
  <1>5. CASE Telling
    <2>1. /\ SameSent /\ SamePlaces
          /\ \A p \in DOMAIN requests : requests'[p].told = "NOTHING" => requests[p].told = "NOTHING"
      BY <1>5 DEF Telling
    <2> QED
      BY <2>1, Typing DEF SameSent, SamePlaces, Pending
  <1>6. CASE Filing \/ Adding \/ Resting
    BY <1>6, Unseen, Typing DEF SameSent, SameTold, SamePlaces, Pending
  <1> QED
    BY <1>1, <1>2, <1>3, <1>4, <1>5, <1>6 DEF Typed, Shape

LEMMA RetriedKept ==
  ASSUME TypeOK, Rows, Alone, Places, Retried, FiledIsCleared, Typed
  PROVE  Retried'
  <1>1. Shape
    BY DEF Typed
  <1>2. CASE Picking \/ Settling \/ Removing
    BY <1>1, <1>2, LostStays DEF Picking, Settling, Removing, Retried
  <1>3. CASE Pressing
    <2>1. PICK n \in Nat \ DOMAIN requests :
            /\ DOMAIN requests' = DOMAIN requests \cup {n}
            /\ \A p \in DOMAIN requests : requests'[p] = requests[p]
            /\ requests'[n].claim = 0 => requests'[n].items = At(0)
            /\ claims' = claims /\ ~busy
      BY <1>3 DEF Pressing
    <2>2. ASSUME NEW r \in At(0), NEW c \in DOMAIN claims, r \in claims[c].items
          PROVE  Lost(r)
      <3>1. r \in Staged \cap Filed
        BY <2>2, Staging DEF Homes, Filed
      <3>2. PICK q \in DOMAIN requests :
              r \in requests[q].items /\ requests[q].told \in {"NOTHING", "ERROR"}
        BY <3>1 DEF FiledIsCleared
      <3>3. requests[q].told = "ERROR"
        BY <2>1, <3>2 DEF Alone, Open
      <3>4. requests[q].claim = 0
        BY <2>2, <3>2 DEF Places, Homes
      <3> QED
        BY <3>2, <3>3, <3>4 DEF Rows, Lost
    <2>3. ASSUME NEW q \in DOMAIN requests', requests'[q].claim = 0,
                 requests'[q].told = "NOTHING", requests'[q].server = "SENT",
                 NEW r \in requests'[q].items, NEW c \in DOMAIN claims', r \in claims'[c].items
          PROVE  Lost(r)'
      BY <1>1, <2>1, <2>2, <2>3, LostStays DEF Retried
    <2> QED
      BY <2>3 DEF Retried
  <1>4. CASE Succeeding
    <2>1. /\ SameSent /\ SameServer /\ claims' = claims
          /\ \A p \in DOMAIN requests : requests'[p].told = "NOTHING" => requests[p].told = "NOTHING"
      BY <1>4 DEF Succeeding
    <2> QED
      BY <1>1, <2>1, LostStays DEF SameSent, SameServer, Retried
  <1>5. CASE Telling
    <2>1. /\ SameSent /\ SameServer /\ claims' = claims
          /\ \A p \in DOMAIN requests : requests'[p].told = "NOTHING" => requests[p].told = "NOTHING"
      BY <1>5 DEF Telling
    <2> QED
      BY <1>1, <2>1, LostStays DEF SameSent, SameServer, Retried
  <1>6. CASE Filing
    <2>1. PICK q \in DOMAIN requests, n \in Nat \ DOMAIN claims :
            /\ requests[q].claim = 0 /\ Accepts(q)
            /\ DOMAIN claims' = DOMAIN claims \cup {n}
            /\ \A c \in DOMAIN claims : claims'[c].items = claims[c].items
            /\ claims'[n].items = requests[q].items
      BY <1>6 DEF Filing
    <2>2. requests[q].told \in {"NOTHING", "ERROR"} /\ requests[q].kind = "SUBMIT"
      BY <2>1, Typing DEF Accepts, Rows
    <2>3. ASSUME NEW p \in DOMAIN requests, requests[p].claim = 0,
                 requests[p].told = "NOTHING", requests'[p].server = "SENT"
          PROVE  p # q /\ requests[p].server = "SENT" /\ requests[q].told = "ERROR"
      <3>1. p # q /\ requests[p].server = "SENT"
        BY <2>1, <2>3 DEF Accepts
      <3> QED
        BY <2>2, <2>3, <3>1 DEF Alone, Open
    <2>4. ASSUME NEW p \in DOMAIN requests, requests[p].claim = 0,
                 requests[p].told = "NOTHING", requests'[p].server = "SENT",
                 NEW r \in requests[p].items, NEW c \in DOMAIN claims', r \in claims'[c].items
          PROVE  Lost(r)
      <3>1. CASE c \in DOMAIN claims
        BY <2>1, <2>3, <2>4, <3>1 DEF Retried
      <3>2. CASE c = n
        BY <2>1, <2>2, <2>3, <2>4, <3>2 DEF Lost
      <3> QED
        BY <2>1, <3>1, <3>2
    <2> QED
      BY <1>1, <2>1, <2>4, LostStays DEF Retried, Accepts, SameSent, SameTold
  <1>7. CASE Adding
    <2>1. PICK q \in DOMAIN requests :
            /\ requests[q].claim \in DOMAIN claims /\ Accepts(q)
            /\ DOMAIN claims' = DOMAIN claims
            /\ \A c \in DOMAIN claims : claims'[c].items =
                 IF c = requests[q].claim THEN claims[c].items \cup requests[q].items ELSE claims[c].items
      BY <1>7 DEF Adding
    <2>2. ASSUME NEW p \in DOMAIN requests, requests[p].claim = 0,
                 requests[p].told = "NOTHING", requests'[p].server = "SENT",
                 NEW r \in requests[p].items, NEW c \in DOMAIN claims, r \in claims'[c].items
          PROVE  Lost(r)
      <3>1. requests[q].claim # 0
        BY <2>1, Typing
      <3>2. r \notin requests[q].items
        BY <2>2, <3>1 DEF Places
      <3>3. r \in claims[c].items
        BY <2>1, <2>2, <3>2
      <3>4. requests[p].server = "SENT"
        BY <2>1, <2>2 DEF Accepts
      <3> QED
        BY <2>2, <3>3, <3>4 DEF Retried
    <2> QED
      BY <1>1, <2>1, <2>2, LostStays DEF Retried, Accepts, SameSent, SameTold
  <1>8. CASE Resting
    BY <1>1, <1>8, LostStays DEF Retried, Resting, SameSent, SameTold
  <1> QED
    BY <1>1, <1>2, <1>3, <1>4, <1>5, <1>6, <1>7, <1>8 DEF Shape

LEMMA NothingKeptIsLostKept ==
  ASSUME TypeOK, Filings, Pending, NothingKeptIsLost, Typed
  PROVE  NothingKeptIsLost'
  <1> USE Staging DEF Filed
  <1>1. CASE Picking
    BY <1>1 DEF Picking, SamePlaces, NothingKeptIsLost
  <1>2. CASE Settling
    <2>1. PICK u \in uploads, clean \in SUBSET Files :
            /\ \A h \in Homes : At(h)' = IF h = u.to THEN At(h) \cup clean ELSE At(h)
            /\ kept' = kept \cup clean /\ removed' = removed /\ claims' = claims
      BY <1>2 DEF Settling, TypeOK
    <2>2. u.to \in Homes
      BY DEF TypeOK, Homes
    <2> QED
      BY <2>1, <2>2 DEF NothingKeptIsLost
  <1>3. CASE Removing
    BY <1>3 DEF Removing, NothingKeptIsLost
  <1>4. CASE Pressing
    BY <1>4 DEF Pressing, SamePlaces, NothingKeptIsLost
  <1>5. CASE Succeeding
    <2>1. PICK q \in DOMAIN requests :
            /\ requests[q].told = "NOTHING" /\ requests[q].server = "DONE"
            /\ \A h \in Homes : At(h)' =
                 IF h = requests[q].claim /\ (h = 0 \/ requests[q].items # {}) THEN {} ELSE At(h)
            /\ kept' = kept /\ removed' = removed /\ claims' = claims
      BY <1>5 DEF Succeeding
    <2>2. ASSUME NEW h \in Homes, NEW r \in At(h), r \notin At(h)'
          PROVE  r \in Filed
      <3>1. h = requests[q].claim /\ (h = 0 \/ requests[q].items # {})
        BY <2>1, <2>2
      <3>2. r \in requests[q].items
        BY <2>1, <2>2, <3>1 DEF Pending
      <3> QED
        BY <2>1, <3>2 DEF Filings
    <2> QED
      BY <2>1, <2>2 DEF NothingKeptIsLost
  <1>6. CASE Telling
    BY <1>6 DEF Telling, SamePlaces, NothingKeptIsLost
  <1>7. CASE Filing \/ Adding \/ Resting
    <2>1. DOMAIN claims \subseteq DOMAIN claims' /\ \A c \in DOMAIN claims : claims[c].items \subseteq claims'[c].items
      BY <1>7 DEF Filing, Adding, Resting
    <2>2. Filed \subseteq Filed'
      BY <2>1
    <2>3. SamePlaces
      BY <1>7, Unseen
    <2> HIDE DEF Filed
    <2> QED
      BY <2>2, <2>3 DEF SamePlaces, NothingKeptIsLost
  <1> QED
    BY <1>1, <1>2, <1>3, <1>4, <1>5, <1>6, <1>7 DEF Typed, Shape

LEMMA FiledIsClearedKept ==
  ASSUME TypeOK, Rows, Places, Filings, FiledIsCleared, Typed
  PROVE  FiledIsCleared'
  <1> DEFINE Witness(q, r) == /\ r \in requests[q].items
                              /\ requests[q].server = "DONE"
                              /\ requests[q].told \in {"NOTHING", "ERROR"}
  <1>1. CASE Picking \/ Removing
    <2>1. requests' = requests /\ claims' = claims /\ \A h \in Homes : At(h)' \subseteq At(h)
      BY <1>1 DEF Picking, Removing, SamePlaces
    <2> QED
      BY <2>1, Staging DEF FiledIsCleared, Filed
  <1>2. CASE Settling
    <2>1. PICK u \in uploads : \E clean \in SUBSET u.files :
            /\ \A h \in Homes : At(h)' \subseteq At(h) \cup clean
            /\ requests' = requests /\ claims' = claims
      BY <1>2 DEF Settling
    <2>2. Filed \subseteq kept
      BY DEF Filings, Rows, Filed
    <2>3. Staged' \cap Filed' \subseteq Staged \cap Filed
      <3>1. Staged' \subseteq Staged \cup u.files
        BY <2>1, Staging
      <3>2. Filed' = Filed
        BY <2>1 DEF Filed
      <3> QED
        BY <2>2, <3>1, <3>2 DEF Places
    <2> QED
      BY <2>1, <2>3 DEF FiledIsCleared
  <1>3. CASE Pressing
    <2>1. /\ \A p \in DOMAIN requests : p \in DOMAIN requests' /\ requests'[p] = requests[p]
          /\ claims' = claims /\ SamePlaces
      BY <1>3 DEF Pressing
    <2> QED
      BY <2>1, Staging DEF FiledIsCleared, Filed, SamePlaces
  <1>4. CASE Succeeding
    <2>1. PICK q \in DOMAIN requests :
            /\ SameSent /\ SameServer
            /\ \A p \in DOMAIN requests : requests'[p].told = IF p = q THEN "DONE" ELSE requests[p].told
            /\ \A h \in Homes : At(h)' =
                 IF h = requests[q].claim /\ (h = 0 \/ requests[q].items # {}) THEN {} ELSE At(h)
            /\ claims' = claims
      BY <1>4 DEF Succeeding
    <2>2. ASSUME NEW r \in Staged' \cap Filed'
          PROVE  \E p \in DOMAIN requests' : Witness(p, r)'
      <3>1. PICK h \in Homes : r \in At(h)'
        BY Staging
      <3>2. r \in At(h) /\ ~(h = requests[q].claim /\ (h = 0 \/ requests[q].items # {}))
        BY <2>1, <3>1
      <3>3. r \in Staged \cap Filed
        BY <2>1, <2>2, <3>2, Staging DEF Filed
      <3>4. PICK p \in DOMAIN requests : Witness(p, r)
        BY <3>3 DEF FiledIsCleared
      <3>5. p # q
        BY <3>2, <3>4 DEF Places
      <3> QED
        BY <2>1, <3>4, <3>5 DEF SameSent, SameServer
    <2> QED
      BY <2>2 DEF FiledIsCleared
  <1>5. CASE Telling
    <2>1. /\ SameSent /\ SameServer /\ SamePlaces /\ claims' = claims
          /\ \A p \in DOMAIN requests : requests[p].told \in {"NOTHING", "ERROR"}
                                          => requests'[p].told \in {"NOTHING", "ERROR"}
      BY <1>5 DEF Telling
    <2>2. Staged' \cap Filed' = Staged \cap Filed
      BY <2>1, Staging DEF SamePlaces, Filed
    <2> QED
      BY <2>1, <2>2 DEF FiledIsCleared, SameSent, SameServer
  <1>6. CASE Filing \/ Adding
    <2>1. PICK q \in DOMAIN requests :
            /\ Accepts(q)
            /\ Filed' \subseteq Filed \cup requests[q].items
      <3>1. CASE Filing
        BY <3>1 DEF Filing, Filed
      <3>2. CASE Adding
        <4>1. PICK q \in DOMAIN requests :
                /\ Accepts(q) /\ DOMAIN claims' = DOMAIN claims
                /\ \A c \in DOMAIN claims : claims'[c].items \subseteq claims[c].items \cup requests[q].items
          BY <3>2 DEF Adding
        <4> QED
          BY <4>1 DEF Filed
      <3> QED
        BY <1>6, <3>1, <3>2
    <2>2. Staged' = Staged
      BY <2>1, Staging DEF Accepts, SamePlaces
    <2>3. requests[q].told \in {"NOTHING", "ERROR"}
      BY <2>1, Typing DEF Accepts, Rows
    <2>4. ASSUME NEW r \in Staged' \cap Filed'
          PROVE  \E p \in DOMAIN requests' : Witness(p, r)'
      <3>1. CASE r \in requests[q].items
        BY <2>1, <2>3, <3>1 DEF Accepts, SameSent, SameTold
      <3>2. CASE r \in Filed
        <4>1. PICK p \in DOMAIN requests : Witness(p, r)
          BY <2>2, <2>4, <3>2 DEF FiledIsCleared
        <4> QED
          BY <2>1, <4>1 DEF Accepts, SameSent, SameTold
      <3> QED
        BY <2>1, <2>4, <3>1, <3>2
    <2> QED
      BY <2>4 DEF FiledIsCleared
  <1>7. CASE Resting
    <2>1. /\ SameSent /\ SameTold /\ SamePlaces
          /\ \A p \in DOMAIN requests : requests[p].server = "DONE" => requests'[p].server = "DONE"
      BY <1>7, Unseen
    <2>2. Filed' = Filed
      BY <1>7 DEF Resting, Filed
    <2>3. Staged' = Staged
      BY <2>1, Staging DEF SamePlaces
    <2> QED
      BY <2>1, <2>2, <2>3 DEF FiledIsCleared, SameSent, SameTold
  <1> QED
    BY <1>1, <1>2, <1>3, <1>4, <1>5, <1>6, <1>7 DEF Typed, Shape

LEMMA TwiceForm ==
  /\ TwiceOnlyAfterLoss <=>
       \A c, d \in DOMAIN claims : \A r \in claims[c].items \cap claims[d].items : c = d \/ Lost(r)
  /\ TwiceOnlyAfterLoss' <=>
       \A c, d \in DOMAIN claims' : \A r \in claims'[c].items \cap claims'[d].items : c = d \/ Lost(r)'
  BY DEF TwiceOnlyAfterLoss, Lost

LEMMA TwiceOnlyAfterLossKept ==
  ASSUME TypeOK, Rows, Places, Filings, Retried, TwiceOnlyAfterLoss, Typed
  PROVE  TwiceOnlyAfterLoss'
  <1>1. Shape
    BY DEF Typed
  <1>2. CASE claims' = claims \/ Resting
    BY <1>1, <1>2, LostStays, TwiceForm DEF Resting
  <1>3. CASE Filing
    <2>1. PICK q \in DOMAIN requests, n \in Nat \ DOMAIN claims :
            /\ requests[q].claim = 0 /\ Accepts(q)
            /\ DOMAIN claims' = DOMAIN claims \cup {n}
            /\ \A c \in DOMAIN claims : claims'[c].items = claims[c].items
            /\ claims'[n].items = requests[q].items
      BY <1>3 DEF Filing
    <2>2. ASSUME NEW d \in DOMAIN claims, NEW r \in requests[q].items \cap claims[d].items
          PROVE  Lost(r)
      <3>1. requests[q].told \in {"NOTHING", "ERROR"} /\ requests[q].server = "SENT" /\ requests[q].kind = "SUBMIT"
        BY <2>1, Typing DEF Accepts, Rows
      <3>2. CASE requests[q].told = "NOTHING"
        BY <2>1, <2>2, <3>1, <3>2 DEF Retried
      <3>3. CASE requests[q].told = "ERROR"
        BY <2>2, <3>1, <3>3 DEF Lost
      <3> QED
        BY <3>1, <3>2, <3>3
    <2>3. ASSUME NEW c \in DOMAIN claims', NEW d \in DOMAIN claims',
                 NEW r \in claims'[c].items \cap claims'[d].items, c # d
          PROVE  Lost(r)
      <3>1. CASE c \in DOMAIN claims /\ d \in DOMAIN claims
        BY <2>1, <2>3, <3>1, TwiceForm
      <3>2. CASE c = n /\ d \in DOMAIN claims
        BY <2>1, <2>2, <2>3, <3>2
      <3>3. CASE d = n /\ c \in DOMAIN claims
        BY <2>1, <2>2, <2>3, <3>3
      <3> QED
        BY <2>1, <2>3, <3>1, <3>2, <3>3
    <2> QED
      BY <1>1, <2>3, LostStays, TwiceForm
  <1>4. CASE Adding
    <2>1. PICK q \in DOMAIN requests :
            /\ requests[q].claim \in DOMAIN claims
            /\ DOMAIN claims' = DOMAIN claims
            /\ \A c \in DOMAIN claims : claims'[c].items =
                 IF c = requests[q].claim THEN claims[c].items \cup requests[q].items ELSE claims[c].items
      BY <1>4 DEF Adding
    <2>2. requests[q].claim # 0
      BY <2>1, Typing
    <2>3. ASSUME NEW d \in DOMAIN claims, d # requests[q].claim
          PROVE  requests[q].items \cap claims[d].items = {}
      <3>1. SUFFICES ASSUME NEW r \in claims[d].items, r \in requests[q].items
                     PROVE  FALSE
        OBVIOUS
      <3>2. PICK p \in DOMAIN requests : r \in requests[p].items /\ requests[p].claim \in {0, d}
        BY <2>3, <3>1 DEF Filings
      <3>3. requests[p].claim # requests[q].claim
        BY <2>2, <2>3, <3>2
      <3> QED
        BY <3>1, <3>2, <3>3 DEF Places
    <2>4. ASSUME NEW c \in DOMAIN claims, NEW d \in DOMAIN claims,
                 NEW r \in claims'[c].items \cap claims'[d].items, c # d
          PROVE  Lost(r)
      BY <2>1, <2>3, <2>4, TwiceForm
    <2> QED
      BY <1>1, <2>1, <2>4, LostStays, TwiceForm
  <1>5. claims' = claims \/ Resting \/ Filing \/ Adding
    BY <1>1 DEF Shape, Picking, Settling, Removing, Pressing, Succeeding, Telling
  <1> QED
    BY <1>2, <1>3, <1>4, <1>5

-----------------------------------------------------------------------------
LEMMA ClientStarts == Init => ClientInv
  <1> SUFFICES ASSUME Init PROVE ClientInv
    OBVIOUS
  <1>1. /\ claims = <<>> /\ requests = <<>> /\ shown = <<>> /\ late = {} /\ uploads = {}
        /\ kept = {} /\ removed = {} /\ drafts = {} /\ staged = [c \in Ids |-> {}]
        /\ role = "Employee" /\ busy = FALSE
    BY DEF Init
  <1>2. /\ claims \in Seq(Claim) /\ requests \in Seq(Request) /\ shown \in Seq(Claim)
        /\ DOMAIN claims = {} /\ DOMAIN requests = {} /\ DOMAIN shown = {}
    BY <1>1, EmptySeq
  <1>3. \A h \in Homes : At(h) = {}
    BY <1>1, NoHomeIsZero DEF Homes, At
  <1>4. TypeOK
    BY <1>1, <1>2 DEF TypeOK
  <1>5. Rows /\ Filings /\ Pending /\ Retried
    BY <1>1, <1>2 DEF Rows, Filings, Pending, Retried
  <1>6. Alone /\ Places
    BY <1>1, <1>2, <1>3 DEF Alone, Open, Places
  <1>7. NothingKeptIsLost /\ FiledIsCleared /\ TwiceOnlyAfterLoss
    BY <1>1, <1>2 DEF NothingKeptIsLost, FiledIsCleared, TwiceOnlyAfterLoss, Filed
  <1> QED
    BY <1>4, <1>5, <1>6, <1>7 DEF ClientInv

LEMMA ClientSteps == ClientInv /\ [Next]_vars => ClientInv'
  <1> SUFFICES ASSUME ClientInv, [Next]_vars PROVE ClientInv'
    OBVIOUS
  <1> USE DEF ClientInv
  <1>1. Typed
    BY StepTyped
  <1>2. TypeOK' /\ Rows' /\ Alone' /\ Places'
    BY <1>1, RowsKept, AloneKept, PlacesKept DEF Typed
  <1>3. Filings' /\ Pending' /\ Retried'
    BY <1>1, FilingsKept, PendingKept, RetriedKept
  <1>4. NothingKeptIsLost' /\ FiledIsCleared' /\ TwiceOnlyAfterLoss'
    BY <1>1, NothingKeptIsLostKept, FiledIsClearedKept, TwiceOnlyAfterLossKept
  <1> QED
    BY <1>2, <1>3, <1>4

LEMMA ClientInvariant == Spec => []ClientInv
  BY ClientStarts, ClientSteps, PTL DEF Spec

(* The page and the claims behind it keep their types.                     *)
THEOREM ClientTypes == Spec => []TypeOK
  BY ClientInvariant, PTL DEF ClientInv

(* A receipt the page has taken stays on the page, is in a claim or was    *)
(* removed by the employee: what a success clears, its request had filed   *)
(* (page.tsx:133, 155, 196-200).                                           *)
THEOREM NoReceiptIsLost == Spec => []NothingKeptIsLost
  BY ClientInvariant, PTL DEF ClientInv

(* A receipt both on the page and in a claim has a request the server      *)
(* accepted and the page has no answer to (page.tsx:155, 194).             *)
THEOREM FiledReceiptsAreCleared == Spec => []FiledIsCleared
  BY ClientInvariant, PTL DEF ClientInv

(* No receipt gets into two claims unless a submission of it failed as far *)
(* as the page knows (page.tsx:151, 326).                                  *)
THEOREM DuplicatesTakeALoss == Spec => []TwiceOnlyAfterLoss
  BY ClientInvariant, PTL DEF ClientInv
=============================================================================
