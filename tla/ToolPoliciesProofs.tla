------------------------- MODULE ToolPoliciesProofs -------------------------
(***************************************************************************)
(* Proofs about ToolPolicies, for every API, submission and number of      *)
(* changes, given that the submitted document passes the tests written for *)
(* it.                                                                     *)
(*                                                                         *)
(* A document goes from the published one to the live tools through        *)
(* fetched, branch and plain, or is the zipped one.  The invariant is that *)
(* the tests hold from branch on, whatever is published meanwhile; a merge *)
(* may make a document that was never tested, and yet passes, because the  *)
(* tests look at one tool at a time.                                       *)
(***************************************************************************)
EXTENDS ToolPolicies, TLAPS

Passing == {doc \in Documents : TestsPass(doc)}

Inv ==
  /\ published \in Documents
  /\ fetched \in [doc : Documents, base : Passing] \cup {None}
  /\ branch \in [doc : Passing, base : Passing] \cup {None}
  /\ plain \in Passing
  /\ zipped \in Passing
  /\ \E doc \in Passing : live = Build(doc)

(* What passes the tests is reviewed and is under each name what was       *)
(* submitted under it.                                                     *)
LEMMA TestsReview ==
  ASSUME TestsPass(Submitted), NEW doc \in Passing, NEW n \in NamesIn(doc)
  PROVE  /\ n \in NamesIn(Submitted)
         /\ IsReviewed(doc[n])
         /\ Annotations(doc[n]) = [readOnly |-> IsRead(doc[n]),
                                   destructive |-> doc[n].method = "DELETE"]
         /\ Guidance(doc[n]) = IF IsRead(doc[n]) THEN "reads" ELSE "writes"
         /\ IsRead(doc[n]) <=> IsRead(Submitted[n])
         /\ doc[n].method = "DELETE" <=> Submitted[n].method = "DELETE"
<1>. DEFINE T == [readOnly |-> ~AreWrites(n), destructive |-> Submitted[n].method = "DELETE"]
            Own == [readOnly |-> IsRead(doc[n]), destructive |-> doc[n].method = "DELETE"]
<1>1. ~LoggingCounts /\ n \in NamesIn(Submitted) /\ Submitted[n] # None
  BY DEF Passing, TestsPass, SubmissionMatches, NamesIn
<1>2. /\ Build(doc)[n].hints = Annotations(doc[n])
      /\ Build(doc)[n].says = Guidance(doc[n])
  BY DEF Build
<1>3. /\ Annotations(doc[n]) = T
      /\ Guidance(doc[n]) = IF AreWrites(n) THEN "writes" ELSE "reads"
  BY <1>2 DEF Passing, TestsPass, SubmissionMatches
<1>4. AreWrites(n) <=> ~IsRead(Submitted[n])
  BY <1>1 DEF AreWrites
<1>5. IsReviewed(doc[n])
  <2>1. ~(T.readOnly /\ T.destructive)
    BY <1>4 DEF IsRead
  <2>2. T \in [readOnly : BOOLEAN, destructive : BOOLEAN]
    BY DEF AreWrites, IsRead
  <2>3. T # None
    BY <2>1, <2>2, PoliciesAssumption DEF Hints
  <2>. QED
    BY <1>3, <2>3 DEF Annotations
<1>6. Annotations(doc[n]) = Own
  BY <1>1, <1>5 DEF Annotations, ReadOnlyHint, IsRead
<1>7. Own.readOnly = T.readOnly /\ Own.destructive = T.destructive
  <2>1. Own = T
    BY <1>3, <1>6
  <2>. QED
    BY <2>1
<1>. QED
  BY <1>1, <1>3, <1>4, <1>5, <1>6, <1>7 DEF IsRead

LEMMA BuiltFromPassing ==
  ASSUME TestsPass(Submitted), NEW doc \in Passing, live = Build(doc)
  PROVE  OnlyReviewedLive /\ SaysWhatItHints /\ FailsClosed
<1>1. DOMAIN live = NamesIn(doc) /\ NamesIn(doc) = NamesIn(Submitted)
  BY DEF Build, Passing, TestsPass, SubmissionMatches
<1>2. Submitted \in Passing
  BY PoliciesAssumption DEF Passing
<1>3. ASSUME NEW n \in DOMAIN live
      PROVE  /\ live[n].hints # None
             /\ IsReviewed(live[n].does)
             /\ live[n].hints.readOnly = (live[n].does.method = "GET")
             /\ live[n].hints.destructive = (live[n].does.method = "DELETE")
             /\ live[n].does.method = "GET" <=> Submitted[n].method = "GET"
             /\ live[n].does.method = "DELETE" <=> Submitted[n].method = "DELETE"
             /\ live[n].says = IF live[n].hints.readOnly THEN "reads" ELSE "writes"
  <2>1. n \in NamesIn(doc) /\ n \in NamesIn(Submitted)
    BY <1>1, <1>3
  <2>2. /\ live[n].does = doc[n]
        /\ live[n].hints = Annotations(doc[n])
        /\ live[n].says = Guidance(doc[n])
    BY <2>1 DEF Build
  <2>3. /\ IsReviewed(doc[n])
        /\ Annotations(doc[n]) = [readOnly |-> IsRead(doc[n]),
                                  destructive |-> doc[n].method = "DELETE"]
        /\ Guidance(doc[n]) = IF IsRead(doc[n]) THEN "reads" ELSE "writes"
        /\ IsRead(doc[n]) <=> IsRead(Submitted[n])
        /\ doc[n].method = "DELETE" <=> Submitted[n].method = "DELETE"
    BY <2>1, TestsReview
  <2>4. IsReviewed(Submitted[n])
    BY <1>2, <2>1, TestsReview
  <2>5. /\ IsRead(doc[n]) <=> doc[n].method = "GET"
        /\ IsRead(Submitted[n]) <=> Submitted[n].method = "GET"
    BY <2>3, <2>4 DEF IsReviewed, IsRead
  <2>6. Annotations(doc[n]) # None
    <3>. DEFINE A == [readOnly |-> IsRead(doc[n]), destructive |-> doc[n].method = "DELETE"]
    <3>1. A \in Hints
      BY DEF Hints, IsRead
    <3>. QED
      BY <2>3, <3>1, PoliciesAssumption
  <2>7. /\ Annotations(doc[n]).readOnly = (doc[n].method = "GET")
        /\ Annotations(doc[n]).destructive = (doc[n].method = "DELETE")
        /\ Guidance(doc[n]) = IF doc[n].method = "GET" THEN "reads" ELSE "writes"
    <3>1. IsRead(doc[n]) = (doc[n].method = "GET")
      BY <2>5 DEF IsRead
    <3>2. /\ Annotations(doc[n]).readOnly = IsRead(doc[n])
          /\ Annotations(doc[n]).destructive = (doc[n].method = "DELETE")
      <4>. DEFINE A(r, d) == [readOnly |-> r, destructive |-> d]
      <4>1. ASSUME NEW r, NEW d PROVE A(r, d).readOnly = r /\ A(r, d).destructive = d
        OBVIOUS
      <4>2. Annotations(doc[n]) = A(IsRead(doc[n]), doc[n].method = "DELETE")
        BY <2>3
      <4>. HIDE DEF A
      <4>. QED
        BY <4>1, <4>2
    <3>3. Guidance(doc[n]) = IF doc[n].method = "GET" THEN "reads" ELSE "writes"
      BY <2>3, <2>5
    <3>. QED
      BY <3>1, <3>2, <3>3
  <2>8. live[n].says = IF live[n].hints.readOnly THEN "reads" ELSE "writes"
    BY <2>2, <2>7
  <2>9. /\ doc[n].method = "GET" <=> Submitted[n].method = "GET"
        /\ doc[n].method = "DELETE" <=> Submitted[n].method = "DELETE"
    BY <2>3, <2>5
  <2>. QED
    BY <2>2, <2>3, <2>6, <2>7, <2>8, <2>9
<1>. QED
  BY <1>1, <1>3 DEF OnlyReviewedLive, SaysWhatItHints, FailsClosed

(* A document made of the operations of two that pass the tests passes     *)
(* them too.                                                               *)
LEMMA MixedPasses ==
  ASSUME NEW a \in Passing, NEW b \in Passing, NEW doc \in Documents,
         \A n \in Names : doc[n] \in {a[n], b[n]}
  PROVE  doc \in Passing
<1>1. /\ ~LoggingCounts
      /\ NamesIn(a) = NamesIn(Submitted) /\ NamesIn(b) = NamesIn(Submitted)
      /\ Starts(a)
  BY DEF Passing, TestsPass, SubmissionMatches
<1>2. NamesIn(doc) = NamesIn(Submitted)
  BY <1>1 DEF NamesIn
<1>3. Starts(doc)
  BY <1>1, <1>2 DEF Starts
<1>4. ASSUME NEW n \in NamesIn(doc)
      PROVE  LET tool == Build(doc)[n]
             IN  /\ tool.hints = [readOnly |-> ~AreWrites(n),
                                  destructive |-> Submitted[n].method = "DELETE"]
                 /\ tool.says = IF AreWrites(n) THEN "writes" ELSE "reads"
  <2>1. PICK src \in {a, b} : doc[n] = src[n]
    BY <1>4 DEF NamesIn
  <2>2. Build(doc)[n] = Build(src)[n]
    BY <1>1, <1>2, <1>4, <2>1 DEF Build
  <2>3. TestsPass(src) /\ n \in NamesIn(src)
    BY <1>1, <1>2, <1>4, <2>1 DEF Passing
  <2>. QED
    BY <2>2, <2>3 DEF TestsPass, SubmissionMatches
<1>. QED
  BY <1>1, <1>2, <1>3, <1>4 DEF Passing, TestsPass, SubmissionMatches

(* The tests hold of every document from the pull request on.              *)
LEMMA PassingOnly ==
  ASSUME TestsPass(Submitted)
  PROVE  Spec => []Inv
<1>1. Init => Inv
  <2>1. Submitted \in Passing
    BY PoliciesAssumption DEF Passing
  <2>. QED
    BY <2>1 DEF Init, Inv, Passing
<1>2. Inv /\ [Next]_vars => Inv'
  <2>. SUFFICES ASSUME Inv, [Next]_vars PROVE Inv'
    OBVIOUS
  <2>. USE DEF Inv
  <2>1. ASSUME NEW n \in Names, NEW o \in Operations \cup {None}, Publish(n, o) PROVE Inv'
    BY <2>1 DEF Publish, Documents
  <2>2. CASE Fetch
    BY <2>2 DEF Fetch, Passing
  <2>3. CASE UpdatePullRequest
    <3>1. branch' \in [doc : Passing, base : Passing]
      BY <2>3 DEF UpdatePullRequest, Passing
    <3>. QED
      BY <2>3, <3>1 DEF UpdatePullRequest
  <2>4. CASE EndJob
    BY <2>4 DEF EndJob
  <2>5. CASE Merge
    <3>1. branch.doc \in Passing /\ plain \in Passing
      BY <2>5 DEF Merge
    <3>2. /\ plain' \in Documents
          /\ \A n \in Names : plain'[n] \in {branch.doc[n], plain[n]}
      BY <2>5, <3>1 DEF Merge, Documents, Passing
    <3>3. plain' \in Passing
      BY <3>1, <3>2, MixedPasses
    <3>. QED
      BY <2>5, <3>3 DEF Merge
  <2>6. ASSUME NEW doc \in {plain, zipped}, Deploy(doc) PROVE Inv'
    <3>1. doc \in Passing /\ live' = Build(doc)
      BY <2>6 DEF Deploy
    <3>. QED
      BY <2>6, <3>1 DEF Deploy
  <2>7. CASE UNCHANGED vars
    BY <2>7 DEF vars
  <2>. QED
    BY <2>1, <2>2, <2>3, <2>4, <2>5, <2>6, <2>7 DEF Next
<1>. QED
  BY <1>1, <1>2, PTL DEF Spec

(* Whatever Magic Hour publishes, and however often, a tool that the sync  *)
(* brings into service is one that was reviewed and submitted under its    *)
(* name: fetched, test and merge may be as far apart as they like.         *)
THEOREM OnlyReviewedGoesLive ==
  ASSUME TestsPass(Submitted)
  PROVE  Spec => []OnlyReviewedLive
<1>1. Inv => OnlyReviewedLive
  BY BuiltFromPassing DEF Inv
<1>. QED
  BY <1>1, PassingOnly, PTL

(* Each live tool says in its description what its hint says.              *)
THEOREM SaysWhatItHintsHolds ==
  ASSUME TestsPass(Submitted)
  PROVE  Spec => []SaysWhatItHints
<1>1. Inv => SaysWhatItHints
  BY BuiltFromPassing DEF Inv
<1>. QED
  BY <1>1, PassingOnly, PTL

(* What the comment in customize_openapi_component says holds as long as   *)
(* only the sync brings documents into service: the tests do what the      *)
(* exception, which FastMCP catches, does not.                             *)
THEOREM SyncFailsClosed ==
  ASSUME TestsPass(Submitted)
  PROVE  Spec => []FailsClosed
<1>1. Inv => FailsClosed
  BY BuiltFromPassing DEF Inv
<1>. QED
  BY <1>1, PassingOnly, PTL

(***************************************************************************)
(* Types, for the sync as well as for an operator who deploys a document   *)
(* that no test saw: here nothing is assumed of the submission but that a  *)
(* server starts on it.                                                    *)
(***************************************************************************)

(* The policies never build a tool whose hints the submission could not    *)
(* express, reviewed or not: what only reads is no deletion.               *)
LEMMA BuiltTyped ==
  ASSUME NEW doc \in Documents, Starts(doc)
  PROVE  /\ DOMAIN Build(doc) \subseteq Names \ ShortNames
         /\ Build(doc) \in [DOMAIN Build(doc) -> Tools]
<1>1. DOMAIN Build(doc) = NamesIn(doc)
  BY DEF Build
<1>2. NamesIn(doc) \subseteq Names \ ShortNames
  BY DEF Starts, NamesIn
<1>3. ASSUME NEW n \in NamesIn(doc) PROVE Build(doc)[n] \in Tools
  <2>1. doc[n] \in Operations
    BY <1>3 DEF NamesIn, Documents
  <2>2. Annotations(doc[n]) \in Hints \cup {None}
    <3>. DEFINE r == ReadOnlyHint(IsRead(doc[n]))
                d == doc[n].method = "DELETE"
    <3>1. r \in BOOLEAN /\ d \in BOOLEAN
      BY PoliciesAssumption DEF ReadOnlyHint, IsRead
    <3>2. ~(r /\ d)
      BY DEF ReadOnlyHint, IsRead
    <3>3. Annotations(doc[n]) \in {[readOnly |-> r, destructive |-> d], None}
      BY DEF Annotations
    <3>. HIDE DEF r, d
    <3>4. [readOnly |-> r, destructive |-> d] \in Hints
      BY <3>1, <3>2 DEF Hints
    <3>. QED
      BY <3>3, <3>4
  <2>3. Guidance(doc[n]) \in {"reads", "writes", "nothing"}
    BY DEF Guidance
  <2>. QED
    BY <1>3, <2>1, <2>2, <2>3 DEF Build, Tools
<1>. QED
  BY <1>1, <1>2, <1>3 DEF Build

LEMMA TypeStep ==
  ASSUME TypeOK, [Next \/ Deploy(published)]_vars
  PROVE  TypeOK'
<1>. USE DEF TypeOK
<1>1. ASSUME NEW n \in Names, NEW o \in Operations \cup {None}, Publish(n, o) PROVE TypeOK'
  <2>1. published' \in Documents
    BY <1>1 DEF Publish, Documents
  <2>. QED
    BY <1>1, <2>1, PoliciesAssumption DEF Publish
<1>2. CASE Fetch
  BY <1>2 DEF Fetch, Changes
<1>3. CASE UpdatePullRequest
  BY <1>3 DEF UpdatePullRequest
<1>4. CASE EndJob
  BY <1>4 DEF EndJob
<1>5. CASE Merge
  <2>1. branch.doc \in Documents
    BY <1>5 DEF Merge, Changes
  <2>2. plain' \in Documents
    BY <1>5, <2>1 DEF Merge, Documents
  <2>. QED
    BY <1>5, <2>2 DEF Merge
<1>6. ASSUME NEW doc \in {plain, zipped, published}, Deploy(doc) PROVE TypeOK'
  <2>1. Starts(doc) /\ live' = Build(doc)
    BY <1>6 DEF Deploy
  <2>2. /\ DOMAIN live' \subseteq Names \ ShortNames
        /\ live' \in [DOMAIN live' -> Tools]
    BY <2>1, BuiltTyped
  <2>. QED
    BY <1>6, <2>2 DEF Deploy
<1>7. CASE UNCHANGED vars
  BY <1>7 DEF vars
<1>. QED
  BY <1>1, <1>2, <1>3, <1>4, <1>5, <1>6, <1>7 DEF Next

LEMMA TypeInit == ASSUME Starts(Submitted), Init PROVE TypeOK
<1>1. Submitted \in Documents /\ MaxChanges \in Nat
  BY PoliciesAssumption
<1>2. /\ DOMAIN Build(Submitted) \subseteq Names \ ShortNames
      /\ Build(Submitted) \in [DOMAIN Build(Submitted) -> Tools]
  BY <1>1, BuiltTyped
<1>. QED
  BY <1>1, <1>2 DEF Init, TypeOK

(* Every variable has its type; in particular no live tool is called both  *)
(* read-only and destructive, and none has a name create_mcp fails on.     *)
THEOREM TypeCorrect ==
  ASSUME Starts(Submitted)
  PROVE  Spec => []TypeOK
<1>1. Init => TypeOK
  BY TypeInit
<1>2. TypeOK /\ [Next]_vars => TypeOK'
  BY TypeStep
<1>. QED
  BY <1>1, <1>2, PTL DEF Spec

(* The same where an operator deploys documents that bypass the tests.     *)
THEOREM OperatorTypeCorrect ==
  ASSUME Starts(Submitted)
  PROVE  OperatorSpec => []TypeOK
<1>1. Init => TypeOK
  BY TypeInit
<1>2. TypeOK /\ [Next \/ Deploy(published)]_vars => TypeOK'
  BY TypeStep
<1>. QED
  BY <1>1, <1>2, PTL DEF OperatorSpec
=============================================================================
