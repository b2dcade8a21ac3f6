------------------------- MODULE AuthCodeFlowProofs -------------------------
(***************************************************************************)
(* Theorems about AuthCodeFlow, for any number of requests, accounts and   *)
(* slots and any limits.                                                   *)
(***************************************************************************)
EXTENDS AuthCodeFlow, FiniteSetTheorems, TLAPS

AuthStates == {Unsent} \cup [at : AuthAt, ask : Asks]

(* What the cleanup at the head of every store call leaves: the same       *)
(* entries, over the codes whose deadline has not passed.                  *)
LEMMA RemoveExpiredFacts ==
  ASSUME NEW store
  PROVE  /\ DOMAIN RemoveExpired(store) = Unexpired(store)
         /\ Unexpired(store) \subseteq DOMAIN store
         /\ \A c \in Unexpired(store) : RemoveExpired(store)[c] = store[c]
BY DEF RemoveExpired, Restrict, Unexpired

(* Semaphore.release moves the releasing request on, may promote one       *)
(* waiter, and touches no other request.                                   *)
LEMMA ReleaseEffect ==
  ASSUME TypeOK, NEW r \in AuthReqs, NEW s \in AuthAt,
         ~At(r, "waiting"), ~At(r, "idle"), Release(r, s)
  PROVE  /\ slots' \in Nat
         /\ auth' \in [AuthReqs -> AuthStates]
         /\ auth'[r] = [auth[r] EXCEPT !.at = s]
         /\ \A q \in AuthReqs \ {r} :
              auth'[q] = auth[q] \/ (At(q, "waiting") /\ auth'[q] = [auth[q] EXCEPT !.at = "handed"])
BY DEF TypeOK, Release, Waiters, At, AuthStates, AuthAt, Unsent

(* Request r has moved from the queue to s, the others in W were handed a  *)
(* slot each, and left slots of the n that were free still are.            *)
QueueMoves(r, s, n, W, left) ==
  /\ Cardinality(W) = n - left
  /\ left > 0 => W = Waiters \ {r}
  /\ slots' = left
  /\ auth' \in [AuthReqs -> AuthStates]
  /\ auth'[r] = [auth[r] EXCEPT !.at = s]
  /\ \A q \in W : At(q, "waiting") /\ auth'[q] = [auth[q] EXCEPT !.at = "handed"]
  /\ \A q \in AuthReqs \ (W \cup {r}) : auth'[q] = auth[q]

(* A request that leaves the queue may have slots handed to some of the    *)
(* others that wait, and touches no other request.                         *)
LEMMA LeaveQueueEffect ==
  ASSUME TypeOK, NEW r \in AuthReqs, NEW s \in AuthAt, NEW n \in Nat,
         At(r, "waiting") \/ At(r, "handed"), LeaveQueue(r, s, n)
  PROVE  /\ \E W \in SUBSET (Waiters \ {r}), left \in 0..n : QueueMoves(r, s, n, W, left)
         /\ slots' \in Nat
         /\ auth' \in [AuthReqs -> AuthStates]
<1>1. PICK W \in SUBSET (Waiters \ {r}), left \in 0..n :
        /\ Cardinality(W) = n - left
        /\ left > 0 => W = Waiters \ {r}
        /\ slots' = left
        /\ auth' = [q \in AuthReqs |->
                      IF q = r THEN [auth[q] EXCEPT !.at = s]
                      ELSE IF q \in W THEN [auth[q] EXCEPT !.at = "handed"]
                      ELSE auth[q]]
  BY DEF LeaveQueue
<1>2. /\ auth \in [AuthReqs -> AuthStates] /\ "handed" \in AuthAt
      /\ \A q \in W : q \in AuthReqs /\ q # r /\ At(q, "waiting")
  BY DEF TypeOK, AuthStates, AuthAt, Waiters
<1>3. ASSUME NEW q \in AuthReqs, q = r \/ q \in W
      PROVE  \A x \in AuthAt : [auth[q] EXCEPT !.at = x] \in AuthStates
  BY <1>2, <1>3 DEF AuthStates, At, Unsent
<1>4. auth' \in [AuthReqs -> AuthStates]
  BY <1>1, <1>2, <1>3
<1>5. QueueMoves(r, s, n, W, left)
  BY <1>1, <1>2, <1>4 DEF QueueMoves
<1>6. QED
  BY <1>1, <1>4, <1>5

(* A step inside the semaphore does not touch the answers already given.   *)
LEMMA ReleaseKeepsIssued ==
  ASSUME TypeOK, NEW r \in AuthReqs, NEW s \in AuthAt,
         At(r, "handed") \/ At(r, "validating"), Release(r, s)
  PROVE  IssuedCodes' = IF s = "issued" THEN IssuedCodes \cup {r} ELSE IssuedCodes
<1>1. ~At(r, "waiting") /\ ~At(r, "idle")
  BY DEF At
<1>2. /\ auth'[r] = [auth[r] EXCEPT !.at = s]
      /\ \A q \in AuthReqs \ {r} :
           auth'[q] = auth[q] \/ (At(q, "waiting") /\ auth'[q] = [auth[q] EXCEPT !.at = "handed"])
  BY <1>1, ReleaseEffect
<1>3. auth \in [AuthReqs -> AuthStates]
  BY DEF TypeOK, AuthStates
<1>4. auth'[r].at = s /\ auth[r].at # "issued"
  BY <1>2, <1>3 DEF AuthStates, Unsent, At
<1>5. ASSUME NEW q \in AuthReqs \ {r} PROVE auth'[q].at = "issued" <=> auth[q].at = "issued"
  BY <1>2, <1>3 DEF AuthStates, Unsent, At
<1>6. QED
  BY <1>4, <1>5 DEF IssuedCodes, At

(* Nor does one that leaves the queue without an answer, or with a refusal. *)
LEMMA LeaveQueueKeepsIssued ==
  ASSUME TypeOK, NEW r \in AuthReqs, NEW s \in AuthAt \ {"issued"}, NEW n \in Nat,
         At(r, "waiting") \/ At(r, "handed"), LeaveQueue(r, s, n)
  PROVE  IssuedCodes' = IssuedCodes
<1>1. PICK W \in SUBSET (Waiters \ {r}), left \in 0..n : QueueMoves(r, s, n, W, left)
  BY LeaveQueueEffect
<1>2. auth \in [AuthReqs -> AuthStates]
  BY DEF TypeOK, AuthStates
<1>3. ASSUME NEW q \in AuthReqs PROVE auth'[q].at = "issued" <=> auth[q].at = "issued"
  <2>1. CASE q = r
    BY <1>1, <1>2, <2>1 DEF QueueMoves, AuthStates, Unsent, At
  <2>2. CASE q \in W
    <3>1. auth'[q] = [auth[q] EXCEPT !.at = "handed"] /\ auth[q].at = "waiting"
      BY <1>1, <2>2 DEF QueueMoves, At
    <3>2. auth[q] \in [at : AuthAt, ask : Asks]
      BY <1>2, <3>1 DEF AuthStates, Unsent
    <3>3. QED
      BY <3>1, <3>2
  <2>3. CASE q \notin W \cup {r}
    BY <1>1, <2>3 DEF QueueMoves
  <2>4. QED
    BY <2>1, <2>2, <2>3
<1>4. QED
  BY <1>3 DEF IssuedCodes, At
-----------------------------------------------------------------------------
(* Every step leaves the variables within their types. *)
LEMMA TypeStep == TypeOK /\ [Next]_vars => TypeOK'
<1> SUFFICES ASSUME TypeOK, [Next]_vars PROVE TypeOK'
  OBVIOUS
<1> USE LimitsAssumption
<1>1. ASSUME NEW r \in AuthReqs, NEW a \in Asks, AuthorizeStart(r, a)
      PROVE  TypeOK'
  <2>1. (auth \in [AuthReqs -> AuthStates])'
    BY <1>1 DEF AuthorizeStart, TypeOK, AuthAt, AuthStates
  <2>2. slots' \in Nat
    BY <1>1 DEF AuthorizeStart, Locked, TypeOK
  <2>3. QED
    BY <1>1, <2>1, <2>2 DEF AuthorizeStart, TypeOK, AuthStates, RemoveExpired, Restrict, Unexpired
<1>2. ASSUME NEW r \in AuthReqs, AcquireReturn(r) PROVE TypeOK'
  <2>1. LeaveQueue(r, "validating", slots) /\ At(r, "handed") /\ "validating" \in AuthAt
    BY <1>2 DEF AcquireReturn, AuthAt
  <2>2. slots' \in Nat /\ auth' \in [AuthReqs -> AuthStates]
    BY <2>1, LeaveQueueEffect DEF TypeOK
  <2>3. QED
    BY <1>2, <2>2 DEF AcquireReturn, TypeOK, AuthStates
<1>3. ASSUME NEW r \in AuthReqs, SlotTimeout(r) PROVE TypeOK'
  <2>1. PICK n \in Nat : LeaveQueue(r, "busy", n)
    BY <1>3 DEF SlotTimeout, TypeOK
  <2>2. (At(r, "waiting") \/ At(r, "handed")) /\ "busy" \in AuthAt
    BY <1>3 DEF SlotTimeout, AuthAt
  <2>3. slots' \in Nat /\ auth' \in [AuthReqs -> AuthStates]
    BY <2>1, <2>2, LeaveQueueEffect
  <2>4. QED
    BY <1>3, <2>3 DEF SlotTimeout, TypeOK, AuthStates
<1>4. ASSUME NEW r \in AuthReqs, ValidationFails(r) PROVE TypeOK'
  <2>1. PICK s \in {"unavailable", "rejected"} : Release(r, s)
    BY <1>4 DEF ValidationFails
  <2>2. ~At(r, "waiting") /\ ~At(r, "idle") /\ s \in AuthAt
    BY <1>4 DEF ValidationFails, At, AuthAt
  <2>3. QED
    BY <1>4, <2>1, <2>2, ReleaseEffect DEF ValidationFails, TypeOK, AuthStates
<1>5. ASSUME NEW r \in AuthReqs, ValidationSucceeds(r) PROVE TypeOK'
  <2>1. ~At(r, "waiting") /\ ~At(r, "idle") /\ {"issued", "busy"} \subseteq AuthAt
    BY <1>5 DEF ValidationSucceeds, At, AuthAt
  <2>2. CASE Release(r, "issued") /\ codes' = Insert(RemoveExpired(codes), r, auth[r].ask)
    <3>1. slots' \in Nat /\ auth' \in [AuthReqs -> AuthStates] /\ UNCHANGED tok
      BY <1>5, <2>1, <2>2, ReleaseEffect DEF ValidationSucceeds
    <3>2. auth[r].ask \in Asks
      BY <1>5 DEF ValidationSucceeds, TypeOK, Unsent, At
    <3>3. DOMAIN codes' \subseteq AuthReqs /\ codes' \in [DOMAIN codes' -> [ask : Asks, left : 0..Ttl]]
      BY <2>2, <3>2 DEF TypeOK, Insert, RemoveExpired, Restrict, Unexpired
    <3>4. QED
      BY <3>1, <3>3 DEF TypeOK, AuthStates
  <2>3. CASE Release(r, "busy") /\ codes' = RemoveExpired(codes)
    BY <1>5, <2>1, <2>3, ReleaseEffect, RemoveExpiredFacts
       DEF ValidationSucceeds, TypeOK, AuthStates, RemoveExpired, Restrict
  <2>4. QED
    BY <1>5, <2>2, <2>3 DEF ValidationSucceeds, TypeOK, Unsent, At
<1>6. ASSUME NEW t \in TokReqs, NEW c \in CodeNames, NEW x \in Exchanges, TokenLookup(t, c, x)
      PROVE  TypeOK'
  BY <1>6 DEF TokenLookup, TypeOK, Refused, RemoveExpired, Restrict, Unexpired
<1>7. ASSUME NEW t \in TokReqs, TokenConsume(t) PROVE TypeOK'
  BY <1>7 DEF TokenConsume, Pop, TypeOK, NotAsked, Refused, Lost, RemoveExpired, Restrict, Unexpired
<1>8. ASSUME Tick PROVE TypeOK'
  BY <1>8 DEF Tick, TypeOK
<1>9. ASSUME Restart PROVE TypeOK'
  <2>1. (auth \in [AuthReqs -> AuthStates])'
    BY <1>9 DEF Restart, TypeOK, AuthStates, AuthAt, InFlight, Unsent
  <2>2. QED
    BY <1>9, <2>1 DEF Restart, TypeOK, AuthStates
<1>10. CASE UNCHANGED vars
  BY <1>10 DEF vars, TypeOK
<1>11. QED
  BY <1>1, <1>2, <1>3, <1>4, <1>5, <1>6, <1>7, <1>8, <1>9, <1>10 DEF Next

(* The variables keep their types in every reachable state. *)
THEOREM TypeCorrect == Spec => []TypeOK
<1>1. Init => TypeOK
  BY LimitsAssumption DEF Init, TypeOK
<1>2. QED
  BY <1>1, TypeStep, PTL DEF Spec
-----------------------------------------------------------------------------
(* The four ways a step can touch codes and token requests.  A token       *)
(* request may die at any time, which no ledger notices.                   *)

StoreShrinks ==
  /\ DOMAIN codes' \subseteq DOMAIN codes
  /\ Unexpired(codes)' \subseteq Unexpired(codes)
  /\ \A c \in DOMAIN codes' : codes'[c].ask = codes[c].ask

NobodyRedeems ==
  /\ Granted' = Granted
  /\ \A t \in TokReqs : tok'[t] = tok[t] \/ tok'[t] = Lost

Quiet ==
  /\ StoreShrinks
  /\ IssuedCodes' = IssuedCodes
  /\ NobodyRedeems

Mint(r) ==
  /\ r \notin IssuedCodes
  /\ auth[r].ask \in Asks
  /\ HasCapacity(RemoveExpired(codes), auth[r].ask.key)
  /\ codes' = Insert(RemoveExpired(codes), r, auth[r].ask)
  /\ IssuedCodes' = IssuedCodes \cup {r}
  /\ UNCHANGED tok

(* While no token request moves, none redeems. *)
LEMMA IdleRedeemsNot ==
  ASSUME UNCHANGED tok
  PROVE  NobodyRedeems
BY DEF NobodyRedeems, Granted

(* Dropping expired codes takes nothing else away. *)
LEMMA CleanupShrinks ==
  ASSUME codes' = RemoveExpired(codes)
  PROVE  StoreShrinks
BY RemoveExpiredFacts DEF StoreShrinks, Unexpired, RemoveExpired, Restrict

(* The clock only takes lifetime away. *)
LEMMA TickShrinks ==
  ASSUME TypeOK, Tick
  PROVE  StoreShrinks
<1>1. codes \in [DOMAIN codes -> [ask : Asks, left : 0..Ttl]]
  BY DEF TypeOK
<1>2. /\ DOMAIN codes' = DOMAIN codes
      /\ \A c \in DOMAIN codes :
           /\ codes'[c].ask = codes[c].ask
           /\ codes'[c].left > 0 => codes[c].left > 0
  BY <1>1, LimitsAssumption DEF Tick
<1>3. Unexpired(codes)' \subseteq Unexpired(codes)
  BY <1>2 DEF Unexpired
<1>4. QED
  BY <1>2, <1>3 DEF StoreShrinks

(* Every step of the flow is of one of the four kinds. *)
LEMMA StepKinds ==
  ASSUME TypeOK, [Next]_vars
  PROVE  \/ Quiet
         \/ \E r \in AuthReqs : Mint(r)
         \/ \E t \in TokReqs, c \in CodeNames, x \in Exchanges : TokenLookup(t, c, x)
         \/ \E t \in TokReqs : TokenConsume(t)
<1>0. auth \in [AuthReqs -> AuthStates] /\ {"issued", "busy", "unavailable", "rejected"} \subseteq AuthAt
  BY DEF TypeOK, AuthStates, AuthAt
<1>1. ASSUME NEW r \in AuthReqs, NEW a \in Asks, AuthorizeStart(r, a)
      PROVE  Quiet
  <2>1. IssuedCodes' = IssuedCodes
    BY <1>0, <1>1 DEF AuthorizeStart, IssuedCodes, At
  <2>2. QED
    BY <1>1, <2>1, CleanupShrinks, IdleRedeemsNot DEF AuthorizeStart, Quiet
<1>2. ASSUME NEW r \in AuthReqs, AcquireReturn(r) PROVE Quiet
  <2>1. LeaveQueue(r, "validating", slots) /\ At(r, "handed") /\ "validating" \in AuthAt
    BY <1>2 DEF AcquireReturn, AuthAt
  <2>2. IssuedCodes' = IssuedCodes
    BY <2>1, LeaveQueueKeepsIssued DEF TypeOK
  <2>3. QED
    BY <1>2, <2>2, IdleRedeemsNot DEF AcquireReturn, Quiet, StoreShrinks
<1>3. ASSUME NEW r \in AuthReqs, SlotTimeout(r) PROVE Quiet
  <2>1. PICK n \in Nat : LeaveQueue(r, "busy", n)
    BY <1>3 DEF SlotTimeout, TypeOK
  <2>2. IssuedCodes' = IssuedCodes
    BY <1>0, <1>3, <2>1, LeaveQueueKeepsIssued DEF SlotTimeout
  <2>3. QED
    BY <1>3, <2>2, IdleRedeemsNot DEF SlotTimeout, Quiet, StoreShrinks
<1>4. ASSUME NEW r \in AuthReqs, ValidationFails(r) PROVE Quiet
  <2>1. PICK s \in {"unavailable", "rejected"} : Release(r, s)
    BY <1>4 DEF ValidationFails
  <2>2. At(r, "validating")
    BY <1>4 DEF ValidationFails
  <2>3. IssuedCodes' = IssuedCodes
    BY <1>0, <2>1, <2>2, ReleaseKeepsIssued
  <2>4. QED
    BY <1>4, <2>3, IdleRedeemsNot DEF ValidationFails, Quiet, StoreShrinks
<1>5. ASSUME NEW r \in AuthReqs, ValidationSucceeds(r) PROVE Quiet \/ Mint(r)
  <2>1. At(r, "validating") /\ UNCHANGED tok
    BY <1>5 DEF ValidationSucceeds
  <2>2. r \notin IssuedCodes /\ auth[r].ask \in Asks
    BY <1>0, <2>1 DEF At, IssuedCodes, AuthStates, Unsent
  <2>3. CASE /\ HasCapacity(RemoveExpired(codes), auth[r].ask.key)
             /\ codes' = Insert(RemoveExpired(codes), r, auth[r].ask)
             /\ Release(r, "issued")
    <3>1. IssuedCodes' = IssuedCodes \cup {r}
      BY <1>0, <2>1, <2>3, ReleaseKeepsIssued
    <3>2. QED
      BY <2>1, <2>2, <2>3, <3>1 DEF Mint
  <2>4. CASE Release(r, "busy") /\ codes' = RemoveExpired(codes)
    <3>1. IssuedCodes' = IssuedCodes
      BY <1>0, <2>1, <2>4, ReleaseKeepsIssued
    <3>2. QED
      BY <2>1, <2>4, <3>1, CleanupShrinks, IdleRedeemsNot DEF Quiet
  <2>5. QED
    BY <1>5, <2>3, <2>4 DEF ValidationSucceeds
<1>6. ASSUME Tick PROVE Quiet
  BY <1>6, TickShrinks, IdleRedeemsNot DEF Tick, Quiet, IssuedCodes, At
<1>7. ASSUME Restart PROVE Quiet
  <2>1. StoreShrinks
    BY <1>7 DEF Restart, StoreShrinks, Unexpired
  <2>2. IssuedCodes' = IssuedCodes
    BY <1>0, <1>7 DEF Restart, IssuedCodes, At, InFlight, AuthStates, Unsent
  <2>3. NobodyRedeems
    BY <1>7 DEF Restart, NobodyRedeems, Granted, Lost
  <2>4. QED
    BY <2>1, <2>2, <2>3 DEF Quiet
<1>8. CASE UNCHANGED vars
  BY <1>8, IdleRedeemsNot DEF vars, Quiet, StoreShrinks, IssuedCodes, At, Unexpired
<1>9. QED
  BY <1>1, <1>2, <1>3, <1>4, <1>5, <1>6, <1>7, <1>8 DEF Next
-----------------------------------------------------------------------------
(* What makes a code single-use: a stored code has been handed out and so  *)
(* cannot be minted again, and a code some request was granted has left    *)
(* the store; a request between lookup and consume holds only a snapshot.  *)
CodeHistory ==
  /\ DOMAIN codes \subseteq IssuedCodes
  /\ \A t \in TokReqs : tok[t].at \in {"checked", "granted"} =>
       /\ tok[t].code \in IssuedCodes
       /\ Fits(tok[t].seen, tok[t].with)
  /\ \A t \in Granted : tok[t].code \notin DOMAIN codes
  /\ SingleUse

(* Every step preserves the history of codes. *)
LEMMA HistoryStep ==
  ASSUME TypeOK, CodeHistory, [Next]_vars
  PROVE  CodeHistory'
<1>1. CASE Quiet
  BY <1>1 DEF Quiet, StoreShrinks, NobodyRedeems, CodeHistory, Granted, SingleUse, Lost
<1>2. ASSUME NEW r \in AuthReqs, Mint(r) PROVE CodeHistory'
  <2>1. DOMAIN codes' \subseteq DOMAIN codes \cup {r}
    BY <1>2, RemoveExpiredFacts DEF Mint, Insert
  <2>2. QED
    BY <1>2, <2>1 DEF Mint, CodeHistory, Granted, SingleUse
<1>3. ASSUME NEW t \in TokReqs, NEW c \in CodeNames, NEW x \in Exchanges, TokenLookup(t, c, x)
      PROVE  CodeHistory'
  <2>1. DOMAIN codes' \subseteq DOMAIN codes /\ IssuedCodes' = IssuedCodes
    BY <1>3, RemoveExpiredFacts DEF TokenLookup, IssuedCodes, At
  <2>2. \A u \in TokReqs \ {t} : tok'[u] = tok[u]
    BY <1>3 DEF TokenLookup, TypeOK
  <2>3. \/ tok'[t].at = "refused"
        \/ /\ tok'[t].at = "checked"
           /\ tok'[t].code \in DOMAIN codes
           /\ Fits(tok'[t].seen, tok'[t].with)
    BY <1>3, RemoveExpiredFacts DEF TokenLookup, TypeOK, Refused
  <2>4. Granted' = Granted
    BY <1>3, <2>2, <2>3 DEF Granted, TokenLookup
  <2>5. QED
    BY <2>1, <2>2, <2>3, <2>4 DEF CodeHistory, SingleUse, Granted
<1>4. ASSUME NEW t \in TokReqs, TokenConsume(t) PROVE CodeHistory'
  <2>1. DOMAIN codes' = Unexpired(codes) \ {tok[t].code} /\ IssuedCodes' = IssuedCodes
    BY <1>4, RemoveExpiredFacts DEF TokenConsume, Pop, Restrict, IssuedCodes, At
  <2>2. \A u \in TokReqs \ {t} : tok'[u] = tok[u]
    BY <1>4 DEF TokenConsume, TypeOK
  <2>3. \/ tok'[t].at = "refused"
        \/ /\ tok[t].code \in DOMAIN codes
           /\ tok'[t] = [tok[t] EXCEPT !.at = "granted"]
    BY <1>4, RemoveExpiredFacts DEF TokenConsume, TypeOK, Refused
  <2>4. CASE tok'[t].at = "refused"
    BY <2>1, <2>2, <2>4 DEF CodeHistory, SingleUse, Granted, Unexpired
  <2>5. CASE tok[t].code \in DOMAIN codes /\ tok'[t] = [tok[t] EXCEPT !.at = "granted"]
    <3>1. tok[t].at = "checked" /\ tok[t] \in [at : {"checked", "granted"}, code : AuthReqs,
                                              with : Exchanges, seen : Asks]
      BY <1>4 DEF TokenConsume, TypeOK, NotAsked, Refused, Lost
    <3>2. /\ tok'[t].at = "granted" /\ tok'[t].code = tok[t].code
          /\ tok'[t].with = tok[t].with /\ tok'[t].seen = tok[t].seen
      BY <2>5, <3>1
    <3>3. Granted' = Granted \cup {t}
      BY <2>2, <3>2 DEF Granted
    <3>4. SingleUse'
      <4>1. \A u \in Granted : tok'[u].code = tok[u].code /\ tok[u].code # tok[t].code
        BY <2>2, <2>5, <3>2 DEF CodeHistory, Granted
      <4>2. \A u, v \in Granted : tok'[u].code = tok'[v].code => u = v
        BY <4>1 DEF CodeHistory, SingleUse
      <4>3. QED
        BY <3>2, <3>3, <4>1, <4>2 DEF SingleUse
    <3>5. QED
      BY <2>1, <2>2, <3>1, <3>2, <3>3, <3>4 DEF CodeHistory, Granted, Unexpired
  <2>6. QED
    BY <2>3, <2>4, <2>5
<1>5. QED
  BY <1>1, <1>2, <1>3, <1>4, StepKinds

(* An authorization code is exchanged at most once, however the lookups    *)
(* and consumes of concurrent /token requests interleave.                  *)
THEOREM SingleUseHolds == Spec => []SingleUse
<1>1. Init => CodeHistory
  BY DEF Init, CodeHistory, SingleUse, Granted, NotAsked
<1>2. TypeOK /\ CodeHistory /\ [Next]_vars => CodeHistory'
  BY HistoryStep
<1>3. CodeHistory => SingleUse
  BY DEF CodeHistory
<1>4. QED
  BY <1>1, <1>2, <1>3, TypeCorrect, PTL DEF Spec

(* No token is issued for a code whose deadline has passed: the lookup's    *)
(* verdict is not trusted at the consume.                                   *)
THEOREM RedemptionInTimeHolds == Spec => RedemptionInTime
<1> DEFINE InTime == \A t \in Granted' \ Granted : tok[t].code \in Unexpired(codes)
<1>1. ASSUME TypeOK, [Next]_vars PROVE InTime
  <2>1. CASE UNCHANGED tok
    BY <2>1 DEF Granted
  <2>2. ASSUME NEW t \in TokReqs, NEW c \in CodeNames, NEW x \in Exchanges, TokenLookup(t, c, x)
        PROVE  InTime
    BY <2>2 DEF TokenLookup, TypeOK, Granted, Refused
  <2>3. ASSUME NEW t \in TokReqs, TokenConsume(t) PROVE InTime
    <3>1. \A u \in TokReqs \ {t} : tok'[u] = tok[u]
      BY <2>3 DEF TokenConsume, TypeOK
    <3>2. tok'[t].at = "granted" => tok[t].code \in Unexpired(codes)
      BY <2>3, RemoveExpiredFacts DEF TokenConsume, TypeOK, Refused
    <3>3. QED
      BY <3>1, <3>2 DEF Granted
  <2>4. QED
    BY <1>1, <2>1, <2>2, <2>3, StepKinds DEF Quiet, NobodyRedeems, Mint
<1>2. TypeOK /\ [Next]_vars => [InTime]_vars
  BY <1>1
<1>3. QED
  BY <1>2, TypeCorrect, PTL DEF Spec, RedemptionInTime
-----------------------------------------------------------------------------
(* A failed exchange burns nothing.  A request that passed the lookup knows *)
(* whom its code was minted for, as long as the code is there: a code that  *)
(* left the store is not minted again for somebody else.                    *)
SnapshotTrue ==
  \A t \in TokReqs : tok[t].at = "checked" /\ tok[t].code \in DOMAIN codes =>
    codes[tok[t].code].ask = tok[t].seen

LEMMA SnapshotStep ==
  ASSUME TypeOK, CodeHistory, SnapshotTrue, [Next]_vars
  PROVE  SnapshotTrue'
<1>1. CASE Quiet
  BY <1>1 DEF Quiet, StoreShrinks, NobodyRedeems, SnapshotTrue, Lost
<1>2. ASSUME NEW r \in AuthReqs, Mint(r) PROVE SnapshotTrue'
  <2>1. DOMAIN codes' \subseteq DOMAIN codes \cup {r}
    BY <1>2, RemoveExpiredFacts DEF Mint, Insert
  <2>2. \A c \in DOMAIN codes' \ {r} : codes'[c] = codes[c]
    BY <1>2, RemoveExpiredFacts DEF Mint, Insert
  <2>3. \A t \in TokReqs : tok[t].at = "checked" => tok[t].code # r
    BY <1>2 DEF Mint, CodeHistory
  <2>4. QED
    BY <1>2, <2>1, <2>2, <2>3 DEF Mint, SnapshotTrue
<1>3. ASSUME NEW t \in TokReqs, NEW c \in CodeNames, NEW x \in Exchanges, TokenLookup(t, c, x)
      PROVE  SnapshotTrue'
  <2>1. DOMAIN codes' \subseteq DOMAIN codes /\ \A d \in DOMAIN codes' : codes'[d] = codes[d]
    BY <1>3, RemoveExpiredFacts DEF TokenLookup
  <2>2. \A u \in TokReqs \ {t} : tok'[u] = tok[u]
    BY <1>3 DEF TokenLookup, TypeOK
  <2>3. \/ tok'[t].at = "refused"
        \/ tok'[t].code = c /\ tok'[t].seen = codes'[c].ask
    BY <1>3 DEF TokenLookup, TypeOK, Refused
  <2>4. QED
    BY <2>1, <2>2, <2>3 DEF SnapshotTrue
<1>4. ASSUME NEW t \in TokReqs, TokenConsume(t) PROVE SnapshotTrue'
  <2>1. DOMAIN codes' \subseteq DOMAIN codes /\ \A d \in DOMAIN codes' : codes'[d] = codes[d]
    BY <1>4, RemoveExpiredFacts DEF TokenConsume, Pop, Restrict
  <2>2. \A u \in TokReqs \ {t} : tok'[u] = tok[u]
    BY <1>4 DEF TokenConsume, TypeOK
  <2>3. tok'[t].at # "checked"
    BY <1>4 DEF TokenConsume, TypeOK, Refused, NotAsked, Lost
  <2>4. QED
    BY <2>1, <2>2, <2>3 DEF SnapshotTrue
<1>5. QED
  BY <1>1, <1>2, <1>3, <1>4, StepKinds

(* Only consume, or the end of the process, takes live codes away. *)
LEMMA OthersKeepLive ==
  ASSUME TypeOK, [Next]_vars, ~Restart, \A t \in TokReqs : ~TokenConsume(t)
  PROVE  Unexpired(codes) \subseteq DOMAIN codes'
<1> USE RemoveExpiredFacts
<1>1. ASSUME NEW r \in AuthReqs, NEW a \in Asks, AuthorizeStart(r, a)
      PROVE  Unexpired(codes) \subseteq DOMAIN codes'
  BY <1>1 DEF AuthorizeStart
<1>2. ASSUME NEW r \in AuthReqs, AcquireReturn(r) \/ SlotTimeout(r) \/ ValidationFails(r)
      PROVE  Unexpired(codes) \subseteq DOMAIN codes'
  BY <1>2 DEF AcquireReturn, SlotTimeout, ValidationFails
<1>3. ASSUME NEW r \in AuthReqs, ValidationSucceeds(r)
      PROVE  Unexpired(codes) \subseteq DOMAIN codes'
  BY <1>3 DEF ValidationSucceeds, Insert
<1>4. ASSUME NEW t \in TokReqs, NEW c \in CodeNames, NEW x \in Exchanges, TokenLookup(t, c, x)
      PROVE  Unexpired(codes) \subseteq DOMAIN codes'
  BY <1>4 DEF TokenLookup
<1>5. CASE Tick
  BY <1>5 DEF Tick
<1>6. CASE UNCHANGED vars
  BY <1>6 DEF vars
<1>7. QED
  BY <1>1, <1>2, <1>3, <1>4, <1>5, <1>6 DEF Next

(* A code that is good goes only in exchange for a token.                   *)
THEOREM OnlyRedemptionTakesLiveCodeHolds == Spec => OnlyRedemptionTakesLiveCode
<1> DEFINE Kept == Restart \/ \A c \in Unexpired(codes) \ DOMAIN codes' :
                                \E t \in Granted' \ Granted : tok[t].code = c
<1>1. ASSUME TypeOK, SnapshotTrue, [Next]_vars PROVE Kept
  <2>1. ASSUME NEW t \in TokReqs, TokenConsume(t) PROVE Kept
    <3>1. DOMAIN codes' = Unexpired(codes) \ {tok[t].code}
      BY <2>1, RemoveExpiredFacts DEF TokenConsume, Pop, Restrict
    <3>2. CASE tok[t].code \in Unexpired(codes)
      <4>1. codes[tok[t].code].ask = tok[t].seen
        BY <1>1, <2>1, <3>2 DEF TokenConsume, SnapshotTrue, Unexpired
      <4>2. tok' = [tok EXCEPT ![t] = [@ EXCEPT !.at = "granted"]]
        BY <2>1, <3>2, <4>1, RemoveExpiredFacts DEF TokenConsume
      <4>3. tok[t] \in [at : {"checked", "granted"}, code : AuthReqs, with : Exchanges, seen : Asks]
        BY <1>1, <2>1 DEF TokenConsume, TypeOK, NotAsked, Refused, Lost
      <4>4. tok'[t].at = "granted"
        BY <1>1, <4>2, <4>3 DEF TypeOK
      <4>5. t \in Granted' \ Granted
        BY <2>1, <4>4 DEF TokenConsume, Granted
      <4>6. QED
        BY <3>1, <4>5
    <3>3. CASE tok[t].code \notin Unexpired(codes)
      BY <3>1, <3>3
    <3>4. QED
      BY <3>2, <3>3
  <2>2. CASE ~Restart /\ \A t \in TokReqs : ~TokenConsume(t)
    BY <1>1, <2>2, OthersKeepLive
  <2>3. QED
    BY <2>1, <2>2
<1>2. Init => CodeHistory /\ SnapshotTrue
  BY DEF Init, CodeHistory, SingleUse, Granted, NotAsked, SnapshotTrue
<1>3. TypeOK /\ CodeHistory /\ SnapshotTrue /\ [Next]_vars => CodeHistory' /\ SnapshotTrue'
  BY HistoryStep, SnapshotStep
<1>4. TypeOK /\ SnapshotTrue /\ [Next]_vars => [Kept]_vars
  BY <1>1
<1>5. QED
  BY <1>2, <1>3, <1>4, TypeCorrect, PTL DEF Spec, OnlyRedemptionTakesLiveCode
-----------------------------------------------------------------------------
(* Exchanges that pass the checks of /token are bound to the authorization. *)
LEMMA FitsIsBound ==
  ASSUME NEW a \in Asks, NEW x \in Exchanges, Fits(a, x)
  PROVE  BoundTo(a, x)
BY AsksAssumption DEF ValidAsk, Fits, BoundTo

(* Losing codes is a lapse of the ledger. *)
LEMMA ShrinkLapses ==
  ASSUME StoreShrinks, IssuedCodes' = IssuedCodes, Redemptions' = Redemptions
  PROVE  [Ledger!LedgerNext]_(Ledger!ledger)
<1> DEFINE S == Unexpired(codes) \ Unexpired(codes)'
<1>1. /\ DOMAIN LiveAsks = Unexpired(codes)
      /\ LiveAsks' = [c \in Unexpired(codes)' |-> LiveAsks[c]]
  BY DEF StoreShrinks, LiveAsks, Unexpired
<1>2. LiveAsks' = Ledger!Restrict(LiveAsks, DOMAIN LiveAsks \ S)
  <2>1. DOMAIN LiveAsks \ S = Unexpired(codes)'
    BY <1>1 DEF StoreShrinks
  <2>2. QED
    BY <1>1, <2>1 DEF Ledger!Restrict
<1>3. CASE S = {}
  <2>1. Unexpired(codes)' = Unexpired(codes)
    BY <1>3 DEF StoreShrinks
  <2>2. LiveAsks' = LiveAsks
    BY <1>1, <2>1 DEF LiveAsks
  <2>3. QED
    BY <2>2 DEF Ledger!ledger
<1>4. CASE S # {}
  <2>1. Ledger!Lapse(S)
    BY <1>2, <1>4 DEF Ledger!Lapse
  <2>2. S \in SUBSET DOMAIN LiveAsks
    BY <1>1
  <2>3. QED
    BY <2>1, <2>2 DEF Ledger!LedgerNext
<1>5. QED
  BY <1>3, <1>4

(* Every step of the flow is a step of the ledger or changes nothing there. *)
LEMMA LedgerStep ==
  ASSUME TypeOK, CodeHistory, [Next]_vars
  PROVE  [Ledger!LedgerNext]_(Ledger!ledger)
<1>1. CASE Quiet
  <2>1. Redemptions' = Redemptions
    BY <1>1 DEF Quiet, NobodyRedeems, Redemptions, Granted, Lost
  <2>2. QED
    BY <1>1, <2>1, ShrinkLapses DEF Quiet
<1>2. ASSUME NEW r \in AuthReqs, Mint(r) PROVE Ledger!LedgerNext
  <2> DEFINE a == auth[r].ask
  <2>1. Unexpired(codes)' = Unexpired(codes) \cup {r}
    <3>1. DOMAIN codes' = Unexpired(codes) \cup {r}
      BY <1>2, RemoveExpiredFacts DEF Mint, Insert
    <3>2. \A d \in Unexpired(codes) \ {r} : codes'[d] = codes[d]
      BY <1>2, RemoveExpiredFacts DEF Mint, Insert
    <3>3. codes'[r].left = Ttl /\ Ttl > 0
      BY <1>2, LimitsAssumption DEF Mint, Insert
    <3>4. QED
      BY <3>1, <3>2, <3>3 DEF Unexpired
  <2>2. \A d \in Unexpired(codes) \cup {r} :
          codes'[d].ask = IF d = r THEN a ELSE codes[d].ask
    BY <1>2, RemoveExpiredFacts DEF Mint, Insert
  <2>3. LiveAsks' = [d \in DOMAIN LiveAsks \cup {r} |-> IF d = r THEN a ELSE LiveAsks[d]]
    BY <2>1, <2>2 DEF LiveAsks
  <2>4. Redemptions' = Redemptions
    BY <1>2 DEF Mint, Redemptions, Granted
  <2>5. Ledger!IssueCode(r, a)
    BY <1>2, <2>3, <2>4 DEF Mint, Ledger!IssueCode
  <2>6. r \in CodeNames /\ a \in Asks
    BY <1>2 DEF Mint, CodeNames
  <2>7. QED
    BY <2>5, <2>6 DEF Ledger!LedgerNext
<1>3. ASSUME NEW t \in TokReqs, NEW c \in CodeNames, NEW x \in Exchanges, TokenLookup(t, c, x)
      PROVE  [Ledger!LedgerNext]_(Ledger!ledger)
  <2>1. StoreShrinks /\ IssuedCodes' = IssuedCodes
    BY <1>3, CleanupShrinks DEF TokenLookup, IssuedCodes, At
  <2>2. \A u \in TokReqs \ {t} : tok'[u] = tok[u]
    BY <1>3 DEF TokenLookup, TypeOK
  <2>3. t \notin Granted /\ t \notin Granted'
    BY <1>3 DEF TokenLookup, TypeOK, Refused, Granted
  <2>4. Granted' = Granted /\ \A u \in Granted : tok'[u] = tok[u]
    BY <2>2, <2>3 DEF Granted
  <2>5. Redemptions' = Redemptions
    BY <2>4 DEF Redemptions
  <2>6. QED
    BY <2>1, <2>5, ShrinkLapses
<1>4. ASSUME NEW t \in TokReqs, TokenConsume(t)
      PROVE  [Ledger!LedgerNext]_(Ledger!ledger)
  <2> DEFINE c == tok[t].code
             a == tok[t].seen
             x == tok[t].with
  <2>1. /\ DOMAIN codes' = Unexpired(codes) \ {c}
        /\ \A d \in DOMAIN codes' : codes'[d] = codes[d]
        /\ IssuedCodes' = IssuedCodes
    BY <1>4, RemoveExpiredFacts DEF TokenConsume, Pop, Restrict, IssuedCodes, At
  <2>2. Unexpired(codes)' = Unexpired(codes) \ {c}
    BY <2>1 DEF Unexpired
  <2>3. \A u \in TokReqs \ {t} : tok'[u] = tok[u]
    BY <1>4 DEF TokenConsume, TypeOK
  <2>4. \/ tok'[t].at = "refused"
        \/ /\ c \in Unexpired(codes)
           /\ codes[c].ask = a
           /\ tok'[t] = [tok[t] EXCEPT !.at = "granted"]
    BY <1>4, RemoveExpiredFacts DEF TokenConsume, TypeOK, Refused
  <2>5. t \notin Granted
    BY <1>4 DEF TokenConsume, Granted
  <2>6. CASE tok'[t].at = "refused"
    <3>1. Granted' = Granted /\ \A u \in Granted : tok'[u] = tok[u]
      BY <2>3, <2>5, <2>6 DEF Granted
    <3>2. Redemptions' = Redemptions
      BY <3>1 DEF Redemptions
    <3>3. StoreShrinks
      BY <2>1, <2>2 DEF StoreShrinks, Unexpired
    <3>4. QED
      BY <2>1, <3>2, <3>3, ShrinkLapses
  <2>7. CASE /\ c \in Unexpired(codes)
             /\ codes[c].ask = a
             /\ tok'[t] = [tok[t] EXCEPT !.at = "granted"]
    <3>1. tok[t].at = "checked" /\ tok[t] \in [at : {"checked", "granted"}, code : AuthReqs,
                                              with : Exchanges, seen : Asks]
      BY <1>4 DEF TokenConsume, TypeOK, NotAsked, Refused, Lost
    <3>2. /\ tok'[t].at = "granted" /\ tok'[t].code = c
          /\ tok'[t].with = x /\ tok'[t].seen = a
      BY <2>7, <3>1
    <3>3. Granted' = Granted \cup {t} /\ \A u \in Granted : tok'[u] = tok[u]
      BY <2>3, <2>5, <3>2 DEF Granted
    <3>4. Redemptions' = Redemptions \cup {[code |-> c, ask |-> a, by |-> t, with |-> x]}
      BY <3>2, <3>3 DEF Redemptions
    <3>5. c \in CodeNames /\ a \in Asks /\ x \in Exchanges
      BY <3>1 DEF CodeNames
    <3>6. BoundTo(a, x)
      BY <3>1, <3>5, FitsIsBound DEF CodeHistory
    <3>7. DOMAIN LiveAsks = Unexpired(codes) /\ LiveAsks[c] = a
      BY <2>7 DEF LiveAsks
    <3>8. LiveAsks' = Ledger!Restrict(LiveAsks, DOMAIN LiveAsks \ {c})
      BY <2>1, <2>2, <3>7 DEF LiveAsks, Ledger!Restrict
    <3>9. Ledger!Redeem(c, t, x)
      BY <2>1, <2>7, <3>4, <3>6, <3>7, <3>8 DEF Ledger!Redeem
    <3>10. QED
      BY <3>5, <3>9 DEF Ledger!LedgerNext
  <2>8. QED
    BY <2>4, <2>6, <2>7
<1>5. QED
  BY <1>1, <1>2, <1>3, <1>4, StepKinds

(* The flow keeps the promise of the ledger. *)
THEOREM FlowImplementsLedger == Spec => ImplementsLedger
<1>1. Init => Ledger!LedgerInit
  <2> SUFFICES ASSUME Init PROVE Ledger!LedgerInit
    OBVIOUS
  <2>1. Unexpired(codes) = {} /\ IssuedCodes = {} /\ Granted = {}
    BY DEF Init, Unexpired, IssuedCodes, Granted, At, Unsent, NotAsked
  <2>2. QED
    BY <2>1 DEF Ledger!LedgerInit, LiveAsks, Redemptions
<1>2. Init => CodeHistory
  BY DEF Init, CodeHistory, SingleUse, Granted, NotAsked
<1>3. TypeOK /\ CodeHistory /\ [Next]_vars => CodeHistory'
  BY HistoryStep
<1>4. TypeOK /\ CodeHistory /\ [Next]_vars => [Ledger!LedgerNext]_(Ledger!ledger)
  BY LedgerStep
<1>5. QED
  BY <1>1, <1>2, <1>3, <1>4, TypeCorrect, PTL DEF Spec, ImplementsLedger, Ledger!LedgerSpec

(* What the ledger promises, the flow keeps, across restarts too: no code  *)
(* turns into two tokens, and every token answers an exchange bound to the *)
(* authorization of its code (the checks of POST /token are made before    *)
(* codes.consume, against what codes.get returned).                        *)
THEOREM FlowKeepsPromise == Spec => [](Ledger!AtMostOnce /\ Ledger!OnlyFitting)
<1>1. TypeOK /\ CodeHistory => Ledger!AtMostOnce /\ Ledger!OnlyFitting
  <2> SUFFICES ASSUME TypeOK, CodeHistory PROVE Ledger!AtMostOnce /\ Ledger!OnlyFitting
    OBVIOUS
  <2>1. Ledger!AtMostOnce
    BY DEF Ledger!AtMostOnce, Redemptions, CodeHistory, SingleUse
  <2>2. ASSUME NEW t \in Granted PROVE BoundTo(tok[t].seen, tok[t].with)
    <3>1. tok[t] \in [at : {"checked", "granted"}, code : AuthReqs, with : Exchanges, seen : Asks]
      BY DEF TypeOK, Granted, NotAsked, Refused, Lost
    <3>2. QED
      BY <3>1, FitsIsBound DEF CodeHistory, Granted
  <2>3. Ledger!OnlyFitting
    BY <2>2 DEF Ledger!OnlyFitting, Redemptions
  <2>4. QED
    BY <2>1, <2>3
<1>2. Init => CodeHistory
  BY DEF Init, CodeHistory, SingleUse, Granted, NotAsked
<1>3. TypeOK /\ CodeHistory /\ [Next]_vars => CodeHistory'
  BY HistoryStep
<1>4. QED
  BY <1>1, <1>2, <1>3, TypeCorrect, PTL DEF Spec
-----------------------------------------------------------------------------
(* Capacity.  A store that shrinks stays within the limits; minting adds    *)
(* one code after the check inside issue has seen room for it.              *)
WithinLimits ==
  /\ IsFiniteSet(DOMAIN codes)
  /\ CapacityRespected

(* Losing codes keeps the store within its limits. *)
LEMMA ShrinkWithinLimits ==
  ASSUME WithinLimits, DOMAIN codes' \subseteq DOMAIN codes,
         \A c \in DOMAIN codes' : codes'[c].ask = codes[c].ask
  PROVE  WithinLimits'
<1>1. /\ IsFiniteSet(DOMAIN codes')
      /\ Cardinality(DOMAIN codes') <= Cardinality(DOMAIN codes)
  BY FS_Subset DEF WithinLimits
<1>2. Cardinality(DOMAIN codes) \in Nat /\ Cardinality(DOMAIN codes') \in Nat
  BY <1>1, FS_CardinalityType DEF WithinLimits
<1>3. Cardinality(DOMAIN codes') <= MaxPending
  BY <1>1, <1>2, LimitsAssumption DEF WithinLimits, CapacityRespected
<1>4. ASSUME NEW c \in DOMAIN codes'
      PROVE  Cardinality(CodesOf(codes', codes'[c].ask.key)) <= MaxPerKey
  <2> DEFINE k == codes[c].ask.key
  <2>1. CodesOf(codes', k) \subseteq CodesOf(codes, k) /\ codes'[c].ask.key = k
    BY DEF CodesOf
  <2>2. IsFiniteSet(CodesOf(codes, k))
    BY FS_Subset DEF CodesOf, WithinLimits
  <2>3. /\ IsFiniteSet(CodesOf(codes', k))
        /\ Cardinality(CodesOf(codes', k)) <= Cardinality(CodesOf(codes, k))
    BY <2>1, <2>2, FS_Subset
  <2>4. Cardinality(CodesOf(codes', k)) \in Nat /\ Cardinality(CodesOf(codes, k)) \in Nat
    BY <2>2, <2>3, FS_CardinalityType
  <2>5. Cardinality(CodesOf(codes, k)) <= MaxPerKey
    BY DEF WithinLimits, CapacityRespected
  <2>6. QED
    BY <2>1, <2>3, <2>4, <2>5, LimitsAssumption
<1>5. QED
  BY <1>1, <1>3, <1>4 DEF WithinLimits, CapacityRespected

(* Adding a code to a store with capacity for its account fills it at most  *)
(* to the limits.                                                           *)
LEMMA MintWithinLimits ==
  ASSUME WithinLimits, NEW r \in AuthReqs, Mint(r)
  PROVE  WithinLimits'
<1> DEFINE kept == RemoveExpired(codes)
           a == auth[r].ask
<1>1. /\ DOMAIN kept \subseteq DOMAIN codes
      /\ \A c \in DOMAIN kept : kept[c].ask = codes[c].ask
  BY RemoveExpiredFacts
<1>2. /\ DOMAIN codes' = DOMAIN kept \cup {r}
      /\ codes'[r].ask = a
      /\ \A c \in DOMAIN kept \ {r} : codes'[c].ask = kept[c].ask
  BY DEF Mint, Insert
<1>3. IsFiniteSet(DOMAIN kept) /\ Cardinality(DOMAIN kept) \in Nat
  BY <1>1, FS_Subset, FS_CardinalityType DEF WithinLimits
<1>4. /\ IsFiniteSet(DOMAIN codes')
      /\ Cardinality(DOMAIN codes') <= MaxPending
  <2>1. Cardinality(DOMAIN kept) < MaxPending
    BY DEF Mint, HasCapacity
  <2>2. /\ IsFiniteSet(DOMAIN kept \cup {r})
        /\ Cardinality(DOMAIN kept \cup {r}) \in
             {Cardinality(DOMAIN kept), Cardinality(DOMAIN kept) + 1}
    <3> HIDE DEF kept
    <3>1. QED
      BY <1>3, FS_AddElement
  <2>3. QED
    BY <1>2, <1>3, <2>1, <2>2, LimitsAssumption
<1>5. ASSUME NEW k, k # a.key
      PROVE  CodesOf(codes', k) \subseteq CodesOf(codes, k)
  BY <1>1, <1>2, <1>5 DEF CodesOf
<1>6. Cardinality(CodesOf(codes', a.key)) <= MaxPerKey
  <2>1. CodesOf(codes', a.key) \subseteq CodesOf(kept, a.key) \cup {r}
    BY <1>2 DEF CodesOf
  <2>2. /\ IsFiniteSet(CodesOf(kept, a.key))
        /\ Cardinality(CodesOf(kept, a.key)) \in Nat
    BY <1>3, FS_Subset, FS_CardinalityType DEF CodesOf
  <2>3. Cardinality(CodesOf(kept, a.key)) < MaxPerKey
    BY DEF Mint, HasCapacity
  <2> DEFINE mine == CodesOf(kept, a.key)
  <2>3a. IsFiniteSet(mine \cup {r}) /\ Cardinality(mine \cup {r}) \in {Cardinality(mine), Cardinality(mine) + 1}
    <3> HIDE DEF mine
    <3>1. QED
      BY <2>2, FS_AddElement DEF mine
  <2>4. /\ IsFiniteSet(CodesOf(kept, a.key) \cup {r})
        /\ Cardinality(CodesOf(kept, a.key) \cup {r}) <= MaxPerKey
        /\ Cardinality(CodesOf(kept, a.key) \cup {r}) \in Nat
    BY <2>2, <2>3, <2>3a, LimitsAssumption
  <2>5. /\ Cardinality(CodesOf(codes', a.key)) <= Cardinality(CodesOf(kept, a.key) \cup {r})
        /\ Cardinality(CodesOf(codes', a.key)) \in Nat
    BY <2>1, <2>4, FS_Subset, FS_CardinalityType
  <2>6. QED
    BY <2>4, <2>5, LimitsAssumption
<1>7. ASSUME NEW c \in DOMAIN codes', codes'[c].ask.key # a.key
      PROVE  Cardinality(CodesOf(codes', codes'[c].ask.key)) <= MaxPerKey
  <2> DEFINE k == codes'[c].ask.key
  <2>1. c \in DOMAIN codes /\ codes[c].ask.key = k
    BY <1>1, <1>2, <1>7
  <2>2. IsFiniteSet(CodesOf(codes, k))
    BY FS_Subset DEF CodesOf, WithinLimits
  <2>3. /\ IsFiniteSet(CodesOf(codes', k))
        /\ Cardinality(CodesOf(codes', k)) <= Cardinality(CodesOf(codes, k))
    BY <1>5, <1>7, <2>2, FS_Subset
  <2>4. Cardinality(CodesOf(codes', k)) \in Nat /\ Cardinality(CodesOf(codes, k)) \in Nat
    BY <2>2, <2>3, FS_CardinalityType
  <2>5. Cardinality(CodesOf(codes, k)) <= MaxPerKey
    BY <2>1 DEF WithinLimits, CapacityRespected
  <2>6. QED
    BY <2>3, <2>4, <2>5, LimitsAssumption
<1>8. QED
  BY <1>4, <1>6, <1>7 DEF WithinLimits, CapacityRespected

(* The pending codes stay within MAX_PENDING_CODES, and each account's      *)
(* within MAX_CODES_PER_API_KEY, although has_capacity is long stale when   *)
(* the code is issued.                                                      *)
THEOREM CapacityHolds == Spec => []CapacityRespected
<1>1. Init => WithinLimits
  <2> SUFFICES ASSUME Init PROVE WithinLimits
    OBVIOUS
  <2>1. DOMAIN codes = {}
    BY DEF Init
  <2>2. QED
    BY <2>1, FS_EmptySet, LimitsAssumption DEF WithinLimits, CapacityRespected
<1>2. TypeOK /\ WithinLimits /\ [Next]_vars => WithinLimits'
  <2> SUFFICES ASSUME TypeOK, WithinLimits, [Next]_vars PROVE WithinLimits'
    OBVIOUS
  <2>1. CASE Quiet
    BY <2>1, ShrinkWithinLimits DEF Quiet, StoreShrinks
  <2>2. ASSUME NEW r \in AuthReqs, Mint(r) PROVE WithinLimits'
    BY <2>2, MintWithinLimits
  <2>3. ASSUME NEW t \in TokReqs, NEW c \in CodeNames, NEW x \in Exchanges, TokenLookup(t, c, x)
        PROVE  WithinLimits'
    BY <2>3, RemoveExpiredFacts, ShrinkWithinLimits DEF TokenLookup
  <2>4. ASSUME NEW t \in TokReqs, TokenConsume(t) PROVE WithinLimits'
    <3>1. /\ DOMAIN codes' \subseteq DOMAIN codes
          /\ \A c \in DOMAIN codes' : codes'[c] = codes[c]
      BY <2>4, RemoveExpiredFacts DEF TokenConsume, Pop, Restrict
    <3>2. QED
      BY <3>1, ShrinkWithinLimits
  <2>5. QED
    BY <2>1, <2>2, <2>3, <2>4, StepKinds
<1>3. WithinLimits => CapacityRespected
  BY DEF WithinLimits
<1>4. QED
  BY <1>1, <1>2, <1>3, TypeCorrect, PTL DEF Spec
-----------------------------------------------------------------------------
(* The semaphore. *)
SlotsInv ==
  /\ IsFiniteSet(Holders)
  /\ IsFiniteSet(Waiters)
  /\ SlotsConserved

(* Moving a holder on through Semaphore.release keeps every slot accounted  *)
(* for: it is free again, or it is with the waiter it was handed to.        *)
LEMMA ReleaseConserves ==
  ASSUME TypeOK, SlotsInv, NEW r \in Holders, Release(r, "busy") \/ Release(r, "issued")
                           \/ Release(r, "unavailable") \/ Release(r, "rejected")
  PROVE  SlotsInv'
<1>0. auth \in [AuthReqs -> AuthStates] /\ r \in AuthReqs
  BY DEF TypeOK, AuthStates, Holders
<1>1. PICK s \in {"busy", "issued", "unavailable", "rejected"} : Release(r, s)
  OBVIOUS
<1>2. /\ IsFiniteSet(Holders) /\ Cardinality(Holders) \in Nat /\ slots \in Nat
      /\ IsFiniteSet(Holders \ {r})
      /\ Cardinality(Holders \ {r}) = Cardinality(Holders) - 1
  BY FS_CardinalityType, FS_RemoveElement DEF SlotsInv, TypeOK
<1>3. CASE Waiters = {} /\ slots' = slots + 1 /\ auth' = [auth EXCEPT ![r].at = s]
  <2>1. Holders' = Holders \ {r} /\ Waiters' = {}
    BY <1>0, <1>3 DEF Holders, Waiters, At, AuthStates, Unsent
  <2>2. QED
    BY <1>2, <1>3, <2>1, FS_EmptySet, LimitsAssumption DEF SlotsInv, SlotsConserved
<1>4. ASSUME NEW w \in Waiters,
             auth' = [auth EXCEPT ![r].at = s, ![w].at = "handed"], UNCHANGED slots
      PROVE  SlotsInv'
  <2>1. w \in AuthReqs /\ w # r /\ w \notin Holders
    BY DEF Waiters, Holders, At
  <2>2. Holders' = (Holders \ {r}) \cup {w} /\ Waiters' = Waiters \ {w}
    BY <1>0, <1>4, <2>1 DEF Holders, Waiters, At, AuthStates, Unsent
  <2>3. /\ IsFiniteSet((Holders \ {r}) \cup {w})
        /\ Cardinality((Holders \ {r}) \cup {w}) = Cardinality(Holders \ {r}) + 1
    BY <1>2, <2>1, FS_AddElement
  <2>4. w \in Handed' /\ IsFiniteSet(Waiters')
    BY <1>0, <1>4, <2>1, <2>2, FS_Subset DEF SlotsInv, Handed, At, AuthStates, Unsent
  <2>5. QED
    BY <1>2, <1>4, <2>2, <2>3, <2>4, LimitsAssumption DEF SlotsInv, SlotsConserved
<1>5. QED
  BY <1>1, <1>3, <1>4 DEF Release

(* Leaving the queue, with the slot or for want of one, keeps every slot     *)
(* accounted for, and leaves none free while somebody queues.                *)
LEMMA LeaveQueueConserves ==
  ASSUME TypeOK, SlotsInv, NEW r \in AuthReqs, NEW s \in {"validating", "busy"},
         \/ At(r, "handed") /\ LeaveQueue(r, s, IF s = "busy" THEN slots + 1 ELSE slots)
         \/ At(r, "waiting") /\ s = "busy" /\ LeaveQueue(r, s, slots)
  PROVE  SlotsInv'
<1> DEFINE n == IF At(r, "handed") /\ s = "busy" THEN slots + 1 ELSE slots
           rest == IF s = "busy" THEN Holders \ {r} ELSE Holders
<1>0. /\ auth \in [AuthReqs -> AuthStates] /\ slots \in Nat /\ n \in Nat /\ s \in AuthAt
      /\ IsFiniteSet(Holders) /\ Cardinality(Holders) \in Nat
      /\ LeaveQueue(r, s, n)
  BY FS_CardinalityType DEF TypeOK, AuthStates, AuthAt, SlotsInv, At
<1>1. PICK W \in SUBSET (Waiters \ {r}), left \in 0..n : QueueMoves(r, s, n, W, left)
  <2> HIDE DEF n
  <2>1. QED
    BY <1>0, LeaveQueueEffect
<1>2. /\ IsFiniteSet(rest)
      /\ Cardinality(rest) + n = MaxSlots
  <2>1. CASE At(r, "handed") /\ s = "busy"
    <3>1. r \in Holders
      BY <2>1 DEF Holders
    <3>2. IsFiniteSet(Holders \ {r}) /\ Cardinality(Holders \ {r}) = Cardinality(Holders) - 1
      BY <1>0, <3>1, FS_RemoveElement
    <3>3. QED
      BY <1>0, <2>1, <3>2, LimitsAssumption DEF SlotsInv, SlotsConserved
  <2>2. CASE ~(At(r, "handed") /\ s = "busy")
    <3>1. rest = Holders
      BY <2>2 DEF Holders, At
    <3>2. QED
      BY <1>0, <2>2, <3>1, LimitsAssumption DEF SlotsInv, SlotsConserved
  <2>3. QED
    BY <2>1, <2>2
<1>3. IsFiniteSet(W) /\ IsFiniteSet(Waiters \ (W \cup {r}))
  BY FS_Subset DEF SlotsInv
<1>4. W \cap rest = {}
  BY DEF Waiters, Holders, At
<1>5. Holders' = rest \cup W
  <2>1. ASSUME NEW q \in AuthReqs PROVE q \in Holders' <=> q \in rest \cup W
    <3>1. CASE q = r
      BY <1>0, <1>1, <3>1 DEF QueueMoves, Holders, Waiters, At, AuthStates, Unsent
    <3>2. CASE q \in W
      <4>1. auth'[q] = [auth[q] EXCEPT !.at = "handed"] /\ auth[q].at = "waiting"
        BY <1>1, <3>2 DEF QueueMoves, At
      <4>2. auth[q] \in [at : AuthAt, ask : Asks]
        BY <1>0, <4>1 DEF AuthStates, Unsent
      <4>3. auth'[q].at = "handed"
        BY <4>1, <4>2
      <4>4. QED
        BY <3>2, <4>3 DEF Holders, At
    <3>3. CASE q \notin W \cup {r}
      BY <1>0, <1>1, <3>3 DEF QueueMoves, Holders, At
    <3>4. QED
      BY <3>1, <3>2, <3>3
  <2>2. QED
    BY <2>1 DEF Holders, Waiters
<1>6. Waiters' = Waiters \ (W \cup {r})
  <2>1. ASSUME NEW q \in AuthReqs PROVE q \in Waiters' <=> q \in Waiters \ (W \cup {r})
    <3>1. CASE q = r
      BY <1>0, <1>1, <3>1 DEF QueueMoves, Waiters, At, AuthStates, Unsent
    <3>2. CASE q \in W
      BY <1>0, <1>1, <3>2 DEF QueueMoves, Waiters, At, AuthStates, Unsent
    <3>3. CASE q \notin W \cup {r}
      BY <1>0, <1>1, <3>3 DEF QueueMoves, Waiters, At
    <3>4. QED
      BY <3>1, <3>2, <3>3
  <2>2. QED
    BY <2>1 DEF Waiters
<1>7. IsFiniteSet(rest \cup W) /\ Cardinality(rest \cup W) = Cardinality(rest) + Cardinality(W)
  <2> HIDE DEF rest
  <2>1. rest \cap W = {} /\ Cardinality({}) = 0
    BY <1>4, FS_EmptySet
  <2>2. /\ IsFiniteSet(rest \cup W)
        /\ Cardinality(rest \cup W) = Cardinality(rest) + Cardinality(W) - Cardinality(rest \cap W)
    BY <1>2, <1>3, FS_Union
  <2>3. Cardinality(rest) \in Nat /\ Cardinality(W) \in Nat
    BY <1>2, <1>3, FS_CardinalityType
  <2>4. QED
    BY <2>1, <2>2, <2>3
<1>8. Cardinality(rest) \in Nat
  BY <1>2, FS_CardinalityType
<1>9. slots' + Cardinality(Holders') = MaxSlots
  <2>1. Cardinality(W) = n - left /\ slots' = left
    BY <1>1 DEF QueueMoves
  <2> HIDE DEF n, rest
  <2>2. QED
    BY <1>0, <1>2, <1>5, <1>7, <1>8, <2>1, LimitsAssumption
<1>10. Waiters' # {} => slots' = 0
  <2>1. (left > 0 => W = Waiters \ {r}) /\ slots' = left /\ left \in 0..n
    BY <1>1 DEF QueueMoves
  <2>2. QED
    BY <1>0, <1>6, <2>1
<1>11. QED
  BY <1>3, <1>5, <1>6, <1>7, <1>9, <1>10 DEF SlotsInv, SlotsConserved

(* Every step keeps the slots accounted for. *)
LEMMA SlotsStep ==
  ASSUME TypeOK, SlotsInv, [Next]_vars
  PROVE  SlotsInv'
<1>0. /\ auth \in [AuthReqs -> AuthStates] /\ slots \in Nat
      /\ IsFiniteSet(Holders) /\ Cardinality(Holders) \in Nat
  BY FS_CardinalityType DEF TypeOK, AuthStates, SlotsInv
<1>1. ASSUME NEW r \in AuthReqs, NEW a \in Asks, AuthorizeStart(r, a)
      PROVE  SlotsInv'
  <2>0. r \notin Holders /\ r \notin Waiters
    BY <1>1 DEF AuthorizeStart, Holders, Waiters, At
  <2>1. CASE auth' = [auth EXCEPT ![r] = [at |-> "busy", ask |-> a]] /\ UNCHANGED slots
    <3>1. Holders' = Holders /\ Waiters' = Waiters /\ Handed' = Handed
      BY <1>0, <1>1, <2>0, <2>1 DEF AuthorizeStart, Holders, Waiters, Handed, At
    <3>2. QED
      BY <2>1, <3>1 DEF SlotsInv, SlotsConserved
  <2>2. CASE /\ ~Locked
             /\ auth' = [auth EXCEPT ![r] = [at |-> "validating", ask |-> a]]
             /\ slots' = slots - 1
    <3>1. Holders' = Holders \cup {r} /\ Waiters' = {} /\ slots > 0
      BY <1>0, <2>0, <2>2 DEF Locked, Holders, Waiters, At
    <3>2. /\ IsFiniteSet(Holders \cup {r})
          /\ Cardinality(Holders \cup {r}) = Cardinality(Holders) + 1
      BY <1>0, <2>0, FS_AddElement
    <3>3. QED
      BY <1>0, <2>2, <3>1, <3>2, FS_EmptySet, LimitsAssumption DEF SlotsInv, SlotsConserved
  <2>3. CASE /\ Locked
             /\ auth' = [auth EXCEPT ![r] = [at |-> "waiting", ask |-> a]]
             /\ UNCHANGED slots
    <3>1. Holders' = Holders /\ Waiters' = Waiters \cup {r} /\ Handed \subseteq Handed'
      BY <1>0, <1>1, <2>0, <2>3 DEF AuthorizeStart, Holders, Waiters, Handed, At
    <3>2. IsFiniteSet(Waiters \cup {r})
      BY FS_AddElement DEF SlotsInv
    <3>3. slots > 0 => Handed # {}
      BY <1>0, <2>3 DEF Locked, SlotsInv, SlotsConserved
    <3>4. QED
      BY <2>3, <3>1, <3>2, <3>3 DEF SlotsInv, SlotsConserved
  <2>4. QED
    BY <1>1, <2>1, <2>2, <2>3 DEF AuthorizeStart
<1>2. ASSUME NEW r \in AuthReqs, AcquireReturn(r) PROVE SlotsInv'
  BY <1>2, LeaveQueueConserves DEF AcquireReturn
<1>3. ASSUME NEW r \in AuthReqs, SlotTimeout(r) PROVE SlotsInv'
  BY <1>3, LeaveQueueConserves DEF SlotTimeout
<1>4. ASSUME NEW r \in AuthReqs, ValidationFails(r) PROVE SlotsInv'
  BY <1>4, ReleaseConserves DEF ValidationFails, Holders
<1>5. ASSUME NEW r \in AuthReqs, ValidationSucceeds(r) PROVE SlotsInv'
  BY <1>5, ReleaseConserves DEF ValidationSucceeds, Holders
<1>6. CASE UNCHANGED <<slots, auth>>
  BY <1>6 DEF SlotsInv, SlotsConserved, Holders, Waiters, Handed, At
<1>7. ASSUME Restart PROVE SlotsInv'
  <2>1. Holders' = {} /\ Waiters' = {} /\ slots' = MaxSlots
    BY <1>0, <1>7 DEF Restart, Holders, Waiters, At, InFlight, AuthStates, Unsent
  <2>2. QED
    BY <2>1, FS_EmptySet, LimitsAssumption DEF SlotsInv, SlotsConserved
<1>8. QED
  BY <1>1, <1>2, <1>3, <1>4, <1>5, <1>6, <1>7 DEF Next, TokenLookup, TokenConsume, Tick, vars

(* No path through /authorize loses or doubles a validation slot, and no    *)
(* request queues beside a free one unless another has yet to take up the   *)
(* slot it was handed.                                                      *)
THEOREM SlotsHold == Spec => []SlotsConserved
<1>1. Init => SlotsInv
  <2> SUFFICES ASSUME Init PROVE SlotsInv
    OBVIOUS
  <2>1. Holders = {} /\ Waiters = {} /\ slots = MaxSlots
    BY DEF Init, Holders, Waiters, At, Unsent
  <2>2. QED
    BY <2>1, FS_EmptySet, LimitsAssumption DEF SlotsInv, SlotsConserved
<1>2. TypeOK /\ SlotsInv /\ [Next]_vars => SlotsInv'
  BY SlotsStep
<1>3. SlotsInv => SlotsConserved
  BY DEF SlotsInv
<1>4. QED
  BY <1>1, <1>2, <1>3, TypeCorrect, PTL DEF Spec

(* A login that queues for a validation slot always has somebody to wait    *)
(* for, who gives the slot back on every path: nobody queues behind slots   *)
(* that were lost.                                                          *)
THEOREM SomebodyToWaitFor == Spec => [](Waiters # {} => Holders # {})
<1>1. TypeOK /\ SlotsConserved => (Waiters # {} => Holders # {})
  <2> SUFFICES ASSUME TypeOK, SlotsConserved, Waiters # {} PROVE Holders # {}
    OBVIOUS
  <2>1. CASE slots > 0
    BY <2>1 DEF SlotsConserved, Handed, Holders
  <2>2. CASE slots = 0
    BY <2>2, FS_EmptySet, LimitsAssumption DEF SlotsConserved
  <2>3. QED
    BY <2>1, <2>2 DEF TypeOK
<1>2. QED
  BY <1>1, SlotsHold, TypeCorrect, PTL
=============================================================================
