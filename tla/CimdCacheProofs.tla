-------------------------- MODULE CimdCacheProofs --------------------------
(***************************************************************************)
(* Proofs about CimdCache, for any number of requests and versions, every  *)
(* lifetime of an entry and every duration of a fetch.                     *)
(*                                                                         *)
(* Each document on its way was current when its host wrote it, so it has  *)
(* been replaced for no longer than its fetch lasts; an entry has been     *)
(* replaced for no longer than that and the part of its life that is over. *)
(***************************************************************************)
EXTENDS CimdCache, TLAPS

RequestStates ==
  [at : {"idle", "fetching", "read", "answered", "failed"},
   version : Versions \cup {0}, spent : 0..FetchTime]

Fetched ==
  \A r \in Requests : At(r, "read") =>
    /\ request[r].version \in Versions
    /\ retired[request[r].version] <= request[r].spent

Cached ==
  cache.version # 0 => retired[cache.version] + cache.left <= Horizon

\* Only what has been replaced ages.
CurrentIsNew == \A v \in Versions : v >= published => retired[v] = 0

Inv == TypeOK /\ Fetched /\ Cached /\ CurrentIsNew

LEMMA Initially == Init => Inv
BY CacheAssumption DEF Init, Inv, TypeOK, Fetched, Cached, CurrentIsNew, At, Versions, Horizon

LEMMA LookupKeeps ==
  ASSUME Inv, NEW r \in Requests, Lookup(r)
  PROVE  Inv'
<1>1. request' \in [Requests -> RequestStates] /\ ~At(r, "read")'
  BY DEF Lookup, Inv, TypeOK, Answer, At, RequestStates
<1>2. \A s \in Requests \ {r} : request'[s] = request[s]
  BY DEF Lookup, Inv, TypeOK, Answer
<1>3. Fetched'
  BY <1>1, <1>2 DEF Lookup, Inv, Fetched, At
<1>. QED
  BY <1>1, <1>3 DEF Lookup, Inv, TypeOK, Cached, CurrentIsNew, RequestStates

LEMMA AnswerIsCurrent ==
  ASSUME Inv, NEW r \in Requests, HostAnswers(r)
  PROVE  Inv'
<1>1. /\ request' \in [Requests -> RequestStates]
      /\ request'[r].version = published
      /\ published \in Versions /\ retired[published] = 0
  <2>1. published \in Versions /\ published >= published
    BY CacheAssumption DEF Inv, TypeOK, Versions
  <2>2. retired[published] = 0
    BY <2>1 DEF Inv, CurrentIsNew
  <2>3. /\ request \in [Requests -> RequestStates]
        /\ request' = [request EXCEPT ![r].at = "read", ![r].version = published]
    BY DEF HostAnswers, Inv, TypeOK, RequestStates
  <2>. QED
    BY <2>1, <2>2, <2>3 DEF RequestStates
<1>2. \A s \in Requests \ {r} : request'[s] = request[s]
  BY DEF HostAnswers, Inv, TypeOK
<1>3. request'[r].spent \in 0..FetchTime
  BY <1>1 DEF RequestStates
<1>4. Fetched'
  BY <1>1, <1>2, <1>3 DEF HostAnswers, Inv, Fetched, At
<1>. QED
  BY <1>1, <1>4 DEF HostAnswers, Inv, TypeOK, Cached, CurrentIsNew, RequestStates

LEMMA FailureKeeps ==
  ASSUME Inv, NEW r \in Requests, FetchFails(r)
  PROVE  Inv'
<1>1. request' \in [Requests -> RequestStates] /\ ~At(r, "read")'
  BY DEF FetchFails, Inv, TypeOK, At, RequestStates
<1>2. \A s \in Requests \ {r} : request'[s] = request[s]
  BY DEF FetchFails, Inv, TypeOK
<1>3. Fetched'
  BY <1>1, <1>2 DEF FetchFails, Inv, Fetched, At
<1>. QED
  BY <1>1, <1>3 DEF FetchFails, Inv, TypeOK, Cached, CurrentIsNew, RequestStates

(* What a fetch brings is younger than a fetch, so a life may follow.      *)
LEMMA ReceiveKeeps ==
  ASSUME Inv, NEW r \in Requests, Receive(r)
  PROVE  Inv' /\ retired[request[r].version] <= FetchTime
<1>1. /\ request[r].version \in Versions
      /\ retired[request[r].version] <= request[r].spent
      /\ request[r].spent \in 0..FetchTime
      /\ retired[request[r].version] \in Nat
  BY DEF Receive, Inv, Fetched, TypeOK, RequestStates, Horizon
<1>2. request' \in [Requests -> RequestStates] /\ ~At(r, "read")'
  BY <1>1 DEF Receive, Answer, Inv, TypeOK, At, RequestStates
<1>3. \A s \in Requests \ {r} : request'[s] = request[s]
  BY DEF Receive, Answer, Inv, TypeOK
<1>4. Fetched'
  BY <1>2, <1>3 DEF Receive, Inv, Fetched, At
<1>5. retired[request[r].version] <= FetchTime
  BY <1>1, CacheAssumption
<1>6. cache' \in [version : Versions \cup {0}, left : 0..CacheTtl] /\ Cached'
  <2>1. CASE cache' = cache
    BY <2>1 DEF Receive, Inv, TypeOK, Cached
  <2>2. CASE cache' = Entry(request[r].version)
    BY <1>1, <1>5, <2>2, CacheAssumption DEF Receive, Entry, Cached, Horizon
  <2>. QED
    BY <2>1, <2>2 DEF Receive
<1>. QED
  BY <1>2, <1>4, <1>5, <1>6 DEF Receive, Inv, TypeOK, CurrentIsNew, RequestStates

LEMMA PublishKeeps ==
  ASSUME Inv, Publish
  PROVE  Inv'
<1>1. published' \in Versions
  BY CacheAssumption DEF Publish, Inv, TypeOK, Versions
<1>2. CurrentIsNew'
  BY CacheAssumption DEF Publish, Inv, TypeOK, CurrentIsNew, Versions
<1>. QED
  BY <1>1, <1>2 DEF Publish, Inv, TypeOK, Fetched, Cached, At

LEMMA TickKeeps ==
  ASSUME Inv, Tick
  PROVE  Inv'
<1>1. retired' \in [Versions -> 0..Horizon]
  BY CacheAssumption DEF Tick, Inv, TypeOK, Horizon, Versions
<1>2. \A v \in Versions : /\ retired'[v] <= retired[v] + 1
                          /\ retired'[v] <= Horizon
                          /\ retired[v] \in Nat /\ retired'[v] \in Nat
  BY <1>1, CacheAssumption DEF Tick, Inv, TypeOK, Horizon, Versions
<1>3. ASSUME NEW r \in Requests
      PROVE  /\ request'[r] \in RequestStates
             /\ At(r, "read")' => /\ At(r, "read")
                                  /\ request'[r].version = request[r].version
                                  /\ request'[r].spent = request[r].spent + 1
                                  /\ request[r].spent \in Nat
  <2>1. request[r] \in RequestStates
    BY DEF Inv, TypeOK, RequestStates
  <2>2. CASE r \in InFlight
    BY <2>1, <2>2, CacheAssumption DEF Tick, RequestStates, At
  <2>3. CASE r \notin InFlight
    BY <2>1, <2>3 DEF Tick, InFlight, At
  <2>. QED
    BY <2>2, <2>3
<1>4. request' \in [Requests -> RequestStates]
  BY <1>3 DEF Tick
<1>5. Fetched'
  BY <1>2, <1>3 DEF Inv, Fetched
<1>6. cache' \in [version : Versions \cup {0}, left : 0..CacheTtl] /\ Cached'
  <2>1. /\ cache \in [version : Versions \cup {0}, left : 0..CacheTtl]
        /\ cache' = [cache EXCEPT !.left = IF @ > 0 THEN @ - 1 ELSE 0]
    BY DEF Tick, Inv, TypeOK
  <2>2. CASE cache.left > 0
    BY <1>2, <2>1, <2>2, CacheAssumption DEF Inv, Cached, Horizon
  <2>3. CASE ~(cache.left > 0)
    BY <1>2, <2>1, <2>3, CacheAssumption DEF Inv, Cached, Horizon
  <2>. QED
    BY <2>2, <2>3
<1>7. CurrentIsNew'
  BY DEF Tick, Inv, TypeOK, CurrentIsNew, Versions
<1>. QED
  BY <1>1, <1>4, <1>5, <1>6, <1>7 DEF Tick, Inv, TypeOK, RequestStates

LEMMA Inductive == Inv /\ [Next]_vars => Inv'
<1>1. Inv /\ UNCHANGED vars => Inv'
  BY DEF Inv, TypeOK, Fetched, Cached, CurrentIsNew, At, vars
<1>. QED
  BY <1>1, LookupKeeps, AnswerIsCurrent, FailureKeeps, ReceiveKeeps, PublishKeeps, TickKeeps DEF Next

LEMMA Invariance == Spec => []Inv
BY Initially, Inductive, PTL DEF Spec

(* The types of the cache's state.                                         *)
THEOREM TypeCorrect == Spec => []TypeOK
<1>1. Inv => TypeOK
  BY DEF Inv
<1>. QED
  BY <1>1, Invariance, PTL

(* A version that was replaced a fetch and a cache lifetime ago is never   *)
(* used, however many requests overlap and whatever the two durations are. *)
THEOREM BoundedStalenessHolds == Spec => BoundedStaleness
<1>. DEFINE Young == \A r \in Answered' \ Answered : retired[request'[r].version] < Horizon
<1>1. ASSUME Inv, Next PROVE Young
  <2>1. ASSUME NEW r \in Requests, Lookup(r) PROVE Young
    <3>1. \A s \in Answered' \ Answered : s = r /\ Hit /\ request'[r].version = cache.version
      BY <1>1, <2>1 DEF Lookup, Answer, Answered, At, Inv, TypeOK
    <3>2. Hit => retired[cache.version] < Horizon
      BY <1>1, CacheAssumption DEF Hit, Inv, Cached, TypeOK, Versions, Horizon
    <3>. QED
      BY <3>1, <3>2
  <2>2. ASSUME NEW r \in Requests, Receive(r) PROVE Young
    <3>1. \A s \in Answered' \ Answered : s = r /\ request'[r].version = request[r].version
      BY <1>1, <2>2 DEF Receive, Answer, Answered, At, Inv, TypeOK
    <3>2. retired[request[r].version] <= FetchTime /\ request[r].version \in Versions
      BY <1>1, <2>2, ReceiveKeeps DEF Receive, Inv, Fetched
    <3>3. retired[request[r].version] < Horizon
      BY <1>1, <3>2, CacheAssumption DEF Inv, TypeOK, Horizon
    <3>. QED
      BY <3>1, <3>3
  <2>3. ASSUME NEW r \in Requests, HostAnswers(r) \/ FetchFails(r) PROVE Young
    BY <1>1, <2>3 DEF HostAnswers, FetchFails, Answered, At, Inv, TypeOK
  <2>4. CASE Publish
    BY <2>4 DEF Publish, Answered, At
  <2>5. CASE Tick
    BY <1>1, <2>5 DEF Tick, Answered, At, InFlight, Inv, TypeOK
  <2>. QED
    BY <1>1, <2>1, <2>2, <2>3, <2>4, <2>5 DEF Next
<1>2. UNCHANGED vars => Young
  BY DEF vars, Answered, At
<1>. QED
  BY <1>1, <1>2, Invariance, PTL DEF Spec, BoundedStaleness
=============================================================================
