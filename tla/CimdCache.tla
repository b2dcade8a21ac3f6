------------------------------ MODULE CimdCache ------------------------------
(***************************************************************************)
(* ClientMetadataResolver.resolve for one client_id URL: requests look the *)
(* client's metadata document up in the cache, and fetch it, outside the   *)
(* lock, where there is no entry that is still good.  The client publishes *)
(* new versions of its document meanwhile.                                 *)
(*                                                                         *)
(* Documents are named by their version.  A client_id that                 *)
(* validate_client_id refuses reaches neither cache nor network and is     *)
(* left out.                                                               *)
(***************************************************************************)
EXTENDS Naturals

CONSTANTS Requests,       \* calls of resolve
          LastVersion,    \* bound: versions the client publishes
          Invalid,        \* versions parse_client_metadata refuses
          CacheTtl,       \* cache_ttl_seconds
          FetchTime       \* the longest a fetch takes

ASSUME CacheAssumption ==
  /\ LastVersion \in Nat \ {0}
  /\ Invalid \subseteq 1..LastVersion
  /\ CacheTtl \in Nat \ {0}
  /\ FetchTime \in Nat

VARIABLES published,      \* the version the client's host serves
          retired,        \* history: time since a version was replaced
          cache,          \* the entry of _cache: a version, time it is still good
          request         \* where each call of resolve is

vars == <<published, retired, cache, request>>

Versions == 1..LastVersion
Horizon == CacheTtl + FetchTime

TypeOK ==
  /\ published \in Versions
  /\ retired \in [Versions -> 0..Horizon]
  /\ cache \in [version : Versions \cup {0}, left : 0..CacheTtl]
  /\ request \in [Requests ->
       [at : {"idle", "fetching", "read", "answered", "failed"},
        version : Versions \cup {0}, spent : 0..FetchTime]]

Init ==
  /\ published = 1
  /\ retired = [v \in Versions |-> 0]
  /\ cache = [version |-> 0, left |-> 0]
  /\ request = [r \in Requests |-> [at |-> "idle", version |-> 0, spent |-> 0]]
-----------------------------------------------------------------------------
At(r, s) == request[r].at = s
Answer(r, v) == request' = [request EXCEPT ![r].at = "answered", ![r].version = v]

AnyEntry == cache.version # 0                       \* mutant
Hit == cache.version # 0 /\ cache.left > 0

Lookup(r) ==
  /\ At(r, "idle")
  /\ \/ Hit /\ Answer(r, cache.version)
     \/ ~Hit /\ request' = [request EXCEPT ![r].at = "fetching"]
  /\ UNCHANGED <<published, retired, cache>>

\* The client's host writes its answer.
HostAnswers(r) ==
  /\ At(r, "fetching")
  /\ request' = [request EXCEPT ![r].at = "read", ![r].version = published]
  /\ UNCHANGED <<published, retired, cache>>

\* CIMDError: unreachable, not 200, too large, not JSON.
FetchFails(r) ==
  /\ At(r, "fetching") \/ At(r, "read")
  /\ request' = [request EXCEPT ![r].at = "failed"]
  /\ UNCHANGED <<published, retired, cache>>

TwoLives(v) == [version |-> v, left |-> 2 * CacheTtl]  \* mutant
Entry(v) == [version |-> v, left |-> CacheTtl]

\* What parse_client_metadata answers with a CIMDError.
Malformed(v) == v \in Invalid

\* The whole document is there: it is parsed, then cached, over whatever other
\* requests have cached meanwhile.
Receive(r) ==
  LET v == request[r].version
  IN  /\ At(r, "read")
      /\ \/ /\ Malformed(v)
            /\ request' = [request EXCEPT ![r].at = "failed"]
            /\ UNCHANGED cache
         \/ /\ ~Malformed(v)
            /\ cache' = Entry(v)
            /\ Answer(r, v)
      /\ UNCHANGED <<published, retired>>
-----------------------------------------------------------------------------
Publish ==
  /\ published < LastVersion
  /\ published' = published + 1
  /\ UNCHANGED <<retired, cache, request>>

InFlight == {r \in Requests : At(r, "fetching") \/ At(r, "read")}

\* A fetch that has used up its time has ended before the clock moves on.
Tick ==
  /\ \A r \in InFlight : request[r].spent < FetchTime
  /\ retired' = [v \in Versions |->
       IF v < published /\ retired[v] < Horizon THEN retired[v] + 1 ELSE retired[v]]
  /\ cache' = [cache EXCEPT !.left = IF @ > 0 THEN @ - 1 ELSE 0]
  /\ request' = [r \in Requests |->
       IF r \in InFlight THEN [request[r] EXCEPT !.spent = @ + 1] ELSE request[r]]
  /\ UNCHANGED published

Next ==
  \/ \E r \in Requests : Lookup(r)
  \/ \E r \in Requests : HostAnswers(r)
  \/ \E r \in Requests : FetchFails(r)
  \/ \E r \in Requests : Receive(r)
  \/ Publish
  \/ Tick

Spec == Init /\ [][Next]_vars
-----------------------------------------------------------------------------
Answered == {r \in Requests : At(r, "answered")}

(* A client that withdraws a redirect URI can rely on it: a version that   *)
(* was replaced a fetch and a cache lifetime ago is not used any more,     *)
(* although fetches overlap, an older answer may overwrite a newer one,    *)
(* and hits go on during the fetches of others.                            *)
BoundedStaleness ==
  [][\A r \in Answered' \ Answered : retired[request'[r].version] < Horizon]_vars
=============================================================================
