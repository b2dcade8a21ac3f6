--------------------------- MODULE RedisCodeFlow ---------------------------
(***************************************************************************)
(* The authorization-code flow of a fleet of instances that share the      *)
(* RedisAuthorizationCodeStore.  Any instance may serve any request.  A    *)
(* single command is one action with what the handler does with the        *)
(* answer.  A pipeline is sent in one action, its commands run one by one  *)
(* among those of other instances, whether or not the handler still waits, *)
(* and Redis may refuse one and run the next.  Calls may be lost before or *)
(* after Redis has run them, and the instance that runs a handler may be   *)
(* recycled.  The codes of AuthCodeFlow, named after the requests that     *)
(* mint them; lifetimes instead of deadlines.                              *)
(***************************************************************************)
EXTENDS Grants, Integers, Sequences, FiniteSets, Functions

CONSTANTS AuthReqs,       \* POST /authorize requests, and the codes they mint
          TokReqs,        \* POST /token requests, grant_type=authorization_code
          Guesses,        \* codes nobody minted
          Ttl,            \* CODE_TTL_SECONDS, of codes and of counters
          MaxPending,     \* MAX_PENDING_CODES
          MaxPerKey       \* MAX_CODES_PER_API_KEY

ASSUME LimitsAssumption ==
  /\ Ttl \in Nat \ {0}
  /\ MaxPending \in Nat
  /\ MaxPerKey \in Nat

\* One request has one pipeline.
ASSUME RequestsAssumption == AuthReqs \cap TokReqs = {}

VARIABLES stored,         \* mh:oauth:code:*, the sealed codes
          pending,        \* mh:oauth:codes:pending, the global counter
          perKey,         \* mh:oauth:codes:by-key:*, a counter per account
          pipe,           \* the pipeline each request has on its way
          auth,           \* where each /authorize request is
          tok             \* where each /token request is

vars == <<stored, pending, perKey, pipe, auth, tok>>

Keys == {a.key : a \in Asks}
CodeNames == AuthReqs \cup Guesses

Requests == AuthReqs \cup TokReqs

\* A counter is missing, or has a time to live of 1..Ttl, or has none.
Forever == Ttl + 1
Missing == [n |-> 0, ttl |-> 0]
Counter == {Missing} \cup [n : Int, ttl : 1..Forever]

\* A command on the counter of all codes or on that of the request's account;
\* what the answers so far amount to.
Commands == {"INCR", "EXPIRE", "DECR"} \X {"all", "key"}
NoPipe == [cmds |-> <<>>, says |-> "ok"]

Unsent == [at |-> "idle", ask |-> None]
NotAsked == [at |-> "idle", code |-> None, with |-> None, seen |-> None]
Refused == [at |-> "refused", code |-> None, with |-> None, seen |-> None]
Failed == [at |-> "failed", code |-> None, with |-> None, seen |-> None]

AuthAt == {"cleared", "reserving", "reserved", "over", "issued", "orphaned", "busy", "failed"}

TypeOK ==
  /\ DOMAIN stored \subseteq AuthReqs
  /\ stored \in [DOMAIN stored -> [ask : Asks, left : 1..Ttl]]
  /\ pending \in Counter
  /\ perKey \in [Keys -> Counter]
  /\ pipe \in [Requests -> [cmds : Seq(Commands), says : {"ok", "over", "error"}]]
  /\ auth \in [AuthReqs -> {Unsent} \cup [at : AuthAt, ask : Asks]]
  /\ tok \in [TokReqs -> {NotAsked, Refused, Failed} \cup
                         [at : {"checked", "holding", "granted"}, code : AuthReqs,
                          with : Exchanges, seen : Asks]]

Init ==
  /\ stored = [c \in {} |-> None]
  /\ pending = Missing
  /\ perKey = [k \in Keys |-> Missing]
  /\ pipe = [q \in Requests |-> NoPipe]
  /\ auth = [r \in AuthReqs |-> Unsent]
  /\ tok = [t \in TokReqs |-> NotAsked]
-----------------------------------------------------------------------------
(* Redis. *)

\* INCR and DECR create a missing key, without a time to live.
Add(ctr, d) == [n |-> ctr.n + d, ttl |-> IF ctr = Missing THEN Forever ELSE ctr.ttl]

NeverExpire(ctr) == ctr                             \* mutant
\* EXPIRE with NX: only a key that has no time to live yet gets one.
Expire(ctr) == IF ctr.ttl = Forever THEN [ctr EXCEPT !.ttl = Ttl] ELSE ctr

Effect(do, ctr) ==
  CASE do = "INCR"   -> Add(ctr, 1)
    [] do = "DECR"   -> Add(ctr, -1)
    [] do = "EXPIRE" -> Expire(ctr)

AgeCounter(ctr) ==
  CASE ctr.ttl = 1      -> Missing
    [] ctr.ttl \in 2..Ttl -> [ctr EXCEPT !.ttl = @ - 1]
    [] OTHER            -> ctr

Peek(c) == stored                                   \* mutant
GetDel(c) == Restrict(stored, DOMAIN stored \ {c})

SetForever(c, a) ==                                 \* mutant
  [d \in DOMAIN stored \cup {c} |->
     IF d = c THEN [ask |-> a, left |-> 0] ELSE stored[d]]
SetEx(c, a) ==
  [d \in DOMAIN stored \cup {c} |->
     IF d = c THEN [ask |-> a, left |-> Ttl] ELSE stored[d]]

ReserveCmds == << <<"INCR", "all">>, <<"EXPIRE", "all">>, <<"INCR", "key">>, <<"EXPIRE", "key">> >>
ReleaseCmds == << <<"DECR", "all">>, <<"DECR", "key">> >>

Send(q, cmds) == pipe' = [pipe EXCEPT ![q] = [cmds |-> cmds, says |-> "ok"]]

\* The account of a request that has a pipeline on its way.
KeyOf(q) == IF q \in AuthReqs THEN auth[q].ask.key ELSE tok[q].seen.key

Top(on) == IF on = "all" THEN MaxPending ELSE MaxPerKey

\* Nobody looks at the answers to a release, or of a handler that has died.
Listens(q) == q \in AuthReqs /\ auth[q].at = "reserving"

\* Redis runs the next command of a pipeline, or refuses it (out of memory, not
\* an integer); it does not refuse EXPIRE on a key that it has just let INCR.
RunCommand(q) ==
  LET p == pipe[q]
      do == Head(p.cmds)[1]
      on == Head(p.cmds)[2]
      new == Effect(do, IF on = "all" THEN pending ELSE perKey[KeyOf(q)])
      Says(w) == pipe' = [pipe EXCEPT ![q] = [cmds |-> Tail(p.cmds),
                                              says |-> IF Listens(q) THEN w ELSE "ok"]]
  IN  /\ p.cmds # <<>>
      /\ \/ /\ IF on = "all" THEN pending' = new /\ UNCHANGED perKey
               ELSE perKey' = [perKey EXCEPT ![KeyOf(q)] = new] /\ UNCHANGED pending
            /\ Says(IF p.says = "ok" /\ do = "INCR" /\ new.n > Top(on) THEN "over" ELSE p.says)
         \/ /\ do # "EXPIRE"
            /\ Says("error")
            /\ UNCHANGED <<pending, perKey>>
      /\ UNCHANGED <<stored, auth, tok>>

counters == <<pending, perKey>>
HasCapacity(k) == pending.n < MaxPending /\ perKey[k].n < MaxPerKey
-----------------------------------------------------------------------------
(* POST /authorize. *)

At(r, s) == auth[r].at = s
Go(r, s) == auth' = [auth EXCEPT ![r].at = s]

\* codes.has_capacity, then the validation of the key, which leaves Redis alone.
AuthorizeStart(r, a) ==
  /\ At(r, "idle")
  /\ \E s \in {"cleared", "busy", "failed"} :
       /\ s = "cleared" => HasCapacity(a.key)
       /\ s = "busy" => ~HasCapacity(a.key)
       /\ auth' = [auth EXCEPT ![r] = [at |-> s, ask |-> a]]
  /\ UNCHANGED <<stored, counters, pipe, tok>>

\* issue, _reserve_capacity: the slots are counted before the code is stored.
Reserve(r) ==
  /\ At(r, "cleared")
  /\ \/ Go(r, "reserving") /\ Send(r, ReserveCmds)
     \/ Go(r, "failed") /\ UNCHANGED pipe
  /\ UNCHANGED <<stored, counters, tok>>

Reserved(r) ==
  /\ At(r, "reserving")
  /\ pipe[r].cmds = <<>>
  /\ Go(r, CASE pipe[r].says = "ok"    -> "reserved"
             [] pipe[r].says = "over"  -> "over"
             [] pipe[r].says = "error" -> "failed")
  /\ pipe' = [pipe EXCEPT ![r] = NoPipe]
  /\ UNCHANGED <<stored, counters, tok>>

\* issue: SET EX NX.  Its answer may be lost, or be other than OK.
Store(r) ==
  /\ At(r, "reserved")
  /\ \/ stored' = SetEx(r, auth[r].ask) /\ (Go(r, "issued") \/ Go(r, "orphaned"))
     \/ UNCHANGED stored /\ (Go(r, "over") \/ Go(r, "failed"))
  /\ UNCHANGED <<counters, pipe, tok>>

\* issue: _release_capacity, then OAuthCapacityError.  Whether the release was
\* run, refused or lost makes no difference to the handler.
ReleaseOver(r) ==
  /\ At(r, "over")
  /\ Send(r, ReleaseCmds) \/ UNCHANGED pipe
  /\ Go(r, "busy")
  /\ UNCHANGED <<stored, counters, tok>>
-----------------------------------------------------------------------------
(* POST /token. *)

Answer(t, a) == tok' = [tok EXCEPT ![t] = a]

\* Clients know the codes they were sent.
Presentable == {r \in AuthReqs : At(r, "issued")} \cup Guesses

TokenLookup(t, c, x) ==
  LET ok == c \in DOMAIN stored /\ Fits(stored[c].ask, x)
  IN  /\ tok[t].at = "idle"
      /\ \/ ok /\ Answer(t, [at |-> "checked", code |-> c, with |-> x, seen |-> stored[c].ask])
         \/ ~ok /\ Answer(t, Refused)
         \/ Answer(t, Failed)
      /\ UNCHANGED <<stored, counters, pipe, auth>>

\* consume: the atomic GETDEL.
TokenConsume(t) ==
  LET c == tok[t].code
      ok == c \in DOMAIN stored /\ stored[c].ask = tok[t].seen
  IN  /\ tok[t].at = "checked"
      /\ \/ stored' = GetDel(c) /\ Answer(t, IF ok THEN [tok[t] EXCEPT !.at = "holding"] ELSE Refused)
         \/ stored' \in {stored, GetDel(c)} /\ Answer(t, Failed)
      /\ UNCHANGED <<counters, pipe, auth>>

\* consume: _release_capacity, then the token response.
TokenRespond(t) ==
  /\ tok[t].at = "holding"
  /\ Send(t, ReleaseCmds) \/ UNCHANGED pipe
  /\ Answer(t, [tok[t] EXCEPT !.at = "granted"])
  /\ UNCHANGED <<stored, counters, auth>>
-----------------------------------------------------------------------------
\* The platform recycles the instance that runs a handler, or its call times out.
HandlerDies ==
  /\ \/ \E r \in AuthReqs : auth[r].at \in {"cleared", "reserving", "reserved", "over"} /\ Go(r, "failed") /\ UNCHANGED tok
     \/ \E t \in TokReqs : tok[t].at \in {"checked", "holding"} /\ Answer(t, Failed) /\ UNCHANGED auth
  /\ UNCHANGED <<stored, counters, pipe>>

\* Redis drops a key the moment its time to live is over.
Tick ==
  /\ \/ DOMAIN stored # {}
     \/ \E ctr \in {pending} \cup Range(perKey) : ctr.ttl \in 1..Ttl
  /\ stored' = [c \in {d \in DOMAIN stored : stored[d].left > 1} |->
                  [stored[c] EXCEPT !.left = @ - 1]]
  /\ pending' = AgeCounter(pending)
  /\ perKey' = [k \in Keys |-> AgeCounter(perKey[k])]
  /\ UNCHANGED <<pipe, auth, tok>>

Next ==
  \/ \E r \in AuthReqs, a \in Asks : AuthorizeStart(r, a)
  \/ \E r \in AuthReqs : Reserve(r)
  \/ \E r \in AuthReqs : Reserved(r)
  \/ \E r \in AuthReqs : Store(r)
  \/ \E r \in AuthReqs : ReleaseOver(r)
  \/ \E t \in TokReqs, c \in Presentable, x \in Exchanges : TokenLookup(t, c, x)
  \/ \E t \in TokReqs : TokenConsume(t)
  \/ \E t \in TokReqs : TokenRespond(t)
  \/ \E q \in Requests : RunCommand(q)
  \/ HandlerDies
  \/ Tick

Spec == Init /\ [][Next]_vars

\* Time passes, and a call to Redis ends after its timeout at the latest.
FairSpec ==
  /\ Spec
  /\ WF_vars(Tick)
  /\ \A r \in AuthReqs : WF_vars(Reserve(r) \/ Reserved(r) \/ Store(r) \/ ReleaseOver(r))
  /\ \A q \in Requests : WF_vars(RunCommand(q))
  /\ \A t \in TokReqs : WF_vars(TokenConsume(t) \/ TokenRespond(t))
-----------------------------------------------------------------------------
Granted == {t \in TokReqs : tok[t].at = "granted"}
Holding == {t \in TokReqs : tok[t].at = "holding"}

(* A counter that could keep clients out has a time to live, so that slots *)
(* leaked by lost releases, dead handlers and abandoned codes come back:   *)
(* the comment in _release_capacity relies on it.                          *)
CountersExpire ==
  LET ExpireOnItsWay(on, k) ==
        \E q \in Requests : /\ <<"EXPIRE", on>> \in Range(pipe[q].cmds)
                            /\ on = "key" => KeyOf(q) = k
  IN  /\ pending.n > 0 /\ pending.ttl = Forever => ExpireOnItsWay("all", None)
      /\ \A k \in Keys : perKey[k].n > 0 /\ perKey[k].ttl = Forever => ExpireOnItsWay("key", k)

(* No account is locked out for ever by codes nobody exchanges, releases   *)
(* that got lost or handlers that died after they reserved.                *)
CapacityRecovers ==
  \A a \in Asks : []<>HasCapacity(a.key)

HeldCodes == {tok[t].code : t \in Holding}
LiveAsks ==
  [c \in DOMAIN stored \cup HeldCodes |->
     IF c \in DOMAIN stored THEN stored[c].ask
     ELSE tok[CHOOSE t \in Holding : tok[t].code = c].seen]
MintedCodes == {r \in AuthReqs : auth[r].at \in {"issued", "orphaned"}}
Redemptions ==
  {[code |-> tok[t].code, ask |-> tok[t].seen, by |-> t, with |-> tok[t].with] : t \in Granted}

Ledger == INSTANCE CodeLedger WITH
            Codes <- CodeNames, Redeemers <- TokReqs, Fits <- BoundTo,
            live <- LiveAsks, issued <- MintedCodes, redeemed <- Redemptions

(* Across instances, and whatever calls to Redis are lost, a code is       *)
(* minted once and redeemed at most once, by a bound exchange.  A code     *)
(* taken by GETDEL is with its request until the token response or until   *)
(* the handler dies with it.                                               *)
ImplementsLedger == Ledger!LedgerSpec

(* No account has more than MAX_CODES_PER_API_KEY codes that can still be  *)
(* redeemed (test_per_key_capacity_is_enforced_and_released_on_consume).   *)
PerKeyCapacity ==
  \A k \in Keys : Cardinality({c \in DOMAIN stored : stored[c].ask.key = k}) <= MaxPerKey
=============================================================================
