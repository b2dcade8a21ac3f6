---------------------------- MODULE AuthCodeFlow ----------------------------
(***************************************************************************)
(* The authorization-code flow of one server process in API-key mode:      *)
(* POST /authorize validates the key and mints a code in the in-process    *)
(* AuthorizationCodeStore, POST /token exchanges the code.                 *)
(*                                                                         *)
(* An action is what a handler does between two points where other         *)
(* handlers or the clock may intervene; one call of the store, which holds *)
(* its lock throughout, is never split.  The code minted for a request     *)
(* bears the name of the request: 256 random bits are never minted twice.  *)
(* Expiry is kept as the time a code has left instead of a deadline.       *)
(***************************************************************************)
EXTENDS Grants, Naturals, FiniteSets, Functions

CONSTANTS AuthReqs,       \* POST /authorize requests, and the codes they mint
          TokReqs,        \* POST /token requests, grant_type=authorization_code
          Guesses,        \* codes nobody minted
          Ttl,            \* CODE_TTL_SECONDS
          MaxPending,     \* MAX_PENDING_CODES
          MaxPerKey,      \* MAX_CODES_PER_API_KEY
          MaxSlots        \* MAX_CONCURRENT_VALIDATIONS

ASSUME LimitsAssumption ==
  /\ Ttl \in Nat \ {0}
  /\ MaxPending \in Nat
  /\ MaxPerKey \in Nat
  /\ MaxSlots \in Nat \ {0}

VARIABLES codes,          \* AuthorizationCodeStore._codes
          slots,          \* the value of the _validation_slots semaphore
          auth,           \* where each /authorize request is
          tok             \* where each /token request is

vars == <<codes, slots, auth, tok>>

CodeNames == AuthReqs \cup Guesses

Unsent == [at |-> "idle", ask |-> None]
NotAsked == [at |-> "idle", code |-> None, with |-> None, seen |-> None]
Refused == [at |-> "refused", code |-> None, with |-> None, seen |-> None]
Lost == [at |-> "lost", code |-> None, with |-> None, seen |-> None]

InFlight == {"waiting", "handed", "validating"}
AuthAt == {"waiting", "handed", "validating",
          "issued", "busy", "unavailable", "rejected", "lost"}

TypeOK ==
  /\ DOMAIN codes \subseteq AuthReqs
  /\ codes \in [DOMAIN codes -> [ask : Asks, left : 0..Ttl]]
  /\ slots \in Nat
  /\ auth \in [AuthReqs -> {Unsent} \cup [at : AuthAt, ask : Asks]]
  /\ tok \in [TokReqs -> {NotAsked, Refused, Lost} \cup
                         [at : {"checked", "granted"}, code : AuthReqs,
                          with : Exchanges, seen : Asks]]

Init ==
  /\ codes = [c \in {} |-> None]
  /\ slots = MaxSlots
  /\ auth = [r \in AuthReqs |-> Unsent]
  /\ tok = [t \in TokReqs |-> NotAsked]
-----------------------------------------------------------------------------
(* The store. *)

Unexpired(store) == {c \in DOMAIN store : store[c].left > 0}

NoExpiry(store) == store                            \* mutant
RemoveExpired(store) == Restrict(store, Unexpired(store))

Peek(store, c) == store                             \* mutant
Pop(store, c) == Restrict(store, DOMAIN store \ {c})

CodesOf(store, k) == {c \in DOMAIN store : store[c].ask.key = k}

HasCapacity(store, k) ==
  /\ Cardinality(DOMAIN store) < MaxPending
  /\ Cardinality(CodesOf(store, k)) < MaxPerKey

OutlivesTtl(store, c, a) ==                         \* mutant
  [d \in DOMAIN store \cup {c} |->
     IF d = c THEN [ask |-> a, left |-> Ttl + 1] ELSE store[d]]
Insert(store, c, a) ==
  [d \in DOMAIN store \cup {c} |->
     IF d = c THEN [ask |-> a, left |-> Ttl] ELSE store[d]]
-----------------------------------------------------------------------------
(* POST /authorize. *)

At(r, s) == auth[r].at = s
Waiters == {r \in AuthReqs : At(r, "waiting")}
Handed == {r \in AuthReqs : At(r, "handed")}
Holders == {r \in AuthReqs : At(r, "handed") \/ At(r, "validating")}

\* Semaphore.locked of CPython 3.12: a request that was handed a slot is in the
\* queue until it runs, and nobody overtakes the queue, even when a slot is free
\* by then.
Locked == slots = 0 \/ Waiters \cup Handed # {}

\* Up to the first suspension: the early capacity check, then a free slot is
\* taken at once or the request queues for one.
AuthorizeStart(r, a) ==
  LET kept == RemoveExpired(codes)
      Go(s) == auth' = [auth EXCEPT ![r] = [at |-> s, ask |-> a]]
  IN  /\ At(r, "idle")
      /\ codes' = kept
      /\ \/ /\ ~HasCapacity(kept, a.key)
            /\ Go("busy")
            /\ UNCHANGED slots
         \/ /\ HasCapacity(kept, a.key)
            /\ ~Locked
            /\ Go("validating")
            /\ slots' = slots - 1
         \/ /\ HasCapacity(kept, a.key)
            /\ Locked
            /\ Go("waiting")
            /\ UNCHANGED slots
      /\ UNCHANGED tok

\* Semaphore.release: a waiter, if there is one, is handed the slot; request r,
\* which gives it back, moves on to s.
Release(r, s) ==
  \/ /\ Waiters = {}
     /\ slots' = slots + 1
     /\ auth' = [auth EXCEPT ![r].at = s]
  \/ \E w \in Waiters :
       /\ auth' = [auth EXCEPT ![r].at = s, ![w].at = "handed"]
       /\ UNCHANGED slots

\* The end of Semaphore.acquire: request r leaves the queue for s, and the n
\* slots that are free go to as many of the others as there are slots.
LeaveQueue(r, s, n) ==
  \E W \in SUBSET (Waiters \ {r}), left \in 0..n :
    /\ Cardinality(W) = n - left
    /\ left > 0 => W = Waiters \ {r}
    /\ slots' = left
    /\ auth' = [q \in AuthReqs |->
                  IF q = r THEN [auth[q] EXCEPT !.at = s]
                  ELSE IF q \in W THEN [auth[q] EXCEPT !.at = "handed"]
                  ELSE auth[q]]

\* The task that was handed a slot runs again before its 0.1 s are over.
AcquireReturn(r) ==
  /\ At(r, "handed")
  /\ LeaveQueue(r, "validating", slots)
  /\ UNCHANGED <<codes, tok>>

\* wait_for gives up.  A slot handed over in the meantime is passed on.
SlotTimeout(r) ==
  /\ \/ At(r, "waiting") /\ LeaveQueue(r, "busy", slots)
     \/ At(r, "handed") /\ LeaveQueue(r, "busy", slots + 1)
  /\ UNCHANGED <<codes, tok>>

LeaksOnError(r) ==                                  \* mutant
  /\ At(r, "validating")
  /\ \/ auth' = [auth EXCEPT ![r].at = "unavailable"] /\ UNCHANGED slots
     \/ Release(r, "rejected")
  /\ UNCHANGED <<codes, tok>>

RetriesOnError(r) ==                                \* mutant
  /\ At(r, "validating")
  /\ \E s \in {"waiting", "rejected"} : Release(r, s)
  /\ UNCHANGED <<codes, tok>>

\* validate_api_key raises httpx.HTTPError, or says the key is not good.
ValidationFails(r) ==
  /\ At(r, "validating")
  /\ \E s \in {"unavailable", "rejected"} : Release(r, s)
  /\ UNCHANGED <<codes, tok>>

TrustsEarlyCheck(r) ==                              \* mutant
  /\ At(r, "validating")
  /\ codes' = Insert(RemoveExpired(codes), r, auth[r].ask)
  /\ Release(r, "issued")
  /\ UNCHANGED tok

\* The key is good: the slot goes back and the store mints the code, unless
\* the capacity seen by AuthorizeStart is gone by now.
ValidationSucceeds(r) ==
  LET kept == RemoveExpired(codes)
      a == auth[r].ask
  IN  /\ At(r, "validating")
      /\ \/ /\ HasCapacity(kept, a.key)
            /\ codes' = Insert(kept, r, a)
            /\ Release(r, "issued")
         \/ /\ ~HasCapacity(kept, a.key)
            /\ codes' = kept
            /\ Release(r, "busy")
      /\ UNCHANGED tok
-----------------------------------------------------------------------------
(* POST /token. *)

BurnsOnLookup(t, c, x) ==                           \* mutant
  LET kept == RemoveExpired(codes)
      ok == c \in DOMAIN kept /\ Fits(kept[c].ask, x)
  IN  /\ tok[t].at = "idle"
      /\ codes' = IF ok THEN kept ELSE Pop(kept, c)
      /\ tok' = [tok EXCEPT ![t] =
                   IF ok THEN [at |-> "checked", code |-> c, with |-> x, seen |-> kept[c].ask]
                         ELSE Refused]
      /\ UNCHANGED <<slots, auth>>

TokenLookup(t, c, x) ==
  LET kept == RemoveExpired(codes)
      ok == c \in DOMAIN kept /\ Fits(kept[c].ask, x)
  IN  /\ tok[t].at = "idle"
      /\ codes' = kept
      /\ tok' = [tok EXCEPT ![t] =
                   IF ok THEN [at |-> "checked", code |-> c, with |-> x, seen |-> kept[c].ask]
                         ELSE Refused]
      /\ UNCHANGED <<slots, auth>>

TokenConsume(t) ==
  LET c == tok[t].code
      kept == RemoveExpired(codes)
      ok == c \in DOMAIN kept /\ kept[c].ask = tok[t].seen
  IN  /\ tok[t].at = "checked"
      /\ codes' = Pop(kept, c)
      /\ tok' = [tok EXCEPT ![t] = IF ok THEN [@ EXCEPT !.at = "granted"] ELSE Refused]
      /\ UNCHANGED <<slots, auth>>
-----------------------------------------------------------------------------
Tick ==
  /\ Unexpired(codes) # {}
  /\ codes' = [c \in DOMAIN codes |->
                 [codes[c] EXCEPT !.left = IF @ > 0 THEN @ - 1 ELSE 0]]
  /\ UNCHANGED <<slots, auth, tok>>

\* The process is replaced: pending codes and the requests it serves are gone,
\* the semaphore is new.
Restart ==
  /\ codes' = [c \in {} |-> None]
  /\ slots' = MaxSlots
  /\ auth' = [r \in AuthReqs |->
                IF auth[r].at \in InFlight THEN [auth[r] EXCEPT !.at = "lost"] ELSE auth[r]]
  /\ tok' = [t \in TokReqs |-> IF tok[t].at = "checked" THEN Lost ELSE tok[t]]

Next ==
  \/ \E r \in AuthReqs, a \in Asks : AuthorizeStart(r, a)
  \/ \E r \in AuthReqs : AcquireReturn(r)
  \/ \E r \in AuthReqs : SlotTimeout(r)
  \/ \E r \in AuthReqs : ValidationFails(r)
  \/ \E r \in AuthReqs : ValidationSucceeds(r)
  \/ \E t \in TokReqs, c \in CodeNames, x \in Exchanges : TokenLookup(t, c, x)
  \/ \E t \in TokReqs : TokenConsume(t)
  \/ Tick
  \/ Restart

Spec == Init /\ [][Next]_vars

\* Clients need not send a request.  Once one is sent, asyncio's timers fire,
\* httpx answers or times out after 10 s, runnable tasks run, time passes.
Fairness ==
  /\ \A r \in AuthReqs : /\ WF_vars(AcquireReturn(r) \/ SlotTimeout(r))
                         /\ WF_vars(ValidationFails(r) \/ ValidationSucceeds(r))
  /\ \A t \in TokReqs : WF_vars(TokenConsume(t))
  /\ WF_vars(Tick)

FairSpec == Spec /\ Fairness
-----------------------------------------------------------------------------
Granted == {t \in TokReqs : tok[t].at = "granted"}

(* A code is exchanged for at most one token response, although two        *)
(* requests may both have looked it up before either consumes it           *)
(* (OAuthCompatibilityServer.token: codes.get, then codes.consume).        *)
SingleUse ==
  \A t, u \in Granted : tok[t].code = tok[u].code => t = u

(* No token is issued for a code at or after its deadline, not even when   *)
(* the code was still good at the lookup that preceded (consume).          *)
RedemptionInTime ==
  [][\A t \in Granted' \ Granted : tok[t].code \in Unexpired(codes)]_vars

(* While the process lives, a code leaves the store before its deadline    *)
(* only in exchange for a token: a failed exchange does not burn the code  *)
(* of somebody else.                                                       *)
OnlyRedemptionTakesLiveCode ==
  [][Restart \/ \A c \in Unexpired(codes) \ DOMAIN codes' :
       \E t \in Granted' \ Granted : tok[t].code = c]_vars

(* However /authorize requests overlap, the pending codes stay within      *)
(* MAX_PENDING_CODES and MAX_CODES_PER_API_KEY (issue, not has_capacity,   *)
(* is what enforces it).                                                   *)
CapacityRespected ==
  /\ Cardinality(DOMAIN codes) <= MaxPending
  /\ \A c \in DOMAIN codes : Cardinality(CodesOf(codes, codes[c].ask.key)) <= MaxPerKey

(* Every validation slot is free or with exactly one request, on every     *)
(* path out of the try/finally and when a timeout races the hand-over; and *)
(* nobody queues beside a free slot unless a request that was handed one   *)
(* has yet to run, which then lets the queue move up.                      *)
SlotsConserved ==
  /\ slots + Cardinality(Holders) = MaxSlots
  /\ Waiters # {} /\ slots > 0 => Handed # {}

LiveAsks == [c \in Unexpired(codes) |-> codes[c].ask]
IssuedCodes == {r \in AuthReqs : At(r, "issued")}
Redemptions ==
  {[code |-> tok[t].code, ask |-> tok[t].seen, by |-> t, with |-> tok[t].with] : t \in Granted}

Ledger == INSTANCE CodeLedger WITH
            Codes <- CodeNames, Redeemers <- TokReqs, Fits <- BoundTo,
            live <- LiveAsks, issued <- IssuedCodes, redeemed <- Redemptions

(* Across restarts too, the flow implements the promise about codes:       *)
(* minted once, redeemed at most once, by a bound exchange, with the       *)
(* authorization (and so the API key) they were minted for.                *)
ImplementsLedger == Ledger!LedgerSpec

(* Every /authorize request that was started is answered, or the process   *)
(* dies under it: it cannot be stuck behind the semaphore.                 *)
AuthorizeAnswered ==
  \A r \in AuthReqs : auth[r].at \in InFlight ~> auth[r].at \in AuthAt \ InFlight

(* Codes nobody exchanges do not hold an account's quota for ever: each    *)
(* key has capacity again and again (_remove_expired in has_capacity).     *)
CapacityRecovers ==
  \A a \in Asks : []<>HasCapacity(RemoveExpired(codes), a.key)
=============================================================================
