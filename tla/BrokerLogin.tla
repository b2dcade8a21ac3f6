----------------------------- MODULE BrokerLogin -----------------------------
(***************************************************************************)
(* Account login in broker mode.  GET /authorize starts a login: it leaves *)
(* a nonce in the browser's LOGIN_COOKIE and sends the browser to Magic    *)
(* Hour with the request sealed in the state parameter.  The callback      *)
(* checks both, exchanges the upstream code, and mints a code of this      *)
(* server.  The server keeps nothing between the two requests.             *)
(*                                                                         *)
(* A login bears its own name as nonce and PKCE verifier, and a callback   *)
(* suspends only while it exchanges the upstream code.  The code store of  *)
(* AuthCodeFlow and RedisCodeFlow is reduced to what issue can do: mint,   *)
(* be out of capacity, or fail with an exception nobody catches.           *)
(***************************************************************************)
EXTENDS Naturals, FiniteSets

CONSTANTS Browsers, Logins, Callbacks, Accounts, None,
          UpCodes,        \* authorization codes Magic Hour makes
          PendingTtl      \* PENDING_LOGIN_TTL_SECONDS, of state and cookie

ASSUME LoginAssumption ==
  /\ PendingTtl \in Nat \ {0}
  /\ None \notin Browsers \cup Logins \cup UpCodes

VARIABLES cookie,         \* LOGIN_COOKIE of each browser
          login,          \* the login each sealed state stands for
          upstream,       \* Magic Hour: what it made each of its codes for
          callback,       \* where each callback request is
          latest          \* history: the login last started in each browser

vars == <<cookie, login, upstream, callback, latest>>

NotStarted == [browser |-> None, left |-> 0]
NotMade == [is |-> "unmade", login |-> None, account |-> None]
NotCalled == [at |-> "idle", login |-> None, browser |-> None, code |-> None, account |-> None]

Started == [browser : Browsers, left : 0..PendingTtl]
Made == [is : {"fresh", "spent"}, login : Logins, account : Accounts]
Callback == [at : {"idle", "exchanging", "refused", "failed", "crashed", "issued"},
             login : Logins \cup {None}, browser : Browsers \cup {None},
             code : UpCodes \cup {None}, account : Accounts \cup {None}]

TypeOK ==
  /\ cookie \in [Browsers -> Logins \cup {None}]
  /\ login \in [Logins -> {NotStarted} \cup Started]
  /\ upstream \in [UpCodes -> {NotMade} \cup Made]
  /\ callback \in [Callbacks -> Callback]
  /\ latest \in [Browsers -> Logins \cup {None}]

Init ==
  /\ cookie = [b \in Browsers |-> None]
  /\ login = [l \in Logins |-> NotStarted]
  /\ upstream = [u \in UpCodes |-> NotMade]
  /\ callback = [c \in Callbacks |-> NotCalled]
  /\ latest = [b \in Browsers |-> None]
-----------------------------------------------------------------------------
TtlInMinutes(b) == [browser |-> b, left |-> 60 * PendingTtl]  \* mutant
\* begin_login seals the request, the hash of the nonce and the PKCE verifier.
SealedState(b) == [browser |-> b, left |-> PendingTtl]

\* GET /authorize: a new nonce overwrites the cookie of an earlier login.
Authorize(b, l) ==
  /\ login[l] = NotStarted
  /\ login' = [login EXCEPT ![l] = SealedState(b)]
  /\ cookie' = [cookie EXCEPT ![b] = l]
  /\ latest' = [latest EXCEPT ![b] = l]
  /\ UNCHANGED <<upstream, callback>>

(* Magic Hour: somebody signs in on the page the state leads to, maybe not *)
(* for the first time.                                                     *)
SignIn(l, a, u) ==
  /\ login[l] # NotStarted
  /\ upstream[u] = NotMade
  /\ upstream' = [upstream EXCEPT ![u] = [is |-> "fresh", login |-> l, account |-> a]]
  /\ UNCHANGED <<cookie, login, callback, latest>>
-----------------------------------------------------------------------------
(* GET on the callback path: a browser brings the state of login l and the *)
(* code u, or an error.  Redirects and reloads can bring any.              *)

\* The nonce of the cookie hashes to the one in the sealed state.
NonceMatches(b, l) == cookie[b] = l

StateOpens(l) == login[l].left > 0

\* Every answer that sends the browser back to the client deletes the cookie,
\* whichever login put it there.
KeepsCookie(b) == cookie                            \* mutant
DeleteCookie(b) == [cookie EXCEPT ![b] = None]

RefusalDeletes(c, b, l, u) ==                       \* mutant
  /\ callback[c] = NotCalled
  /\ ~(StateOpens(l) /\ NonceMatches(b, l))
  /\ callback' = [callback EXCEPT ![c] = [@ EXCEPT !.at = "refused"]]
  /\ cookie' = DeleteCookie(b)
  /\ UNCHANGED <<login, upstream, latest>>

CallbackStart(c, b, l, u) ==
  /\ callback[c] = NotCalled
  /\ \/ /\ StateOpens(l) /\ NonceMatches(b, l)
        /\ u # None
        /\ callback' = [callback EXCEPT ![c] =
                          [@ EXCEPT !.at = "exchanging", !.login = l, !.browser = b, !.code = u]]
        /\ UNCHANGED cookie
     \/ /\ StateOpens(l) /\ NonceMatches(b, l)
        /\ u = None
        /\ callback' = [callback EXCEPT ![c] = [@ EXCEPT !.at = "failed", !.login = l, !.browser = b]]
        /\ cookie' = DeleteCookie(b)
     \/ /\ ~(StateOpens(l) /\ NonceMatches(b, l))
        /\ callback' = [callback EXCEPT ![c] = [@ EXCEPT !.at = "refused"]]
        /\ UNCHANGED cookie
  /\ UNCHANGED <<login, upstream, latest>>

(* Magic Hour's token endpoint: a fresh code is spent and yields a token   *)
(* for its account if the verifier is that of the login it was made for.   *)
AnyVerifier(u, l) == upstream[u].is = "fresh"       \* mutant
Redeemable(u, l) == upstream[u].is = "fresh" /\ upstream[u].login = l

SpendCode(u) == upstream' = [upstream EXCEPT ![u].is = "spent"]

Finish(c, s, a) ==
  /\ callback' = [callback EXCEPT ![c].at = s, ![c].account = a]
  /\ cookie' = DeleteCookie(callback[c].browser)
  /\ UNCHANGED <<login, latest>>

\* exchange_code succeeds, then codes.issue: issued, out of capacity, or an
\* exception of the shared store, which leaves the cookie where it is.
ExchangeSucceeds(c) ==
  LET u == callback[c].code
  IN  /\ callback[c].at = "exchanging"
      /\ Redeemable(u, callback[c].login)
      /\ SpendCode(u)
      /\ \/ Finish(c, "issued", upstream[u].account)
         \/ Finish(c, "failed", None)
         \/ /\ callback' = [callback EXCEPT ![c].at = "crashed"]
            /\ UNCHANGED <<cookie, login, latest>>

\* exchange_code raises: refused upstream, or the call or its answer is lost.
ExchangeFails(c) ==
  LET u == callback[c].code
  IN  /\ callback[c].at = "exchanging"
      /\ \/ UNCHANGED upstream
         \/ Redeemable(u, callback[c].login) /\ SpendCode(u)
      /\ Finish(c, "failed", None)
-----------------------------------------------------------------------------
(* Sealed states and cookies expire together. *)
Tick ==
  /\ \E l \in Logins : login[l].left > 0
  /\ login' = [l \in Logins |-> IF login[l].left > 0
                                THEN [login[l] EXCEPT !.left = @ - 1] ELSE login[l]]
  /\ cookie' = [b \in Browsers |-> IF cookie[b] \in Logins /\ login'[cookie[b]].left = 0
                                   THEN None ELSE cookie[b]]
  /\ UNCHANGED <<upstream, callback, latest>>

Next ==
  \/ \E b \in Browsers, l \in Logins : Authorize(b, l)
  \/ \E l \in Logins, a \in Accounts, u \in UpCodes : SignIn(l, a, u)
  \/ \E c \in Callbacks, b \in Browsers, l \in Logins, u \in UpCodes \cup {None} :
       CallbackStart(c, b, l, u)
  \/ \E c \in Callbacks : ExchangeSucceeds(c)
  \/ \E c \in Callbacks : ExchangeFails(c)
  \/ Tick

Spec == Init /\ [][Next]_vars
-----------------------------------------------------------------------------
Issued == {c \in Callbacks : callback[c].at = "issued"}
Answered == {c \in Callbacks : callback[c].at \in {"issued", "failed"}}

(* A code is only ever minted in the browser that started the login, and   *)
(* for an account that signed in to that very login: callbacks with the    *)
(* state or the code of another login do not mix sessions up.              *)
SessionsNotMixed ==
  \A c \in Issued :
    /\ callback[c].browser = login[callback[c].login].browser
    /\ \E u \in UpCodes : /\ upstream[u].login = callback[c].login
                          /\ upstream[u].account = callback[c].account

(* A login that can still be completed loses its cookie only to a newer    *)
(* login of its browser or to an answer its browser got: a callback that   *)
(* is refused, of an old login, with the state of another browser or with  *)
(* one that has expired, and a code store that fails cost it nothing.      *)
CookieLostForCause ==
  \A l \in Logins :
    LET b == login[l].browser
    IN  StateOpens(l) /\ cookie[b] # l =>
          latest[b] # l \/ \E c \in Answered : callback[c].browser = b

(* Once a callback of a login was answered with a redirect to the client,  *)
(* the login's cookie is gone for good: whoever signs in again or reloads  *)
(* the callback with its state gets nowhere.                               *)
AnsweredLoginIsOver ==
  \A c \in Answered : \A b \in Browsers : cookie[b] # callback[c].login

(* Only the latest login started in a browser can complete                 *)
(* (CURRENT-STATUS.md).                                                    *)
OnlyLatestLoginCompletes ==
  [][\A c \in Issued' \ Issued : latest[callback[c].browser] = callback[c].login]_vars
=============================================================================
