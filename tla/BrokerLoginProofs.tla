-------------------------- MODULE BrokerLoginProofs --------------------------
(***************************************************************************)
(* Proofs about BrokerLogin, for any numbers of browsers, logins,          *)
(* callbacks, accounts and upstream codes.                                 *)
(*                                                                         *)
(* Everything follows from where a nonce can be: in the cookie of the      *)
(* browser that started its login, and nowhere else.  So a callback that   *)
(* got past the nonce is of that browser, and deleting the cookie of its   *)
(* browser deletes every trace of its login.                               *)
(***************************************************************************)
EXTENDS BrokerLogin, TLAPS

NonceAtHome ==
  \A b \in Browsers : cookie[b] # None => login[cookie[b]].browser = b

Known == {"exchanging", "failed", "crashed", "issued"}

CallbackAtHome ==
  \A c \in Callbacks : callback[c].at \in Known =>
    /\ callback[c].login \in Logins
    /\ callback[c].browser \in Browsers
    /\ callback[c].browser = login[callback[c].login].browser
    /\ callback[c].at = "exchanging" => callback[c].code \in UpCodes

Inv ==
  /\ TypeOK
  /\ NonceAtHome
  /\ CallbackAtHome
  /\ SessionsNotMixed
  /\ AnsweredLoginIsOver
  /\ CookieLostForCause

LEMMA InitOK == Init => Inv
<1>. SUFFICES ASSUME Init PROVE Inv
  OBVIOUS
<1>1. TypeOK
  BY LoginAssumption DEF Init, TypeOK, NotCalled, Callback
<1>2. \A c \in Callbacks : callback[c].at = "idle"
  BY DEF Init, NotCalled
<1>3. \A l \in Logins : login[l].left = 0
  BY DEF Init, NotStarted
<1>. QED
  BY <1>1, <1>2, <1>3 DEF Init, Inv, NonceAtHome, CallbackAtHome, Known, SessionsNotMixed,
     Issued, AnsweredLoginIsOver, Answered, CookieLostForCause, StateOpens

(* What a state that has been sealed, or a code that Magic Hour has made,  *)
(* is told from.                                                           *)
LEMMA Distinct ==
  /\ \A s \in Started : s # NotStarted /\ s.browser \in Browsers
  /\ \A m \in Made : m # NotMade /\ m.login \in Logins
  /\ NotMade.login = None /\ NotStarted.left = 0 /\ NotStarted.browser = None
BY LoginAssumption DEF Started, NotStarted, Made, NotMade

LEMMA AuthorizeOK ==
  ASSUME Inv, NEW b \in Browsers, NEW l \in Logins, Authorize(b, l)
  PROVE  Inv'
<1>1. /\ login[l] = NotStarted /\ login' = [login EXCEPT ![l] = SealedState(b)]
      /\ cookie' = [cookie EXCEPT ![b] = l] /\ latest' = [latest EXCEPT ![b] = l]
      /\ upstream' = upstream /\ callback' = callback
  BY DEF Authorize
<1>2. SealedState(b) \in Started /\ SealedState(b).browser = b
  BY LoginAssumption DEF SealedState, Started
<1>3. TypeOK'
  BY <1>1, <1>2 DEF Inv, TypeOK
<1>4. \A k \in Logins : k # l => login'[k] = login[k]
  BY <1>1 DEF Inv, TypeOK
<1>5. login'[l].browser = b
  BY <1>1, <1>2 DEF Inv, TypeOK
<1>6. \A d \in Browsers : cookie[d] # l
  BY <1>1, LoginAssumption, Distinct DEF Inv, TypeOK, NonceAtHome
<1>7. \A c \in Callbacks : callback[c].at \in Known => callback[c].login # l
  BY <1>1, LoginAssumption, Distinct DEF Inv, CallbackAtHome
<1>8. NonceAtHome'
  <2>. SUFFICES ASSUME NEW d \in Browsers, cookie'[d] # None
                PROVE  login'[cookie'[d]].browser = d
    BY DEF NonceAtHome
  <2>1. CASE d = b
    BY <2>1, <1>1, <1>5 DEF Inv, TypeOK
  <2>2. CASE d # b
    BY <2>2, <1>1, <1>4, <1>6 DEF Inv, TypeOK, NonceAtHome
  <2>. QED
    BY <2>1, <2>2
<1>9. CallbackAtHome'
  BY <1>1, <1>4, <1>7 DEF Inv, CallbackAtHome
<1>10. Issued' = Issued /\ Answered' = Answered
  BY <1>1 DEF Issued, Answered
<1>11. SessionsNotMixed'
  BY <1>1, <1>4, <1>7, <1>10 DEF Inv, SessionsNotMixed, Issued, Known, CallbackAtHome
<1>12. AnsweredLoginIsOver'
  <2>. SUFFICES ASSUME NEW c \in Answered, NEW d \in Browsers
                PROVE  cookie'[d] # callback[c].login
    BY <1>1, <1>10 DEF AnsweredLoginIsOver
  <2>1. callback[c].login # l
    BY <1>7 DEF Answered, Known
  <2>. QED
    BY <1>1, <2>1 DEF Inv, TypeOK, AnsweredLoginIsOver
<1>13. CookieLostForCause'
  <2>. SUFFICES ASSUME NEW k \in Logins, StateOpens(k)', cookie'[login'[k].browser] # k
                PROVE  \/ latest'[login'[k].browser] # k
                       \/ \E c \in Answered : callback[c].browser = login'[k].browser
    BY <1>1, <1>10 DEF CookieLostForCause
  <2>1. k # l
    BY <1>1, <1>5 DEF Inv, TypeOK
  <2>2. login'[k] = login[k] /\ StateOpens(k) /\ login[k].browser \in Browsers
    BY <1>4, <2>1, Distinct DEF StateOpens, Inv, TypeOK
  <2>3. CASE login[k].browser = b
    BY <1>1, <2>1, <2>2, <2>3 DEF Inv, TypeOK
  <2>4. CASE login[k].browser # b
    BY <1>1, <2>2, <2>4 DEF Inv, TypeOK, CookieLostForCause
  <2>. QED
    BY <2>3, <2>4
<1>. QED
  BY <1>3, <1>8, <1>9, <1>11, <1>12, <1>13 DEF Inv

LEMMA SignInOK ==
  ASSUME Inv, NEW l \in Logins, NEW a \in Accounts, NEW u \in UpCodes, SignIn(l, a, u)
  PROVE  Inv'
<1>1. /\ upstream[u] = NotMade
      /\ upstream' = [upstream EXCEPT ![u] = [is |-> "fresh", login |-> l, account |-> a]]
      /\ cookie' = cookie /\ login' = login /\ callback' = callback /\ latest' = latest
  BY DEF SignIn
<1>2. TypeOK'
  BY <1>1 DEF Inv, TypeOK, Made
<1>3. SessionsNotMixed'
  <2>. SUFFICES ASSUME NEW c \in Issued
                PROVE  /\ callback[c].browser = login[callback[c].login].browser
                       /\ \E v \in UpCodes : /\ upstream'[v].login = callback[c].login
                                             /\ upstream'[v].account = callback[c].account
    BY <1>1 DEF SessionsNotMixed, Issued
  <2>1. PICK v \in UpCodes : /\ upstream[v].login = callback[c].login
                             /\ upstream[v].account = callback[c].account
    BY DEF Inv, SessionsNotMixed
  <2>2. callback[c].login \in Logins
    BY DEF Inv, CallbackAtHome, Issued, Known
  <2>3. v # u
    BY <1>1, <2>1, <2>2, LoginAssumption, Distinct
  <2>4. upstream'[v] = upstream[v]
    BY <1>1, <2>3 DEF Inv, TypeOK
  <2>. QED
    BY <2>1, <2>4 DEF Inv, SessionsNotMixed
<1>. QED
  BY <1>1, <1>2, <1>3 DEF Inv, NonceAtHome, CallbackAtHome, AnsweredLoginIsOver, Answered,
     CookieLostForCause, StateOpens

(* What every step of a callback has in common: the one callback it moves  *)
(* on stays at home, and one that is answered takes the cookie of its      *)
(* browser with it.                                                        *)
LEMMA CallbackMoves ==
  ASSUME Inv, NEW c \in Callbacks, NEW new \in Callback,
         callback' = [callback EXCEPT ![c] = new],
         UNCHANGED <<login, latest>>,
         upstream' \in [UpCodes -> {NotMade} \cup Made],
         \A u \in UpCodes : upstream'[u].login = upstream[u].login
                            /\ upstream'[u].account = upstream[u].account,
         callback[c].at \in {"idle", "exchanging"},
         new.at \in Known => /\ new.login \in Logins
                             /\ new.browser \in Browsers
                             /\ new.browser = login[new.login].browser
                             /\ new.at = "exchanging" => new.code \in UpCodes,
         new.at = "issued" => \E u \in UpCodes : /\ upstream[u].login = new.login
                                                 /\ upstream[u].account = new.account,
         IF new.at \in {"issued", "failed"} THEN cookie' = DeleteCookie(new.browser)
                                            ELSE cookie' = cookie
  PROVE  Inv'
<1>1. /\ login' = login /\ latest' = latest
      /\ callback'[c] = new
      /\ \A d \in Callbacks : d # c => callback'[d] = callback[d]
  BY DEF Inv, TypeOK
<1>2. \A b \in Browsers : cookie'[b] = cookie[b] \/ cookie'[b] = None
  BY DEF Inv, TypeOK, DeleteCookie
<1>3. c \notin Answered /\ c \notin Issued /\ callback[c].at # "failed"
  BY DEF Answered, Issued
<1>4. TypeOK'
  <2>1. cookie' \in [Browsers -> Logins \cup {None}]
    BY DEF Inv, TypeOK, DeleteCookie
  <2>. QED
    BY <2>1 DEF Inv, TypeOK
<1>5. NonceAtHome'
  BY <1>1, <1>2 DEF Inv, NonceAtHome
<1>6. CallbackAtHome'
  <2>. SUFFICES ASSUME NEW d \in Callbacks, callback'[d].at \in Known
                PROVE  /\ callback'[d].login \in Logins
                       /\ callback'[d].browser \in Browsers
                       /\ callback'[d].browser = login[callback'[d].login].browser
                       /\ callback'[d].at = "exchanging" => callback'[d].code \in UpCodes
    BY <1>1 DEF CallbackAtHome
  <2>. QED
    BY <1>1 DEF Inv, CallbackAtHome
<1>7. SessionsNotMixed'
  <2>. SUFFICES ASSUME NEW d \in Callbacks, callback'[d].at = "issued"
                PROVE  /\ callback'[d].browser = login[callback'[d].login].browser
                       /\ \E u \in UpCodes : /\ upstream'[u].login = callback'[d].login
                                             /\ upstream'[u].account = callback'[d].account
    BY <1>1 DEF SessionsNotMixed, Issued
  <2>1. CASE d = c
    BY <2>1, <1>1 DEF Known
  <2>2. CASE d # c
    BY <2>2, <1>1 DEF Inv, SessionsNotMixed, Issued
  <2>. QED
    BY <2>1, <2>2
<1>8. AnsweredLoginIsOver'
  <2>. SUFFICES ASSUME NEW d \in Callbacks, callback'[d].at \in {"issued", "failed"}, NEW b \in Browsers
                PROVE  cookie'[b] # callback'[d].login
    BY DEF AnsweredLoginIsOver, Answered
  <2>1. callback'[d].login \in Logins
    BY <1>6 DEF CallbackAtHome, Known
  <2>2. CASE d # c
    BY <1>1, <1>2, <2>1, <2>2, LoginAssumption DEF Inv, AnsweredLoginIsOver, Answered
  <2>3. CASE d = c
    <3>1. cookie' = DeleteCookie(new.browser) /\ new.browser = login[new.login].browser
      BY <1>1, <2>3 DEF Known
    <3>2. CASE b = new.browser
      BY <1>1, <2>1, <2>3, <3>1, <3>2, LoginAssumption DEF DeleteCookie, Inv, TypeOK
    <3>3. CASE b # new.browser
      BY <1>1, <2>1, <2>3, <3>1, <3>3, LoginAssumption DEF DeleteCookie, Inv, TypeOK, NonceAtHome
    <3>. QED
      BY <3>2, <3>3
  <2>. QED
    BY <2>2, <2>3
<1>9. CookieLostForCause'
  <2>. SUFFICES ASSUME NEW k \in Logins, StateOpens(k), cookie'[login[k].browser] # k,
                       latest[login[k].browser] = k
                PROVE  \E d \in Answered' : callback'[d].browser = login[k].browser
    BY <1>1 DEF CookieLostForCause, StateOpens
  <2>1. CASE cookie[login[k].browser] # k
    <3>1. PICK d \in Answered : callback[d].browser = login[k].browser
      BY <2>1 DEF Inv, CookieLostForCause
    <3>. QED
      BY <1>1, <1>3, <3>1 DEF Answered
  <2>2. CASE cookie[login[k].browser] = k
    <3>1. login[k].browser \in Browsers
      BY Distinct DEF StateOpens, Inv, TypeOK
    <3>2. new.at \in {"issued", "failed"} /\ login[k].browser = new.browser
      BY <2>2, <3>1 DEF DeleteCookie, Inv, TypeOK
    <3>. QED
      BY <1>1, <3>2 DEF Answered
  <2>. QED
    BY <2>1, <2>2
<1>. QED
  BY <1>4, <1>5, <1>6, <1>7, <1>8, <1>9 DEF Inv

LEMMA CallbackStartOK ==
  ASSUME Inv, NEW c \in Callbacks, NEW b \in Browsers, NEW l \in Logins,
         NEW u \in UpCodes \cup {None}, CallbackStart(c, b, l, u)
  PROVE  Inv'
<1>. DEFINE Exchanging == [callback[c] EXCEPT !.at = "exchanging", !.login = l, !.browser = b, !.code = u]
            Unanswered == [callback[c] EXCEPT !.at = "failed", !.login = l, !.browser = b]
            Turned == [callback[c] EXCEPT !.at = "refused"]
<1>1. /\ callback[c] = NotCalled /\ UNCHANGED <<login, upstream, latest>>
      /\ callback[c].at = "idle"
  BY DEF CallbackStart, NotCalled
<1>2. /\ upstream' \in [UpCodes -> {NotMade} \cup Made]
      /\ \A v \in UpCodes : /\ upstream'[v].login = upstream[v].login
                            /\ upstream'[v].account = upstream[v].account
  BY <1>1 DEF Inv, TypeOK
<1>3. NonceMatches(b, l) => login[l].browser = b
  BY LoginAssumption DEF NonceMatches, Inv, NonceAtHome
<1>4. callback[c] \in Callback
  BY DEF Inv, TypeOK
<1>5. CASE NonceMatches(b, l) /\ u # None /\ cookie' = cookie
           /\ callback' = [callback EXCEPT ![c] = Exchanging]
  <2>1. /\ Exchanging \in Callback /\ Exchanging.at = "exchanging"
        /\ Exchanging.login = l /\ Exchanging.browser = b /\ Exchanging.code = u
    BY <1>4 DEF Callback
  <2>. HIDE DEF Exchanging
  <2>. QED
    BY <1>1, <1>2, <1>3, <1>5, <2>1, CallbackMoves DEF Known
<1>6. CASE NonceMatches(b, l) /\ cookie' = DeleteCookie(b)
           /\ callback' = [callback EXCEPT ![c] = Unanswered]
  <2>1. /\ Unanswered \in Callback /\ Unanswered.at = "failed"
        /\ Unanswered.login = l /\ Unanswered.browser = b
    BY <1>4 DEF Callback
  <2>. HIDE DEF Unanswered
  <2>. QED
    BY <1>1, <1>2, <1>3, <1>6, <2>1, CallbackMoves DEF Known
<1>7. CASE cookie' = cookie /\ callback' = [callback EXCEPT ![c] = Turned]
  <2>1. Turned \in Callback /\ Turned.at = "refused"
    BY <1>4 DEF Callback
  <2>. HIDE DEF Turned
  <2>. QED
    BY <1>1, <1>2, <1>7, <2>1, CallbackMoves DEF Known
<1>. QED
  BY <1>5, <1>6, <1>7 DEF CallbackStart

LEMMA ExchangeOK ==
  ASSUME Inv, NEW c \in Callbacks, ExchangeSucceeds(c) \/ ExchangeFails(c)
  PROVE  Inv'
<1>. DEFINE u == callback[c].code
            Next1(s, a) == [callback[c] EXCEPT !.at = s, !.account = a]
<1>1. /\ callback[c].at = "exchanging" /\ callback[c] \in Callback
      /\ callback[c].login \in Logins /\ callback[c].browser \in Browsers
      /\ callback[c].browser = login[callback[c].login].browser
      /\ u \in UpCodes
  BY DEF ExchangeSucceeds, ExchangeFails, Inv, TypeOK, CallbackAtHome, Known
<1>2. UNCHANGED <<login, latest>>
  BY DEF ExchangeSucceeds, ExchangeFails, Finish
<1>3. upstream' = upstream \/ (Redeemable(u, callback[c].login) /\ SpendCode(u))
  <2>1. CASE ExchangeSucceeds(c)
    BY <2>1 DEF ExchangeSucceeds
  <2>2. CASE ExchangeFails(c)
    BY <2>2 DEF ExchangeFails
  <2>. QED
    BY <2>1, <2>2
<1>4. /\ upstream' \in [UpCodes -> {NotMade} \cup Made]
      /\ \A v \in UpCodes : /\ upstream'[v].login = upstream[v].login
                            /\ upstream'[v].account = upstream[v].account
  <2>1. Redeemable(u, callback[c].login) => upstream[u] \in Made
    BY <1>1 DEF Redeemable, Inv, TypeOK, NotMade
  <2>2. CASE upstream' = upstream
    BY <2>2 DEF Inv, TypeOK
  <2>3. CASE upstream[u] \in Made /\ upstream' = [upstream EXCEPT ![u].is = "spent"]
    <3>1. upstream \in [UpCodes -> {NotMade} \cup Made]
      BY DEF Inv, TypeOK
    <3>2. /\ upstream'[u] = [upstream[u] EXCEPT !.is = "spent"]
          /\ \A v \in UpCodes : v # u => upstream'[v] = upstream[v]
      BY <1>1, <2>3, <3>1
    <3>3. /\ upstream'[u] \in Made /\ upstream'[u].login = upstream[u].login
          /\ upstream'[u].account = upstream[u].account
      BY <2>3, <3>2 DEF Made
    <3>. QED
      BY <1>1, <2>3, <3>1, <3>2, <3>3
  <2>. QED
    BY <1>3, <2>1, <2>2, <2>3 DEF SpendCode
<1>5. ASSUME NEW s \in {"issued", "failed", "crashed"}, NEW a \in Accounts \cup {None},
             callback' = [callback EXCEPT ![c] = Next1(s, a)],
             s = "issued" => upstream[u].login = callback[c].login /\ upstream[u].account = a,
             cookie' = IF s = "crashed" THEN cookie ELSE DeleteCookie(callback[c].browser)
      PROVE  Inv'
  <2>. DEFINE new == Next1(s, a)
  <2>1. /\ new \in Callback /\ new.at = s /\ new.account = a
        /\ new.login = callback[c].login /\ new.browser = callback[c].browser
    BY <1>1 DEF Callback
  <2>2. new.at = "issued" => \E v \in UpCodes : /\ upstream[v].login = new.login
                                                /\ upstream[v].account = new.account
    BY <1>1, <1>5, <2>1
  <2>3. callback' = [callback EXCEPT ![c] = new]
    BY <1>5
  <2>. HIDE DEF new, Next1
  <2>4. new.at \in Known => /\ new.login \in Logins
                            /\ new.browser \in Browsers
                            /\ new.browser = login[new.login].browser
                            /\ new.at = "exchanging" => new.code \in UpCodes
    BY <1>1, <1>5, <2>1
  <2>5. IF new.at \in {"issued", "failed"} THEN cookie' = DeleteCookie(new.browser)
                                           ELSE cookie' = cookie
    BY <1>5, <2>1
  <2>. QED
    BY <1>1, <1>2, <1>4, <2>1, <2>2, <2>3, <2>4, <2>5, CallbackMoves
<1>6. callback \in [Callbacks -> Callback]
  BY DEF Inv, TypeOK
<1>7. CASE ExchangeFails(c)
  <2>1. callback' = [callback EXCEPT ![c] = Next1("failed", None)]
    BY <1>6, <1>7 DEF ExchangeFails, Finish
  <2>2. cookie' = DeleteCookie(callback[c].browser)
    BY <1>7 DEF ExchangeFails, Finish
  <2>. QED
    BY <1>5, <2>1, <2>2
<1>8. CASE ExchangeSucceeds(c)
  <2>1. upstream[u].login = callback[c].login /\ upstream[u].account \in Accounts
    <3>1. upstream[u].is = "fresh" /\ upstream[u].login = callback[c].login
      BY <1>8 DEF ExchangeSucceeds, Redeemable
    <3>2. upstream[u] \in Made
      BY <1>1, <3>1 DEF Inv, TypeOK, NotMade
    <3>. QED
      BY <3>1, <3>2 DEF Made
  <2>2. CASE Finish(c, "issued", upstream[u].account)
    <3>1. callback' = [callback EXCEPT ![c] = Next1("issued", upstream[u].account)]
      BY <1>6, <2>2 DEF Finish
    <3>2. cookie' = DeleteCookie(callback[c].browser)
      BY <2>2 DEF Finish
    <3>. QED
      BY <1>5, <2>1, <3>1, <3>2
  <2>3. CASE Finish(c, "failed", None)
    <3>1. callback' = [callback EXCEPT ![c] = Next1("failed", None)]
      BY <1>6, <2>3 DEF Finish
    <3>2. cookie' = DeleteCookie(callback[c].browser)
      BY <2>3 DEF Finish
    <3>. QED
      BY <1>5, <3>1, <3>2
  <2>4. CASE callback' = [callback EXCEPT ![c].at = "crashed"] /\ UNCHANGED cookie
    <3>1. callback' = [callback EXCEPT ![c] = Next1("crashed", callback[c].account)]
      BY <1>1, <1>6, <2>4 DEF Callback
    <3>2. callback[c].account \in Accounts \cup {None}
      BY <1>1 DEF Callback
    <3>. QED
      BY <1>5, <2>4, <3>1, <3>2
  <2>. QED
    BY <1>8, <2>2, <2>3, <2>4 DEF ExchangeSucceeds
<1>. QED
  BY <1>7, <1>8

LEMMA TickOK ==
  ASSUME Inv, Tick
  PROVE  Inv'
<1>1. /\ upstream' = upstream /\ callback' = callback /\ latest' = latest
      /\ login' = [l \in Logins |-> IF login[l].left > 0
                                    THEN [login[l] EXCEPT !.left = @ - 1] ELSE login[l]]
      /\ cookie' = [b \in Browsers |-> IF cookie[b] \in Logins /\ login'[cookie[b]].left = 0
                                       THEN None ELSE cookie[b]]
  BY DEF Tick
<1>2. ASSUME NEW l \in Logins
      PROVE  /\ login'[l] \in {NotStarted} \cup Started
             /\ login'[l].browser = login[l].browser
             /\ login'[l].left > 0 => login[l].left > 0
  <2>1. login[l] \in {NotStarted} \cup Started
    BY DEF Inv, TypeOK
  <2>2. CASE login[l].left > 0
    <3>1. login[l] \in Started
      BY <2>1, <2>2, Distinct
    <3>2. login'[l] = [login[l] EXCEPT !.left = @ - 1]
      BY <1>1, <2>2
    <3>. QED
      BY <2>2, <3>1, <3>2, LoginAssumption DEF Started
  <2>3. CASE ~(login[l].left > 0)
    BY <1>1, <2>1, <2>3
  <2>. QED
    BY <2>2, <2>3
<1>3. \A b \in Browsers : cookie'[b] = cookie[b] \/ cookie'[b] = None
  BY <1>1
<1>4. TypeOK'
  BY <1>1, <1>2 DEF Inv, TypeOK
<1>5. NonceAtHome'
  BY <1>2, <1>3 DEF Inv, TypeOK, NonceAtHome
<1>6. CallbackAtHome'
  BY <1>1, <1>2 DEF Inv, CallbackAtHome
<1>7. SessionsNotMixed'
  BY <1>1, <1>2 DEF Inv, SessionsNotMixed, Issued, CallbackAtHome, Known
<1>8. AnsweredLoginIsOver'
  BY <1>1, <1>3, LoginAssumption DEF Inv, AnsweredLoginIsOver, Answered, CallbackAtHome, Known
<1>9. CookieLostForCause'
  <2>a. Answered' = Answered /\ \A d \in Answered : callback'[d].browser = callback[d].browser
    BY <1>1 DEF Answered
  <2>b. SUFFICES ASSUME NEW k \in Logins, StateOpens(k)', cookie'[login'[k].browser] # k,
                        latest'[login'[k].browser] = k
                 PROVE  \E d \in Answered' : callback'[d].browser = login'[k].browser
    BY DEF CookieLostForCause
  <2>c. login'[k].browser = login[k].browser
    BY <1>2
  <2>1. login'[k].left > 0 /\ StateOpens(k) /\ login[k].browser \in Browsers
    BY <1>2, <2>b, Distinct DEF StateOpens, Inv, TypeOK
  <2>2. cookie[login[k].browser] # k
    BY <1>1, <2>1, <2>b, <2>c
  <2>3. latest[login[k].browser] = k
    BY <1>1, <2>b, <2>c
  <2>4. PICK d \in Answered : callback[d].browser = login[k].browser
    BY <2>1, <2>2, <2>3 DEF Inv, CookieLostForCause
  <2>. QED
    BY <2>a, <2>c, <2>4
<1>. QED
  BY <1>4, <1>5, <1>6, <1>7, <1>8, <1>9 DEF Inv

LEMMA Invariance == Spec => []Inv
<1>1. Inv /\ [Next]_vars => Inv'
  <2>. SUFFICES ASSUME Inv, [Next]_vars PROVE Inv'
    OBVIOUS
  <2>1. CASE UNCHANGED vars
    BY <2>1 DEF vars, Inv, TypeOK, NonceAtHome, CallbackAtHome, SessionsNotMixed, Issued,
       AnsweredLoginIsOver, Answered, CookieLostForCause, StateOpens
  <2>. QED
    BY <2>1, AuthorizeOK, SignInOK, CallbackStartOK, ExchangeOK, TickOK DEF Next
<1>. QED
  BY <1>1, InitOK, PTL DEF Spec

(* The types hold for all values of the constants.                         *)
THEOREM TypeCorrect == Spec => []TypeOK
<1>1. Inv => TypeOK
  BY DEF Inv
<1>. QED
  BY <1>1, Invariance, PTL

(* Whatever states and codes callbacks bring, a code of this server is     *)
(* minted in the browser and for the account of one and the same login.    *)
THEOREM SessionsNotMixedHolds == Spec => []SessionsNotMixed
<1>1. Inv => SessionsNotMixed
  BY DEF Inv
<1>. QED
  BY <1>1, Invariance, PTL

(* No login is answered and goes on: its nonce is nowhere any more.        *)
THEOREM AnsweredLoginIsOverHolds == Spec => []AnsweredLoginIsOver
<1>1. Inv => AnsweredLoginIsOver
  BY DEF Inv
<1>. QED
  BY <1>1, Invariance, PTL

(* No login loses its cookie to callbacks that are refused or that crash.  *)
THEOREM CookieLostForCauseHolds == Spec => []CookieLostForCause
<1>1. Inv => CookieLostForCause
  BY DEF Inv
<1>. QED
  BY <1>1, Invariance, PTL
=============================================================================
