------------------------- MODULE RedisCodeFlowProofs -------------------------
(***************************************************************************)
(* Proofs about RedisCodeFlow, for any requests, authorizations, guesses,  *)
(* lifetimes and limits.                                                   *)
(*                                                                         *)
(* The shared store keeps the promise of CodeLedger because GETDEL hands a *)
(* code to one request and takes it from all others in one step.  Custody  *)
(* says so: a code is in Redis or with one request, never with both; and   *)
(* what Redis or a request has was minted before, so that no later SET     *)
(* brings it back.                                                         *)
(***************************************************************************)
EXTENDS RedisCodeFlow, TLAPS

Holds == {"checked", "holding", "granted"}

Custody ==
  /\ DOMAIN stored \subseteq MintedCodes
  /\ \A t \in TokReqs : tok[t].at \in Holds =>
       tok[t].code \in MintedCodes /\ Fits(tok[t].seen, tok[t].with)
  /\ \A t \in Holding : tok[t].code \notin DOMAIN stored
  /\ \A t, u \in Holding : tok[t].code = tok[u].code => t = u

\* The part of TypeOK that is about codes and requests.
CodeTypes ==
  /\ DOMAIN stored \subseteq AuthReqs
  /\ stored \in [DOMAIN stored -> [ask : Asks, left : 1..Ttl]]
  /\ auth \in [AuthReqs -> {Unsent} \cup [at : AuthAt, ask : Asks]]
  /\ tok \in [TokReqs -> {NotAsked, Refused, Failed} \cup
                         [at : Holds, code : AuthReqs, with : Exchanges, seen : Asks]]

LEMMA TokenTypes ==
  ASSUME CodeTypes, NEW t \in TokReqs
  PROVE  /\ tok[t].at \in Holds =>
              tok[t] \in [at : Holds, code : AuthReqs, with : Exchanges, seen : Asks]
         /\ Refused.at = "refused" /\ Failed.at = "failed"
BY DEF CodeTypes, NotAsked, Refused, Failed, Holds

LEMMA GoTypes ==
  ASSUME CodeTypes, NEW r \in AuthReqs, NEW s \in AuthAt, auth[r].at # "idle", Go(r, s)
  PROVE  /\ auth' \in [AuthReqs -> {Unsent} \cup [at : AuthAt, ask : Asks]]
         /\ auth'[r].at = s
         /\ \A q \in AuthReqs : q # r => auth'[q] = auth[q]
<1>1. auth[r] \in [at : AuthAt, ask : Asks]
  BY DEF CodeTypes, Unsent
<1>2. /\ [auth[r] EXCEPT !.at = s] \in [at : AuthAt, ask : Asks]
      /\ [auth[r] EXCEPT !.at = s].at = s
  BY <1>1
<1>3. auth' = [auth EXCEPT ![r] = [auth[r] EXCEPT !.at = s]]
  BY DEF Go, CodeTypes
<1>. QED
  BY <1>2, <1>3 DEF CodeTypes

LEMMA InitOK == Init => CodeTypes /\ Custody
<1>. SUFFICES ASSUME Init PROVE CodeTypes /\ Custody
  OBVIOUS
<1>1. DOMAIN stored = {} /\ \A t \in TokReqs : tok[t].at = "idle"
  BY DEF Init, NotAsked
<1>. QED
  BY <1>1 DEF Init, CodeTypes, Custody, Holding, Holds

(* Steps of POST /authorize but SET, and of Redis, leave the codes alone.  *)
LEMMA AuthSteps ==
  ASSUME CodeTypes, Custody, UNCHANGED <<stored, tok>>,
         auth' \in [AuthReqs -> {Unsent} \cup [at : AuthAt, ask : Asks]],
         \A r \in AuthReqs : auth'[r] = auth[r] \/
            (auth[r].at \notin {"issued", "orphaned"} /\ auth'[r].at \notin {"issued", "orphaned"})
  PROVE  CodeTypes' /\ Custody' /\ MintedCodes' = MintedCodes
<1>1. MintedCodes' = MintedCodes
  BY DEF MintedCodes
<1>. QED
  BY <1>1 DEF CodeTypes, Custody, Holding

(* A token request moves on, and Redis may have taken codes away.          *)
LEMMA TokSteps ==
  ASSUME CodeTypes, Custody, UNCHANGED auth, NEW t \in TokReqs, NEW new,
         new \in {NotAsked, Refused, Failed} \cup
                 [at : Holds, code : AuthReqs, with : Exchanges, seen : Asks],
         tok' = [tok EXCEPT ![t] = new],
         new.at \in Holds => new.code \in MintedCodes /\ Fits(new.seen, new.with),
         DOMAIN stored' \subseteq DOMAIN stored,
         stored' \in [DOMAIN stored' -> [ask : Asks, left : 1..Ttl]],
         new.at = "holding" => /\ new.code \notin DOMAIN stored'
                               /\ \A u \in Holding : tok[u].code # new.code
  PROVE  CodeTypes' /\ Custody' /\ MintedCodes' = MintedCodes
<1>1. MintedCodes' = MintedCodes
  BY DEF MintedCodes
<1>2. tok'[t] = new /\ \A u \in TokReqs : u # t => tok'[u] = tok[u]
  BY DEF CodeTypes
<1>3. CodeTypes'
  BY DEF CodeTypes
<1>4. \A u \in TokReqs : tok'[u].at \in Holds =>
        tok'[u].code \in MintedCodes /\ Fits(tok'[u].seen, tok'[u].with)
  BY <1>2 DEF Custody
<1>5. \A u \in Holding' : tok'[u].code \notin DOMAIN stored'
  BY <1>2 DEF Custody, Holding
<1>6. \A u, v \in Holding' : tok'[u].code = tok'[v].code => u = v
  BY <1>2 DEF Custody, Holding
<1>. QED
  BY <1>1, <1>3, <1>4, <1>5, <1>6 DEF Custody

LEMMA StoreOK ==
  ASSUME CodeTypes, Custody, NEW r \in AuthReqs, At(r, "reserved"),
         stored' = SetEx(r, auth[r].ask), Go(r, "issued") \/ Go(r, "orphaned"),
         UNCHANGED tok
  PROVE  /\ CodeTypes' /\ Custody'
         /\ r \notin MintedCodes /\ MintedCodes' = MintedCodes \cup {r}
         /\ auth[r].ask \in Asks
<1>1. auth[r] \in [at : AuthAt, ask : Asks] /\ auth[r].at = "reserved"
  BY DEF At, CodeTypes, Unsent
<1>2. /\ auth' \in [AuthReqs -> {Unsent} \cup [at : AuthAt, ask : Asks]]
      /\ auth'[r].at \in {"issued", "orphaned"}
      /\ \A q \in AuthReqs : q # r => auth'[q] = auth[q]
  <2>1. CASE Go(r, "issued")
    BY <1>1, <2>1, GoTypes DEF AuthAt
  <2>2. CASE Go(r, "orphaned")
    BY <1>1, <2>2, GoTypes DEF AuthAt
  <2>. QED
    BY <2>1, <2>2
<1>3. r \notin MintedCodes /\ MintedCodes' = MintedCodes \cup {r}
  BY <1>1, <1>2 DEF MintedCodes
<1>4. /\ DOMAIN stored' = DOMAIN stored \cup {r}
      /\ stored' \in [DOMAIN stored' -> [ask : Asks, left : 1..Ttl]]
  BY <1>1, LimitsAssumption DEF SetEx, CodeTypes
<1>5. CodeTypes'
  BY <1>2, <1>4 DEF CodeTypes
<1>6. \A t \in Holding : tok[t].code # r
  BY <1>3 DEF Custody, Holding, Holds
<1>7. Custody'
  BY <1>3, <1>4, <1>6 DEF Custody, Holding
<1>. QED
  BY <1>1, <1>3, <1>5, <1>7

(* What each step does to the codes.                                       *)
Stays ==
  /\ MintedCodes' = MintedCodes
  /\ Granted' = Granted /\ \A t \in Granted : tok'[t] = tok[t]
  /\ \A c \in DOMAIN stored' : c \in DOMAIN stored /\ stored'[c].ask = stored[c].ask
  /\ \A t \in Holding' :
       \/ t \in Holding /\ tok'[t].code = tok[t].code /\ tok'[t].seen = tok[t].seen
       \/ tok'[t].code \in DOMAIN stored /\ stored[tok'[t].code].ask = tok'[t].seen

StoresCode(r) ==
  /\ r \notin MintedCodes /\ MintedCodes' = MintedCodes \cup {r}
  /\ auth[r].ask \in Asks
  /\ stored' = SetEx(r, auth[r].ask) /\ tok' = tok

Responds(t) ==
  /\ t \in Holding /\ Granted' = Granted \cup {t} /\ Holding' = Holding \ {t}
  /\ tok' = [tok EXCEPT ![t].at = "granted"]
  /\ stored' = stored /\ MintedCodes' = MintedCodes

Moves == \/ Stays
         \/ \E r \in AuthReqs : StoresCode(r)
         \/ \E t \in TokReqs : Responds(t)

LEMMA QuietAuth ==
  ASSUME CodeTypes, Custody, UNCHANGED <<stored, tok>>,
         auth' \in [AuthReqs -> {Unsent} \cup [at : AuthAt, ask : Asks]],
         \A r \in AuthReqs : auth'[r] = auth[r] \/
            (auth[r].at \notin {"issued", "orphaned"} /\ auth'[r].at \notin {"issued", "orphaned"})
  PROVE  CodeTypes' /\ Custody' /\ Stays
<1>1. CodeTypes' /\ Custody' /\ MintedCodes' = MintedCodes
  BY AuthSteps
<1>. QED
  BY <1>1 DEF Stays, Granted, Holding

LEMMA QuietGo ==
  ASSUME CodeTypes, Custody, UNCHANGED <<stored, tok>>, NEW r \in AuthReqs,
         auth[r].at \notin {"idle", "issued", "orphaned"},
         NEW s \in AuthAt \ {"issued", "orphaned"}, Go(r, s)
  PROVE  CodeTypes' /\ Custody' /\ Stays
BY GoTypes, QuietAuth

LEMMA QuietTok ==
  ASSUME CodeTypes, Custody, UNCHANGED auth, NEW t \in TokReqs, NEW new,
         new \in {NotAsked, Refused, Failed} \cup
                 [at : Holds, code : AuthReqs, with : Exchanges, seen : Asks],
         tok' = [tok EXCEPT ![t] = new], tok[t].at # "granted", new.at # "granted",
         new.at \in Holds => new.code \in MintedCodes /\ Fits(new.seen, new.with),
         \A c \in DOMAIN stored' : c \in DOMAIN stored /\ stored'[c].ask = stored[c].ask,
         stored' \in [DOMAIN stored' -> [ask : Asks, left : 1..Ttl]],
         new.at = "holding" => /\ new.code \in DOMAIN stored /\ new.code \notin DOMAIN stored'
                               /\ stored[new.code].ask = new.seen
  PROVE  CodeTypes' /\ Custody' /\ Stays
<1>1. new.at = "holding" => \A u \in Holding : tok[u].code # new.code
  BY DEF Custody
<1>2. CodeTypes' /\ Custody' /\ MintedCodes' = MintedCodes
  BY <1>1, TokSteps
<1>3. tok'[t] = new /\ \A u \in TokReqs : u # t => tok'[u] = tok[u]
  BY DEF CodeTypes
<1>4. Granted' = Granted /\ \A u \in Granted : tok'[u] = tok[u]
  BY <1>3 DEF Granted
<1>5. \A u \in Holding' :
       \/ u \in Holding /\ tok'[u].code = tok[u].code /\ tok'[u].seen = tok[u].seen
       \/ tok'[u].code \in DOMAIN stored /\ stored[tok'[u].code].ask = tok'[u].seen
  BY <1>3 DEF Holding
<1>. QED
  BY <1>2, <1>4, <1>5 DEF Stays

-----------------------------------------------------------------------------
(* Pipelines and counters. *)
Says == {"ok", "over", "error"}
Pipes == pipe \in [Requests -> [cmds : Seq(Commands), says : Says]]
Counters == pending \in Counter /\ perKey \in [Keys -> Counter]

LEMMA TypeParts == TypeOK <=> CodeTypes /\ Pipes /\ Counters
BY DEF TypeOK, CodeTypes, Pipes, Counters, Says, Holds

LEMMA PipesOK ==
  /\ Init => Pipes
  /\ Pipes /\ [Next]_vars => Pipes'
<1>. DEFINE PipeSet == [cmds : Seq(Commands), says : Says]
<1>1. ReserveCmds \in Seq(Commands) /\ ReleaseCmds \in Seq(Commands) /\ <<>> \in Seq(Commands)
  BY DEF ReserveCmds, ReleaseCmds, Commands
<1>2. Init => Pipes
  BY <1>1 DEF Init, Pipes, NoPipe, Says
<1>3. ASSUME Pipes, NEW q \in Requests, NEW new \in PipeSet, pipe' = [pipe EXCEPT ![q] = new]
      PROVE  Pipes'
  BY <1>3 DEF Pipes
<1>4. ASSUME Pipes, NEW q \in Requests, Send(q, ReserveCmds) \/ Send(q, ReleaseCmds) PROVE Pipes'
  <2>1. \A cmds \in Seq(Commands) : [cmds |-> cmds, says |-> "ok"] \in PipeSet
    BY DEF Says
  <2>. QED
    BY <1>1, <1>3, <1>4, <2>1 DEF Send
<1>5. ASSUME Pipes, NEW q \in Requests, RunCommand(q) PROVE Pipes'
  <2>1. pipe[q] \in PipeSet /\ pipe[q].cmds \in Seq(Commands) /\ pipe[q].cmds # <<>>
    BY <1>5 DEF Pipes, RunCommand
  <2>2. Tail(pipe[q].cmds) \in Seq(Commands) /\ pipe[q].says \in Says
    BY <2>1
  <2>3. PICK w : pipe' = [pipe EXCEPT ![q] = [cmds |-> Tail(pipe[q].cmds),
                                             says |-> IF Listens(q) THEN w ELSE "ok"]]
                 /\ w \in Says
    BY <1>5, <2>2 DEF RunCommand, Says
  <2>4. [cmds |-> Tail(pipe[q].cmds), says |-> IF Listens(q) THEN w ELSE "ok"] \in PipeSet
    BY <2>2, <2>3 DEF Says
  <2>. QED
    BY <1>3, <1>5, <2>3, <2>4
<1>6. ASSUME Pipes, NEW r \in AuthReqs, Reserve(r) \/ Reserved(r) \/ ReleaseOver(r) PROVE Pipes'
  <2>1. r \in Requests
    BY DEF Requests
  <2>2. CASE Reserve(r)
    BY <1>4, <1>6, <2>1, <2>2 DEF Reserve, Pipes
  <2>3. CASE Reserved(r)
    <3>1. NoPipe \in PipeSet
      BY <1>1 DEF NoPipe, Says
    <3>. QED
      BY <1>3, <1>6, <2>1, <2>3, <3>1 DEF Reserved
  <2>4. CASE ReleaseOver(r)
    BY <1>4, <1>6, <2>1, <2>4 DEF ReleaseOver, Pipes
  <2>. QED
    BY <1>6, <2>2, <2>3, <2>4
<1>7. ASSUME Pipes, NEW t \in TokReqs, TokenRespond(t) PROVE Pipes'
  BY <1>4, <1>7 DEF TokenRespond, Requests, Pipes
<1>8. ASSUME Pipes, UNCHANGED pipe PROVE Pipes'
  BY <1>8 DEF Pipes
<1>9. ASSUME Pipes, [Next]_vars PROVE Pipes'
  BY <1>5, <1>6, <1>7, <1>8, <1>9
     DEF Next, vars, AuthorizeStart, Store, TokenLookup, TokenConsume, HandlerDies, Tick
<1>. QED
  BY <1>2, <1>9

LEMMA CountersOK ==
  /\ Init => Counters
  /\ Counters /\ Pipes /\ [Next]_vars => Counters'
<1>1. Init => Counters
  BY DEF Init, Counters, Counter
<1>2. ASSUME NEW ctr \in Counter, NEW do \in {"INCR", "EXPIRE", "DECR"}
      PROVE  Effect(do, ctr) \in Counter
  <2>1. ctr = Missing \/ ctr \in [n : Int, ttl : 1..Forever]
    BY DEF Counter
  <2>2. \A d \in {1, -1} : Add(ctr, d) \in [n : Int, ttl : 1..Forever]
    BY <2>1, LimitsAssumption DEF Add, Missing, Forever
  <2>3. Expire(ctr) \in Counter
    BY <2>1, LimitsAssumption DEF Expire, Counter, Missing, Forever
  <2>. QED
    BY <2>2, <2>3 DEF Effect, Counter
<1>3. ASSUME NEW ctr \in Counter PROVE AgeCounter(ctr) \in Counter
  <2>1. ctr = Missing \/ ctr \in [n : Int, ttl : 1..Forever]
    BY DEF Counter
  <2>. QED
    BY <2>1, LimitsAssumption DEF AgeCounter, Counter, Missing, Forever
<1>4. ASSUME Counters, Pipes, NEW q \in Requests, RunCommand(q) PROVE Counters'
  <2>. DEFINE do == Head(pipe[q].cmds)[1]
              on == Head(pipe[q].cmds)[2]
              new == Effect(do, IF on = "all" THEN pending ELSE perKey[KeyOf(q)])
  <2>1. Head(pipe[q].cmds) \in Commands
    BY <1>4 DEF Pipes, RunCommand
  <2>2. do \in {"INCR", "EXPIRE", "DECR"}
    BY <2>1 DEF Commands
  <2>3. \/ on = "all" /\ pending' = new /\ perKey' = perKey
        \/ on # "all" /\ perKey' = [perKey EXCEPT ![KeyOf(q)] = new] /\ pending' = pending
        \/ pending' = pending /\ perKey' = perKey
    BY <1>4 DEF RunCommand
  <2>4. on = "all" => new \in Counter
    BY <1>2, <1>4, <2>2 DEF Counters
  <2>5. on # "all" /\ KeyOf(q) \in Keys => new \in Counter
    BY <1>2, <1>4, <2>2 DEF Counters
  <2>. HIDE DEF new, on
  <2>. QED
    BY <1>4, <2>3, <2>4, <2>5 DEF Counters
<1>5. ASSUME Counters, Tick PROVE Counters'
  BY <1>3, <1>5 DEF Counters, Tick
<1>6. ASSUME Counters, UNCHANGED <<pending, perKey>> PROVE Counters'
  BY <1>6 DEF Counters
<1>7. ASSUME Counters, Pipes, [Next]_vars PROVE Counters'
  BY <1>4, <1>5, <1>6, <1>7
     DEF Next, vars, counters, AuthorizeStart, Reserve, Reserved, Store, ReleaseOver,
         TokenLookup, TokenConsume, TokenRespond, HandlerDies
<1>. QED
  BY <1>1, <1>7
-----------------------------------------------------------------------------
LEMMA StepMoves ==
  ASSUME CodeTypes, Custody, Pipes, [Next]_vars
  PROVE  CodeTypes' /\ Custody' /\ Moves
<1>. DEFINE Goal == CodeTypes' /\ Custody' /\ Moves
<1>s. /\ stored \in [DOMAIN stored -> [ask : Asks, left : 1..Ttl]]
      /\ \A c \in DOMAIN stored : stored[c].ask \in Asks
  BY DEF CodeTypes
<1>g. \A c : /\ DOMAIN GetDel(c) = DOMAIN stored \ {c}
             /\ \A d \in DOMAIN GetDel(c) : GetDel(c)[d] = stored[d]
             /\ GetDel(c) \in [DOMAIN GetDel(c) -> [ask : Asks, left : 1..Ttl]]
  BY <1>s DEF GetDel, Restrict
<1>1. ASSUME NEW r \in AuthReqs, NEW a \in Asks, AuthorizeStart(r, a) PROVE Goal
  <2>1. PICK s \in {"cleared", "busy", "failed"} : auth' = [auth EXCEPT ![r] = [at |-> s, ask |-> a]]
    BY <1>1 DEF AuthorizeStart
  <2>2. /\ auth' \in [AuthReqs -> {Unsent} \cup [at : AuthAt, ask : Asks]]
        /\ auth'[r].at = s /\ \A q \in AuthReqs : q # r => auth'[q] = auth[q]
    BY <2>1 DEF CodeTypes, AuthAt
  <2>. QED
    BY <1>1, <2>2, QuietAuth DEF AuthorizeStart, At, Moves
<1>2. ASSUME NEW r \in AuthReqs, Reserve(r) PROVE Goal
  <2>1. Go(r, "reserving") \/ Go(r, "failed")
    BY <1>2 DEF Reserve
  <2>2. auth[r].at = "cleared" /\ UNCHANGED <<stored, tok>>
    BY <1>2 DEF Reserve, At
  <2>. QED
    BY <2>1, <2>2, QuietGo DEF AuthAt, Moves
<1>3. ASSUME NEW r \in AuthReqs, Reserved(r) PROVE Goal
  <2>1. pipe[r].says \in Says
    BY DEF Pipes, Requests
  <2>2. Go(r, "reserved") \/ Go(r, "over") \/ Go(r, "failed")
    BY <1>3, <2>1 DEF Reserved, Says
  <2>3. auth[r].at = "reserving" /\ UNCHANGED <<stored, tok>>
    BY <1>3 DEF Reserved, At
  <2>. QED
    BY <2>2, <2>3, QuietGo DEF AuthAt, Moves
<1>4. ASSUME NEW r \in AuthReqs, Store(r) PROVE Goal
  <2>1. At(r, "reserved") /\ UNCHANGED tok
    BY <1>4 DEF Store
  <2>2. CASE stored' = SetEx(r, auth[r].ask) /\ (Go(r, "issued") \/ Go(r, "orphaned"))
    BY <2>1, <2>2, StoreOK DEF Moves, StoresCode
  <2>3. CASE UNCHANGED stored /\ (Go(r, "over") \/ Go(r, "failed"))
    BY <2>1, <2>3, QuietGo DEF At, AuthAt, Moves
  <2>. QED
    BY <1>4, <2>2, <2>3 DEF Store
<1>5. ASSUME NEW r \in AuthReqs, ReleaseOver(r) PROVE Goal
  BY <1>5, QuietGo DEF ReleaseOver, At, AuthAt, Moves
<1>6. ASSUME NEW t \in TokReqs, NEW c \in Presentable, NEW x \in Exchanges, TokenLookup(t, c, x)
      PROVE  Goal
  <2>1. tok[t].at = "idle" /\ UNCHANGED <<stored, auth>>
    BY <1>6 DEF TokenLookup
  <2>. DEFINE new == [at |-> "checked", code |-> c, with |-> x, seen |-> stored[c].ask]
  <2>2. CASE c \in DOMAIN stored /\ Fits(stored[c].ask, x) /\ Answer(t, new)
    <3>1. /\ new \in [at : Holds, code : AuthReqs, with : Exchanges, seen : Asks]
          /\ new.at = "checked" /\ new.code = c /\ new.seen = stored[c].ask /\ new.with = x
      BY <1>s, <2>2 DEF Holds, CodeTypes
    <3>2. c \in MintedCodes /\ tok' = [tok EXCEPT ![t] = new]
      BY <2>2 DEF Custody, Answer
    <3>. HIDE DEF new
    <3>. QED
      BY <1>s, <2>1, <2>2, <3>1, <3>2, QuietTok DEF Moves
  <2>3. CASE Answer(t, Refused) \/ Answer(t, Failed)
    BY <1>s, <2>1, <2>3, TokenTypes, QuietTok DEF Answer, Holds, Moves
  <2>. QED
    BY <1>6, <2>2, <2>3 DEF TokenLookup
<1>7. ASSUME NEW t \in TokReqs, TokenConsume(t) PROVE Goal
  <2>. DEFINE c == tok[t].code
              new == [tok[t] EXCEPT !.at = "holding"]
  <2>1. /\ tok[t].at = "checked" /\ UNCHANGED auth
        /\ stored' = stored \/ stored' = GetDel(c)
    BY <1>7 DEF TokenConsume
  <2>2. /\ \A d \in DOMAIN stored' : d \in DOMAIN stored /\ stored'[d].ask = stored[d].ask
        /\ stored' \in [DOMAIN stored' -> [ask : Asks, left : 1..Ttl]]
    <3>1. CASE stored' = stored
      BY <1>s, <3>1
    <3>2. CASE stored' = GetDel(c)
      <4>. HIDE DEF c
      <4>1. /\ DOMAIN stored' = DOMAIN stored \ {c}
            /\ \A d \in DOMAIN stored' : stored'[d] = stored[d]
            /\ stored' \in [DOMAIN stored' -> [ask : Asks, left : 1..Ttl]]
        BY <1>g, <3>2
      <4>. QED
        BY <4>1
    <3>. QED
      BY <2>1, <3>1, <3>2
  <2>3. CASE /\ c \in DOMAIN stored /\ stored[c].ask = tok[t].seen
             /\ stored' = GetDel(c) /\ Answer(t, new)
    <3>1. /\ new \in [at : Holds, code : AuthReqs, with : Exchanges, seen : Asks]
          /\ new.at = "holding" /\ new.code = c /\ new.seen = tok[t].seen /\ new.with = tok[t].with
      BY <2>1, TokenTypes DEF Holds
    <3>2. c \in MintedCodes /\ Fits(tok[t].seen, tok[t].with) /\ tok' = [tok EXCEPT ![t] = new]
      BY <2>1, <2>3 DEF Custody, Answer, Holds
    <3>3. c \notin DOMAIN stored'
      BY <1>g, <2>3
    <3>. HIDE DEF new
    <3>. QED
      BY <2>1, <2>2, <2>3, <3>1, <3>2, <3>3, QuietTok DEF Moves
  <2>4. CASE Answer(t, Refused) \/ Answer(t, Failed)
    BY <2>1, <2>2, <2>4, TokenTypes, QuietTok DEF Answer, Holds, Moves
  <2>. QED
    BY <1>7, <2>3, <2>4 DEF TokenConsume
<1>8. ASSUME NEW t \in TokReqs, TokenRespond(t) PROVE Goal
  <2>. DEFINE new == [tok[t] EXCEPT !.at = "granted"]
  <2>1. tok[t].at = "holding" /\ UNCHANGED <<stored, auth>> /\ tok' = [tok EXCEPT ![t] = new]
    BY <1>8 DEF TokenRespond, Answer
  <2>2. /\ new \in [at : Holds, code : AuthReqs, with : Exchanges, seen : Asks]
        /\ new.at = "granted" /\ new.code = tok[t].code
        /\ new.seen = tok[t].seen /\ new.with = tok[t].with
    BY <2>1, TokenTypes DEF Holds
  <2>3. new.code \in MintedCodes /\ Fits(new.seen, new.with)
    BY <2>1, <2>2 DEF Custody, Holds
  <2>4. CodeTypes' /\ Custody' /\ MintedCodes' = MintedCodes
    <3>. HIDE DEF new
    <3>. QED
      BY <1>s, <2>1, <2>2, <2>3, TokSteps
  <2>5. tok'[t] = new /\ \A u \in TokReqs : u # t => tok'[u] = tok[u]
    BY <2>1 DEF CodeTypes
  <2>6. /\ t \in Holding /\ Granted' = Granted \cup {t} /\ Holding' = Holding \ {t}
    BY <2>1, <2>2, <2>5 DEF Holding, Granted
  <2>. QED
    BY <2>1, <2>4, <2>6 DEF Moves, Responds
<1>9. ASSUME NEW q \in Requests, RunCommand(q) PROVE Goal
  <2>1. UNCHANGED <<stored, auth, tok>>
    BY <1>9 DEF RunCommand
  <2>. QED
    BY <2>1, QuietAuth DEF CodeTypes, Moves
<1>10. CASE HandlerDies
  <2>1. CASE \E r \in AuthReqs : /\ auth[r].at \in {"cleared", "reserving", "reserved", "over"}
                                 /\ Go(r, "failed") /\ UNCHANGED <<stored, tok>>
    BY <2>1, QuietGo DEF AuthAt, Moves
  <2>2. CASE \E t \in TokReqs : /\ tok[t].at \in {"checked", "holding"}
                                /\ Answer(t, Failed) /\ UNCHANGED <<stored, auth>>
    BY <1>s, <2>2, TokenTypes, QuietTok DEF Answer, Holds, Moves
  <2>. QED
    BY <1>10, <2>1, <2>2 DEF HandlerDies
<1>11. CASE Tick
  <2>. DEFINE kept == {d \in DOMAIN stored : stored[d].left > 1}
  <2>1. /\ stored' = [c \in kept |-> [stored[c] EXCEPT !.left = @ - 1]]
        /\ UNCHANGED <<auth, tok>>
    BY <1>11 DEF Tick
  <2>2. \A c \in kept : /\ [stored[c] EXCEPT !.left = @ - 1] \in [ask : Asks, left : 1..Ttl]
                        /\ [stored[c] EXCEPT !.left = @ - 1].ask = stored[c].ask
    BY <1>s, LimitsAssumption
  <2>3. /\ DOMAIN stored' \subseteq DOMAIN stored
        /\ \A c \in DOMAIN stored' : stored'[c].ask = stored[c].ask
        /\ stored' \in [DOMAIN stored' -> [ask : Asks, left : 1..Ttl]]
    BY <2>1, <2>2
  <2>4. Granted' = Granted /\ Holding' = Holding /\ MintedCodes' = MintedCodes
    BY <2>1 DEF Granted, Holding, MintedCodes
  <2>. QED
    BY <2>1, <2>3, <2>4 DEF CodeTypes, Custody, Moves, Stays
<1>12. CASE UNCHANGED vars
  <2>1. UNCHANGED <<stored, auth, tok>>
    BY <1>12 DEF vars
  <2>. QED
    BY <2>1, QuietAuth DEF CodeTypes, Moves
<1>. QED
  BY <1>1, <1>2, <1>3, <1>4, <1>5, <1>6, <1>7, <1>8, <1>9, <1>10, <1>11, <1>12 DEF Next

LEMMA Invariance == Spec => [](CodeTypes /\ Custody /\ Pipes /\ Counters)
BY InitOK, StepMoves, PipesOK, CountersOK, PTL DEF Spec

(* The types hold for all values of the constants, whatever commands Redis *)
(* interleaves, refuses or loses.                                          *)
THEOREM TypeCorrect == Spec => []TypeOK
BY Invariance, TypeParts, PTL
-----------------------------------------------------------------------------
(* The refinement. *)

LEMMA FitsIsBound ==
  ASSUME NEW a \in Asks, NEW x \in Exchanges, Fits(a, x)
  PROVE  BoundTo(a, x)
BY AsksAssumption DEF ValidAsk, Fits, BoundTo

(* Where holders have different codes, a code determines its holder.       *)
LEMMA OneHolder ==
  ASSUME NEW H, NEW f, NEW t \in H, \A u \in H : f[u].code = f[t].code => u = t
  PROVE  (CHOOSE u \in H : f[u].code = f[t].code) = t
OBVIOUS

LEMMA LiveFacts ==
  ASSUME Custody
  PROVE  /\ DOMAIN LiveAsks = DOMAIN stored \cup HeldCodes
         /\ \A c \in DOMAIN stored : LiveAsks[c] = stored[c].ask
         /\ \A t \in Holding : LiveAsks[tok[t].code] = tok[t].seen
<1>1. \A t \in Holding : (CHOOSE u \in Holding : tok[u].code = tok[t].code) = t
  BY OneHolder DEF Custody
<1>. QED
  BY <1>1 DEF LiveAsks, HeldCodes, Custody

LEMMA LiveFactsNext ==
  ASSUME Custody'
  PROVE  /\ DOMAIN LiveAsks' = DOMAIN stored' \cup HeldCodes'
         /\ \A c \in DOMAIN stored' : LiveAsks'[c] = stored'[c].ask
         /\ \A t \in Holding' : LiveAsks'[tok'[t].code] = tok'[t].seen
<1>1. \A t \in Holding' : (CHOOSE u \in Holding' : tok'[u].code = tok'[t].code) = t
  BY OneHolder DEF Custody
<1>. QED
  BY <1>1 DEF LiveAsks, HeldCodes, Custody

LEMMA LiveFunctions ==
  /\ LiveAsks = [c \in DOMAIN LiveAsks |-> LiveAsks[c]]
  /\ LiveAsks' = [c \in DOMAIN LiveAsks' |-> LiveAsks'[c]]
BY DEF LiveAsks

(* Codes that are lost lapse.                                              *)
LEMMA StaysLapses ==
  ASSUME Custody, Custody', Stays
  PROVE  [Ledger!LedgerNext]_(Ledger!ledger)
<1>. DEFINE S == DOMAIN LiveAsks \ DOMAIN LiveAsks'
<1>1. /\ DOMAIN LiveAsks' \subseteq DOMAIN LiveAsks
      /\ \A c \in DOMAIN LiveAsks' : LiveAsks'[c] = LiveAsks[c]
  <2>. SUFFICES ASSUME NEW c \in DOMAIN LiveAsks'
                PROVE  c \in DOMAIN LiveAsks /\ LiveAsks'[c] = LiveAsks[c]
    OBVIOUS
  <2>1. CASE c \in DOMAIN stored'
    BY <2>1, LiveFacts, LiveFactsNext DEF Stays
  <2>2. CASE c \in HeldCodes'
    <3>1. PICK t \in Holding' : tok'[t].code = c
      BY <2>2 DEF HeldCodes
    <3>2. LiveAsks'[c] = tok'[t].seen
      BY <3>1, LiveFactsNext
    <3>3. CASE t \in Holding /\ tok'[t].code = tok[t].code /\ tok'[t].seen = tok[t].seen
      BY <3>1, <3>2, <3>3, LiveFacts DEF HeldCodes
    <3>4. CASE c \in DOMAIN stored /\ stored[c].ask = tok'[t].seen
      BY <3>2, <3>4, LiveFacts
    <3>. QED
      BY <3>1, <3>3, <3>4 DEF Stays
  <2>. QED
    BY <2>1, <2>2, LiveFactsNext
<1>2. Redemptions' = Redemptions /\ MintedCodes' = MintedCodes
  BY DEF Stays, Redemptions
<1>3. CASE S = {}
  <2>1. DOMAIN LiveAsks' = DOMAIN LiveAsks
    BY <1>1, <1>3
  <2>2. LiveAsks' = LiveAsks
    <3>. HIDE DEF S
    <3>. QED
      BY <1>1, <2>1, LiveFunctions
  <2>. QED
    BY <1>2, <2>2 DEF Ledger!ledger
<1>4. CASE S # {}
  <2>1. DOMAIN LiveAsks \ S = DOMAIN LiveAsks'
    BY <1>1
  <2>2. LiveAsks' = Ledger!Restrict(LiveAsks, DOMAIN LiveAsks \ S)
    <3>. HIDE DEF S
    <3>. QED
      BY <1>1, <2>1, LiveFunctions DEF Ledger!Restrict
  <2>3. Ledger!Lapse(S)
    BY <1>2, <1>4, <2>2 DEF Ledger!Lapse
  <2>. QED
    BY <2>3 DEF Ledger!LedgerNext
<1>. QED
  BY <1>3, <1>4

(* SET mints.                                                              *)
LEMMA StoreIssues ==
  ASSUME Custody, Custody', NEW r \in AuthReqs, StoresCode(r)
  PROVE  Ledger!LedgerNext
<1>. DEFINE a == auth[r].ask
            new == [c \in DOMAIN LiveAsks \cup {r} |-> IF c = r THEN a ELSE LiveAsks[c]]
<1>1. /\ DOMAIN stored' = DOMAIN stored \cup {r} /\ stored'[r].ask = a
      /\ \A c \in DOMAIN stored : c # r => stored'[c] = stored[c]
      /\ tok' = tok /\ Holding' = Holding /\ HeldCodes' = HeldCodes /\ Granted' = Granted
  BY DEF StoresCode, SetEx, Holding, HeldCodes, Granted
<1>2. r \notin HeldCodes
  BY DEF HeldCodes, StoresCode, Custody, Holding, Holds
<1>3. DOMAIN LiveAsks' = DOMAIN LiveAsks \cup {r}
  BY <1>1, LiveFacts, LiveFactsNext
<1>4. \A c \in DOMAIN LiveAsks' : LiveAsks'[c] = IF c = r THEN a ELSE LiveAsks[c]
  <2>. SUFFICES ASSUME NEW c \in DOMAIN LiveAsks'
                PROVE  LiveAsks'[c] = IF c = r THEN a ELSE LiveAsks[c]
    OBVIOUS
  <2>1. CASE c \in DOMAIN stored'
    BY <1>1, <2>1, LiveFacts, LiveFactsNext
  <2>2. CASE c \in HeldCodes'
    <3>1. PICK t \in Holding : tok[t].code = c
      BY <1>1, <2>2 DEF HeldCodes
    <3>. QED
      BY <1>1, <1>2, <2>2, <3>1, LiveFacts, LiveFactsNext
  <2>. QED
    BY <2>1, <2>2, LiveFactsNext
<1>5. LiveAsks' = new
  BY <1>3, <1>4, LiveFunctions
<1>6. Redemptions' = Redemptions
  BY <1>1 DEF Redemptions
<1>7. Ledger!IssueCode(r, a)
  BY <1>5, <1>6 DEF Ledger!IssueCode, StoresCode
<1>. QED
  BY <1>7 DEF Ledger!LedgerNext, CodeNames, StoresCode

(* The token response redeems.                                             *)
LEMMA ResponseRedeems ==
  ASSUME CodeTypes, Custody, Custody', NEW t \in TokReqs, Responds(t)
  PROVE  Ledger!LedgerNext
<1>. DEFINE c == tok[t].code
            a == tok[t].seen
            x == tok[t].with
<1>1. /\ tok[t].at = "holding" /\ t \in Holding
      /\ tok[t] \in [at : Holds, code : AuthReqs, with : Exchanges, seen : Asks]
  BY TokenTypes DEF Responds, Holding, Holds
<1>2. /\ tok'[t].at = "granted" /\ tok'[t].code = c /\ tok'[t].seen = a /\ tok'[t].with = x
      /\ \A u \in TokReqs : u # t => tok'[u] = tok[u]
  BY <1>1 DEF Responds, CodeTypes
<1>3. c \in DOMAIN LiveAsks /\ LiveAsks[c] = a /\ c \notin DOMAIN stored
  BY <1>1, LiveFacts DEF HeldCodes, Custody
<1>4. HeldCodes' = HeldCodes \ {c}
  BY <1>1, <1>2 DEF HeldCodes, Responds, Custody, Holding
<1>5. DOMAIN LiveAsks' = DOMAIN LiveAsks \ {c}
  BY <1>3, <1>4, LiveFacts, LiveFactsNext DEF Responds
<1>6. \A d \in DOMAIN LiveAsks' : LiveAsks'[d] = LiveAsks[d]
  <2>. SUFFICES ASSUME NEW d \in DOMAIN LiveAsks' PROVE LiveAsks'[d] = LiveAsks[d]
    OBVIOUS
  <2>1. CASE d \in DOMAIN stored
    BY <2>1, LiveFacts, LiveFactsNext DEF Responds
  <2>2. CASE d \in HeldCodes'
    <3>1. PICK u \in Holding' : tok'[u].code = d
      BY <2>2 DEF HeldCodes
    <3>2. u \in Holding /\ tok[u] = tok'[u]
      BY <1>2, <3>1 DEF Responds, Holding
    <3>. QED
      BY <3>1, <3>2, LiveFacts, LiveFactsNext
  <2>. QED
    BY <2>1, <2>2, LiveFactsNext DEF Responds
<1>7. LiveAsks' = Ledger!Restrict(LiveAsks, DOMAIN LiveAsks \ {c})
  BY <1>5, <1>6, LiveFunctions DEF Ledger!Restrict
<1>8. t \notin Granted
  BY <1>1 DEF Granted
<1>9. Redemptions' = Redemptions \cup {[code |-> c, ask |-> a, by |-> t, with |-> x]}
  <2>1. Granted' = Granted \cup {t} /\ \A u \in Granted : tok'[u] = tok[u]
    BY <1>2, <1>8 DEF Responds, Granted
  <2>. QED
    BY <1>2, <2>1 DEF Redemptions
<1>10. BoundTo(a, x)
  BY <1>1, FitsIsBound DEF Custody, Holds
<1>11. Ledger!Redeem(c, t, x)
  BY <1>3, <1>7, <1>9, <1>10 DEF Ledger!Redeem, Responds
<1>. QED
  BY <1>1, <1>11 DEF Ledger!LedgerNext, CodeNames

(* Whatever any number of instances do at once and whatever calls are      *)
(* lost, the shared store keeps the promise of the ledger.                 *)
THEOREM RedisImplementsLedger == Spec => ImplementsLedger
<1>1. Init => Ledger!LedgerInit
  <2>. SUFFICES ASSUME Init PROVE Ledger!LedgerInit
    OBVIOUS
  <2>1. DOMAIN stored = {} /\ MintedCodes = {} /\ Holding = {} /\ Granted = {}
    BY DEF Init, MintedCodes, Holding, Granted, Unsent, NotAsked
  <2>. QED
    BY <2>1 DEF Ledger!LedgerInit, LiveAsks, HeldCodes, Redemptions
<1>2. CodeTypes /\ Custody /\ Pipes /\ [Next]_vars => [Ledger!LedgerNext]_(Ledger!ledger)
  BY StepMoves, StaysLapses, StoreIssues, ResponseRedeems DEF Moves
<1>. QED
  BY <1>1, <1>2, Invariance, PTL DEF Spec, ImplementsLedger, Ledger!LedgerSpec
-----------------------------------------------------------------------------
(* What the ledger guarantees, and with it what the shared store does.     *)
(* These proofs use the definitions of CodeLedger only.                    *)

\* A redeemed code was issued, and is not live any more.
Spent == /\ DOMAIN LiveAsks \subseteq MintedCodes
         /\ \A p \in Redemptions : p.code \in MintedCodes \ DOMAIN LiveAsks

LedgerInv == Spent /\ Ledger!AtMostOnce /\ Ledger!OnlyFitting

\* Dropping codes takes them out of the domain of the ledger.
LEMMA DropDomain ==
  ASSUME NEW S, LiveAsks' = Ledger!Restrict(LiveAsks, DOMAIN LiveAsks \ S)
  PROVE  DOMAIN LiveAsks' = DOMAIN LiveAsks \ S
BY DEF Ledger!Restrict

LEMMA IssueKeeps ==
  ASSUME LedgerInv, NEW c, NEW a, Ledger!IssueCode(c, a)
  PROVE  LedgerInv'
<1>1. DOMAIN LiveAsks' = DOMAIN LiveAsks \cup {c}
  BY DEF Ledger!IssueCode
<1>2. Spent'
  BY <1>1 DEF LedgerInv, Spent, Ledger!IssueCode
<1>3. Ledger!AtMostOnce' /\ Ledger!OnlyFitting'
  BY DEF LedgerInv, Ledger!AtMostOnce, Ledger!OnlyFitting, Ledger!IssueCode
<1>. QED
  BY <1>2, <1>3 DEF LedgerInv

LEMMA RedeemKeeps ==
  ASSUME LedgerInv, NEW c, NEW r, NEW x, Ledger!Redeem(c, r, x)
  PROVE  LedgerInv'
<1>. DEFINE new == [code |-> c, ask |-> LiveAsks[c], by |-> r, with |-> x]
<1>1. DOMAIN LiveAsks' = DOMAIN LiveAsks \ {c}
  BY DropDomain DEF Ledger!Redeem
<1>2. Redemptions' = Redemptions \cup {new} /\ c \in DOMAIN LiveAsks /\ MintedCodes' = MintedCodes
  BY DEF Ledger!Redeem
<1>3. new.code = c /\ BoundTo(new.ask, new.with)
  BY DEF Ledger!Redeem
<1>4. \A p \in Redemptions : p.code # c
  BY <1>2 DEF LedgerInv, Spent
<1>. HIDE DEF new
<1>5. Spent'
  BY <1>1, <1>2, <1>3 DEF LedgerInv, Spent
<1>6. Ledger!AtMostOnce'
  BY <1>2, <1>3, <1>4 DEF LedgerInv, Ledger!AtMostOnce
<1>7. Ledger!OnlyFitting'
  BY <1>2, <1>3 DEF LedgerInv, Ledger!OnlyFitting
<1>. QED
  BY <1>5, <1>6, <1>7 DEF LedgerInv

LEMMA LapseKeeps ==
  ASSUME LedgerInv, NEW S, Ledger!Lapse(S)
  PROVE  LedgerInv'
<1>1. DOMAIN LiveAsks' = DOMAIN LiveAsks \ S
  BY DropDomain DEF Ledger!Lapse
<1>2. Spent'
  BY <1>1 DEF LedgerInv, Spent, Ledger!Lapse
<1>3. Ledger!AtMostOnce' /\ Ledger!OnlyFitting'
  BY DEF LedgerInv, Ledger!AtMostOnce, Ledger!OnlyFitting, Ledger!Lapse
<1>. QED
  BY <1>2, <1>3 DEF LedgerInv

LEMMA LedgerInvariant == Ledger!LedgerSpec => []LedgerInv
<1>1. Ledger!LedgerInit => LedgerInv
  <2>. SUFFICES ASSUME Ledger!LedgerInit PROVE LedgerInv
    OBVIOUS
  <2>1. DOMAIN LiveAsks = {}
    BY DEF Ledger!LedgerInit
  <2>. QED
    BY <2>1 DEF Ledger!LedgerInit, LedgerInv, Spent, Ledger!AtMostOnce, Ledger!OnlyFitting
<1>2. LedgerInv /\ [Ledger!LedgerNext]_(Ledger!ledger) => LedgerInv'
  <2>. SUFFICES ASSUME LedgerInv, [Ledger!LedgerNext]_(Ledger!ledger) PROVE LedgerInv'
    OBVIOUS
  <2>1. ASSUME NEW c \in CodeNames, NEW a \in Asks, Ledger!IssueCode(c, a) PROVE LedgerInv'
    BY <2>1, IssueKeeps
  <2>2. ASSUME NEW c \in CodeNames, NEW r \in TokReqs, NEW x \in Exchanges, Ledger!Redeem(c, r, x)
        PROVE  LedgerInv'
    BY <2>2, RedeemKeeps
  <2>3. ASSUME NEW S \in SUBSET DOMAIN LiveAsks, Ledger!Lapse(S) PROVE LedgerInv'
    BY <2>3, LapseKeeps
  <2>4. CASE UNCHANGED (Ledger!ledger)
    BY <2>4 DEF Ledger!ledger, LedgerInv, Spent, Ledger!AtMostOnce, Ledger!OnlyFitting
  <2>. QED
    BY <2>1, <2>2, <2>3, <2>4 DEF Ledger!LedgerNext
<1>. QED
  BY <1>1, <1>2, PTL DEF Ledger!LedgerSpec

(* A behaviour of the ledger turns no code into two tokens: the steps of   *)
(* the ledger alone say so, nothing of codes.get and codes.consume.        *)
THEOREM LedgerAtMostOnce == Ledger!LedgerSpec => []Ledger!AtMostOnce
<1>1. LedgerInv => Ledger!AtMostOnce
  BY DEF LedgerInv
<1>. QED
  BY <1>1, LedgerInvariant, PTL

(* ... and sends no token but for an exchange that fits the authorization  *)
(* of its code: the checks of POST /token, seen from the token.            *)
THEOREM LedgerOnlyFitting == Ledger!LedgerSpec => []Ledger!OnlyFitting
<1>1. LedgerInv => Ledger!OnlyFitting
  BY DEF LedgerInv
<1>. QED
  BY <1>1, LedgerInvariant, PTL

(* Across instances, and whatever calls to Redis are lost, no code turns   *)
(* into two tokens, and every token answers an exchange bound to the       *)
(* authorization of its code.                                              *)
THEOREM RedisKeepsPromise == Spec => [](Ledger!AtMostOnce /\ Ledger!OnlyFitting)
BY RedisImplementsLedger, LedgerAtMostOnce, LedgerOnlyFitting, PTL DEF ImplementsLedger
-----------------------------------------------------------------------------
(* Counters get their time to live. *)

\* What is left of a reservation, from the whole to its last command, and of a
\* release.
Reserve3 == << <<"EXPIRE", "all">>, <<"INCR", "key">>, <<"EXPIRE", "key">> >>
Reserve2 == << <<"INCR", "key">>, <<"EXPIRE", "key">> >>
Reserve1 == << <<"EXPIRE", "key">> >>
Release1 == << <<"DECR", "key">> >>

AllDue(q) == pipe[q].cmds \in {ReserveCmds, Reserve3}
KeyDue(q) == pipe[q].cmds \in {ReserveCmds, Reserve3, Reserve2, Reserve1}
Releases(q) == pipe[q].cmds \in {ReleaseCmds, Release1, <<>>}

\* A handler that may still send a pipeline has none on its way.
Shapes ==
  /\ \A r \in AuthReqs :
       /\ KeyDue(r) \/ Releases(r)
       /\ auth[r].at \in {"idle", "cleared", "reserved", "over"} => pipe[r].cmds = <<>>
  /\ \A t \in TokReqs : Releases(t)

Endless(ctr) == ctr.n > 0 /\ ctr.ttl = Forever

ExpiryDue ==
  /\ Endless(pending) => \E q \in AuthReqs : AllDue(q)
  /\ \A k \in Keys : Endless(perKey[k]) => \E q \in AuthReqs : KeyDue(q) /\ auth[q].ask.key = k

LEMMA HeadsAndTails ==
  /\ Head(ReserveCmds) = <<"INCR", "all">> /\ Tail(ReserveCmds) = Reserve3
  /\ Head(Reserve3) = <<"EXPIRE", "all">> /\ Tail(Reserve3) = Reserve2
  /\ Head(Reserve2) = <<"INCR", "key">> /\ Tail(Reserve2) = Reserve1
  /\ Head(Reserve1) = <<"EXPIRE", "key">> /\ Tail(Reserve1) = <<>>
  /\ Head(ReleaseCmds) = <<"DECR", "all">> /\ Tail(ReleaseCmds) = Release1
  /\ Head(Release1) = <<"DECR", "key">> /\ Tail(Release1) = <<>>
BY DEF ReserveCmds, Reserve3, Reserve2, Reserve1, ReleaseCmds, Release1

LEMMA ShapesDiffer ==
  /\ \A cmds \in {ReserveCmds, Reserve3, Reserve2, Reserve1} :
       cmds \notin {ReleaseCmds, Release1, <<>>}
  /\ \A cmds \in {Reserve2, Reserve1} : cmds \notin {ReserveCmds, Reserve3}
BY DEF ReserveCmds, Reserve3, Reserve2, Reserve1, ReleaseCmds, Release1

LEMMA CounterFacts ==
  ASSUME NEW ctr \in Counter
  PROVE  /\ ~Endless(Expire(ctr))
         /\ Endless(Add(ctr, -1)) => Endless(ctr)
         /\ Endless(AgeCounter(ctr)) => Endless(ctr)
<1>1. ctr = Missing \/ ctr \in [n : Int, ttl : 1..Forever]
  BY DEF Counter
<1>2. CASE ctr = Missing
  BY <1>2, LimitsAssumption DEF Endless, Expire, Add, AgeCounter, Missing, Forever
<1>3. CASE ctr \in [n : Int, ttl : 1..Forever]
  BY <1>3, LimitsAssumption DEF Endless, Expire, Add, AgeCounter, Missing, Forever
<1>. QED
  BY <1>1, <1>2, <1>3

LEMMA CommandRuns ==
  ASSUME Pipes, Counters, NEW q \in Requests, KeyDue(q) \/ Releases(q), RunCommand(q)
  PROVE  /\ UNCHANGED <<auth, tok>>
         /\ \A p \in Requests : p # q => pipe'[p] = pipe[p]
         /\ \/ /\ pipe[q].cmds = ReserveCmds /\ pipe'[q].cmds = Reserve3
               /\ perKey' = perKey
            \/ /\ pipe[q].cmds = Reserve3 /\ pipe'[q].cmds = Reserve2
               /\ pending' = Expire(pending) /\ perKey' = perKey
            \/ /\ pipe[q].cmds = Reserve2 /\ pipe'[q].cmds = Reserve1
               /\ pending' = pending
               /\ \A k \in Keys : k # KeyOf(q) => perKey'[k] = perKey[k]
            \/ /\ pipe[q].cmds = Reserve1 /\ pipe'[q].cmds = <<>>
               /\ pending' = pending
               /\ \A k \in Keys : perKey'[k] = IF k = KeyOf(q) THEN Expire(perKey[k]) ELSE perKey[k]
            \/ /\ Releases(q) /\ pipe'[q].cmds \in {Release1, <<>>}
               /\ pending' \in {pending, Add(pending, -1)}
               /\ \A k \in Keys : perKey'[k] \in {perKey[k], Add(perKey[k], -1)}
<1>. DEFINE do == Head(pipe[q].cmds)[1]
            on == Head(pipe[q].cmds)[2]
            ctr == IF on = "all" THEN pending ELSE perKey[KeyOf(q)]
<1>1. /\ UNCHANGED <<auth, tok>> /\ pipe[q].cmds # <<>>
      /\ \A p \in Requests : p # q => pipe'[p] = pipe[p]
      /\ pipe'[q].cmds = Tail(pipe[q].cmds)
  <2>1. PICK w : pipe' = [pipe EXCEPT ![q] = [cmds |-> Tail(pipe[q].cmds), says |-> w]]
    BY DEF RunCommand
  <2>. QED
    BY <2>1 DEF RunCommand, Pipes
<1>2. \/ /\ IF on = "all" THEN pending' = Effect(do, ctr) /\ UNCHANGED perKey
            ELSE perKey' = [perKey EXCEPT ![KeyOf(q)] = Effect(do, ctr)] /\ UNCHANGED pending
      \/ do # "EXPIRE" /\ UNCHANGED <<pending, perKey>>
  BY DEF RunCommand
<1>3. /\ Effect("EXPIRE", ctr) = Expire(ctr)
      /\ Effect("DECR", ctr) = Add(ctr, -1)
  BY DEF Effect
<1>4. CASE pipe[q].cmds = ReserveCmds
  <2>1. do = "INCR" /\ on = "all"
    BY <1>4, HeadsAndTails
  <2>2. perKey' = perKey
    BY <1>2, <2>1
  <2>. QED
    BY <1>1, <1>4, <2>2, HeadsAndTails
<1>5. CASE pipe[q].cmds = Reserve3
  <2>1. do = "EXPIRE" /\ on = "all"
    BY <1>5, HeadsAndTails
  <2>2. pending' = Expire(pending) /\ perKey' = perKey
    BY <1>2, <1>3, <2>1
  <2>. QED
    BY <1>1, <1>5, <2>2, HeadsAndTails
<1>6. CASE pipe[q].cmds = Reserve2
  <2>1. do = "INCR" /\ on = "key"
    BY <1>6, HeadsAndTails
  <2>2. pending' = pending /\ \A k \in Keys : k # KeyOf(q) => perKey'[k] = perKey[k]
    BY <1>2, <2>1 DEF Counters
  <2>. QED
    BY <1>1, <1>6, <2>2, HeadsAndTails
<1>7. CASE pipe[q].cmds = Reserve1
  <2>1. do = "EXPIRE" /\ on = "key"
    BY <1>7, HeadsAndTails
  <2>2. pending' = pending /\ perKey' = [perKey EXCEPT ![KeyOf(q)] = Expire(perKey[KeyOf(q)])]
    BY <1>2, <1>3, <2>1
  <2>3. \A k \in Keys : perKey'[k] = IF k = KeyOf(q) THEN Expire(perKey[k]) ELSE perKey[k]
    BY <2>2 DEF Counters
  <2>. QED
    BY <1>1, <1>7, <2>2, <2>3, HeadsAndTails
<1>8. CASE pipe[q].cmds \in {ReleaseCmds, Release1}
  <2>1. do = "DECR"
    BY <1>8, HeadsAndTails
  <2>2. pipe'[q].cmds \in {Release1, <<>>}
    BY <1>1, <1>8, HeadsAndTails
  <2>3. /\ pending' \in {pending, Add(pending, -1)}
        /\ \A k \in Keys : perKey'[k] \in {perKey[k], Add(perKey[k], -1)}
    BY <1>2, <1>3, <2>1 DEF Counters
  <2>. QED
    BY <1>1, <1>8, <2>2, <2>3 DEF Releases
<1>. QED
  BY <1>1, <1>4, <1>5, <1>6, <1>7, <1>8 DEF KeyDue, Releases

\* Everything that ExpiryDue looks at in a request.
Due(r) == pipe[r].cmds = <<>> \/ (pipe'[r].cmds = pipe[r].cmds /\ auth'[r].ask = auth[r].ask)

LEMMA StillDue ==
  ASSUME ExpiryDue, \A r \in AuthReqs : Due(r),
         Endless(pending') => Endless(pending),
         \A k \in Keys : Endless(perKey'[k]) => Endless(perKey[k])
  PROVE  ExpiryDue'
<1>1. \A r \in AuthReqs : /\ AllDue(r) => AllDue(r)'
                          /\ KeyDue(r) => KeyDue(r)' /\ auth'[r].ask = auth[r].ask
  BY ShapesDiffer DEF Due, AllDue, KeyDue
<1>. QED
  BY <1>1 DEF ExpiryDue, Endless

LEMMA CommandKeepsDue ==
  ASSUME Pipes, Counters, Shapes, ExpiryDue, NEW q \in Requests, RunCommand(q)
  PROVE  Shapes' /\ ExpiryDue'
<1>. DEFINE P(r) == pipe'[r].cmds = pipe[r].cmds
<1>1. KeyDue(q) \/ Releases(q)
  BY DEF Shapes, Requests
<1>2. /\ UNCHANGED <<auth, tok>> /\ pipe[q].cmds # <<>>
      /\ \A r \in Requests : r # q => pipe'[r] = pipe[r]
  BY <1>1, CommandRuns DEF RunCommand
<1>3. q \in AuthReqs => KeyOf(q) = auth[q].ask.key
  BY DEF KeyOf
<1>4. KeyDue(q) => q \in AuthReqs
  BY ShapesDiffer DEF Shapes, Requests, KeyDue, Releases
<1>5. /\ KeyDue(q)' \/ Releases(q)'
      /\ Releases(q) => Releases(q)'
  BY <1>1, CommandRuns, ShapesDiffer DEF KeyDue, Releases
<1>6. Shapes'
  <2>1. ASSUME NEW r \in Requests, r # q
        PROVE  (KeyDue(r) => KeyDue(r)') /\ (Releases(r) => Releases(r)')
    BY <1>2, <2>1 DEF KeyDue, Releases
  <2>2. \A r \in AuthReqs : KeyDue(r)' \/ Releases(r)'
    BY <1>5, <2>1 DEF Shapes, Requests
  <2>3. \A t \in TokReqs : Releases(t)'
    BY <1>5, <2>1 DEF Shapes, Requests
  <2>4. \A r \in AuthReqs :
          auth'[r].at \in {"idle", "cleared", "reserved", "over"} => pipe'[r].cmds = <<>>
    BY <1>2 DEF Shapes, Requests
  <2>. QED
    BY <2>2, <2>3, <2>4 DEF Shapes
<1>7. ExpiryDue'
  <2>1. \A r \in AuthReqs : r # q => (AllDue(r) <=> AllDue(r)') /\ (KeyDue(r) <=> KeyDue(r)')
    BY <1>2 DEF AllDue, KeyDue, Requests
  <2>2. CASE /\ pipe[q].cmds = ReserveCmds /\ pipe'[q].cmds = Reserve3
             /\ perKey' = perKey
    BY <1>2, <1>4, <2>1, <2>2 DEF ExpiryDue, AllDue, KeyDue
  <2>3. CASE /\ pipe[q].cmds = Reserve3 /\ pipe'[q].cmds = Reserve2
             /\ pending' = Expire(pending) /\ perKey' = perKey
    <3>1. ~Endless(pending)'
      BY <2>3, CounterFacts DEF Counters, Endless
    <3>2. KeyDue(q) /\ KeyDue(q)'
      BY <2>3 DEF KeyDue
    <3>. QED
      BY <1>2, <2>1, <2>3, <3>1, <3>2 DEF ExpiryDue
  <2>4. CASE /\ pipe[q].cmds = Reserve2 /\ pipe'[q].cmds = Reserve1
             /\ pending' = pending
             /\ \A k \in Keys : k # KeyOf(q) => perKey'[k] = perKey[k]
    <3>1. KeyDue(q) /\ KeyDue(q)' /\ ~AllDue(q)
      BY <2>4, ShapesDiffer DEF KeyDue, AllDue
    <3>2. Endless(pending)' => \E r \in AuthReqs : AllDue(r)'
      BY <2>1, <2>4, <3>1 DEF ExpiryDue, Endless
    <3>3. \A k \in Keys : Endless(perKey'[k]) =>
            \E r \in AuthReqs : KeyDue(r)' /\ auth'[r].ask.key = k
      BY <1>2, <1>3, <1>4, <2>1, <2>4, <3>1 DEF ExpiryDue
    <3>. QED
      BY <3>2, <3>3 DEF ExpiryDue, Endless
  <2>5. CASE /\ pipe[q].cmds = Reserve1 /\ pipe'[q].cmds = <<>>
             /\ pending' = pending
             /\ \A k \in Keys : perKey'[k] = IF k = KeyOf(q) THEN Expire(perKey[k]) ELSE perKey[k]
    <3>1. KeyDue(q) /\ ~AllDue(q)
      BY <2>5, ShapesDiffer DEF KeyDue, AllDue
    <3>2. Endless(pending)' => \E r \in AuthReqs : AllDue(r)'
      BY <2>1, <2>5, <3>1 DEF ExpiryDue, Endless
    <3>3. ASSUME NEW k \in Keys, Endless(perKey'[k])
          PROVE  \E r \in AuthReqs : KeyDue(r)' /\ auth'[r].ask.key = k
      <4>1. k # KeyOf(q)
        BY <2>5, <3>3, CounterFacts DEF Counters
      <4>2. Endless(perKey[k])
        BY <2>5, <3>3, <4>1
      <4>3. PICK r \in AuthReqs : KeyDue(r) /\ auth[r].ask.key = k
        BY <4>2 DEF ExpiryDue
      <4>4. r # q
        BY <1>3, <4>1, <4>3
      <4>. QED
        BY <1>2, <2>1, <4>3, <4>4
    <3>. QED
      BY <3>2, <3>3 DEF ExpiryDue, Endless
  <2>6. CASE /\ Releases(q) /\ pipe'[q].cmds \in {Release1, <<>>}
             /\ pending' \in {pending, Add(pending, -1)}
             /\ \A k \in Keys : perKey'[k] \in {perKey[k], Add(perKey[k], -1)}
    <3>1. ~KeyDue(q) /\ ~AllDue(q)
      BY <2>6, ShapesDiffer DEF KeyDue, AllDue, Releases
    <3>2. Endless(pending') => Endless(pending)
      BY <2>6, CounterFacts DEF Counters
    <3>3. \A k \in Keys : Endless(perKey'[k]) => Endless(perKey[k])
      BY <2>6, CounterFacts DEF Counters
    <3>. QED
      BY <1>2, <2>1, <3>1, <3>2, <3>3 DEF ExpiryDue, Endless
  <2>. QED
    BY <1>1, <2>2, <2>3, <2>4, <2>5, <2>6, CommandRuns
<1>. QED
  BY <1>6, <1>7

(* A request sends a pipeline when it has none on its way, and every other *)
(* step leaves pipelines alone.                                            *)
LEMMA StepKeepsDue ==
  ASSUME CodeTypes, Pipes, Counters, Shapes, ExpiryDue, [Next]_vars
  PROVE  Shapes' /\ ExpiryDue'
<1>. DEFINE Goal == Shapes' /\ ExpiryDue'
<1>1. ASSUME UNCHANGED counters, UNCHANGED pipe, NEW r \in AuthReqs,
             \A s \in AuthReqs : s # r => auth'[s] = auth[s],
             \/ pipe[r].cmds = <<>>
             \/ auth'[r].ask = auth[r].ask /\ auth'[r].at \notin {"idle", "cleared", "reserved", "over"}
      PROVE  Goal
  <2>1. Shapes'
    BY <1>1 DEF Shapes, KeyDue, Releases
  <2>2. \A s \in AuthReqs : Due(s)
    BY <1>1 DEF Due
  <2>. QED
    BY <1>1, <2>1, <2>2, StillDue DEF counters, Endless
<1>2. ASSUME UNCHANGED counters, UNCHANGED pipe, UNCHANGED auth PROVE Goal
  <2>1. Shapes'
    BY <1>2 DEF Shapes, KeyDue, Releases
  <2>. QED
    BY <1>2, <2>1, StillDue DEF counters, Endless, Due
<1>3. ASSUME NEW r \in AuthReqs, NEW s \in AuthAt, auth[r].at # "idle", Go(r, s)
      PROVE  /\ auth'[r].at = s /\ auth'[r].ask = auth[r].ask
             /\ \A q \in AuthReqs : q # r => auth'[q] = auth[q]
  <2>1. auth[r] \in [at : AuthAt, ask : Asks]
    BY <1>3 DEF CodeTypes, Unsent
  <2>2. auth' = [auth EXCEPT ![r] = [auth[r] EXCEPT !.at = s]]
    BY <1>3 DEF Go, CodeTypes
  <2>. QED
    BY <2>1, <2>2 DEF CodeTypes
<1>4. ASSUME NEW r \in AuthReqs, NEW a \in Asks, AuthorizeStart(r, a) PROVE Goal
  <2>1. pipe[r].cmds = <<>> /\ UNCHANGED counters /\ UNCHANGED pipe
    BY <1>4 DEF AuthorizeStart, At, Shapes
  <2>2. \A q \in AuthReqs : q # r => auth'[q] = auth[q]
    BY <1>4 DEF AuthorizeStart, CodeTypes
  <2>. QED
    BY <1>1, <2>1, <2>2
<1>5. ASSUME NEW q \in Requests, NEW cmds \in {ReserveCmds, ReleaseCmds, <<>>}, NEW says,
             pipe[q].cmds = <<>>, UNCHANGED counters,
             pipe' = [pipe EXCEPT ![q] = [cmds |-> cmds, says |-> says]],
             q \in TokReqs => cmds # ReserveCmds /\ UNCHANGED auth,
             q \in AuthReqs => /\ auth'[q].at \in {"idle", "cleared", "reserved", "over"} => cmds = <<>>
                               /\ \A s \in AuthReqs : s # q => auth'[s] = auth[s]
      PROVE  Goal
  <2>1. pipe'[q].cmds = cmds /\ \A p \in Requests : p # q => pipe'[p] = pipe[p]
    BY <1>5 DEF Pipes
  <2>2. Shapes'
    <3>1. KeyDue(q)' \/ Releases(q)'
      BY <2>1 DEF KeyDue, Releases
    <3>2. q \in TokReqs => Releases(q)'
      BY <1>5, <2>1 DEF Releases
    <3>3. ASSUME NEW p \in Requests, p # q
          PROVE  (KeyDue(p) => KeyDue(p)') /\ (Releases(p) => Releases(p)') /\ pipe'[p].cmds = pipe[p].cmds
      BY <2>1, <3>3 DEF KeyDue, Releases
    <3>. QED
      BY <1>5, <2>1, <3>1, <3>2, <3>3, RequestsAssumption DEF Shapes, Requests
  <2>3. \A s \in AuthReqs : Due(s)
    BY <1>5, <2>1 DEF Due, Requests
  <2>. QED
    BY <1>5, <2>2, <2>3, StillDue DEF counters, Endless
<1>6. ASSUME NEW r \in AuthReqs, Reserve(r) PROVE Goal
  <2>1. pipe[r].cmds = <<>> /\ UNCHANGED counters /\ auth[r].at = "cleared" /\ r \in Requests
    BY <1>6 DEF Reserve, At, Shapes, Requests
  <2>2. CASE Go(r, "reserving") /\ Send(r, ReserveCmds)
    BY <1>3, <1>5, <2>1, <2>2, RequestsAssumption DEF Send, AuthAt
  <2>3. CASE Go(r, "failed") /\ UNCHANGED pipe
    BY <1>1, <1>3, <2>1, <2>3 DEF AuthAt
  <2>. QED
    BY <1>6, <2>2, <2>3 DEF Reserve
<1>7. ASSUME NEW r \in AuthReqs, Reserved(r) PROVE Goal
  <2>1. /\ pipe[r].cmds = <<>> /\ UNCHANGED counters /\ auth[r].at = "reserving" /\ r \in Requests
        /\ pipe' = [pipe EXCEPT ![r] = NoPipe]
    BY <1>7 DEF Reserved, At, Requests
  <2>2. pipe[r].says \in Says
    BY DEF Pipes, Requests
  <2>3. PICK s \in AuthAt : Go(r, s)
    BY <1>7, <2>2 DEF Reserved, Says, AuthAt
  <2>. QED
    BY <1>3, <1>5, <2>1, <2>3, RequestsAssumption DEF NoPipe
<1>8. ASSUME NEW r \in AuthReqs, Store(r) PROVE Goal
  <2>1. pipe[r].cmds = <<>> /\ UNCHANGED counters /\ UNCHANGED pipe /\ auth[r].at = "reserved"
    BY <1>8 DEF Store, At, Shapes
  <2>2. PICK s \in AuthAt : Go(r, s)
    BY <1>8 DEF Store, AuthAt
  <2>. QED
    BY <1>1, <1>3, <2>1, <2>2
<1>9. ASSUME NEW r \in AuthReqs, ReleaseOver(r) PROVE Goal
  <2>1. pipe[r].cmds = <<>> /\ UNCHANGED counters /\ auth[r].at = "over" /\ r \in Requests
        /\ Go(r, "busy")
    BY <1>9 DEF ReleaseOver, At, Shapes, Requests
  <2>2. CASE Send(r, ReleaseCmds)
    BY <1>3, <1>5, <2>1, <2>2, RequestsAssumption DEF Send, AuthAt
  <2>3. CASE UNCHANGED pipe
    BY <1>1, <1>3, <2>1, <2>3 DEF AuthAt
  <2>. QED
    BY <1>9, <2>2, <2>3 DEF ReleaseOver
<1>10. ASSUME NEW t \in TokReqs, TokenRespond(t) PROVE Goal
  <2>1. /\ t \in Requests /\ t \notin AuthReqs /\ Releases(t)
        /\ UNCHANGED counters /\ UNCHANGED auth
    BY <1>10, RequestsAssumption DEF TokenRespond, Shapes, Requests
  <2>2. CASE Send(t, ReleaseCmds)
    <3>1. pipe' = [pipe EXCEPT ![t] = [cmds |-> ReleaseCmds, says |-> "ok"]]
      BY <2>2 DEF Send
    <3>2. /\ pipe'[t].cmds = ReleaseCmds
          /\ \A p \in Requests : p # t => pipe'[p] = pipe[p]
      BY <2>1, <3>1 DEF Pipes
    <3>3. \A r \in AuthReqs : pipe'[r] = pipe[r]
      BY <2>1, <3>2 DEF Requests
    <3>4. Shapes'
      BY <2>1, <3>2, <3>3 DEF Shapes, KeyDue, Releases, Requests
    <3>. QED
      BY <2>1, <3>3, <3>4, StillDue DEF Due, counters, Endless
  <2>3. CASE UNCHANGED pipe
    BY <1>2, <2>1, <2>3
  <2>. QED
    BY <1>10, <2>2, <2>3 DEF TokenRespond
<1>11. CASE HandlerDies
  <2>1. UNCHANGED counters /\ UNCHANGED pipe
    BY <1>11 DEF HandlerDies
  <2>2. ASSUME NEW r \in AuthReqs, auth[r].at \in {"cleared", "reserving", "reserved", "over"},
               Go(r, "failed")
        PROVE  Goal
    BY <1>1, <1>3, <2>1, <2>2 DEF AuthAt
  <2>. QED
    BY <1>2, <1>11, <2>1, <2>2 DEF HandlerDies
<1>12. CASE Tick
  <2>1. UNCHANGED <<pipe, auth, tok>>
    BY <1>12 DEF Tick
  <2>2. /\ Endless(pending') => Endless(pending)
        /\ \A k \in Keys : Endless(perKey'[k]) => Endless(perKey[k])
    BY <1>12, CounterFacts DEF Tick, Counters
  <2>3. Shapes'
    BY <2>1 DEF Shapes, KeyDue, Releases
  <2>. QED
    BY <2>1, <2>2, <2>3, StillDue DEF Due
<1>13. ASSUME NEW t \in TokReqs, TokenConsume(t) PROVE Goal
  BY <1>2, <1>13 DEF TokenConsume
<1>14. ASSUME NEW t \in TokReqs, NEW c \in Presentable, NEW x \in Exchanges, TokenLookup(t, c, x)
       PROVE  Goal
  BY <1>2, <1>14 DEF TokenLookup
<1>15. CASE UNCHANGED vars
  BY <1>2, <1>15 DEF vars, counters
<1>. QED
  BY <1>4, <1>6, <1>7, <1>8, <1>9, <1>10, <1>11, <1>12, <1>13, <1>14, <1>15, CommandKeepsDue
     DEF Next

(* However commands of pipelines interleave and whichever of them Redis    *)
(* refuses, a counter that could keep clients out has a time to live, or   *)
(* the command that gives it one is on its way.                            *)
THEOREM CountersExpireHolds == Spec => []CountersExpire
<1>1. Init => Shapes /\ ExpiryDue
  <2>. SUFFICES ASSUME Init PROVE Shapes /\ ExpiryDue
    OBVIOUS
  <2>1. \A q \in Requests : pipe[q].cmds = <<>>
    BY DEF Init, NoPipe
  <2>. QED
    BY <2>1 DEF Init, Shapes, Releases, Requests, ExpiryDue, Endless, Missing
<1>2. ASSUME CodeTypes, Pipes, Counters, Shapes, ExpiryDue PROVE CountersExpire
  <2>1. \A q \in AuthReqs : /\ AllDue(q) => <<"EXPIRE", "all">> \in Range(pipe[q].cmds)
                            /\ KeyDue(q) => <<"EXPIRE", "key">> \in Range(pipe[q].cmds)
    <3>1. /\ ReserveCmds[2] = <<"EXPIRE", "all">> /\ 2 \in DOMAIN ReserveCmds
          /\ Reserve3[1] = <<"EXPIRE", "all">> /\ 1 \in DOMAIN Reserve3
          /\ ReserveCmds[4] = <<"EXPIRE", "key">> /\ 4 \in DOMAIN ReserveCmds
          /\ Reserve3[3] = <<"EXPIRE", "key">> /\ 3 \in DOMAIN Reserve3
          /\ Reserve2[2] = <<"EXPIRE", "key">> /\ 2 \in DOMAIN Reserve2
          /\ Reserve1[1] = <<"EXPIRE", "key">> /\ 1 \in DOMAIN Reserve1
      BY DEF ReserveCmds, Reserve3, Reserve2, Reserve1
    <3>. QED
      BY <3>1 DEF AllDue, KeyDue, Range
  <2>2. \A q \in AuthReqs : q \in Requests /\ KeyOf(q) = auth[q].ask.key
    BY DEF Requests, KeyOf
  <2>. QED
    BY <1>2, <2>1, <2>2 DEF CountersExpire, ExpiryDue, Endless
<1>3. CodeTypes /\ Pipes /\ Counters /\ Shapes /\ ExpiryDue /\ [Next]_vars => Shapes' /\ ExpiryDue'
  BY StepKeepsDue
<1>. QED
  BY <1>1, <1>2, <1>3, Invariance, PTL DEF Spec
=============================================================================
