--------------------------- MODULE ToolCallsProofs ---------------------------
(***************************************************************************)
(* Overlapping requests keep their credentials apart, and a tool call      *)
(* reaches the API at most once, for any number of requests, credentials,  *)
(* connections and retries.                                                *)
(***************************************************************************)
EXTENDS ToolCalls, FiniteSetTheorems, TLAPS

\* The parts of TypeOK that the arguments need.
Typed ==
  /\ at \in [Requests -> Places]
  /\ ask \in [Requests -> [header : Headers, wants : Wants]]
  /\ ctx \in [Requests -> Headers]
  /\ carried \in [Requests -> Headers]
  /\ received \in [Requests -> Seq(Headers)]
  /\ answer \in [Requests -> Answers]

Before == {"idle", "challenged", "entered", "valid", "ready", "waiting", "connecting", "sending"}
Called == {"ready", "waiting", "connecting", "sending", "served"}
Inside == {"entered", "valid", "answered"} \cup Called
After == {"answered", "flushing", "done"}

\* What a request has in its context, and on its call, is its own.
Own(r) ==
  /\ at[r] \in Inside => ctx[r] = ask[r].header
  /\ at[r] \in Called \ {"ready"} => carried[r] = ask[r].header
  /\ received[r] \in {<<>>, <<ask[r].header>>}

\* How far a request is says whether the API got its call.
Progress(r) ==
  /\ at[r] \in Before => received[r] = <<>>
  /\ at[r] \in Called => ask[r].wants = "api"
  /\ at[r] = "served" => Len(received[r]) = 1
  /\ at[r] \notin After => answer[r] = "none"
  /\ answer[r] = "result" /\ ask[r].wants = "api" => Len(received[r]) = 1
  /\ answer[r] \in {"http_401", "rpc_error", "challenge"} => received[r] = <<>>

CallsInv == Typed /\ \A r \in Requests : Own(r) /\ Progress(r)

\* Everything these invariants look at.
View(r) == <<at[r], ask[r], ctx[r], carried[r], received[r], answer[r]>>

USE DEF Headers, Wants, Places, Answers, Holding

LEMMA InitCalls == ASSUME Init PROVE CallsInv
<1>1. Typed
  <2>1. at \in [Requests -> Places] /\ answer \in [Requests -> Answers]
    BY DEF Init
  <2>2. ask \in [Requests -> [header : Headers, wants : Wants]]
    BY DEF Init
  <2>3. ctx \in [Requests -> Headers] /\ carried \in [Requests -> Headers]
    BY DEF Init
  <2>4. received \in [Requests -> Seq(Headers)]
    BY DEF Init
  <2> QED
    BY <2>1, <2>2, <2>3, <2>4 DEF Typed
<1>2. ASSUME NEW r \in Requests PROVE Own(r) /\ Progress(r)
  BY DEF Init, Own, Progress, Before, Called, Inside, After
<1> QED
  BY <1>1, <1>2 DEF CallsInv

LEMMA TypedStep == ASSUME Typed, NEW q \in Requests, Arrive(q) \/ Handle(q) \/ Api(q) PROVE Typed'
<1>1. CASE Arrive(q)
  BY <1>1 DEF Typed, Arrive, Go, call
<1>2. CASE Challenge(q) \/ Enter(q) \/ Validate(q) \/ Gate(q)
  BY <1>2 DEF Typed, Challenge, Enter, Validate, Gate, SetHeader, Answer, Go, call
<1>3. CASE AuthFlow(q) \/ Acquire(q) \/ PoolTimeout(q) \/ ConnectFails(q) \/ CallLost(q)
  BY <1>3 DEF Typed, AuthFlow, Acquire, PoolTimeout, ConnectFails, CallLost, Finish, Answer, Go, call
<1>4. CASE Leave(q) \/ Flushed(q)
  BY <1>4 DEF Typed, Leave, Flushed, Go, call
<1>5. CASE Connect(q) \/ ApiAnswers(q)
  BY <1>5 DEF Typed, Connect, ApiAnswers, Finish, Answer, Go, call
<1>6. CASE Serve(q)
  <2>1. Append(received[q], carried[q]) \in Seq(Headers)
    BY DEF Typed
  <2> QED
    BY <1>6, <2>1 DEF Typed, Serve, Go
<1> QED
  BY <1>1, <1>2, <1>3, <1>4, <1>5, <1>6 DEF Handle, Api

\* A step of one request is invisible to the others.
LEMMA OthersKeep ==
  ASSUME Typed, NEW q \in Requests, Arrive(q) \/ Handle(q) \/ Api(q),
         NEW r \in Requests, r # q
  PROVE  View(r)' = View(r)
<1>1. CASE Arrive(q)
  BY <1>1 DEF Typed, View, Arrive, Go, call
<1>2. CASE Challenge(q) \/ Enter(q) \/ Validate(q) \/ Gate(q)
  BY <1>2 DEF Typed, View, Challenge, Enter, Validate, Gate, SetHeader, Answer, Go, call
<1>3. CASE AuthFlow(q) \/ Acquire(q) \/ PoolTimeout(q) \/ ConnectFails(q) \/ CallLost(q)
  BY <1>3 DEF Typed, View, AuthFlow, Acquire, PoolTimeout, ConnectFails, CallLost, Finish, Answer,
              Go, call
<1>4. CASE Leave(q) \/ Flushed(q)
  BY <1>4 DEF Typed, View, Leave, Flushed, Go, call
<1>5. CASE Connect(q) \/ Serve(q) \/ ApiAnswers(q)
  BY <1>5 DEF Typed, View, Connect, Serve, ApiAnswers, Finish, Answer, Go, call
<1> QED
  BY <1>1, <1>2, <1>3, <1>4, <1>5 DEF Handle, Api

\* A request whose view stays as it is keeps its part of the invariant.
LEMMA ViewDecides ==
  ASSUME NEW r \in Requests, Own(r), Progress(r), View(r)' = View(r)
  PROVE  Own(r)' /\ Progress(r)'
<1>1. /\ at[r]' = at[r] /\ ask[r]' = ask[r] /\ ctx[r]' = ctx[r]
      /\ carried[r]' = carried[r] /\ received[r]' = received[r] /\ answer[r]' = answer[r]
  BY DEF View
<1> QED
  BY <1>1 DEF Own, Progress

LEMMA OwnStep ==
  ASSUME Typed, NEW q \in Requests, Own(q), Progress(q), Arrive(q) \/ Handle(q) \/ Api(q)
  PROVE  Own(q)'
<1> USE DEF Typed, Own, Progress, Before, Called, Inside
<1>1. CASE Arrive(q)
  BY <1>1 DEF Arrive, Go, call
<1>2. CASE Challenge(q) \/ Enter(q)
  BY <1>2 DEF Challenge, Enter, SetHeader, Go, call
<1>3. CASE Validate(q) \/ Gate(q)
  BY <1>3 DEF Validate, Gate, Answer, Go, call
<1>4. CASE AuthFlow(q)
  BY <1>4 DEF AuthFlow, Answer, Go
<1>5. CASE Acquire(q) \/ PoolTimeout(q)
  BY <1>5 DEF Acquire, PoolTimeout, Answer, Go, call
<1>6. CASE ConnectFails(q) \/ CallLost(q)
  BY <1>6 DEF ConnectFails, CallLost, Finish, Answer, Go
<1>7. CASE Leave(q) \/ Flushed(q)
  BY <1>7 DEF Leave, Flushed, Go, call
<1>8. CASE Connect(q) \/ ApiAnswers(q)
  BY <1>8 DEF Connect, ApiAnswers, Finish, Answer, Go, call
<1>9. CASE Serve(q)
  <2>1. /\ received'[q] = Append(<<>>, ask[q].header)
        /\ UNCHANGED <<ask, ctx, carried>> /\ at[q] = "sending" /\ at'[q] = "served"
    BY <1>9 DEF Serve, Go
  <2>2. received'[q] = <<ask[q].header>>
    BY <2>1
  <2> QED
    BY <2>1, <2>2
<1> QED
  BY <1>1, <1>2, <1>3, <1>4, <1>5, <1>6, <1>7, <1>8, <1>9 DEF Handle, Api

LEMMA ProgressStep ==
  ASSUME Typed, NEW q \in Requests, Progress(q), Arrive(q) \/ Handle(q) \/ Api(q)
  PROVE  Progress(q)'
<1> USE DEF Typed, Progress, Before, Called, After
<1>1. CASE Arrive(q)
  BY <1>1 DEF Arrive, Go, call
<1>2. CASE Challenge(q) \/ Enter(q)
  BY <1>2 DEF Challenge, Enter, Go, call
<1>3. CASE Validate(q) \/ Gate(q)
  BY <1>3 DEF Validate, Gate, Answer, Go, call
<1>4. CASE AuthFlow(q)
  BY <1>4 DEF AuthFlow, Answer, Go
<1>5. CASE Acquire(q) \/ PoolTimeout(q)
  BY <1>5 DEF Acquire, PoolTimeout, Answer, Go, call
<1>6. CASE ConnectFails(q) \/ CallLost(q)
  BY <1>6 DEF ConnectFails, CallLost, Finish, Answer, Go
<1>7. CASE Leave(q) \/ Flushed(q)
  BY <1>7 DEF Leave, Flushed, Go, call
<1>8. CASE Connect(q) \/ ApiAnswers(q)
  BY <1>8 DEF Connect, ApiAnswers, Finish, Answer, Go, call
<1>9. CASE Serve(q)
  <2>1. /\ Len(received'[q]) = 1
        /\ UNCHANGED <<ask, answer>> /\ at[q] = "sending" /\ at'[q] = "served"
    BY <1>9 DEF Serve, Go
  <2> QED
    BY <2>1
<1> QED
  BY <1>1, <1>2, <1>3, <1>4, <1>5, <1>6, <1>7, <1>8, <1>9 DEF Handle, Api

LEMMA NextCalls == ASSUME CallsInv, [Next]_vars PROVE CallsInv'
<1> USE DEF CallsInv
<1>1. ASSUME NEW q \in Requests, Arrive(q) \/ Handle(q) \/ Api(q) PROVE CallsInv'
  <2>1. Typed'
    BY <1>1, TypedStep
  <2>2. ASSUME NEW r \in Requests PROVE Own(r)' /\ Progress(r)'
    <3>1. CASE r = q
      BY <1>1, <3>1, OwnStep, ProgressStep
    <3>2. CASE r # q
      BY <1>1, <3>2, OthersKeep, ViewDecides
    <3> QED
      BY <3>1, <3>2
  <2> QED
    BY <2>1, <2>2
<1>2. ASSUME UNCHANGED <<at, ask, ctx, carried, received, answer>> PROVE CallsInv'
  <2>1. \A r \in Requests : View(r)' = View(r)
    BY <1>2 DEF View
  <2> QED
    BY <1>2, <2>1, ViewDecides DEF Typed
<1>3. CASE Deliver \/ Expire
  BY <1>2, <1>3 DEF Deliver, Expire, call
<1>4. CASE UNCHANGED vars
  BY <1>2, <1>4 DEF vars
<1> QED
  BY <1>1, <1>3, <1>4 DEF Next

THEOREM CallsInvariant == Spec => []CallsInv
<1>1. Init => CallsInv
  BY InitCalls
<1>2. CallsInv /\ [Next]_vars => CallsInv'
  BY NextCalls
<1> QED
  BY <1>1, <1>2, PTL DEF Spec

(* Whatever overlaps, the API gets calls with the credential of the        *)
(* request they are made for (BearerPassthroughMiddleware, -Auth).         *)
THEOREM OwnCredentialHolds == Spec => []OwnCredential
<1>1. CallsInv => OwnCredential
  BY DEF CallsInv, Own, OwnCredential
<1> QED
  BY <1>1, CallsInvariant, PTL

(* A tool call reaches the API at most once, whatever is retried, and      *)
(* exactly as often as its answer says (build_api_client).                 *)
THEOREM ReachesApiOnceHolds == Spec => []ReachesApiOnce
<1>1. CallsInv => ReachesApiOnce
  <2> SUFFICES ASSUME CallsInv, NEW r \in Requests
               PROVE  /\ Len(received[r]) <= 1
                      /\ answer[r] = "result" /\ ask[r].wants = "api" => Len(received[r]) = 1
                      /\ answer[r] \in {"http_401", "rpc_error", "challenge"} => received[r] = <<>>
    BY DEF ReachesApiOnce
  <2>1. received[r] \in {<<>>, <<ask[r].header>>}
    BY DEF CallsInv, Own
  <2>2. CASE received[r] = <<>>
    BY <2>2 DEF CallsInv, Progress
  <2>3. CASE received[r] = <<ask[r].header>>
    <3>1. Len(<<ask[r].header>>) = 1
      OBVIOUS
    <3>2. Len(received[r]) = 1
      BY <2>3, <3>1
    <3> QED
      BY <2>3, <3>2 DEF CallsInv, Progress
  <2> QED
    BY <2>1, <2>2, <2>3
<1> QED
  BY <1>1, CallsInvariant, PTL
-----------------------------------------------------------------------------
\* Captured and not delivered: the request is still there to wait for it.
AwaitedLater ==
  /\ pending \subseteq Requests
  /\ awaited \in [Requests -> SUBSET Requests]
  /\ \A r \in pending : at[r] = "answered" \/ (at[r] = "flushing" /\ r \in awaited[r])

\* A request captures when it is answered, and neither it nor the others stop
\* waiting otherwise.
LEMMA StepAwaits ==
  ASSUME Typed, AwaitedLater, NEW q \in Requests, Arrive(q) \/ Handle(q) \/ Api(q)
  PROVE  AwaitedLater'
<1> USE DEF Typed, AwaitedLater, analytics
<1>1. CASE Arrive(q) \/ Challenge(q) \/ Enter(q)
  BY <1>1 DEF Arrive, Challenge, Enter, Go
<1>2. CASE Validate(q) \/ Gate(q) \/ AuthFlow(q)
  BY <1>2 DEF Validate, Gate, AuthFlow, Answer, Go
<1>3. CASE Acquire(q) \/ PoolTimeout(q) \/ ConnectFails(q) \/ CallLost(q)
  BY <1>3 DEF Acquire, PoolTimeout, ConnectFails, CallLost, Finish, Answer, Go
<1>4. CASE Leave(q)
  BY <1>4 DEF Leave, Go
<1>5. CASE Flushed(q)
  <2>1. q \notin pending
    BY <1>5 DEF Flushed
  <2> QED
    BY <1>5, <2>1 DEF Flushed, Go
<1>6. CASE Connect(q) \/ Serve(q) \/ ApiAnswers(q)
  BY <1>6 DEF Connect, Serve, ApiAnswers, Finish, Answer, Go
<1> QED
  BY <1>1, <1>2, <1>3, <1>4, <1>5, <1>6 DEF Handle, Api

LEMMA NextAwaits == ASSUME Typed, AwaitedLater, [Next]_vars PROVE AwaitedLater'
<1>1. ASSUME NEW q \in Requests, Arrive(q) \/ Handle(q) \/ Api(q) PROVE AwaitedLater'
  BY <1>1, StepAwaits
<1>2. CASE Deliver \/ Expire \/ UNCHANGED vars
  BY <1>2 DEF AwaitedLater, Deliver, Expire, vars, analytics
<1> QED
  BY <1>1, <1>2 DEF Next

(* When no request is in flight, all analytics are delivered, however many *)
(* requests overlapped and whether or not they raised                      *)
(* (PostHogFlushMiddleware).                                               *)
THEOREM NothingLeftBehindHolds == Spec => []NothingLeftBehind
<1>1. Init => AwaitedLater
  BY DEF Init, AwaitedLater
<1>2. CallsInv /\ AwaitedLater /\ [Next]_vars => AwaitedLater'
  BY NextAwaits DEF CallsInv
<1>3. AwaitedLater => NothingLeftBehind
  BY DEF AwaitedLater, NothingLeftBehind
<1> QED
  BY <1>1, <1>2, <1>3, CallsInvariant, PTL DEF Spec
-----------------------------------------------------------------------------
\* Requests with a connection of the shared client.
Holders == {r \in Requests : at[r] \in Holding}

\* The rest of TypeOK: failed attempts, and the pool.
Pooled ==
  /\ live \subseteq Credentials
  /\ attempts \in [Requests -> 0..Retries]
  /\ free = MaxConnections - Cardinality(Holders)

\* A step takes a connection, gives one back, or leaves the pool alone.
LEMMA PoolSteps ==
  ASSUME Typed, NEW q \in Requests, Arrive(q) \/ Handle(q) \/ Api(q)
  PROVE  \/ Holders' = Holders /\ free' = free
         \/ q \notin Holders /\ Holders' = Holders \cup {q} /\ free' = free - 1
         \/ q \in Holders /\ Holders' = Holders \ {q} /\ free' = free + 1
<1> USE DEF Typed, Holders
<1>1. CASE Arrive(q) \/ Challenge(q) \/ Enter(q)
  BY <1>1 DEF Arrive, Challenge, Enter, Go, call
<1>2. CASE Validate(q) \/ Gate(q) \/ AuthFlow(q)
  BY <1>2 DEF Validate, Gate, AuthFlow, Answer, Go, call
<1>3. CASE Acquire(q)
  BY <1>3 DEF Acquire, Go
<1>4. CASE PoolTimeout(q) \/ Leave(q) \/ Flushed(q)
  BY <1>4 DEF PoolTimeout, Leave, Flushed, Answer, Go, call
<1>5. CASE ConnectFails(q) \/ CallLost(q) \/ ApiAnswers(q)
  BY <1>5 DEF ConnectFails, CallLost, ApiAnswers, Finish, Answer, Go
<1>6. CASE Connect(q) \/ Serve(q)
  BY <1>6 DEF Connect, Serve, Go, call
<1> QED
  BY <1>1, <1>2, <1>3, <1>4, <1>5, <1>6 DEF Handle, Api

LEMMA AttemptsBounded ==
  ASSUME Pooled, NEW q \in Requests, Arrive(q) \/ Handle(q) \/ Api(q)
  PROVE  live' \subseteq Credentials /\ attempts' \in [Requests -> 0..Retries]
<1> USE PoolAssumption DEF Pooled
<1>1. CASE Arrive(q) \/ Challenge(q) \/ Enter(q) \/ Validate(q) \/ Gate(q) \/ Leave(q) \/ Flushed(q)
  BY <1>1 DEF Arrive, Challenge, Enter, Validate, Gate, Leave, Flushed, call
<1>2. CASE AuthFlow(q) \/ Acquire(q) \/ PoolTimeout(q) \/ Connect(q) \/ Serve(q)
  BY <1>2 DEF AuthFlow, Acquire, PoolTimeout, Connect, Serve, call
<1>3. CASE ConnectFails(q)
  BY <1>3 DEF ConnectFails, Finish
<1>4. CASE CallLost(q) \/ ApiAnswers(q)
  BY <1>4 DEF CallLost, ApiAnswers, Finish
<1> QED
  BY <1>1, <1>2, <1>3, <1>4 DEF Handle, Api

LEMMA NextPooled ==
  ASSUME IsFiniteSet(Requests), Typed, Pooled, [Next]_vars
  PROVE  Pooled'
<1>1. IsFiniteSet(Holders) /\ Cardinality(Holders) \in Nat
  BY FS_Subset, FS_CardinalityType DEF Holders
<1>2. ASSUME NEW q \in Requests, Arrive(q) \/ Handle(q) \/ Api(q) PROVE Pooled'
  <2>1. q \notin Holders => Cardinality(Holders \cup {q}) = Cardinality(Holders) + 1
    BY <1>1, FS_AddElement
  <2>2. q \in Holders => Cardinality(Holders \ {q}) = Cardinality(Holders) - 1
    BY <1>1, FS_RemoveElement
  <2>3. free' = MaxConnections - Cardinality(Holders')
    <3>1. \/ Holders' = Holders /\ free' = free
          \/ q \notin Holders /\ Holders' = Holders \cup {q} /\ free' = free - 1
          \/ q \in Holders /\ Holders' = Holders \ {q} /\ free' = free + 1
      BY <1>2, PoolSteps
    <3> DEFINE n == Cardinality(Holders)
               m == Cardinality(Holders')
    <3>2. \/ m = n /\ free' = free
          \/ m = n + 1 /\ free' = free - 1
          \/ m = n - 1 /\ free' = free + 1
      BY <2>1, <2>2, <3>1
    <3>3. n \in Nat /\ free = MaxConnections - n
      BY <1>1 DEF Pooled
    <3>4. free' = MaxConnections - m
      <4> HIDE DEF n, m
      <4> QED
        BY <3>2, <3>3, PoolAssumption
    <3> QED
      BY <3>4
  <2> QED
    BY <1>2, <2>3, AttemptsBounded DEF Pooled
<1>3. CASE Deliver \/ Expire \/ UNCHANGED vars
  BY <1>3 DEF Pooled, Holders, Deliver, Expire, vars, call
<1> QED
  BY <1>2, <1>3 DEF Next

(* The types of all state, and that the shared client neither loses a      *)
(* connection nor lends one twice, whatever is retried, lost or late.      *)
THEOREM TypeCorrect ==
  ASSUME IsFiniteSet(Requests)
  PROVE  Spec => []TypeOK
<1>1. Init => Pooled /\ AwaitedLater
  <2> SUFFICES ASSUME Init PROVE Pooled /\ AwaitedLater
    OBVIOUS
  <2>1. Holders = {}
    BY DEF Init, Holders
  <2>2. Cardinality(Holders) = 0
    BY <2>1, FS_EmptySet
  <2> QED
    BY <2>2, PoolAssumption DEF Init, Pooled, AwaitedLater
<1>2. CallsInv /\ Pooled /\ AwaitedLater /\ [Next]_vars => Pooled' /\ AwaitedLater'
  BY NextPooled, NextAwaits DEF CallsInv
<1>3. CallsInv /\ Pooled /\ AwaitedLater => TypeOK
  BY DEF CallsInv, Typed, Pooled, AwaitedLater, TypeOK, Holders
<1> QED
  BY <1>1, <1>2, <1>3, CallsInvariant, PTL DEF Spec

(* A call that finds no free connection in the shared client's pool waits  *)
(* for requests that hold one: the pool never runs dry for good, whatever  *)
(* calls fail, are lost or are retried.                                    *)
THEOREM EmptyPoolIsInUse ==
  ASSUME IsFiniteSet(Requests)
  PROVE  Spec => [](free = 0 => Holders # {})
<1>1. TypeOK => (free = 0 => Holders # {})
  <2> SUFFICES ASSUME TypeOK, Holders = {} PROVE free # 0
    OBVIOUS
  <2>1. free = MaxConnections - Cardinality({})
    BY DEF TypeOK, Holders
  <2> QED
    BY <2>1, FS_EmptySet, PoolAssumption
<1> QED
  BY <1>1, TypeCorrect, PTL
=============================================================================
