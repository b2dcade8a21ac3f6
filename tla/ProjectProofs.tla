--------------------------- MODULE ProjectProofs ---------------------------
(***************************************************************************)
(* Proofs about the wait tools: ProjectWait, the loop that polls a         *)
(* project, and ProjectResult, what becomes of the project.  A call does   *)
(* one after the other, so they share no variable.                         *)
(***************************************************************************)
EXTENDS ProjectWait, ProjectResult, FiniteSetTheorems, WellFoundedInduction, TLAPS
-----------------------------------------------------------------------------
(* Waiting. *)

\* What was served is still true when it arrives: a finished project stays so.
Served ==
  phase = "served" =>
    \/ seen \in Running
    \/ seen \in TerminalStatuses /\ seen = status

\* How much time a call has used, by where it is: the last poll begins no later
\* than one pause after the deadline.
Budget ==
  LET last == asked.timeout + Pause(asked.interval)
  IN  /\ phase = "idle" => now = 0
      /\ phase = "ready" => now <= last
      /\ phase \in {"sent", "served"} => timer <= Latency /\ now <= last + timer
      /\ phase = "sleeping" => now + timer <= last
      /\ phase \in Answers => now <= last + Latency

WaitInv == WaitTypeOK /\ Served /\ AnswerIsTrue /\ Budget

(* The deadline and the pause after it are numbers.                        *)
LEMMA WaitNumbers ==
  ASSUME WaitTypeOK
  PROVE  /\ asked.timeout \in Nat /\ Pause(asked.interval) \in Nat /\ Latency \in Nat
         /\ now \in Nat /\ timer \in Nat /\ token \in Nat /\ Forever \in Nat /\ MaxClock \in Nat
<1>1. asked.timeout \in Timeouts \cup {0} /\ asked.interval \in Intervals \cup {0}
  BY DEF WaitTypeOK
<1>2. asked.timeout \in Nat /\ asked.interval \in Nat
  <2>1. \A x \in Timeouts \cup {0} : x \in Nat
    BY TimesAssumption
  <2>2. \A x \in Intervals \cup {0} : x \in Nat
    BY TimesAssumption
  <2>. QED
    BY <1>1, <2>1, <2>2
<1>3. Pause(asked.interval) \in Nat /\ Latency \in Nat /\ Forever \in Nat /\ MaxClock \in Nat
  BY <1>2, TimesAssumption DEF Pause
<1>4. now \in Nat /\ timer \in Nat /\ token \in Nat
  BY <1>3 DEF WaitTypeOK
<1>. QED
  BY <1>2, <1>3, <1>4

LEMMA WaitStarts == ASSUME WaitInit PROVE WaitInv
BY TimesAssumption
   DEF WaitInit, WaitInv, WaitTypeOK, Served, AnswerIsTrue, Budget, Pause, Answers,
       TerminalStatuses, Running

(* A step of the handler: the clock stands still, and so does the project. *)
LEMMA HandlerKeeps ==
  ASSUME WaitInv, Start \/ SendPoll \/ ServePoll \/ PollFails \/ ReceivePoll \/ Wake
  PROVE  WaitInv'
<1>. USE DEF Running, TerminalStatuses, Answers
<1>1. /\ asked.timeout \in Nat /\ Pause(asked.interval) \in Nat /\ Latency \in Nat
      /\ now \in Nat /\ timer \in Nat /\ token \in Nat /\ Forever \in Nat /\ MaxClock \in Nat
  BY WaitNumbers DEF WaitInv
<1>2. CASE Start
  <2>1. PICK i \in Intervals, d \in Timeouts : asked' = [interval |-> i, timeout |-> d]
    BY <1>2 DEF Start
  <2>2. asked'.timeout \in Nat /\ Pause(asked'.interval) \in Nat /\ now' = 0
    BY <1>2, <2>1, TimesAssumption DEF Start, Pause, WaitInv, Budget
  <2>3. WaitTypeOK' /\ Served' /\ AnswerIsTrue'
    BY <1>2, <2>1 DEF Start, WaitInv, WaitTypeOK, Served, AnswerIsTrue
  <2>4. Budget'
    BY <1>2, <2>2 DEF Start, Budget
  <2>. QED
    BY <2>3, <2>4 DEF WaitInv
<1>. DEFINE last == asked.timeout + Pause(asked.interval)
<1>3. CASE SendPoll
  <2>1. WaitTypeOK' /\ Served' /\ AnswerIsTrue'
    BY <1>3 DEF SendPoll, WaitInv, WaitTypeOK, Served, AnswerIsTrue
  <2>2. Budget'
    BY <1>1, <1>3 DEF SendPoll, WaitInv, Budget, Pause
  <2>. QED
    BY <2>1, <2>2 DEF WaitInv
<1>4. CASE ServePoll
  <2>1. WaitTypeOK' /\ Served' /\ AnswerIsTrue'
    BY <1>4 DEF ServePoll, WaitInv, WaitTypeOK, Served, AnswerIsTrue
  <2>2. Budget'
    BY <1>1, <1>4 DEF ServePoll, WaitInv, Budget, Pause
  <2>. QED
    BY <2>1, <2>2 DEF WaitInv
<1>5. CASE PollFails
  <2>1. WaitTypeOK' /\ Served' /\ AnswerIsTrue'
    BY <1>5 DEF PollFails, WaitInv, WaitTypeOK, Served, AnswerIsTrue
  <2>2. Budget'
    BY <1>1, <1>5 DEF PollFails, WaitInv, Budget, Pause
  <2>. QED
    BY <2>1, <2>2 DEF WaitInv
<1>6. CASE ReceivePoll
  <2>1. now <= last + Latency /\ phase = "served"
    BY <1>1, <1>6 DEF ReceivePoll, WaitInv, Budget
  <2>2. WaitTypeOK'
    BY <1>1, <1>6 DEF ReceivePoll, WaitInv, WaitTypeOK
  <2>3. Served' /\ AnswerIsTrue'
    BY <1>6 DEF ReceivePoll, WaitInv, Served, AnswerIsTrue, DeadlinePassed
  <2>4. Budget'
    BY <1>1, <1>6, <2>1 DEF ReceivePoll, WaitInv, Budget, Pause, DeadlinePassed
  <2>. QED
    BY <2>2, <2>3, <2>4 DEF WaitInv
<1>7. CASE Wake
  <2>1. WaitTypeOK' /\ Served' /\ AnswerIsTrue'
    BY <1>7 DEF Wake, WaitInv, WaitTypeOK, Served, AnswerIsTrue
  <2>2. Budget'
    BY <1>1, <1>7 DEF Wake, WaitInv, Budget, Pause
  <2>. QED
    BY <2>1, <2>2 DEF WaitInv
<1>. QED
  BY <1>2, <1>3, <1>4, <1>5, <1>6, <1>7

(* Magic Hour works on a project only until it is finished: what a poll or *)
(* an answer says of a finished one stays true.                            *)
LEMMA ProgressKeeps == ASSUME WaitInv, Progress PROVE WaitInv'
<1>1. WaitTypeOK' /\ Served' /\ AnswerIsTrue'
  BY DEF Progress, WaitInv, WaitTypeOK, Served, AnswerIsTrue, Running, TerminalStatuses
<1>2. Budget'
  BY DEF Progress, WaitInv, Budget, Pause, Answers, TerminalStatuses
<1>. QED
  BY <1>1, <1>2 DEF WaitInv

(* The clock moves during a poll, no longer than the poll may take, and    *)
(* during a sleep, no longer than is left of it.                           *)
LEMMA TickKeeps == ASSUME WaitInv, Tick PROVE WaitInv'
<1>1. /\ asked.timeout \in Nat /\ Pause(asked.interval) \in Nat /\ Latency \in Nat
      /\ now \in Nat /\ timer \in Nat /\ token \in Nat /\ Forever \in Nat /\ MaxClock \in Nat
  BY WaitNumbers DEF WaitInv
<1>2. now' \in 0..MaxClock /\ now' <= now + 1
  BY <1>1 DEF Tick, WaitInv, WaitTypeOK
<1>3. token' \in 0..Forever
  BY <1>1 DEF Tick, WaitInv, WaitTypeOK
<1>4. timer' \in Nat
  BY <1>1 DEF Tick
<1>5. WaitTypeOK'
  BY <1>2, <1>3, <1>4 DEF Tick, WaitInv, WaitTypeOK
<1>6. Served' /\ AnswerIsTrue'
  BY DEF Tick, WaitInv, Served, AnswerIsTrue, TerminalStatuses
<1>7. Budget'
  BY <1>1, <1>2 DEF Tick, WaitInv, Budget, Pause, Answers, TerminalStatuses
<1>. QED
  BY <1>5, <1>6, <1>7 DEF WaitInv

LEMMA WaitInvariance == WaitSpec => []WaitInv
<1>1. WaitInit => WaitInv
  BY WaitStarts
<1>2. WaitInv /\ [WaitNext]_waitVars => WaitInv'
  <2>. SUFFICES ASSUME WaitInv, [WaitNext]_waitVars PROVE WaitInv'
    OBVIOUS
  <2>1. CASE Progress
    BY <2>1, ProgressKeeps
  <2>2. CASE Tick
    BY <2>2, TickKeeps
  <2>3. CASE UNCHANGED waitVars
    BY <2>3 DEF waitVars, WaitInv, WaitTypeOK, Served, AnswerIsTrue, Budget, Pause
  <2>. QED
    BY <2>1, <2>2, <2>3, HandlerKeeps DEF WaitNext
<1>. QED
  BY <1>1, <1>2, PTL DEF WaitSpec
-----------------------------------------------------------------------------
(* Every variable of the wait has its type; the sleep never becomes        *)
(* negative.                                                               *)
THEOREM WaitTypeCorrect == WaitSpec => []WaitTypeOK
<1>1. WaitInv => WaitTypeOK
  BY DEF WaitInv
<1>. QED
  BY <1>1, WaitInvariance, PTL

(* What a wait answers is true, for every timing of the project, the polls *)
(* and the deadline: _wait_for_project looks at the status before it looks *)
(* at the clock, and a finished project stays as it is.                    *)
THEOREM AnswerIsTrueHolds == WaitSpec => []AnswerIsTrue
<1>1. WaitInv => AnswerIsTrue
  BY DEF WaitInv
<1>. QED
  BY <1>1, WaitInvariance, PTL

LEMMA OverrunBounded == ASSUME WaitInv PROVE BoundedOverrun
<1>. SUFFICES ASSUME phase # "idle"
              PROVE  now <= asked.timeout + Pause(asked.interval) + Latency
  BY DEF BoundedOverrun
<1>1. /\ asked.timeout \in Nat /\ Pause(asked.interval) \in Nat /\ Latency \in Nat
      /\ now \in Nat /\ timer \in Nat
  BY WaitNumbers DEF WaitInv
<1>2. phase \in {"ready", "sent", "served", "sleeping"} \cup Answers
  BY DEF WaitInv, WaitTypeOK
<1>. QED
  BY <1>1, <1>2 DEF WaitInv, Budget

(* A wait overruns the timeout that its client asked for by one pause and  *)
(* one poll at most, whatever interval was asked for.                      *)
THEOREM BoundedOverrunHolds == WaitSpec => []BoundedOverrun
<1>1. WaitInv => BoundedOverrun
  BY OverrunBounded
<1>. QED
  BY <1>1, WaitInvariance, PTL

\* What a call was asked for is what a client may ask for.
Asked == phase # "idle" => asked.interval \in Intervals /\ asked.timeout \in Timeouts

(* A call ends before the clock of the model stands still.                 *)
LEMMA ClockRuns ==
  ASSUME WaitInv, Asked, phase # "idle"
  PROVE  asked.timeout + Pause(asked.interval) + Latency < MaxClock
<1>1. asked.interval \in Intervals /\ asked.timeout \in Timeouts
  BY DEF Asked
<1>2. MaxClock > asked.timeout + asked.interval + MinPause + Latency
  BY <1>1, TimesAssumption
<1>3. /\ asked.timeout \in Nat /\ asked.interval \in Nat
      /\ MinPause \in Nat /\ Latency \in Nat /\ MaxClock \in Nat
  <2>1. /\ \A x \in Intervals : x \in Nat
        /\ \A x \in Timeouts : x \in Nat
    BY TimesAssumption
  <2>. QED
    BY <1>1, <2>1, TimesAssumption
<1>. QED
  BY <1>2, <1>3 DEF Pause

(* A poll and the pause after it are over in five steps and a moment.      *)
LEMMA StepCounts ==
  ASSUME WaitInv, WaitTypeOK', BoundedOverrun', Asked, phase # "idle", UNCHANGED status,
         [WaitNext]_waitVars, waitVars' # waitVars
  PROVE  StepsLeft' \in 0..StepsLeft - 1
<1>. DEFINE end == asked.timeout + Pause(asked.interval) + Latency
            rank == CASE phase = "ready" -> 3
                      [] phase = "sent" -> 2
                      [] phase = "served" -> 1
                      [] phase = "sleeping" /\ timer # Pause(asked.interval) -> 4
                      [] OTHER -> 0
<1>1. /\ asked.timeout \in Nat /\ Pause(asked.interval) \in Nat /\ Latency \in Nat
      /\ now \in Nat /\ timer \in Nat /\ MaxClock \in Nat /\ end \in Nat
  BY WaitNumbers DEF WaitInv
<1>2. end < MaxClock
  BY ClockRuns
<1>3. now' \in Nat /\ (phase' # "idle" => now' <= asked'.timeout + Pause(asked'.interval) + Latency)
  <2>1. now' \in 0..MaxClock
    BY DEF WaitTypeOK
  <2>. QED
    BY <1>1, <2>1 DEF BoundedOverrun
<1>4. ~Start /\ ~Progress
  BY DEF Start, Progress, Running, TerminalStatuses
<1>5. phase' # "idle" /\ asked' = asked
  BY <1>4 DEF WaitNext, SendPoll, ServePoll, PollFails, ReceivePoll, Wake, Tick, TerminalStatuses,
              Running
<1>6. Pause(asked.interval) # 0
  BY TimesAssumption, <1>1 DEF Pause
<1>7. \/ now' = now /\ rank' \in 0..rank - 1
      \/ now' = now + 1 /\ rank' \in 0..rank + 4
  <2>1. rank \in 0..4
    OBVIOUS
  <2>2. CASE SendPoll
    BY <2>2 DEF SendPoll
  <2>3. CASE ServePoll
    BY <2>3 DEF ServePoll
  <2>4. CASE PollFails
    BY <2>4 DEF PollFails
  <2>5. CASE ReceivePoll
    BY <2>5 DEF ReceivePoll, TerminalStatuses
  <2>6. CASE Wake
    BY <1>6, <2>6 DEF Wake
  <2>7. CASE Tick
    <3>1. now <= end
      BY OverrunBounded DEF BoundedOverrun
    <3>2. now' = now + 1
      BY <1>1, <1>2, <2>7, <3>1 DEF Tick
    <3>3. rank' \in 0..4
      OBVIOUS
    <3>4. rank' \in 0..rank + 4
      <4>. HIDE DEF rank
      <4>. QED
        BY <2>1, <3>3
    <3>. QED
      BY <3>2, <3>4
  <2>. QED
    BY <1>4, <2>2, <2>3, <2>4, <2>5, <2>6, <2>7 DEF WaitNext
<1>. QED
  BY <1>1, <1>3, <1>5, <1>7 DEF StepsLeft

(* After boundedly many polls and moments a wait has answered: the floor   *)
(* under the poll interval makes every poll cost time, and the deadline    *)
(* bounds the time.  With the fairness of the event loop this is WaitEnds. *)
THEOREM PollsRunOutHolds == WaitSpec => PollsRunOut
<1>. DEFINE Fewer == phase # "idle" /\ UNCHANGED status => StepsLeft' \in 0..StepsLeft - 1
<1>1. WaitInit => Asked
  BY DEF WaitInit, Asked
<1>2. Asked /\ [WaitNext]_waitVars => Asked'
  BY DEF Asked, WaitNext, Start, SendPoll, ServePoll, PollFails, ReceivePoll, Wake, Progress, Tick,
         waitVars
<1>3. WaitInv /\ WaitTypeOK' /\ BoundedOverrun' /\ Asked /\ [WaitNext]_waitVars => [Fewer]_waitVars
  BY StepCounts
<1>. QED
  BY <1>1, <1>2, <1>3, WaitInvariance, WaitTypeCorrect, BoundedOverrunHolds, PTL
     DEF WaitSpec, PollsRunOut
-----------------------------------------------------------------------------
(* Listing the downloads with a URL: every set of positions has one        *)
(* listing from first to last, by induction on the last position.          *)

\* u lists S from its least to its greatest member.
Lists(u, S) ==
  /\ u \in [1..Cardinality(S) -> S]
  /\ \A i, j \in DOMAIN u : i < j => u[i] < u[j]

(* Every nonempty set of natural numbers has a least member.               *)
LEMMA LeastMember ==
  ASSUME NEW S, S \subseteq Nat, S # {}
  PROVE  \E m \in S : \A k \in S : ~(k < m)
<1>. DEFINE Less == {p \in Nat \X Nat : p[1] < p[2]}
<1>1. OpToRel(<, Nat) = Less
  BY DEF OpToRel
<1>2. IsWellFoundedOn(Less, Nat)
  BY <1>1, NatLessThanWellFounded
<1>3. PICK m \in S : \A k \in S : ~(<<k, m>> \in Less)
  <2>. HIDE DEF Less
  <2>. QED
    BY <1>2, WFMin
<1>. QED
  BY <1>3

LEMMA SmallSets ==
  ASSUME NEW n \in Nat, NEW S \in SUBSET (1..n)
  PROVE  IsFiniteSet(S) /\ Cardinality(S) \in Nat /\ Cardinality(S) <= n
<1>1. IsFiniteSet(1..n) /\ Cardinality(1..n) = n
  BY FS_Interval
<1>. QED
  BY <1>1, FS_Subset, FS_CardinalityType

LEMMA ListingExists ==
  ASSUME NEW n \in Nat
  PROVE  \A S \in SUBSET (1..n) : \E u : Lists(u, S)
<1>. DEFINE Listed(m) == \A S \in SUBSET (1..m) : \E u : Lists(u, S)
            Bad == {m \in Nat : ~Listed(m)}
<1>1. SUFFICES ASSUME Bad # {} PROVE FALSE
  OBVIOUS
<1>2. PICK m \in Bad : \A k \in Bad : ~(k < m)
  BY <1>1, LeastMember
<1>3. PICK S \in SUBSET (1..m) : ~\E u : Lists(u, S)
  BY <1>2
<1>4. IsFiniteSet(S) /\ Cardinality(S) \in Nat
  BY <1>2, SmallSets
<1>5. m # 0
  <2>. SUFFICES ASSUME m = 0 PROVE FALSE
    OBVIOUS
  <2>1. S = {}
    BY <1>3
  <2>2. S = {} /\ Cardinality(S) = 0
    BY <2>1, FS_EmptySet
  <2>3. Lists([i \in 1..0 |-> 0], S)
    BY <2>2 DEF Lists
  <2>. QED
    BY <1>3, <2>3
<1>6. m - 1 \in Nat /\ Listed(m - 1)
  BY <1>2, <1>5
<1>7. m \in S
  <2>. SUFFICES ASSUME m \notin S PROVE FALSE
    OBVIOUS
  <2>1. S \in SUBSET (1..m - 1)
    BY <1>2
  <2>. QED
    BY <1>3, <1>6, <2>1
<1>. DEFINE R == S \ {m}
            c == Cardinality(R)
<1>8. R \in SUBSET (1..m - 1) /\ c \in Nat /\ Cardinality(S) = c + 1
  <2>1. R \in SUBSET (1..m - 1)
    BY <1>2
  <2>2. IsFiniteSet(R) /\ Cardinality(R) = Cardinality(S) - 1
    BY <1>4, <1>7, FS_RemoveElement
  <2>. QED
    BY <1>4, <2>1, <2>2, FS_CardinalityType
<1>9. PICK u : Lists(u, R)
  BY <1>6, <1>8
<1>. DEFINE w == [i \in 1..c + 1 |-> IF i = c + 1 THEN m ELSE u[i]]
<1>10. /\ u \in [1..c -> R]
       /\ \A i, j \in 1..c : i < j => u[i] < u[j]
  <2>1. /\ u \in [1..c -> R]
        /\ \A i, j \in DOMAIN u : i < j => u[i] < u[j]
    BY <1>9 DEF Lists
  <2>2. DOMAIN u = 1..c
    BY <2>1
  <2>. QED
    BY <2>1, <2>2
<1>. HIDE DEF c
<1>11. ASSUME NEW i \in 1..c PROVE u[i] \in S /\ u[i] \in Nat /\ u[i] < m
  <2>1. u[i] \in R
    BY <1>10
  <2>2. u[i] \in 1..m - 1 /\ u[i] \in S
    BY <1>8, <2>1
  <2>. QED
    BY <1>2, <2>2
<1>12. w \in [1..Cardinality(S) -> S] /\ DOMAIN w = 1..c + 1
  BY <1>7, <1>8, <1>11
<1>13. ASSUME NEW i \in 1..c + 1, NEW j \in 1..c + 1, i < j PROVE w[i] < w[j]
  <2>1. i \in 1..c /\ w[i] = u[i]
    BY <1>8, <1>13
  <2>2. CASE j = c + 1
    BY <1>11, <2>1, <2>2
  <2>3. CASE j # c + 1
    <3>1. j \in 1..c /\ w[j] = u[j]
      BY <1>8, <2>3
    <3>. QED
      BY <1>10, <1>13, <2>1, <3>1
  <2>. QED
    BY <2>2, <2>3
<1>14. Lists(w, S)
  BY <1>12, <1>13 DEF Lists
<1>. QED
  BY <1>3, <1>14
-----------------------------------------------------------------------------
(* The result. *)

ProjectOK ==
  /\ project.status \in Statuses
  /\ project.downloads \in Seq(Entries)
  /\ Len(project.downloads) <= MaxDownloads

\* The blocks before the downloads, and those a download leaves.
Opening == StatusText \o Guidance \o NoUrlsText
OpeningBlock == [block : {"status", "guidance", "no_urls"}, n : Nat]
Outcomes == {"media", "failed"}

\* So far a wait has told of the downloads before turn, in their order, after
\* the opening; and when it is done it has told of all it was to inline, and
\* counted the rest.
Told ==
  LET h == Len(Opening)
      n == turn - 1
  IN  /\ h + n <= Len(content)
      /\ \A k \in 1..h : content[k] \in OpeningBlock
      /\ \A k \in 1..n : content[h + k].block \in Outcomes /\ content[h + k].n = k

Underway == project.status = "complete" /\ CanInline /\ Len(content) = Len(Opening) + turn - 1

Finished ==
  LET end == Len(Opening) + turn - 1
  IN  /\ turn - 1 + Remaining = Len(DownloadUrls)
      /\ Remaining = 0 => Len(content) = end
      /\ Remaining > 0 => /\ Len(content) = end + 1
                          /\ content[end + 1] = Block("remaining", Remaining)

Story ==
  /\ at # "raised"
  /\ turn - 1 <= Len(DownloadUrls)
  /\ at = "called" => turn = 1 /\ content = <<>>
  /\ at # "called" => Told
  /\ at \in {"next", "opening", "streaming"} => Underway /\ turn - 1 <= tool.limit
  /\ at \in {"opening", "streaming"} => turn <= Len(DownloadUrls) /\ turn <= tool.limit
  /\ at = "done" /\ project.status = "complete" /\ CanInline => Finished

Typed ==
  /\ tool \in Tools
  /\ ProjectOK
  /\ at \in {"called", "next", "opening", "streaming", "done", "raised"}
  /\ turn \in Nat \ {0}
  /\ got \in 0..tool.maxBytes
  /\ content \in Seq([block : Blocks, n : Nat])

ResultInv ==
  /\ Typed
  /\ tool.name = "fetch" => turn = 1
  /\ tool.name = "wait" => Story

(* A sequence over a set is one over any larger set.                       *)
LEMMA SeqInto ==
  ASSUME NEW S, NEW T, S \subseteq T, NEW s \in Seq(S)
  PROVE  s \in Seq(T)
<1>1. Len(s) \in Nat /\ s \in [1..Len(s) -> S]
  OBVIOUS
<1>2. s \in [1..Len(s) -> T]
  BY <1>1
<1>. QED
  BY <1>1, <1>2

(* DownloadUrls is the listing it is meant to be.                          *)
LEMMA UrlsListed ==
  ASSUME ProjectOK
  PROVE  /\ Lists(DownloadUrls, WithUrl)
         /\ Len(DownloadUrls) \in Nat
         /\ Len(DownloadUrls) <= MaxDownloads
<1>. DEFINE n == Len(project.downloads)
            c == Cardinality(WithUrl)
<1>1. n \in Nat /\ DOMAIN project.downloads = 1..n
  BY DEF ProjectOK
<1>2. WithUrl \in SUBSET (1..n)
  BY <1>1 DEF WithUrl
<1>3. c \in Nat /\ c <= n
  BY <1>1, <1>2, SmallSets
<1>4. \E u : Lists(u, WithUrl)
  BY <1>1, <1>2, ListingExists
<1>5. DownloadUrls \in [1..c -> WithUrl] /\ Lists(DownloadUrls, WithUrl)
  BY <1>4 DEF Lists, DownloadUrls
<1>6. DownloadUrls \in Seq(WithUrl) /\ Len(DownloadUrls) = c
  <2>. HIDE DEF c
  <2>. QED
    BY <1>3, <1>5
<1>7. c <= MaxDownloads
  <2>. HIDE DEF c
  <2>. QED
    BY <1>1, <1>3, BoundsAssumption DEF ProjectOK
<1>. QED
  BY <1>3, <1>5, <1>6, <1>7

LEMMA ResultNumbers ==
  ASSUME Typed
  PROVE  /\ Len(Opening) \in Nat /\ Opening \in Seq(OpeningBlock)
         /\ Len(DownloadUrls) \in Nat /\ Len(DownloadUrls) <= MaxDownloads
         /\ tool.limit \in Nat /\ tool.maxBytes \in Nat /\ turn \in Nat /\ turn > 0
         /\ Remaining \in Nat
         /\ Remaining = IF Len(DownloadUrls) > tool.limit THEN Len(DownloadUrls) - tool.limit ELSE 0
<1>1. Len(DownloadUrls) \in Nat /\ Len(DownloadUrls) <= MaxDownloads
  BY UrlsListed DEF Typed
<1>2. tool.limit \in Nat /\ tool.maxBytes \in Nat
  <2>1. tool.limit \in InlineLimits /\ tool.maxBytes \in ByteLimits
    BY DEF Typed, Tools
  <2>. QED
    BY <2>1, BoundsAssumption
<1>3. /\ StatusText \in Seq(OpeningBlock)
      /\ Guidance \in Seq(OpeningBlock)
      /\ NoUrlsText \in Seq(OpeningBlock)
  <2>1. \A b \in {"status", "guidance", "no_urls"}, m \in Nat : <<Block(b, m)>> \in Seq(OpeningBlock)
    BY DEF Block, OpeningBlock
  <2>2. <<>> \in Seq(OpeningBlock)
    OBVIOUS
  <2>. QED
    BY <1>1, <2>1, <2>2 DEF StatusText, Guidance, NoUrlsText
<1>4. Opening \in Seq(OpeningBlock)
  BY <1>3 DEF Opening
<1>5. /\ Remaining \in Nat
      /\ Remaining = IF Len(DownloadUrls) > tool.limit THEN Len(DownloadUrls) - tool.limit ELSE 0
  BY <1>1, <1>2 DEF Remaining
<1>. QED
  BY <1>1, <1>2, <1>4, <1>5 DEF Typed

(* Neither the call nor the project changes while the result is made.      *)
LEMMA CallFixed ==
  ASSUME UNCHANGED <<tool, project>>
  PROVE  /\ Opening' = Opening
         /\ DownloadUrls' = DownloadUrls
         /\ Remaining' = Remaining
         /\ CanInline' = CanInline
         /\ ProjectOK' = ProjectOK
<1>1. WithUrl' = WithUrl
  BY DEF WithUrl
<1>2. DownloadUrls' = DownloadUrls
  BY <1>1 DEF DownloadUrls
<1>3. CanInline' = CanInline
  BY DEF CanInline
<1>4. Opening' = Opening
  BY <1>2, <1>3 DEF Opening, StatusText, Guidance, NoUrlsText
<1>. QED
  BY <1>2, <1>3, <1>4 DEF Remaining, ProjectOK

LEMMA ResultInit == ASSUME Init PROVE ResultInv
<1>1. ProjectOK
  <2>1. CASE project \in [status : {"complete"}, downloads : SeqOf(Entries, MaxDownloads)]
    <3>1. project.status = "complete" /\ project.downloads \in SeqOf(Entries, MaxDownloads)
      BY <2>1
    <3>2. PICK m \in 0..MaxDownloads : project.downloads \in [1..m -> Entries]
      BY <3>1 DEF SeqOf
    <3>3. project.downloads \in Seq(Entries) /\ Len(project.downloads) = m
      BY <3>2, BoundsAssumption
    <3>. QED
      BY <3>1, <3>2, <3>3, BoundsAssumption DEF ProjectOK, Statuses
  <2>2. CASE project \in [status : Statuses \ {"complete"}, downloads : {<<>>}]
    <3>1. project.status \in Statuses /\ project.downloads = <<>>
      BY <2>2
    <3>2. <<>> \in Seq(Entries) /\ Len(<<>>) = 0
      OBVIOUS
    <3>. QED
      BY <3>1, <3>2, BoundsAssumption DEF ProjectOK
  <2>. QED
    BY <2>1, <2>2 DEF Init
<1>2. tool.maxBytes \in Nat
  <2>1. tool.maxBytes \in ByteLimits
    BY DEF Init, Tools
  <2>. QED
    BY <2>1, BoundsAssumption
<1>3. Typed
  BY <1>1, <1>2 DEF Init, Typed
<1>4. Story
  <2>1. Len(DownloadUrls) \in Nat
    BY <1>1, UrlsListed
  <2>. QED
    BY <2>1 DEF Init, Story
<1>. QED
  BY <1>3, <1>4 DEF ResultInv, Init

(* What becomes of the current download of a wait is told in a block of    *)
(* its own, and the next one has its turn.                                 *)
LEMMA TellOutcome ==
  ASSUME ResultInv, UNCHANGED <<tool, project>>,
         tool.name = "wait", at \in {"opening", "streaming"},
         NEW b \in Outcomes, content' = Append(content, Block(b, turn)),
         at' = "next", turn' = turn + 1, got' \in 0..tool.maxBytes
  PROVE  ResultInv'
<1>1. Typed /\ Story /\ Told /\ Underway
  BY DEF ResultInv, Story
<1>2. /\ Len(Opening) \in Nat /\ Opening \in Seq(OpeningBlock)
      /\ Len(DownloadUrls) \in Nat
      /\ tool.limit \in Nat /\ turn \in Nat /\ turn > 0
  BY <1>1, ResultNumbers
<1>3. /\ Opening' = Opening /\ DownloadUrls' = DownloadUrls
      /\ CanInline' = CanInline /\ ProjectOK' = ProjectOK
  BY CallFixed
<1>4. Block(b, turn) \in [block : Blocks, n : Nat]
  BY <1>2 DEF Block, Outcomes, Blocks
<1>5. /\ content' \in Seq([block : Blocks, n : Nat])
      /\ Len(content') = Len(content) + 1
      /\ \A k \in 1..Len(content) : content'[k] = content[k]
      /\ content'[Len(content) + 1] = Block(b, turn)
  <2>1. content \in Seq([block : Blocks, n : Nat])
    BY <1>1 DEF Typed
  <2>. QED
    BY <1>4, <2>1
<1>6. Typed'
  BY <1>1, <1>2, <1>3, <1>5 DEF Typed
<1>. DEFINE h == Len(Opening)
<1>7. Len(content) = h + turn - 1
  BY <1>1 DEF Underway
<1>8. Told'
  <2>1. \A k \in 1..h : content'[k] \in OpeningBlock
    BY <1>1, <1>2, <1>5, <1>7 DEF Told
  <2>2. ASSUME NEW k \in 1..turn
        PROVE  content'[h + k].block \in Outcomes /\ content'[h + k].n = k
    <3>1. CASE k = turn
      <4>1. content'[h + k] = Block(b, turn)
        BY <1>2, <1>5, <1>7, <3>1
      <4>2. Block(b, turn).block = b /\ Block(b, turn).n = turn
        BY DEF Block
      <4>. QED
        BY <3>1, <4>1, <4>2
    <3>2. CASE k # turn
      <4>1. k \in 1..turn - 1 /\ h + k \in 1..Len(content)
        BY <1>2, <1>7, <3>2
      <4>. QED
        BY <1>1, <1>5, <4>1 DEF Told
    <3>. QED
      BY <3>1, <3>2
  <2>3. turn' - 1 = turn /\ h + turn <= Len(content')
    BY <1>2, <1>5, <1>7
  <2>. QED
    BY <1>3, <2>1, <2>2, <2>3 DEF Told
<1>9. Underway'
  BY <1>1, <1>2, <1>3, <1>5 DEF Underway
<1>10. turn <= Len(DownloadUrls) /\ turn <= tool.limit
  BY <1>1 DEF Story
<1>11. Story'
  BY <1>2, <1>3, <1>8, <1>9, <1>10 DEF Story
<1>. QED
  BY <1>6, <1>11 DEF ResultInv

(* A download begins or goes on.                                           *)
LEMMA GoesOn ==
  ASSUME ResultInv, UNCHANGED <<tool, project, turn, content>>,
         at \in {"opening", "streaming"}, at' \in {"opening", "streaming"},
         got' \in 0..tool.maxBytes
  PROVE  ResultInv'
<1>1. /\ Opening' = Opening /\ DownloadUrls' = DownloadUrls
      /\ CanInline' = CanInline /\ ProjectOK' = ProjectOK
  BY CallFixed
<1>2. Typed'
  BY <1>1 DEF ResultInv, Typed
<1>3. tool.name = "wait" => Story'
  BY <1>1 DEF ResultInv, Story, Told, Underway
<1>. QED
  BY <1>2, <1>3 DEF ResultInv

(* A failed download ends a fetch, and is told of in a wait.               *)
LEMMA FailedKeeps ==
  ASSUME ResultInv, UNCHANGED <<tool, project>>, at \in {"opening", "streaming"},
         Failed, got' \in 0..tool.maxBytes
  PROVE  ResultInv'
<1>1. CASE tool.name = "fetch"
  <2>1. at' = "raised" /\ UNCHANGED <<turn, content>>
    BY <1>1 DEF Failed
  <2>2. ProjectOK' = ProjectOK
    BY CallFixed
  <2>. QED
    BY <1>1, <2>1, <2>2 DEF ResultInv, Typed
<1>2. CASE tool.name # "fetch"
  <2>1. tool.name = "wait"
    BY <1>2 DEF ResultInv, Typed, Tools
  <2>2. content' = Append(content, Block("failed", turn)) /\ at' = "next" /\ turn' = turn + 1
    BY <1>2 DEF Failed
  <2>3. "failed" \in Outcomes
    BY DEF Outcomes
  <2>. QED
    BY <2>1, <2>2, <2>3, TellOutcome
<1>. QED
  BY <1>1, <1>2

LEMMA StartWaitKeeps == ASSUME ResultInv, StartWait PROVE ResultInv'
<1>1. Typed /\ tool.name = "wait" /\ turn = 1 /\ content = <<>>
  BY DEF StartWait, ResultInv, Story
<1>2. /\ Len(Opening) \in Nat /\ Opening \in Seq(OpeningBlock)
      /\ Len(DownloadUrls) \in Nat /\ tool.limit \in Nat
  BY <1>1, ResultNumbers
<1>3. /\ Opening' = Opening /\ DownloadUrls' = DownloadUrls
      /\ CanInline' = CanInline /\ ProjectOK' = ProjectOK
  BY CallFixed DEF StartWait
<1>4. content' = Opening /\ turn' = 1 /\ at' \in {"next", "done"}
  BY <1>1 DEF StartWait, Opening
<1>5. OpeningBlock \subseteq [block : Blocks, n : Nat]
  BY DEF OpeningBlock, Blocks
<1>6. Typed'
  <2>1. content' \in Seq([block : Blocks, n : Nat])
    <3>. HIDE DEF OpeningBlock, Blocks, Opening
    <3>1. content' \in Seq(OpeningBlock)
      BY <1>2, <1>4
    <3>. QED
      BY <1>5, <3>1, SeqInto
  <2>2. /\ tool' = tool /\ turn' = 1 /\ got' = got
        /\ at' \in {"called", "next", "opening", "streaming", "done", "raised"}
    BY <1>4 DEF StartWait
  <2>. QED
    BY <1>1, <1>3, <2>1, <2>2 DEF Typed
<1>7. Told'
  BY <1>2, <1>3, <1>4 DEF Told
<1>8. at' = "next" => Underway'
  BY <1>2, <1>3, <1>4 DEF Underway, StartWait
<1>9. at' = "done" => ~(project'.status = "complete" /\ CanInline')
  BY <1>3 DEF StartWait
<1>10. Story'
  BY <1>2, <1>3, <1>4, <1>7, <1>8, <1>9 DEF Story, StartWait
<1>. QED
  BY <1>6, <1>10 DEF ResultInv, StartWait

LEMMA StartFetchKeeps == ASSUME ResultInv, StartFetch PROVE ResultInv'
<1>1. ProjectOK' = ProjectOK
  BY CallFixed DEF StartFetch
<1>. QED
  BY <1>1 DEF ResultInv, StartFetch, Typed

(* The loop takes the next download, or is over: then what it has told of  *)
(* and what it counts are all there is.                                    *)
LEMMA NextDownloadKeeps == ASSUME ResultInv, NextDownload PROVE ResultInv'
<1>1. /\ Typed /\ at = "next" /\ UNCHANGED <<tool, project, turn>> /\ got' = 0
      /\ tool.name = "fetch" => turn = 1
      /\ tool.name = "wait" => Story
  BY DEF NextDownload, ResultInv
<1>2. /\ Len(Opening) \in Nat /\ Opening \in Seq(OpeningBlock)
      /\ Len(DownloadUrls) \in Nat
      /\ tool.limit \in Nat /\ tool.maxBytes \in Nat /\ turn \in Nat /\ turn > 0
      /\ Remaining \in Nat
      /\ Remaining = IF Len(DownloadUrls) > tool.limit THEN Len(DownloadUrls) - tool.limit ELSE 0
  BY <1>1, ResultNumbers
<1>3. /\ Opening' = Opening /\ DownloadUrls' = DownloadUrls /\ Remaining' = Remaining
      /\ CanInline' = CanInline /\ ProjectOK' = ProjectOK
  BY <1>1, CallFixed
<1>4. CASE at' = "opening"
  <2>1. turn <= Len(DownloadUrls) /\ turn <= tool.limit /\ UNCHANGED content
    BY <1>4 DEF NextDownload
  <2>2. Typed'
    BY <1>1, <1>2, <1>3, <1>4, <2>1 DEF Typed
  <2>3. tool.name = "wait" => Story'
    BY <1>1, <1>2, <1>3, <1>4, <2>1 DEF Story, Told, Underway
  <2>. QED
    BY <1>1, <2>2, <2>3 DEF ResultInv
<1>5. CASE at' = "done"
  <2>. DEFINE last == IF Remaining > 0 THEN <<Block("remaining", Remaining)>> ELSE <<>>
  <2>1. /\ turn > Len(DownloadUrls) \/ turn > tool.limit
        /\ content' = content \o last
    BY <1>5 DEF NextDownload
  <2>2. content \in Seq([block : Blocks, n : Nat]) /\ last \in Seq([block : Blocks, n : Nat])
    <3>1. Block("remaining", Remaining) \in [block : Blocks, n : Nat]
      BY <1>2 DEF Block, Blocks
    <3>2. content \in Seq([block : Blocks, n : Nat])
      BY <1>1 DEF Typed
    <3>3. ASSUME NEW T, NEW b \in T PROVE <<b>> \in Seq(T) /\ <<>> \in Seq(T)
      OBVIOUS
    <3>4. /\ <<Block("remaining", Remaining)>> \in Seq([block : Blocks, n : Nat])
          /\ <<>> \in Seq([block : Blocks, n : Nat])
      BY <3>1, <3>3
    <3>. QED
      BY <3>2, <3>4
  <2>3. /\ content' \in Seq([block : Blocks, n : Nat])
        /\ Len(content') = Len(content) + Len(last)
        /\ \A k \in 1..Len(content) : content'[k] = content[k]
        /\ \A k \in 1..Len(last) : content'[Len(content) + k] = last[k]
    <3>. HIDE DEF last
    <3>. QED
      BY <2>1, <2>2
  <2>4. Typed'
    BY <1>1, <1>2, <1>3, <1>5, <2>3 DEF Typed
  <2>5. ASSUME tool.name = "wait" PROVE Story'
    <3>1. Told /\ Underway /\ turn - 1 <= Len(DownloadUrls) /\ turn - 1 <= tool.limit
      BY <1>1, <2>5 DEF Story
    <3>2. Len(content) \in Nat /\ Len(content) = Len(Opening) + turn - 1
      BY <2>2, <3>1 DEF Underway
    <3>3. Told'
      <4>1. ASSUME NEW k \in 1..Len(Opening) PROVE content'[k] \in OpeningBlock
        <5>1. k \in 1..Len(content) /\ content[k] \in OpeningBlock
          BY <1>2, <3>1, <3>2 DEF Told
        <5>. QED
          BY <2>3, <5>1
      <4>2. ASSUME NEW k \in 1..turn - 1
            PROVE  /\ content'[Len(Opening) + k].block \in Outcomes
                   /\ content'[Len(Opening) + k].n = k
        <5>1. Len(Opening) + k \in 1..Len(content)
          BY <1>2, <3>2
        <5>2. content'[Len(Opening) + k] = content[Len(Opening) + k]
          BY <2>3, <5>1
        <5>. QED
          BY <3>1, <5>2 DEF Told
      <4>3. Len(Opening) + turn - 1 <= Len(content')
        <5>1. Len(last) \in Nat
          BY <2>2
        <5>. QED
          BY <2>3, <3>2, <5>1
      <4>. QED
        BY <1>1, <1>2, <1>3, <4>1, <4>2, <4>3 DEF Told
    <3>4. turn - 1 + Remaining = Len(DownloadUrls)
      BY <1>2, <2>1, <3>1
    <3>5. Remaining = 0 => Len(content') = Len(content)
      BY <2>3
    <3>6. Remaining > 0 => /\ Len(content') = Len(content) + 1
                           /\ content'[Len(content) + 1] = Block("remaining", Remaining)
      BY <2>3
    <3>7. Finished'
      BY <1>1, <1>2, <1>3, <3>2, <3>4, <3>5, <3>6 DEF Finished
    <3>. QED
      BY <1>1, <1>3, <1>5, <3>1, <3>3, <3>7 DEF Story
  <2>. QED
    BY <1>1, <2>4, <2>5 DEF ResultInv
<1>. QED
  BY <1>4, <1>5 DEF NextDownload

LEMMA OpenKeeps == ASSUME ResultInv, Open PROVE ResultInv'
<1>1. got' \in 0..tool.maxBytes /\ at = "opening" /\ UNCHANGED <<tool, project>>
  BY DEF Open, ResultInv, Typed
<1>2. CASE Failed
  BY <1>1, <1>2, FailedKeeps
<1>3. CASE at' = "streaming" /\ UNCHANGED <<turn, content>>
  BY <1>1, <1>3, GoesOn
<1>. QED
  BY <1>2, <1>3 DEF Open

(* Bytes are counted as they arrive, so there are never more than allowed. *)
LEMMA ChunkKeeps == ASSUME ResultInv, Chunk PROVE ResultInv'
<1>1. tool.maxBytes \in Nat /\ got \in Nat
  BY ResultNumbers DEF ResultInv, Typed
<1>2. at = "streaming" /\ UNCHANGED <<tool, project>>
  BY DEF Chunk
<1>3. PICK c \in 1..MaxChunk :
        \/ got + c <= tool.maxBytes /\ got' = got + c /\ UNCHANGED <<at, turn, content>>
        \/ got + c > tool.maxBytes /\ Failed /\ got' = 0
  BY DEF Chunk
<1>4. got' \in 0..tool.maxBytes
  BY <1>1, <1>3, BoundsAssumption
<1>5. CASE Failed
  BY <1>2, <1>4, <1>5, FailedKeeps
<1>6. CASE UNCHANGED <<at, turn, content>>
  BY <1>2, <1>4, <1>6, GoesOn
<1>. QED
  BY <1>3, <1>5, <1>6

LEMMA EndOfMediaKeeps == ASSUME ResultInv, EndOfMedia PROVE ResultInv'
<1>1. /\ at = "streaming" /\ UNCHANGED <<tool, project>>
      /\ got' \in 0..tool.maxBytes /\ content' = Append(content, Block("media", turn))
  BY DEF EndOfMedia, Deliver, ResultInv, Typed
<1>2. CASE tool.name = "fetch"
  <2>1. Block("media", turn) \in [block : Blocks, n : Nat]
    BY ResultNumbers DEF Block, Blocks, ResultInv
  <2>2. content' \in Seq([block : Blocks, n : Nat])
    BY <1>1, <2>1 DEF ResultInv, Typed
  <2>3. at' = "done" /\ turn' = turn /\ ProjectOK' = ProjectOK
    BY <1>1, <1>2, CallFixed DEF EndOfMedia, Deliver
  <2>. QED
    BY <1>1, <1>2, <2>2, <2>3 DEF ResultInv, Typed
<1>3. CASE tool.name # "fetch"
  <2>1. tool.name = "wait" /\ at' = "next" /\ turn' = turn + 1
    BY <1>3 DEF EndOfMedia, Deliver, ResultInv, Typed, Tools
  <2>2. "media" \in Outcomes
    BY DEF Outcomes
  <2>. QED
    BY <1>1, <2>1, <2>2, TellOutcome
<1>. QED
  BY <1>2, <1>3

LEMMA StreamBreaksKeeps == ASSUME ResultInv, StreamBreaks PROVE ResultInv'
<1>1. tool.maxBytes \in Nat
  BY ResultNumbers DEF ResultInv
<1>2. got' \in 0..tool.maxBytes /\ at = "streaming" /\ UNCHANGED <<tool, project>> /\ Failed
  BY <1>1 DEF StreamBreaks
<1>. QED
  BY <1>2, FailedKeeps

LEMMA ResultInvariance == Spec => []ResultInv
<1>1. Init => ResultInv
  BY ResultInit
<1>2. ResultInv /\ [Next]_vars => ResultInv'
  <2>. SUFFICES ASSUME ResultInv, [Next]_vars PROVE ResultInv'
    OBVIOUS
  <2>1. CASE UNCHANGED vars
    <3>1. /\ Opening' = Opening /\ DownloadUrls' = DownloadUrls /\ Remaining' = Remaining
          /\ CanInline' = CanInline /\ ProjectOK' = ProjectOK
      BY <2>1, CallFixed DEF vars
    <3>. QED
      BY <2>1, <3>1 DEF vars, ResultInv, Typed, Story, Told, Underway, Finished
  <2>. QED
    BY <2>1, StartWaitKeeps, StartFetchKeeps, NextDownloadKeeps, OpenKeeps, ChunkKeeps,
       EndOfMediaKeeps, StreamBreaksKeeps DEF Next
<1>. QED
  BY <1>1, <1>2, PTL DEF Spec

(* Every state of a call has the values its variables may have; turn never *)
(* passes the downloads there are (_project_to_tool_result).               *)
THEOREM ResultTypeCorrect == Spec => []TypeOK
<1>1. ResultInv => TypeOK
  <2>. SUFFICES ASSUME ResultInv PROVE TypeOK
    OBVIOUS
  <2>1. /\ Len(DownloadUrls) \in Nat /\ Len(DownloadUrls) <= MaxDownloads
        /\ turn \in Nat /\ turn > 0
    BY ResultNumbers DEF ResultInv
  <2>2. tool.name = "wait" \/ tool.name = "fetch"
    BY DEF ResultInv, Typed, Tools
  <2>3. turn - 1 <= Len(DownloadUrls) \/ turn = 1
    BY <2>2 DEF ResultInv, Story
  <2>4. turn \in 1..MaxDownloads + 1
    BY <2>1, <2>3, BoundsAssumption
  <2>. QED
    BY <2>4 DEF ResultInv, Typed, ProjectOK, TypeOK
<1>. QED
  BY <1>1, ResultInvariance, PTL

(* The places of the blocks that tell of a download, and of those that     *)
(* count the rest, in the result of a wait that is done.                   *)
LEMMA Places ==
  ASSUME Typed, Told, Finished, turn - 1 <= Len(DownloadUrls)
  PROVE  LET h == Len(Opening)
             n == turn - 1
         IN  /\ n \in Nat /\ h \in Nat
             /\ {k \in DOMAIN content : content[k].block \in Outcomes} = {h + k : k \in 1..n}
             /\ {k \in DOMAIN content : content[k].block = "remaining"}
                  = IF Remaining > 0 THEN {h + n + 1} ELSE {}
             /\ \A k \in 1..n : content[h + k].n = k
             /\ Remaining > 0 => content[h + n + 1].n = Remaining
<1>. DEFINE h == Len(Opening)
            n == turn - 1
<1>1. h \in Nat /\ turn \in Nat /\ turn > 0 /\ n \in Nat /\ Remaining \in Nat
  BY ResultNumbers
<1>2. Len(content) \in Nat /\ DOMAIN content = 1..Len(content)
  BY DEF Typed
<1>3. Len(content) = IF Remaining > 0 THEN h + n + 1 ELSE h + n
  BY <1>1 DEF Finished
<1>4. Remaining > 0 => content[h + n + 1].block = "remaining" /\ content[h + n + 1].n = Remaining
  <2>1. Remaining > 0 => content[h + n + 1] = Block("remaining", Remaining)
    BY <1>1 DEF Finished
  <2>. QED
    BY <2>1 DEF Block
<1>5. \A k \in 1..h : content[k].block \in {"status", "guidance", "no_urls"}
  BY DEF Told, OpeningBlock
<1>6. \A k \in 1..n : content[h + k].block \in Outcomes /\ content[h + k].n = k
  BY DEF Told
<1>7. ASSUME NEW k \in DOMAIN content
      PROVE  \/ k \in 1..h
             \/ k - h \in 1..n /\ k = h + (k - h)
             \/ Remaining > 0 /\ k = h + n + 1
  BY <1>1, <1>2, <1>3
<1>8. "remaining" \notin Outcomes /\ \A b \in {"status", "guidance", "no_urls"} : b \notin Outcomes
  BY DEF Outcomes
<1>. HIDE DEF h, n
<1>9. ASSUME NEW k \in 1..n PROVE h + k \in DOMAIN content
  BY <1>1, <1>2, <1>3
<1>10. {k \in DOMAIN content : content[k].block \in Outcomes} = {h + k : k \in 1..n}
  <2>1. ASSUME NEW k \in DOMAIN content, content[k].block \in Outcomes
        PROVE  \E i \in 1..n : k = h + i
    BY <1>4, <1>5, <1>7, <1>8, <2>1
  <2>2. ASSUME NEW i \in 1..n PROVE h + i \in DOMAIN content /\ content[h + i].block \in Outcomes
    BY <1>6, <1>9
  <2>. QED
    BY <2>1, <2>2
<1>11. {k \in DOMAIN content : content[k].block = "remaining"}
         = IF Remaining > 0 THEN {h + n + 1} ELSE {}
  <2>1. ASSUME NEW k \in DOMAIN content, content[k].block = "remaining"
        PROVE  Remaining > 0 /\ k = h + n + 1
    BY <1>5, <1>6, <1>7, <1>8, <2>1
  <2>2. Remaining > 0 => h + n + 1 \in DOMAIN content
    BY <1>1, <1>2, <1>3
  <2>. QED
    BY <1>4, <2>1, <2>2
<1>. QED
  BY <1>1, <1>4, <1>6, <1>10, <1>11 DEF h, n

(* A wait never fails because of a download, and its result accounts for   *)
(* every one, once and in its place (_project_to_tool_result).             *)
THEOREM AllAccountedForHolds == Spec => []AllAccountedFor
<1>1. ResultInv => AllAccountedFor
  <2>. SUFFICES ASSUME ResultInv, tool.name = "wait" PROVE AllAccountedFor
    BY DEF AllAccountedFor
  <2>1. Typed /\ Story /\ at # "raised"
    BY DEF ResultInv, Story
  <2>. DEFINE told == {k \in DOMAIN content : content[k].block \in {"media", "failed"}}
              left == {k \in DOMAIN content : content[k].block = "remaining"}
              h == Len(Opening)
              n == turn - 1
  <2>2. ASSUME at = "done", project.status = "complete", CanInline
        PROVE  \E rest \in 0..Len(DownloadUrls) :
                 /\ {content[k].n : k \in told} = 1..Len(DownloadUrls) - rest
                 /\ \A j, k \in told : j < k => content[j].n < content[k].n
                 /\ {content[k].n : k \in left} = {rest} \ {0}
                 /\ \A j, k \in left : j = k
    <3>1. Told /\ Finished /\ n <= Len(DownloadUrls)
      BY <2>1, <2>2 DEF Story
    <3>2. /\ n \in Nat /\ h \in Nat
          /\ told = {h + k : k \in 1..n}
          /\ left = IF Remaining > 0 THEN {h + n + 1} ELSE {}
          /\ \A k \in 1..n : content[h + k].n = k
          /\ Remaining > 0 => content[h + n + 1].n = Remaining
      BY <2>1, <3>1, Places DEF Outcomes
    <3>3. Len(DownloadUrls) \in Nat /\ Remaining \in Nat /\ n + Remaining = Len(DownloadUrls)
      BY <2>1, <3>1, ResultNumbers DEF Finished
    <3>. HIDE DEF told, left, h, n
    <3>4. Remaining \in 0..Len(DownloadUrls) /\ n = Len(DownloadUrls) - Remaining
      BY <3>2, <3>3
    <3>5. {content[k].n : k \in told} = 1..n
      <4>1. ASSUME NEW i \in 1..n PROVE \E k \in told : content[k].n = i
        BY <3>2
      <4>2. ASSUME NEW k \in told PROVE content[k].n \in 1..n
        BY <3>2
      <4>. QED
        BY <4>1, <4>2
    <3>6. ASSUME NEW j \in told, NEW k \in told, j < k PROVE content[j].n < content[k].n
      <4>1. PICK i \in 1..n : j = h + i
        BY <3>2
      <4>2. PICK m \in 1..n : k = h + m
        BY <3>2
      <4>3. content[j].n = i /\ content[k].n = m
        BY <3>2, <4>1, <4>2
      <4>4. i < m
        BY <3>2, <3>6, <4>1, <4>2
      <4>. QED
        BY <4>3, <4>4
    <3>7. {content[k].n : k \in left} = {Remaining} \ {0}
      <4>1. CASE Remaining > 0
        BY <3>2, <3>3, <4>1
      <4>2. CASE Remaining = 0
        BY <3>2, <4>2
      <4>3. Remaining > 0 \/ Remaining = 0
        BY <3>3
      <4>. QED
        BY <4>1, <4>2, <4>3
    <3>8. \A j, k \in left : j = k
      BY <3>2
    <3>. QED
      BY <3>4, <3>5, <3>6, <3>7, <3>8
  <2>. QED
    BY <2>1, <2>2 DEF AllAccountedFor
<1>. QED
  BY <1>1, ResultInvariance, PTL
-----------------------------------------------------------------------------
\* How far a call is with its current download, or with what comes before.
Stage == [called |-> 0, next |-> 1, opening |-> 2, streaming |-> 3, done |-> 4, raised |-> 4]

\* The next download, further in this one, or more bytes of it.
MovesOn ==
  \/ turn' > turn
  \/ turn' = turn /\ Stage[at'] > Stage[at]
  \/ turn' = turn /\ at' = at /\ got' > got

(* Nothing a host does makes a call go in circles: every step takes it to  *)
(* the next download, further in this one, or counts bytes                 *)
(* (_fetch_media_bytes).  By ResultTypeCorrect there are boundedly many of *)
(* each, so that a call is over after boundedly many steps whatever the    *)
(* hosts send; with fairness this is CallEnds.                             *)
THEOREM DownloadsMoveOn == Spec => [][MovesOn]_vars
<1>1. ASSUME ResultInv, Next PROVE MovesOn
  <2>. USE DEF MovesOn
  <2>1. turn \in Nat /\ got \in Nat
    BY ResultNumbers, <1>1 DEF ResultInv, Typed
  <2>2. Failed /\ at \in {"opening", "streaming"} => MovesOn
    BY <2>1 DEF Failed, Stage
  <2>3. CASE StartWait \/ StartFetch \/ NextDownload
    BY <2>3 DEF StartWait, StartFetch, NextDownload, Stage
  <2>4. CASE Open
    BY <2>2, <2>4 DEF Open, Stage
  <2>5. CASE Chunk
    <3>1. PICK c \in 1..MaxChunk :
            \/ got' = got + c /\ UNCHANGED <<at, turn, content>>
            \/ Failed
      BY <2>5 DEF Chunk
    <3>2. c \in Nat /\ c > 0
      BY BoundsAssumption
    <3>. QED
      BY <2>1, <2>2, <2>5, <3>1, <3>2 DEF Chunk
  <2>6. CASE EndOfMedia
    BY <2>1, <2>6 DEF EndOfMedia, Deliver, Stage
  <2>7. CASE StreamBreaks
    BY <2>2, <2>7 DEF StreamBreaks
  <2>. QED
    BY <1>1, <2>3, <2>4, <2>5, <2>6, <2>7 DEF Next
<1>2. ResultInv /\ [Next]_vars => [MovesOn]_vars
  BY <1>1
<1>. QED
  BY <1>2, ResultInvariance, PTL DEF Spec
=============================================================================
