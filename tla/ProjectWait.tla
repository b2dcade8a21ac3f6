----------------------------- MODULE ProjectWait -----------------------------
(***************************************************************************)
(* The wait_for_<type>_project tools: one call polls a project of the      *)
(* Magic Hour API until it is complete, failed or canceled, or the call's  *)
(* own timeout is over.  The project moves on by itself, the sealed access *)
(* token of the call runs out by itself, and a poll may fail or be slow.   *)
(*                                                                         *)
(* Time is counted in half seconds, and the handler's own computation      *)
(* takes none: the clock moves only while a poll or a sleep is under way.  *)
(***************************************************************************)
EXTENDS Naturals

CONSTANTS Intervals,      \* poll_interval_seconds a client may ask for
          Timeouts,       \* timeout_seconds a client may ask for
          TokenLives,     \* time the access token has left when the call starts
          Forever,        \* the time a raw API key has left
          MinPause,       \* the floor of 0.5 s under the poll interval
          Latency,        \* API_TIMEOUT of a poll
          MaxClock        \* bound: the clock counts no further

ASSUME TimesAssumption ==
  /\ Intervals \subseteq Nat /\ Timeouts \subseteq Nat /\ TokenLives \subseteq Nat
  /\ MinPause \in Nat \ {0}
  /\ Latency \in Nat
  /\ Forever \in Nat /\ \A l \in TokenLives : l <= Forever
  /\ MaxClock \in Nat
  /\ \A i \in Intervals, d \in Timeouts : MaxClock > d + i + MinPause + Latency

VARIABLES status,         \* status of the project at Magic Hour
          phase,          \* where the call is
          asked,          \* interval and timeout of the call
          now,            \* time since the call started
          token,          \* time the access token has left
          timer,          \* time the current poll took, or the sleep still takes
          seen            \* status in the answer to the last poll

waitVars == <<status, phase, asked, now, token, timer, seen>>

Running == {"queued", "rendering"}
TerminalStatuses == {"complete", "error", "canceled"}
\* How a call ends: with the project's status, its own timeout, or an exception.
Answers == TerminalStatuses \cup {"timeout", "auth_error", "http_error"}

WaitTypeOK ==
  /\ status \in Running \cup TerminalStatuses
  /\ phase \in {"idle", "ready", "sent", "served", "sleeping"} \cup Answers
  /\ asked \in [interval : Intervals \cup {0}, timeout : Timeouts \cup {0}]
  /\ now \in 0..MaxClock /\ token \in 0..Forever /\ timer \in Nat
  /\ seen \in {"nothing"} \cup Running \cup TerminalStatuses

WaitInit ==
  /\ status = "queued"
  /\ phase = "idle"
  /\ asked = [interval |-> 0, timeout |-> 0]
  /\ now = 0
  /\ token \in TokenLives
  /\ timer = 0
  /\ seen = "nothing"
-----------------------------------------------------------------------------
LessPollTime(i) == i - timer                        \* mutant
NoFloor(i) == i                                     \* mutant
Pause(i) == IF i > MinPause THEN i ELSE MinPause

NoDeadline == FALSE                                 \* mutant
ReplyWasSlow == timer >= asked.timeout              \* mutant
DeadlinePassed == now >= asked.timeout

\* current_authorization_header opens the sealed token anew for every poll.
Authorized == token > 0

Start ==
  /\ phase = "idle"
  /\ \E i \in Intervals, d \in Timeouts : asked' = [interval |-> i, timeout |-> d]
  /\ phase' = "ready"
  /\ UNCHANGED <<status, now, token, timer, seen>>

SendPoll ==
  /\ phase = "ready"
  /\ \/ Authorized /\ phase' = "sent"
     \/ ~Authorized /\ phase' = "auth_error"
  /\ timer' = 0
  /\ UNCHANGED <<status, asked, now, token, seen>>

\* The API reads the project; its answer is under way.
ServePoll ==
  /\ phase = "sent"
  /\ seen' = status
  /\ phase' = "served"
  /\ UNCHANGED <<status, asked, now, token, timer>>

\* The request times out or raise_for_status raises: the whole call fails.
PollFails ==
  /\ phase \in {"sent", "served"}
  /\ phase' = "http_error"
  /\ UNCHANGED <<status, asked, now, token, timer, seen>>

DeadlineFirst ==                                    \* mutant
  /\ phase = "served"
  /\ phase' = IF DeadlinePassed THEN "timeout"
              ELSE IF seen \in TerminalStatuses THEN seen ELSE "sleeping"
  /\ timer' = Pause(asked.interval)
  /\ UNCHANGED <<status, asked, now, token, seen>>

ReceivePoll ==
  /\ phase = "served"
  /\ \/ seen \in TerminalStatuses /\ phase' = seen /\ UNCHANGED timer
     \/ seen \in Running /\ DeadlinePassed /\ phase' = "timeout" /\ UNCHANGED timer
     \/ /\ seen \in Running /\ ~DeadlinePassed
        /\ phase' = "sleeping"
        /\ timer' = Pause(asked.interval)
  /\ UNCHANGED <<status, asked, now, token, seen>>

Wake ==
  /\ phase = "sleeping" /\ timer = 0
  /\ phase' = "ready"
  /\ UNCHANGED <<status, asked, now, token, timer, seen>>
-----------------------------------------------------------------------------
\* Magic Hour works on the project.
Progress ==
  /\ status \in Running
  /\ status' \in (IF status = "queued" THEN {"rendering"} ELSE {}) \cup TerminalStatuses
  /\ UNCHANGED <<phase, asked, now, token, timer, seen>>

Tick ==
  /\ \/ phase \in {"sent", "served"} /\ timer < Latency /\ timer' = timer + 1
     \/ phase = "sleeping" /\ timer > 0 /\ timer' = timer - 1
  /\ now' = IF now < MaxClock THEN now + 1 ELSE MaxClock
  /\ token' = IF token \in {0, Forever} THEN token ELSE token - 1
  /\ UNCHANGED <<status, phase, asked, seen>>

WaitNext == Start \/ SendPoll \/ ServePoll \/ PollFails \/ ReceivePoll \/ Wake \/ Progress \/ Tick

WaitSpec == WaitInit /\ [][WaitNext]_waitVars

\* The event loop runs the handler, a request ends after its timeout at the
\* latest, time passes.  Nothing says that the project is ever finished.
FairWait ==
  /\ WaitSpec
  /\ WF_waitVars(SendPoll \/ PollFails \/ ReceivePoll \/ Wake)
  /\ WF_waitVars(Tick)
-----------------------------------------------------------------------------
(* What a call reports is true: a terminal status is that of the project,  *)
(* and a timeout means that the time asked for is over and that the last   *)
(* poll did not yet see the project finished - a late result wins over the *)
(* deadline.                                                               *)
AnswerIsTrue ==
  /\ phase \in TerminalStatuses => phase = status
  /\ phase = "timeout" => now >= asked.timeout /\ seen \in Running

(* A call overruns its timeout by no more than one pause and one poll.     *)
BoundedOverrun ==
  phase # "idle" => now <= asked.timeout + Pause(asked.interval) + Latency

\* A bound of the steps a call has left: an upper bound of its time first, then
\* how far the current poll and the pause after it are.
StepsLeft ==
  5 * (asked.timeout + Pause(asked.interval) + Latency + 1 - now)
    + CASE phase = "ready" -> 3
        [] phase = "sent" -> 2
        [] phase = "served" -> 1
        [] phase = "sleeping" /\ timer # Pause(asked.interval) -> 4
        [] OTHER -> 0

(* A call cannot poll again and again while no time passes, whatever       *)
(* interval its client asks for: after boundedly many polls and moments it *)
(* has answered.  Only Magic Hour's own steps do not count.                *)
PollsRunOut ==
  [][phase # "idle" /\ UNCHANGED status => StepsLeft' \in 0..StepsLeft - 1]_waitVars

(* Every call ends, even if the project never does.                        *)
WaitEnds ==
  phase = "ready" ~> phase \in Answers
=============================================================================
