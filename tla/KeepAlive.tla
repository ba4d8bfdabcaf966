------------------------------ MODULE KeepAlive ------------------------------
(***************************************************************************)
(* The keep-alive timer of a running recipe, routes/runrecipe.js:131-226.  *)
(* The response that started the run gets a byte when the recipe has been  *)
(* silent for Interval, so that nobody on the way takes the connection for *)
(* dead.  The timer is not rearmed by output: it is left to fire and then  *)
(* looks at Date.now(), a clock that may be set, to see how long it is     *)
(* since the last output.  A response that reconnected has no timer.       *)
(***************************************************************************)
EXTENDS Integers

CONSTANTS
  Response,   \* the responses that follow the run
  Starter,    \* the one that started it
  Interval,   \* 10000 ms
  Lateness,   \* how late a timer may fire: the longest turn of the event loop
  MaxBack,    \* by how much the clock is set back in all
  IdleLimit,  \* after which Node's HTTP server closes an idle socket
  MaxTime     \* bound: how long TLC looks at it

ASSUME TimeAssumption ==
  /\ Starter \in Response
  /\ Interval \in Nat \ {0} /\ Lateness \in Nat /\ MaxBack \in Nat
  /\ IdleLimit \in Nat /\ MaxTime \in Nat
  /\ Interval + Lateness + MaxBack < IdleLimit

VARIABLES
  now,            \* the time that passes
  clock,          \* what Date.now() returns
  back,           \* by how much the clock has been set back so far
  running,        \* the run goes on
  keepAliveTime,
  timer,          \* when the timer is due
  open,           \* the responses that are connected
  cut,            \* those that were closed for being idle
  byte            \* when each response got its last byte

times == <<now, clock, back>>
vars == <<times, running, keepAliveTime, timer, open, cut, byte>>

Off == -1

KeepAliveTypeOK ==
  /\ now \in Nat /\ clock \in Int /\ back \in 0..MaxBack
  /\ running \in BOOLEAN
  /\ keepAliveTime \in Int
  /\ timer \in Nat \cup {Off}
  /\ open \subseteq Response /\ cut \subseteq Response
  /\ byte \in [Response -> 0..now]

\* populateSandbox: silence is counted from here.
Init ==
  /\ now = 0 /\ clock = 0 /\ back = 0
  /\ running = TRUE
  /\ keepAliveTime = clock
  /\ timer = Interval
  /\ open = {Starter} /\ cut = {}
  /\ byte = [r \in Response |-> 0]

Reconnect(r) ==
  /\ running
  /\ r \notin open \cup cut \cup {Starter}
  /\ open' = open \cup {r}
  /\ byte' = [byte EXCEPT ![r] = now]
  /\ UNCHANGED <<times, running, keepAliveTime, timer, cut>>

\* processOutput, of every response; they listen in the same turn.
Output ==
  /\ running
  /\ keepAliveTime' = clock
  /\ byte' = [r \in Response |-> now]
  /\ UNCHANGED <<times, running, timer, open, cut>>

\* Slips: a sign is wrong; the time is counted twice.
DelayNegative == (clock - keepAliveTime) - 2 * Interval
DelayTwice == 2 * Interval - (clock - keepAliveTime)
Delay == Interval - (clock - keepAliveTime)

\* keepAlive
Fire ==
  /\ timer # Off /\ timer <= now
  /\ IF keepAliveTime + Interval <= clock
     THEN byte' = [byte EXCEPT ![Starter] = now] /\ timer' = now + Interval
     ELSE timer' = now + Delay /\ UNCHANGED byte
  /\ UNCHANGED <<times, running, keepAliveTime, open, cut>>

\* Slip: the timer is not cleared.
StopKeepAliveNever == timer
StopKeepAlive == Off

\* endOutput; REQUEST_END brings no output.
End ==
  /\ running
  /\ running' = FALSE
  /\ timer' = StopKeepAlive
  /\ byte' = [r \in Response |-> now]
  /\ UNCHANGED <<times, keepAliveTime, open, cut>>

\* Time does not pass a timer by more than its lateness.
Tick ==
  /\ now < MaxTime
  /\ timer # Off => now < timer + Lateness
  /\ now' = now + 1
  /\ clock' = clock + 1
  /\ UNCHANGED <<back, running, keepAliveTime, timer, open, cut, byte>>

\* The clock is set back or forward, by NTP or by hand.
SetClock ==
  /\ \/ back < MaxBack /\ back' = back + 1 /\ clock' = clock - 1
     \/ clock < now + MaxBack /\ UNCHANGED back /\ clock' = clock + 1
  /\ UNCHANGED <<now, running, keepAliveTime, timer, open, cut, byte>>

\* A client leaves; or nothing was sent or received on its socket for so long
\* that Node's HTTP server closes it.
Disconnect(r) ==
  /\ r \in open
  /\ open' = open \ {r}
  /\ cut' \in {cut, IF running /\ now - byte[r] >= IdleLimit
                    THEN cut \cup {r} ELSE cut}
  /\ UNCHANGED <<times, running, keepAliveTime, timer, byte>>

Next ==
  \/ Output \/ Fire \/ End \/ Tick \/ SetClock
  \/ \E r \in Response : Reconnect(r) \/ Disconnect(r)

Spec == Init /\ [][Next]_vars

-----------------------------------------------------------------------------

\* The response of a run is never silent for longer than Interval, the lateness
\* of one timer and what the clock was set back, whenever output comes and
\* however often the timer is rearmed (runrecipe.js:203-216).
SilenceBounded ==
  running => now - byte[Starter] <= Interval + Lateness + back

\* A silent recipe does not cost the response that started it its connection;
\* the ones that reconnected may be cut (runrecipe.js:131-143,170-171).
StarterNotCut == Starter \notin cut

\* Nothing is written to a response that has been ended: no timer survives the
\* run (runrecipe.js:187-191).
EndedIsSilent == [][~running => UNCHANGED byte]_vars

=============================================================================
