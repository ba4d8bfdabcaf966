--------------------------- MODULE KeepAliveProofs ---------------------------
(***************************************************************************)
(* The keep-alive timer keeps its promise for every interval, lateness and *)
(* sequence of outputs and clock changes.                                  *)
(***************************************************************************)
EXTENDS KeepAlive, TLAPS

\* The clock has not lost more, since the last output, than it was set back.
ClockIsClose == now - clock + keepAliveTime <= byte[Starter] + back

\* The timer of a run is armed, not overdue by more than its lateness, and due
\* early enough after the last byte.
TimerIsDue ==
  running => /\ timer \in Nat
             /\ now <= timer + Lateness
             /\ timer <= byte[Starter] + Interval + back

KeepAliveInv ==
  /\ KeepAliveTypeOK
  /\ ~running => timer = Off
  /\ ClockIsClose
  /\ TimerIsDue
  /\ StarterNotCut

\* The invariant holds when the run is started.
LEMMA InitKeepAlive == Init => KeepAliveInv
  BY TimeAssumption
  DEF Init, KeepAliveInv, KeepAliveTypeOK, ClockIsClose, TimerIsDue,
      StarterNotCut, Off

\* While the invariant holds, silence is bounded.
LEMMA SilenceFromInv == KeepAliveInv => SilenceBounded
  BY TimeAssumption
  DEF KeepAliveInv, KeepAliveTypeOK, TimerIsDue, SilenceBounded

\* Every step of the run, of time and of the clock preserves it.
LEMMA NextKeepAlive == KeepAliveInv /\ [Next]_vars => KeepAliveInv'
<1> SUFFICES ASSUME KeepAliveInv, [Next]_vars PROVE KeepAliveInv'
  OBVIOUS
<1> USE TimeAssumption DEF KeepAliveInv, KeepAliveTypeOK, ClockIsClose,
                           TimerIsDue, StarterNotCut, Off, times
<1>1. CASE Output
  BY <1>1 DEF Output
<1>2. CASE Fire
  <2>1. running /\ timer <= now
    BY <1>2 DEF Fire
  <2>2. CASE keepAliveTime + Interval <= clock
    BY <1>2, <2>1, <2>2 DEF Fire
  <2>3. CASE ~(keepAliveTime + Interval <= clock)
    <3>1. timer' = now + Interval - (clock - keepAliveTime) /\ timer' > now
      BY <1>2, <2>3 DEF Fire, Delay
    <3>2. timer' <= byte[Starter] + Interval + back
      BY <3>1
    <3> QED
      BY <1>2, <2>1, <2>3, <3>1, <3>2 DEF Fire
  <2> QED
    BY <2>2, <2>3
<1>3. CASE End
  <2>1. byte' \in [Response -> 0..now] /\ byte'[Starter] = now
    BY <1>3 DEF End
  <2>2. timer' = Off /\ running' = FALSE
    BY <1>3 DEF End, StopKeepAlive
  <2>3. UNCHANGED <<now, clock, back, keepAliveTime, open, cut>>
    BY <1>3 DEF End
  <2>4. KeepAliveTypeOK'
    BY <2>1, <2>2, <2>3
  <2>5. ClockIsClose'
    BY <2>1, <2>3
  <2> QED
    BY <2>2, <2>3, <2>4, <2>5
<1>4. CASE Tick
  BY <1>4 DEF Tick
<1>5. CASE SetClock
  BY <1>5 DEF SetClock
<1>6. ASSUME NEW r \in Response, Reconnect(r) PROVE KeepAliveInv'
  BY <1>6 DEF Reconnect
<1>7. ASSUME NEW r \in Response, Disconnect(r) PROVE KeepAliveInv'
  <2>1. SilenceBounded
    BY SilenceFromInv
  <2>2. Starter \notin cut'
    <3>1. ~(running /\ now - byte[Starter] >= IdleLimit)
      BY <2>1 DEF SilenceBounded
    <3> QED
      BY <1>7, <3>1 DEF Disconnect
  <2> QED
    BY <1>7, <2>2 DEF Disconnect
<1>8. CASE UNCHANGED vars
  BY <1>8 DEF vars
<1> QED
  BY <1>1, <1>2, <1>3, <1>4, <1>5, <1>6, <1>7, <1>8 DEF Next

\* Type correctness of the timer.
THEOREM KeepAliveTypeCorrect == Spec => []KeepAliveTypeOK
<1>1. KeepAliveInv => KeepAliveTypeOK
  BY DEF KeepAliveInv
<1> QED
  BY <1>1, InitKeepAlive, NextKeepAlive, PTL DEF Spec

\* The silence of the response that started a run is bounded, for every
\* interval, lateness and clock (runrecipe.js:203-216).
THEOREM SilenceIsBounded == Spec => []SilenceBounded
  BY InitKeepAlive, NextKeepAlive, SilenceFromInv, PTL DEF Spec

\* That response is never closed for being idle (runrecipe.js:170-171).
THEOREM StarterIsNotCut == Spec => []StarterNotCut
<1>1. KeepAliveInv => StarterNotCut
  BY DEF KeepAliveInv
<1> QED
  BY <1>1, InitKeepAlive, NextKeepAlive, PTL DEF Spec

\* Nothing is written after the end of the response (runrecipe.js:187-191).
THEOREM EndIsSilent == Spec => EndedIsSilent
<1>1. KeepAliveInv /\ [Next]_vars => [~running => UNCHANGED byte]_vars
  BY DEF KeepAliveInv, KeepAliveTypeOK, Off, Next, Output, Fire, End, Tick,
         SetClock, Reconnect, Disconnect, vars, times
<1> QED
  BY <1>1, InitKeepAlive, NextKeepAlive, PTL DEF Spec, EndedIsSilent
=============================================================================
