----------------------- MODULE HeartbeatTimingProofs -----------------------
(***************************************************************************)
(* The safety properties of HeartbeatTiming for all intervals, timeouts,   *)
(* round trips and callbacks, any MAX_MISSED_HEARTBEATS and any number of  *)
(* unread frames.                                                          *)
(*                                                                         *)
(* The invariants relate the timers to each other, so that none of them    *)
(* needs to know what time it is: what is left until a tick or a deadline, *)
(* how long nothing has arrived, how many ticks have passed.               *)
(***************************************************************************)
EXTENDS HeartbeatTiming, Integers, TLAPS

\* With callbacks that return at once, time passes only when everything has
\* been read and at most one tick is due; so the ticks since the last frame
\* have taken their intervals, but for the first.
PromptInv == set.callback = 0 /\ Open =>
    /\ ticks <= 1 /\ (ticks = 1 => nextTick = set.interval)
    /\ unread > 0 => quiet = 0
    /\ unread = 0 => Ticks(missed + ticks) <= quiet + nextTick

\* A callback shorter than connection_timeout leaves something of the deadline
\* it was begun with; after that, time passes only when everything is read.
IdleInv == set.callback < set.timeout /\ Open =>
    /\ loop = "callback" => set.timeout <= idle + busy
    /\ unread = 0 => set.timeout <= quiet + idle
    /\ loop = "select" /\ unread > 0 => idle > 0 \/ quiet = 0

\* What arrived is read after a callback for each frame before it.  After the
\* last read the ticks and the idle deadline run down.
Waited(n) == (MaxUnread - n) * set.callback
Backlog   == MaxUnread * set.callback
SilentInv == Open =>
    /\ loop = "callback" => quiet <= Waited(unread) + busy
    /\ loop = "select" /\ unread > 0 => quiet <= Waited(unread) + set.callback
    /\ unread = 0 =>
         /\ idle > 0 => quiet + idle <= Backlog + set.timeout
         /\ quiet + nextTick <= Backlog + Ticks(missed + ticks + 1)
    /\ loop = "select" /\ unread = 0 =>
         /\ quiet <= Backlog + Larger(set.callback, set.timeout)
         /\ quiet <= Backlog + Larger(set.callback, Ticks(MaxMissed + 1))

\* A peer that is alive owes the answer to the first ping since the last frame
\* of its, and what is left until the answer runs down as the ticks pass.
AliveInv == Prompt /\ peer = "alive" =>
    /\ Open
    /\ idle > 0
    /\ missed + ticks <= MaxMissed
    /\ missed > 0 /\ owed = NotOwed => unread > 0
    /\ missed > 0 /\ unread = 0 =>
         owed + Ticks(missed + ticks) <= set.roundTrip + nextTick
    /\ unread = 0 =>
         IF owed = NotOwed
           THEN set.timeout + nextTick <= idle + Ticks(ticks + 1)
           ELSE set.timeout + owed <= idle + set.interval + set.roundTrip

-----------------------------------------------------------------------------
(* Times and types.                                                        *)

\* The times of a setting.
LEMMA Times ==
    ASSUME TypeOK
    PROVE  /\ set.interval \in Nat \ {0} /\ set.timeout \in Nat \ {0}
           /\ set.roundTrip \in Nat /\ set.callback \in Nat
           /\ MaxMissed \in Nat /\ MaxUnread \in Nat \ {0} /\ MaxTicks \in Nat \ {0}
           /\ NotOwed \in Nat /\ NotOwed > set.roundTrip
BY TimesAssumption DEF TypeOK, NotOwed

\* The variables, as numbers.
LEMMA Numbers ==
    ASSUME TypeOK
    PROVE  /\ missed \in Nat /\ missed <= MaxMissed /\ ticks \in Nat
           /\ nextTick \in Nat \ {0} /\ nextTick <= set.interval
           /\ idle \in Nat /\ idle <= set.timeout
           /\ busy \in Nat /\ busy <= set.callback
           /\ unread \in Nat /\ unread <= MaxUnread
           /\ owed \in Nat /\ owed <= NotOwed /\ quiet \in Nat
BY Times DEF TypeOK

\* Products, which the steps below change by one of their factors.
LEMMA Product ==
    ASSUME NEW a \in Nat, NEW b \in Nat
    PROVE  /\ a * b \in Nat /\ (a + 1) * b = a * b + b
           /\ 0 * b = 0 /\ 1 * b = b
           /\ \A c \in Nat : a <= c => a * b <= c * b
<1>1. ASSUME NEW c \in Nat, a <= c
      PROVE  a * b <= c * b
  <2>1. c - a \in Nat /\ (c - a) * b \in Nat
    BY <1>1
  <2>2. c * b = a * b + (c - a) * b
    BY <1>1
  <2> QED
    BY <2>1, <2>2
<1> QED
  BY <1>1

\* Every step keeps the types, each timer within its setting.
LEMMA TypesStep ==
    ASSUME TypeOK, Next
    PROVE  TypeOK'
<1> USE Times, Numbers DEF TypeOK, loopVars, peerVars, NotOwed
<1>0. set' = set
  BY DEF Next
<1>1. CASE Heartbeat
  <2>1. /\ missed' \in 0..MaxMissed /\ owed' \in 0..NotOwed /\ ticks' \in 0..MaxTicks
        /\ loop' \in {"select", "missed"}
    BY <1>1 DEF Heartbeat, Tick
  <2> QED
    BY <1>0, <1>1, <2>1 DEF Heartbeat, Tick
<1>2. CASE IdleTimeout
  BY <1>0, <1>2 DEF IdleTimeout
<1>3. CASE Read
  BY <1>0, <1>3 DEF Read, ReadThen
<1>4. CASE Return
  BY <1>0, <1>4 DEF Return
<1>5. CASE Frame \/ Pong
  BY <1>0, <1>5 DEF Frame, Pong, Arrives
<1>6. CASE FallsSilent
  BY <1>0, <1>6 DEF FallsSilent
<1>7. CASE Pass
  <2>1. busy' \in 0..set.callback
    BY <1>7 DEF Pass
  <2>2. nextTick' \in 1..set.interval /\ ticks' \in 0..MaxTicks
    BY <1>7 DEF Pass
  <2>3. idle' \in 0..set.timeout /\ owed' \in 0..NotOwed /\ quiet' \in Nat
    BY <1>7 DEF Pass
  <2> QED
    BY <1>0, <1>7, <2>1, <2>2, <2>3 DEF Pass
<1> QED
  BY <1>1, <1>2, <1>3, <1>4, <1>5, <1>6, <1>7 DEF Next

\* The timers stay within their settings, and missed within its bound.
THEOREM TypeCorrect == Spec => []TypeOK
<1>1. Init => TypeOK
  BY TimesAssumption DEF Init, TypeOK, NotOwed
<1>2. TypeOK /\ [Next]_vars => TypeOK'
  <2>1. TypeOK /\ UNCHANGED vars => TypeOK'
    BY DEF TypeOK, NotOwed, vars, loopVars, peerVars
  <2> QED
    BY <2>1, TypesStep
<1> QED
  BY <1>1, <1>2, PTL DEF Spec

-----------------------------------------------------------------------------
(* Verdicts with prompt callbacks.                                         *)

\* The ticks that have passed, one more or none.
LEMMA TicksAre ==
    ASSUME TypeOK
    PROVE  /\ \A n \in Nat : Ticks(n) \in Nat /\ Ticks(n + 1) = Ticks(n) + set.interval
           /\ \A n, m \in Nat : n <= m => Ticks(n) <= Ticks(m)
           /\ Ticks(0) = 0 /\ Ticks(1) = set.interval
           /\ set' = set => \A n : Ticks(n)' = Ticks(n)
BY Times, Product DEF Ticks

\* The numbers of ticks that have passed, or may.
LEMMA Counts ==
    ASSUME TypeOK
    PROVE  /\ Ticks(missed + ticks + 1) \in Nat /\ Ticks(ticks + 1) \in Nat
           /\ Ticks(MaxMissed + 1) \in Nat
           /\ Ticks(1) <= Ticks(ticks + 1) /\ Ticks(1) = set.interval
<1>1. missed + ticks + 1 \in Nat /\ ticks + 1 \in Nat /\ MaxMissed + 1 \in Nat /\ 1 <= ticks + 1
  BY Numbers, Times
<1> QED
  BY <1>1, TicksAre

\* Every step keeps the ticks in step with the time since the last frame, so
\* that a verdict comes late enough.
LEMMA PromptStep ==
    ASSUME TypeOK, PromptInv, NoEarlyVerdict, Next
    PROVE  PromptInv' /\ NoEarlyVerdict'
<1> SUFFICES ASSUME set.callback = 0
             PROVE  PromptInv' /\ NoEarlyVerdict'
  BY DEF Next, PromptInv, NoEarlyVerdict
<1>0. set' = set
  BY DEF Next
<1> USE Times, Numbers, <1>0 DEF PromptInv, NoEarlyVerdict, Open, loopVars, peerVars
<1>1. CASE Heartbeat
  <2>1. /\ loop = "select" /\ ticks = 1 /\ ticks' = 0 /\ nextTick = set.interval
        /\ UNCHANGED <<nextTick, unread, quiet>>
    BY <1>1 DEF Heartbeat, Tick
  <2>2. CASE missed + 1 > MaxMissed
    <3>1. missed + ticks = MaxMissed + 1 /\ loop' = "missed"
      BY <1>1, <2>1, <2>2 DEF Heartbeat, Tick
    <3>2. Ticks(MaxMissed + 1) = Ticks(MaxMissed) + set.interval /\ Ticks(MaxMissed) \in Nat
      BY TicksAre
    <3>3. quiet >= Ticks(MaxMissed) \/ quiet = 0
      BY <2>1, <3>1, <3>2
    <3>4. Ticks(MaxMissed)' = Ticks(MaxMissed)
      BY DEF Ticks
    <3> QED
      BY <2>1, <3>1, <3>3, <3>4
  <2>3. CASE missed + 1 <= MaxMissed
    <3>1. missed' + ticks' = missed + ticks /\ loop' = "select"
      BY <1>1, <2>1, <2>3 DEF Heartbeat, Tick
    <3>2. Ticks(missed + ticks)' = Ticks(missed + ticks)
      BY <3>1 DEF Ticks
    <3> QED
      BY <2>1, <3>1, <3>2
  <2> QED
    BY <2>2, <2>3
<1>2. CASE IdleTimeout
  BY <1>2 DEF IdleTimeout
<1>3. CASE Read
  <2>1. /\ loop' = "callback" /\ missed' = 0 /\ quiet' = 0
        /\ UNCHANGED <<ticks, nextTick>>
    BY <1>3 DEF Read, ReadThen
  <2>2. Ticks(missed + ticks)' = Ticks(ticks)
    BY <2>1 DEF Ticks
  <2>3. Ticks(ticks) <= nextTick
    <3>1. ticks <= 1 /\ (ticks = 1 => nextTick = set.interval)
      BY <1>3 DEF Read, ReadThen
    <3>2. CASE ticks = 0
      BY <3>2 DEF Ticks
    <3>3. CASE ticks = 1
      BY <3>1, <3>3 DEF Ticks
    <3> QED
      BY <3>1, <3>2, <3>3
  <2> QED
    BY <1>3, <2>1, <2>2, <2>3 DEF Read, ReadThen
<1>4. CASE Return
  <2>1. Ticks(missed + ticks)' = Ticks(missed + ticks)
    BY <1>4 DEF Return, Ticks
  <2> QED
    BY <1>4, <2>1 DEF Return
<1>5. CASE Frame \/ Pong
  BY <1>5 DEF Frame, Pong, Arrives
<1>6. CASE FallsSilent
  <2>1. Ticks(missed + ticks)' = Ticks(missed + ticks) /\ Ticks(MaxMissed)' = Ticks(MaxMissed)
    BY <1>6 DEF FallsSilent, Ticks
  <2> QED
    BY <1>6, <2>1 DEF FallsSilent
<1>7. CASE Pass
  <2>1. /\ loop = "select" /\ loop' = loop /\ ticks = 0 /\ unread = 0 /\ unread' = 0
        /\ missed' = missed /\ quiet' = quiet + 1
    BY <1>7 DEF Pass, Ready
  <2>2. CASE nextTick = 1
    <3>1. nextTick' = set.interval /\ ticks' = 1
      BY <1>7, <2>1, <2>2 DEF Pass
    <3>2. Ticks(missed + ticks)' = Ticks(missed) + set.interval
      BY <2>1, <3>1, TicksAre DEF Ticks
    <3>3. Ticks(missed) <= quiet + 1 /\ Ticks(missed) \in Nat
      <4>1. missed + ticks = missed
        BY <2>1
      <4> QED
        BY <2>1, <2>2, <4>1, TicksAre
    <3> QED
      BY <2>1, <2>2, <3>1, <3>2, <3>3
  <2>3. CASE nextTick # 1
    <3>1. nextTick' = nextTick - 1 /\ ticks' = 0
      BY <1>7, <2>1, <2>3 DEF Pass
    <3>2. Ticks(missed + ticks)' = Ticks(missed + ticks)
      BY <2>1, <3>1 DEF Ticks
    <3> QED
      BY <2>1, <2>3, <3>1, <3>2, TicksAre
  <2> QED
    BY <2>2, <2>3
<1> QED
  BY <1>1, <1>2, <1>3, <1>4, <1>5, <1>6, <1>7 DEF Next

\* Whatever the settings, the heartbeat does not close a peer that has sent
\* something within MAX_MISSED_HEARTBEATS intervals, if callbacks are prompt.
THEOREM VerdictCorrect == Spec => []NoEarlyVerdict
<1>1. Init => PromptInv /\ NoEarlyVerdict
  BY TimesAssumption DEF Init, PromptInv, NoEarlyVerdict, Open, Ticks
<1>2. TypeOK /\ (PromptInv /\ NoEarlyVerdict) /\ [Next]_vars => (PromptInv /\ NoEarlyVerdict)'
  <2>1. (PromptInv /\ NoEarlyVerdict) /\ UNCHANGED vars => (PromptInv /\ NoEarlyVerdict)'
    BY DEF PromptInv, NoEarlyVerdict, Open, Ticks, vars, loopVars, peerVars
  <2> QED
    BY <2>1, PromptStep
<1> QED
  BY TypeCorrect, <1>1, <1>2, PTL DEF Spec

-----------------------------------------------------------------------------
(* The idle deadline.                                                      *)

\* Every step keeps the deadline in step with it too.
LEMMA IdleStep ==
    ASSUME TypeOK, IdleInv, IdleJustified, Next
    PROVE  IdleInv' /\ IdleJustified'
<1> SUFFICES ASSUME set.callback < set.timeout
             PROVE  IdleInv' /\ IdleJustified'
  BY DEF Next, IdleInv, IdleJustified
<1>0. set' = set
  BY DEF Next
<1> USE Times, Numbers, <1>0 DEF IdleInv, IdleJustified, Open, loopVars, peerVars
<1>1. CASE Heartbeat
  BY <1>1 DEF Heartbeat, Tick
<1>2. CASE IdleTimeout
  BY <1>2 DEF IdleTimeout
<1>3. CASE Read
  BY <1>3 DEF Read, ReadThen
<1>4. CASE Return
  BY <1>4 DEF Return
<1>5. CASE Frame \/ Pong
  BY <1>5 DEF Frame, Pong, Arrives
<1>6. CASE FallsSilent
  BY <1>6 DEF FallsSilent
<1>7. CASE Pass
  <2>1. /\ loop' = loop /\ unread' = unread /\ quiet' = quiet + 1
        /\ idle' = IF idle > 0 THEN idle - 1 ELSE 0
    BY <1>7 DEF Pass
  <2>2. CASE loop = "select"
    BY <1>7, <2>1, <2>2 DEF Pass, Ready
  <2>3. CASE loop = "callback"
    BY <1>7, <2>1, <2>3 DEF Pass
  <2> QED
    BY <1>7, <2>2, <2>3 DEF Pass
<1> QED
  BY <1>1, <1>2, <1>3, <1>4, <1>5, <1>6, <1>7 DEF Next

\* Unless a callback takes as long as connection_timeout, the idle deadline
\* closes only a peer from which nothing came for so long.
THEOREM IdleCorrect == Spec => []IdleJustified
<1>1. Init => IdleInv /\ IdleJustified
  BY TimesAssumption DEF Init, IdleInv, IdleJustified, Open
<1>2. TypeOK /\ (IdleInv /\ IdleJustified) /\ [Next]_vars => (IdleInv /\ IdleJustified)'
  <2>1. (IdleInv /\ IdleJustified) /\ UNCHANGED vars => (IdleInv /\ IdleJustified)'
    BY DEF IdleInv, IdleJustified, Open, vars, loopVars, peerVars
  <2> QED
    BY <2>1, IdleStep
<1> QED
  BY TypeCorrect, <1>1, <1>2, PTL DEF Spec

-----------------------------------------------------------------------------
(* A silent peer.                                                          *)

\* Each read adds one callback to what has been waited.
LEMMA WaitedIs ==
    ASSUME TypeOK
    PROVE  /\ \A n \in 0..MaxUnread :
                 /\ Waited(n) \in Nat /\ Waited(n) <= Backlog
                 /\ n > 0 => /\ Waited(n - 1) = Waited(n) + set.callback
                             /\ Waited(n) + set.callback <= Backlog
           /\ Waited(0) = Backlog /\ Backlog \in Nat
<1> USE Times DEF Waited, Backlog
<1>1. \A n \in 0..MaxUnread : MaxUnread - n \in Nat /\ MaxUnread - n + 1 \in Nat
  OBVIOUS
<1>2. ASSUME NEW n \in 0..MaxUnread
      PROVE  /\ Waited(n) \in Nat /\ Waited(n) <= Backlog
             /\ Waited(n) + set.callback = (MaxUnread - n + 1) * set.callback
  BY <1>1, Product
<1>3. ASSUME NEW n \in 0..MaxUnread, n > 0
      PROVE  /\ Waited(n - 1) = Waited(n) + set.callback
             /\ Waited(n) + set.callback <= Backlog
  <2>1. n - 1 \in 0..MaxUnread /\ MaxUnread - (n - 1) = MaxUnread - n + 1
    BY <1>3
  <2> QED
    BY <1>2, <1>3, <2>1
<1> QED
  BY <1>2, <1>3, Product

\* After the last frame and its callback, pings and the deadline run down.
LEMMA SilentStep ==
    ASSUME TypeOK, SilentInv, Next, Open'
    PROVE  SilentInv'
<1>0. set' = set /\ Open
  BY DEF Next, Heartbeat, Tick, IdleTimeout, Read, ReadThen, Return, Frame, Pong, Arrives,
         FallsSilent, Pass, Open, loopVars
<1> DEFINE H == Ticks(MaxMissed + 1)
           L == Larger(set.callback, set.timeout)
           M == Larger(set.callback, H)
<1>a. /\ H \in Nat /\ L \in Nat /\ M \in Nat /\ Backlog \in Nat
      /\ set.callback <= L /\ set.timeout <= L /\ set.callback <= M /\ H <= M
  <2>1. H \in Nat /\ Backlog \in Nat
    BY Counts, WaitedIs
  <2> HIDE DEF H
  <2> QED
    BY Times, <2>1 DEF Larger
<1>b. /\ Backlog' = Backlog /\ L' = L /\ M' = M
      /\ \A n : Waited(n)' = Waited(n) /\ Ticks(n)' = Ticks(n)
  BY <1>0 DEF Backlog, Larger, Waited, Ticks
<1>c. Waited(unread) \in Nat /\ Waited(unread) <= Backlog
      /\ (unread > 0 => /\ Waited(unread - 1) = Waited(unread) + set.callback
                        /\ Waited(unread) + set.callback <= Backlog)
      /\ Waited(0) = Backlog
  BY WaitedIs, Numbers
<1>d. /\ loop = "callback" => quiet <= Waited(unread) + busy
      /\ loop = "select" /\ unread > 0 => quiet <= Waited(unread) + set.callback
      /\ unread = 0 =>
           /\ idle > 0 => quiet + idle <= Backlog + set.timeout
           /\ quiet + nextTick <= Backlog + Ticks(missed + ticks + 1)
      /\ loop = "select" /\ unread = 0 => quiet <= Backlog + L /\ quiet <= Backlog + M
  BY <1>0 DEF SilentInv
<1> DEFINE Silent ==
      /\ loop' = "callback" => quiet' <= Waited(unread') + busy'
      /\ loop' = "select" /\ unread' > 0 => quiet' <= Waited(unread') + set.callback
      /\ unread' = 0 =>
           /\ idle' > 0 => quiet' + idle' <= Backlog + set.timeout
           /\ quiet' + nextTick' <= Backlog + Ticks(missed' + ticks' + 1)
      /\ loop' = "select" /\ unread' = 0 => quiet' <= Backlog + L /\ quiet' <= Backlog + M
<1>e. SUFFICES Silent
  <2> HIDE DEF L, M
  <2>1. /\ Waited(unread)' = Waited(unread')
        /\ Ticks(missed + ticks + 1)' = Ticks(missed' + ticks' + 1)
    BY <1>0 DEF Waited, Ticks
  <2>2. /\ Backlog' = Backlog /\ Larger(set.callback, set.timeout)' = L
        /\ Larger(set.callback, Ticks(MaxMissed + 1))' = M /\ set' = set
    BY <1>0, <1>b DEF L, M
  <2> QED
    BY <2>1, <2>2 DEF SilentInv
<1> USE Numbers, Times DEF loopVars, peerVars
<1>1. CASE Heartbeat
  BY <1>0, <1>1, <1>d DEF Heartbeat, Tick, Open
<1>2. CASE IdleTimeout
  BY <1>2 DEF IdleTimeout, Open
<1>3. CASE Read
  <2>1. /\ loop = "select" /\ unread > 0 /\ unread' = unread - 1 /\ loop' = "callback"
        /\ busy' = 0 /\ missed' = 0 /\ idle' = set.timeout
        /\ UNCHANGED <<ticks, nextTick, quiet>>
    BY <1>3 DEF Read, ReadThen
  <2>2. quiet <= Waited(unread')
    BY <1>c, <1>d, <2>1
  <2>3. set.interval <= Ticks(missed' + ticks' + 1) /\ Ticks(missed' + ticks' + 1) \in Nat
    <3>1. missed' + ticks' + 1 = ticks + 1
      BY <2>1
    <3> QED
      BY <3>1, Counts
  <2>4. unread' = 0 => quiet <= Backlog
    BY <1>c, <2>2
  <2> QED
    BY <1>a, <1>c, <2>1, <2>2, <2>3, <2>4
<1>4. CASE Return
  <2>1. /\ loop = "callback" /\ loop' = "select"
        /\ UNCHANGED <<missed, ticks, nextTick, idle, unread, quiet>>
    BY <1>4 DEF Return
  <2>2. quiet <= Waited(unread) + set.callback
    BY <1>c, <1>d, <2>1
  <2> QED
    BY <1>a, <1>c, <1>d, <2>1, <2>2
<1>5. CASE Frame \/ Pong
  <2>1. /\ unread' = unread + 1 /\ quiet' = 0 /\ UNCHANGED <<loop, busy>>
    BY <1>5 DEF Frame, Pong, Arrives
  <2>2. Waited(unread') \in Nat
    BY <1>0, <1>b, <1>5, TypesStep, WaitedIs DEF Frame, Pong, Arrives
  <2> QED
    BY <2>1, <2>2
<1>6. CASE FallsSilent
  BY <1>6, <1>d DEF FallsSilent
<1>7. CASE Pass
  <2>1. /\ loop' = loop /\ unread' = unread /\ missed' = missed /\ quiet' = quiet + 1
        /\ idle' = IF idle > 0 THEN idle - 1 ELSE 0
    BY <1>7 DEF Pass
  <2>2. unread = 0 => quiet' + nextTick' <= Backlog + Ticks(missed' + ticks' + 1)
    <3>1. CASE nextTick = 1
      <4>1. nextTick' = set.interval /\ ticks' = ticks + 1
        BY <1>7, <3>1 DEF Pass
      <4>2. Ticks((missed + ticks + 1) + 1) = Ticks(missed + ticks + 1) + set.interval
            /\ Ticks(missed + ticks + 1) \in Nat
        <5>1. missed + ticks + 1 \in Nat
          OBVIOUS
        <5> QED
          BY <5>1, TicksAre
      <4>3. missed' + ticks' + 1 = (missed + ticks + 1) + 1
        BY <2>1, <4>1
      <4> QED
        BY <1>a, <1>d, <2>1, <3>1, <4>1, <4>2, <4>3
    <3>2. CASE nextTick # 1
      <4>1. nextTick' = nextTick - 1 /\ ticks' = ticks
        BY <1>7, <3>2 DEF Pass
      <4>2. Ticks(missed + ticks + 1) \in Nat
        BY Counts
      <4> QED
        BY <1>a, <1>d, <2>1, <4>1, <4>2
    <3> QED
      BY <3>1, <3>2
  <2>3. CASE loop = "select"
    <3>1. ticks = 0 /\ idle > 0 /\ unread = 0
      BY <1>7, <2>3 DEF Pass, Ready
    <3>2. Ticks(missed + ticks + 1) <= H
      <4>1. missed + ticks + 1 <= MaxMissed + 1
        BY <3>1
      <4> QED
        BY <4>1, TicksAre
    <3>3. quiet + 1 <= Backlog + set.timeout /\ quiet + 1 <= Backlog + H
      <4>1. Ticks(missed + ticks + 1) \in Nat
        BY Counts
      <4> QED
        BY <1>a, <1>d, <3>1, <3>2, <4>1
    <3> QED
      BY <1>a, <1>d, <2>1, <2>2, <2>3, <3>1, <3>3
  <2>4. CASE loop = "callback"
    <3>1. busy' = busy + 1
      BY <1>7, <2>4 DEF Pass
    <3> QED
      BY <1>a, <1>c, <1>d, <2>1, <2>2, <2>4, <3>1
  <2> QED
    BY <1>7, <2>3, <2>4 DEF Pass
<1> QED
  BY <1>1, <1>2, <1>3, <1>4, <1>5, <1>6, <1>7 DEF Next

\* A peer that has fallen silent is noticed within the shorter of
\* connection_timeout and MAX_MISSED_HEARTBEATS and one intervals, but for the
\* callbacks.
THEOREM DetectionCorrect == Spec => []DetectedInTime
<1>1. Init => SilentInv
  <2> SUFFICES ASSUME Init PROVE SilentInv
    OBVIOUS
  <2>1. TypeOK
    BY TimesAssumption DEF Init, TypeOK, NotOwed
  <2>2. Backlog \in Nat /\ Ticks(1) = set.interval /\ Ticks(MaxMissed + 1) \in Nat
    BY <2>1, WaitedIs, Counts
  <2>3. missed + ticks + 1 = 1
    BY DEF Init
  <2>4. Larger(set.callback, set.timeout) \in Nat /\ Larger(set.callback, Ticks(MaxMissed + 1)) \in Nat
    BY <2>1, <2>2, Times DEF Larger
  <2> QED
    BY <2>1, <2>2, <2>3, <2>4, Times DEF Init, SilentInv
<1>2. TypeOK /\ SilentInv /\ [Next]_vars => SilentInv'
  <2>1. SilentInv /\ UNCHANGED vars => SilentInv'
    BY DEF SilentInv, Open, Waited, Backlog, Larger, Ticks, vars, loopVars, peerVars
  <2>2. ~Open' => SilentInv'
    BY DEF SilentInv
  <2> QED
    BY <2>1, <2>2, SilentStep
<1>3. TypeOK /\ SilentInv => DetectedInTime
  <2> SUFFICES ASSUME TypeOK, SilentInv, Open
               PROVE  quiet <= Limit
    BY DEF DetectedInTime
  <2> DEFINE H == Ticks(MaxMissed + 1)
  <2>1. /\ H \in Nat /\ Backlog \in Nat /\ Waited(0) = Backlog
        /\ Waited(unread) \in Nat /\ Waited(unread) <= Backlog
        /\ unread > 0 => Waited(unread) + set.callback <= Backlog
    <3>1. unread \in 0..MaxUnread
      BY DEF TypeOK
    <3> QED
      BY <3>1, Counts, WaitedIs
  <2>2. quiet <= Backlog + Larger(set.callback, Smaller(set.timeout, H))
    <3> HIDE DEF H
    <3>1. CASE loop = "callback"
      BY <2>1, <3>1, Numbers, Times DEF SilentInv, Larger, Smaller
    <3>2. CASE loop = "select" /\ unread > 0
      BY <2>1, <3>2, Numbers, Times DEF SilentInv, Larger, Smaller
    <3>3. CASE loop = "select" /\ unread = 0
      BY <2>1, <3>3, Numbers, Times DEF SilentInv, Larger, Smaller, H
    <3> QED
      BY <3>1, <3>2, <3>3, Numbers DEF Open
  <2>3. Larger(set.callback, Smaller(set.timeout, H)) \in Nat
    BY <2>1, Times DEF Larger, Smaller
  <2> QED
    BY <2>1, <2>2, <2>3 DEF Limit, Backlog
<1> QED
  BY TypeCorrect, <1>1, <1>2, <1>3, PTL DEF Spec

-----------------------------------------------------------------------------
(* A peer that answers.                                                    *)

\* Every step keeps what a live peer owes ahead of both verdicts.
LEMMA AliveStep ==
    ASSUME TypeOK, PromptInv, AliveInv, Next, Prompt', peer' = "alive"
    PROVE  AliveInv'
<1>0. set' = set
  BY DEF Next
<1>a. /\ Prompt /\ set.callback = 0 /\ set.roundTrip < Ticks(MaxMissed)
      /\ set.interval + set.roundTrip < set.timeout
  BY <1>0 DEF Prompt, Ticks
<1>b. peer = "alive"
  BY DEF Next, Heartbeat, Tick, IdleTimeout, Read, ReadThen, Return, Frame, Pong, Arrives,
         FallsSilent, Pass, peerVars
<1>c. MaxMissed >= 1
  BY <1>a, TicksAre, Times
<1>d. Open /\ idle > 0 /\ missed + ticks <= MaxMissed
  BY <1>a, <1>b DEF AliveInv
<1>e. ticks <= 1 /\ (ticks = 1 => nextTick = set.interval)
  BY <1>a, <1>d DEF PromptInv
<1>f. /\ missed > 0 /\ owed = NotOwed => unread > 0
      /\ missed > 0 /\ unread = 0 =>
           owed + Ticks(missed + ticks) <= set.roundTrip + nextTick
      /\ unread = 0 =>
           /\ owed = NotOwed => set.timeout + nextTick <= idle + Ticks(ticks + 1)
           /\ owed # NotOwed => set.timeout + owed <= idle + set.interval + set.roundTrip
  BY <1>a, <1>b DEF AliveInv
<1>g. \A n : Ticks(n)' = Ticks(n)
  BY <1>0 DEF Ticks
<1>h. SUFFICES /\ Open'
               /\ idle' > 0
               /\ missed' + ticks' <= MaxMissed
               /\ missed' > 0 /\ owed' = NotOwed => unread' > 0
               /\ missed' > 0 /\ unread' = 0 =>
                    owed' + Ticks(missed' + ticks') <= set.roundTrip + nextTick'
               /\ unread' = 0 =>
                    /\ owed' = NotOwed => set.timeout + nextTick' <= idle' + Ticks(ticks' + 1)
                    /\ owed' # NotOwed =>
                         set.timeout + owed' <= idle' + set.interval + set.roundTrip
  <2>1. /\ Ticks(missed + ticks)' = Ticks(missed' + ticks')
        /\ Ticks(ticks + 1)' = Ticks(ticks' + 1) /\ NotOwed' = NotOwed
    BY <1>0 DEF Ticks, NotOwed
  <2> QED
    BY <1>0, <2>1 DEF AliveInv
<1>i. owed # NotOwed => owed <= set.roundTrip
  BY Numbers, Times DEF NotOwed
<1> USE Numbers, Times DEF loopVars, peerVars
<1>1. CASE Heartbeat
  <2>1. /\ loop = "select" /\ ticks = 1 /\ ticks' = 0 /\ nextTick = set.interval
        /\ missed' = missed + 1 /\ owed' = (IF owed = NotOwed THEN set.roundTrip ELSE owed)
        /\ UNCHANGED <<loop, idle, nextTick, unread>>
    BY <1>1, <1>d, <1>e DEF Heartbeat, Tick
  <2>2. /\ Ticks(1) = set.interval /\ Ticks(ticks + 1) = set.interval + set.interval
        /\ Ticks(ticks' + 1) = set.interval
    BY <2>1, TicksAre DEF Ticks
  <2>3. owed' # NotOwed /\ owed' <= set.roundTrip
    BY <1>i, <2>1
  <2>4. unread = 0 => owed' + Ticks(missed' + ticks') <= set.roundTrip + nextTick
    <3>1. missed' + ticks' = missed + ticks
      BY <2>1
    <3>2. CASE missed = 0
      <4>1. missed' + ticks' = 1
        BY <2>1, <3>2
      <4> QED
        BY <2>1, <2>2, <2>3, <4>1
    <3>3. CASE missed > 0
      BY <1>f, <2>1, <3>1, <3>3
    <3> QED
      BY <3>2, <3>3
  <2>5. unread = 0 => set.timeout + owed' <= idle + set.interval + set.roundTrip
    BY <1>f, <2>1, <2>2
  <2> QED
    BY <1>d, <2>1, <2>3, <2>4, <2>5 DEF Open
<1>2. CASE IdleTimeout
  BY <1>2, <1>d DEF IdleTimeout
<1>3. CASE Read
  <2>1. /\ loop' = "callback" /\ missed' = 0 /\ idle' = set.timeout
        /\ UNCHANGED <<ticks, nextTick, owed>>
    BY <1>3 DEF Read, ReadThen
  <2>2. set.interval <= Ticks(ticks + 1) /\ Ticks(ticks + 1) \in Nat
    BY Counts
  <2> QED
    BY <1>c, <1>e, <1>i, <2>1, <2>2 DEF Open
<1>4. CASE Return
  <2>1. loop' = "select" /\ UNCHANGED <<missed, ticks, nextTick, idle, unread, owed>>
    BY <1>4 DEF Return
  <2> QED
    BY <1>d, <1>f, <2>1 DEF Open
<1>5. CASE Frame \/ Pong
  <2>1. unread' > 0 /\ UNCHANGED <<loop, missed, ticks, idle>>
    BY <1>5 DEF Frame, Pong, Arrives
  <2> QED
    BY <1>d, <2>1 DEF Open
<1>6. CASE FallsSilent
  BY <1>6 DEF FallsSilent
<1>7. CASE Pass
  <2>1. /\ loop = "select" /\ loop' = loop /\ ticks = 0 /\ unread = 0 /\ unread' = 0
        /\ missed' = missed /\ idle' = idle - 1
    BY <1>7, <1>a, <1>d DEF Pass, Ready
  <2>2. owed > 0 /\ owed' = IF owed = NotOwed THEN owed ELSE owed - 1
    BY <1>7, <1>b, <2>1 DEF Pass
  <2>3. Ticks(ticks + 1) = set.interval /\ missed + ticks = missed
        /\ Ticks(missed) \in Nat /\ Ticks(missed + 1) = Ticks(missed) + set.interval
        /\ Ticks(2) = set.interval + set.interval
    <3>1. ticks + 1 = 1 /\ missed + ticks = missed
      BY <2>1
    <3>2. Ticks(1) = set.interval /\ Ticks(2) = set.interval + set.interval
      BY DEF Ticks
    <3> QED
      BY <3>1, <3>2, TicksAre
  <2>4. idle > 1
    BY <1>a, <1>f, <2>1, <2>2, <2>3
  <2>5. missed > 0 => owed # NotOwed /\ owed + Ticks(missed) <= set.roundTrip + nextTick
    BY <1>f, <2>1, <2>3
  <2>6. CASE nextTick = 1
    <3>1. nextTick' = set.interval /\ ticks' = 1
      BY <1>7, <2>1, <2>6 DEF Pass
    <3>2. missed + 1 <= MaxMissed
      <4>1. CASE missed = 0
        BY <1>c, <4>1
      <4>2. CASE missed > 0
        <5>0. Ticks(MaxMissed) \in Nat
          BY TicksAre
        <5>1. Ticks(missed) < Ticks(MaxMissed)
          BY <1>a, <2>2, <2>3, <2>5, <2>6, <4>2, <5>0
        <5>2. ~(MaxMissed <= missed)
          BY <2>3, <5>1, TicksAre
        <5> QED
          BY <5>2
      <4> QED
        BY <4>1, <4>2
    <3>3. Ticks(missed' + ticks') = Ticks(missed) + set.interval
          /\ Ticks(ticks' + 1) = set.interval + set.interval
      BY <2>1, <2>3, <3>1
    <3> QED
      BY <1>f, <2>1, <2>2, <2>3, <2>4, <2>5, <2>6, <3>1, <3>2, <3>3 DEF Open
  <2>7. CASE nextTick # 1
    <3>1. nextTick' = nextTick - 1 /\ ticks' = 0
      BY <1>7, <2>1, <2>7 DEF Pass
    <3>2. Ticks(missed' + ticks') = Ticks(missed) /\ Ticks(ticks' + 1) = set.interval
      BY <2>1, <2>3, <3>1
    <3> QED
      BY <1>d, <1>f, <2>1, <2>2, <2>3, <2>4, <2>5, <2>7, <3>1, <3>2 DEF Open
  <2> QED
    BY <2>6, <2>7
<1> QED
  BY <1>1, <1>2, <1>3, <1>4, <1>5, <1>6, <1>7 DEF Next

\* With prompt callbacks and timeouts longer than a ping and its answer take,
\* a peer that answers is kept, whichever branch the select! takes.
THEOREM ResponsiveCorrect == Spec => []ResponsivePeerKept
<1>1. Init => PromptInv /\ NoEarlyVerdict /\ AliveInv
  <2> SUFFICES ASSUME Init PROVE PromptInv /\ NoEarlyVerdict /\ AliveInv
    OBVIOUS
  <2>1. TypeOK
    BY TimesAssumption DEF Init, TypeOK, NotOwed
  <2>2. Ticks(1) = set.interval /\ Ticks(0) = 0
    BY <2>1, TicksAre
  <2>3. missed + ticks = 0 /\ ticks + 1 = 1
    BY DEF Init
  <2> QED
    BY <2>1, <2>2, <2>3, Times DEF Init, PromptInv, NoEarlyVerdict, AliveInv, Open
<1>2. TypeOK /\ (PromptInv /\ NoEarlyVerdict /\ AliveInv) /\ [Next]_vars
        => (PromptInv /\ NoEarlyVerdict /\ AliveInv)'
  <2>1. (PromptInv /\ NoEarlyVerdict /\ AliveInv) /\ UNCHANGED vars
          => (PromptInv /\ NoEarlyVerdict /\ AliveInv)'
    BY DEF PromptInv, NoEarlyVerdict, AliveInv, Prompt, NotOwed, Open, Ticks, vars, loopVars,
           peerVars
  <2>2. ~(Prompt' /\ peer' = "alive") => AliveInv'
    BY DEF AliveInv
  <2> QED
    BY <2>1, <2>2, PromptStep, AliveStep
<1>3. AliveInv => ResponsivePeerKept
  BY DEF AliveInv, ResponsivePeerKept
<1> QED
  BY TypeCorrect, <1>1, <1>2, <1>3, PTL DEF Spec

=============================================================================
