-------------------------- MODULE HeartbeatTiming --------------------------
(***************************************************************************)
(* The read loop of handle_connection (src/src/server.rs) against time:    *)
(* the heartbeat ticker, the idle deadline, the frames of the peer and the *)
(* callbacks that keep the loop from all of them.                          *)
(*                                                                         *)
(* Time is discrete.  The loop itself takes none; callbacks take a while,  *)
(* and a peer that is alive answers a ping in time, besides the frames it  *)
(* sends of its own accord.  The ticker is tokio's: ticks that were missed *)
(* are all delivered, in a burst.                                          *)
(***************************************************************************)
EXTENDS Naturals

CONSTANTS
    Settings,   \* the combinations of times looked at
    MaxMissed,  \* MAX_MISSED_HEARTBEATS
    MaxUnread,  \* bound: frames that have arrived and are not read
    MaxTicks    \* bound: time stands still while so many ticks are due

ASSUME TimesAssumption ==
    /\ Settings \subseteq [interval : Nat \ {0}, timeout : Nat \ {0},
                           roundTrip : Nat, callback : Nat]
    /\ MaxMissed \in Nat /\ MaxUnread \in Nat \ {0} /\ MaxTicks \in Nat \ {0}

VARIABLES
    set,      \* heartbeat_interval and connection_timeout, and from a ping to
              \* the arrival of its pong and the longest callback, at most
    loop,     \* "select", "callback", or why the loop ended
    missed,   \* missed_heartbeats
    ticks,    \* ticks that are due
    nextTick, \* the time until the next one
    idle,     \* the time until idle_deadline
    busy,     \* how long the callback has taken
    unread,   \* frames that have arrived
    peer,     \* "alive" or "silent"
    owed,     \* the time until the peer has answered, NotOwed without a ping
    quiet     \* the time since a frame last arrived

loopVars == <<loop, missed, ticks, nextTick, idle, busy>>
peerVars == <<unread, peer, owed, quiet>>
vars == <<set, loopVars, peerVars>>

NotOwed == set.roundTrip + 1

\* The verdict on a peer that sends nothing, unless a callback delays it, and
\* the callbacks for what it sent before.
Ticks(n) == n * set.interval
Smaller(a, b) == IF a < b THEN a ELSE b
Larger(a, b)  == IF a < b THEN b ELSE a
Limit ==
    Larger(set.callback, Smaller(set.timeout, Ticks(MaxMissed + 1)))
    + MaxUnread * set.callback

TypeOK ==
    /\ set \in Settings
    /\ loop \in {"select", "callback", "missed", "idle"}
    /\ missed \in 0..MaxMissed
    /\ ticks \in 0..MaxTicks
    /\ nextTick \in 1..set.interval
    /\ idle \in 0..set.timeout
    /\ busy \in 0..set.callback
    /\ unread \in 0..MaxUnread
    /\ peer \in {"alive", "silent"}
    /\ owed \in 0..NotOwed
    /\ quiet \in Nat

\* on_connect has returned, and the ticker's first tick is consumed.
Init ==
    /\ set \in Settings
    /\ loop = "select" /\ missed = 0 /\ ticks = 0 /\ busy = 0
    /\ nextTick = set.interval /\ idle = set.timeout
    /\ unread = 0 /\ peer = "alive" /\ owed = NotOwed /\ quiet = 0

-----------------------------------------------------------------------------
(* The branches of the select!, any of those that are ready.               *)

\* A tick: a ping, or the end.  Mutants: a ping less or more; a
\* deadline that every tick restarts.
Tick(max, deadline) ==
    /\ loop = "select" /\ ticks > 0
    /\ ticks' = ticks - 1
    /\ IF missed + 1 > max
         THEN loop' = "missed" /\ UNCHANGED <<missed, owed>>
         ELSE /\ missed' = missed + 1
              /\ owed' = IF owed = NotOwed THEN set.roundTrip ELSE owed
              /\ UNCHANGED loop
    /\ idle' = deadline
    /\ UNCHANGED <<nextTick, busy, unread, peer, quiet>>
HastyTick   == Tick(MaxMissed - 1, idle)
LateTick    == Tick(MaxMissed + 1, idle)
RestartTick == Tick(MaxMissed, set.timeout)
Heartbeat   == Tick(MaxMissed, idle)

IdleTimeout ==
    /\ loop = "select" /\ idle = 0
    /\ loop' = "idle"
    /\ UNCHANGED <<missed, ticks, nextTick, idle, busy, peerVars>>

\* A frame, and its callback.  Mutants: only a pong resets the count; the
\* deadline is left as it is.
ReadThen(m, deadline) ==
    /\ loop = "select" /\ unread > 0
    /\ unread' = unread - 1
    /\ missed' = m
    /\ idle' = deadline
    /\ loop' = "callback" /\ busy' = 0
    /\ UNCHANGED <<ticks, nextTick, peer, owed, quiet>>
ReadUncounted == \E m \in {0, missed} : ReadThen(m, set.timeout)
ReadOnTime    == ReadThen(0, idle)
Read          == ReadThen(0, set.timeout)

Return ==
    /\ loop = "callback"
    /\ loop' = "select" /\ busy' = 0
    /\ UNCHANGED <<missed, ticks, nextTick, idle, peerVars>>

-----------------------------------------------------------------------------
(* The peer and time.                                                      *)

\* A frame arrives; a pong answers every ping before it.
Arrives(answer) ==
    /\ peer = "alive" /\ unread < MaxUnread
    /\ unread' = unread + 1 /\ quiet' = 0
    /\ owed' = answer
    /\ UNCHANGED <<loopVars, peer>>
Frame == Arrives(owed)
Pong  == owed # NotOwed /\ Arrives(NotOwed)

FallsSilent ==
    /\ peer = "alive" /\ peer' = "silent"
    /\ UNCHANGED <<loopVars, unread, owed, quiet>>

Ready == ticks > 0 \/ idle = 0 \/ unread > 0

\* Time passes: not while a branch is ready, a callback overdue or a pong.
Pass ==
    /\ \/ loop = "select" /\ ~Ready /\ UNCHANGED busy
       \/ loop = "callback" /\ busy < set.callback /\ busy' = busy + 1
    /\ peer = "alive" => owed # 0 \/ unread = MaxUnread
    /\ ticks < MaxTicks
    /\ IF nextTick = 1
         THEN nextTick' = set.interval /\ ticks' = ticks + 1
         ELSE nextTick' = nextTick - 1 /\ UNCHANGED ticks
    /\ idle' = IF idle > 0 THEN idle - 1 ELSE 0
    /\ owed' = IF owed \in {0, NotOwed} THEN owed ELSE owed - 1
    /\ quiet' = quiet + 1
    /\ UNCHANGED <<loop, missed, unread, peer>>

Next ==
    /\ UNCHANGED set
    /\ \/ Heartbeat \/ IdleTimeout \/ Read \/ Return
       \/ Frame \/ Pong \/ FallsSilent \/ Pass

Spec == Init /\ [][Next]_vars

-----------------------------------------------------------------------------
(* Properties.                                                             *)

Open == loop \in {"select", "callback"}

\* Callbacks return at once, and a pong is neither as late as the verdict nor
\* as the idle deadline.
Prompt ==
    /\ set.callback = 0
    /\ set.roundTrip < Ticks(MaxMissed)
    /\ set.interval + set.roundTrip < set.timeout

(***************************************************************************)
(* A peer that answers every ping, later than the next one perhaps, is     *)
(* never closed, data or no data, whichever branch wins the select!.  The  *)
(* callbacks have to be prompt: ticks missed during one of MaxMissed       *)
(* intervals and more come in a burst that closes a peer which answers at  *)
(* once.                                                                   *)
(***************************************************************************)
ResponsivePeerKept == Prompt /\ peer = "alive" => Open

(***************************************************************************)
(* A peer that has fallen silent is closed by whichever comes first,       *)
(* connection_timeout or MAX_MISSED_HEARTBEATS and one intervals: neither  *)
(* starves the other.                                                      *)
(***************************************************************************)
DetectedInTime == Open => quiet <= Limit

(***************************************************************************)
(* "Genuine read inactivity" (server.rs:474): the idle deadline closes a   *)
(* peer only if nothing came from it for connection_timeout, or only at    *)
(* this instant, though it runs on during the callbacks: as long as each   *)
(* is shorter.  With a longer one it is overdue and may win over a frame   *)
(* that waits.                                                             *)
(***************************************************************************)
IdleJustified ==
    set.callback < set.timeout /\ loop = "idle" => quiet >= set.timeout \/ quiet = 0

(***************************************************************************)
(* MAX_MISSED_HEARTBEATS is "roughly 3x heartbeat_interval" (server.rs:    *)
(* 364): with prompt callbacks a peer is closed for missed heartbeats only *)
(* if nothing came from it for so long, or only at this instant, when the  *)
(* tick may win the select!.                                               *)
(***************************************************************************)
NoEarlyVerdict == set.callback = 0 /\ loop = "missed" =>
    quiet >= Ticks(MaxMissed) \/ quiet = 0

=============================================================================
