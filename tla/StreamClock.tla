----------------------------- MODULE StreamClock -----------------------------
(***************************************************************************)
(* The clock that mirror video and audio share (normalizeTimestamp and     *)
(* resetStreamClock in src/airplay-server.cpp): the decode thread and the  *)
(* audio thread turn a packet's sender timestamp into an OBS time, against *)
(* an anchor that whichever comes first after a reset has set.  Each reads *)
(* the OBS clock first and then waits for the timestamp lock, behind the   *)
(* other thread or behind a reset, for any time.                           *)
(*                                                                         *)
(* The sender's clock runs `skew` ahead of OBS's until it restarts; a      *)
(* packet carries the sender's time `lag` before it is looked at.          *)
(***************************************************************************)
EXTENDS Integers

CONSTANTS
    MaxDelta,    \* kMaximumClockDeltaNs
    LastTime,    \* UINT64_MAX
    Callers,     \* the threads that normalise timestamps
    Lags,        \* how old timestamps are when they get here
    Skews,       \* the sender's clock minus OBS's, for its runs
    LoadTime,    \* the OBS clock when the plugin starts
    FinalTime    \* bound: the last time

(* Timestamps of one sender run are less apart than MaxDelta; the machine  *)
(* has been up for longer than that, and the clock is not about to wrap.   *)
ASSUME ClockAssumption ==
    /\ MaxDelta \in Nat /\ LastTime \in Nat
    /\ Lags \subseteq Int /\ Skews \subseteq Int
    /\ LoadTime \in Nat /\ FinalTime \in Nat
    /\ \A a, b \in Lags : a - b <= MaxDelta
    /\ MaxDelta <= LoadTime /\ LoadTime <= FinalTime /\ FinalTime + MaxDelta <= LastTime

VARIABLES
    clock,       \* the OBS clock
    skew,        \* the sender's clock minus it
    initialized, \* m_timestamp_initialized
    source,      \* m_timestamp_source_origin
    obs,         \* m_timestamp_obs_origin
    caller,      \* per caller, the call it is in
    answer,      \* the last time given, and the `now` of the call it was for
    anchor_skew  \* ghost: the sender's clock as of the packet of the anchor

anchor == <<initialized, source, obs, anchor_skew>>
clockVars == <<clock, skew, anchor, caller, answer>>

NoCall == [timestamp |-> 0, now |-> 0, skew |-> 0]
NoAnswer == [time |-> 0, now |-> 0]

-----------------------------------------------------------------------------
(* A packet is looked at: the clock is read, then the lock is waited for.  *)
Read(c, lag) ==
    /\ caller[c] = NoCall
    /\ clock + skew - lag \in 0..LastTime
    /\ IF clock + skew - lag = 0
       THEN answer' = [time |-> clock, now |-> clock] /\ UNCHANGED caller
       ELSE /\ caller' = [caller EXCEPT ![c] =
                            [timestamp |-> clock + skew - lag, now |-> clock, skew |-> skew]]
            /\ UNCHANGED answer
    /\ UNCHANGED <<clock, skew, anchor>>

(* resetAnchor. *)
ResetAnchor(call) ==
    /\ initialized' = TRUE
    /\ source' = call.timestamp /\ obs' = call.now /\ anchor_skew' = call.skew
    /\ answer' = [time |-> call.now, now |-> call.now]

(* Where the anchor puts the timestamp; unsigned arithmetic would wrap.    *)
Normalized(call) == obs + (call.timestamp - source)

(* Mutant: a timestamp behind the clock is not looked at. *)
NotAhead(time, t) == time - t <= MaxDelta

Near(time, t) == time - t <= MaxDelta /\ t - time <= MaxDelta

(* Mutant: the clock is read once the lock is held. *)
NormalizeLate(c) ==
    LET call == [caller[c] EXCEPT !.now = clock]
    IN  /\ caller[c] # NoCall
        /\ IF ~initialized \/ Normalized(call) \notin 0..LastTime
              \/ ~Near(Normalized(call), call.now)
           THEN ResetAnchor(call)
           ELSE answer' = [time |-> Normalized(call), now |-> call.now] /\ UNCHANGED anchor
        /\ caller' = [caller EXCEPT ![c] = NoCall]
        /\ UNCHANGED <<clock, skew>>

(* normalizeTimestamp() under the lock. *)
Normalize(c) ==
    LET call == caller[c]
    IN  /\ call # NoCall
        /\ IF ~initialized \/ Normalized(call) \notin 0..LastTime
              \/ ~Near(Normalized(call), call.now)
           THEN ResetAnchor(call)
           ELSE answer' = [time |-> Normalized(call), now |-> call.now] /\ UNCHANGED anchor
        /\ caller' = [caller EXCEPT ![c] = NoCall]
        /\ UNCHANGED <<clock, skew>>

(* resetStreamClock(). *)
ResetStreamClock ==
    /\ initialized' = FALSE /\ source' = 0 /\ obs' = 0 /\ anchor_skew' = 0
    /\ UNCHANGED <<clock, skew, caller, answer>>

(* Time passes; the sender starts over with another clock.                 *)
Tick == clock < FinalTime /\ clock' = clock + 1 /\ UNCHANGED <<skew, anchor, caller, answer>>

Restart == skew' \in Skews /\ UNCHANGED <<clock, anchor, caller, answer>>

ClockInit ==
    /\ clock = LoadTime /\ skew \in Skews
    /\ initialized = FALSE /\ source = 0 /\ obs = 0 /\ anchor_skew = 0
    /\ caller = [c \in Callers |-> NoCall] /\ answer = NoAnswer

ClockNext ==
    \/ \E c \in Callers : (\E lag \in Lags : Read(c, lag)) \/ Normalize(c)
    \/ ResetStreamClock \/ Tick \/ Restart

ClockSpec == ClockInit /\ [][ClockNext]_clockVars

-----------------------------------------------------------------------------
ClockTypeOK ==
    /\ clock \in LoadTime..FinalTime /\ skew \in Skews
    /\ initialized \in BOOLEAN
    /\ source \in 0..LastTime /\ obs \in 0..LastTime
    /\ anchor_skew \in Skews \cup {0}
    /\ caller \in [Callers -> [timestamp : 0..LastTime, now : 0..FinalTime, skew : Skews \cup {0}]]
    /\ answer \in [time : 0..LastTime, now : 0..FinalTime]

(* Whatever a sender's clock does, and whichever run of it the anchor is   *)
(* of, media is never placed further from the time it was looked at than   *)
(* the code allows: OBS neither waits for it nor takes it for stale.       *)
NearNow == answer.time - answer.now \in -MaxDelta..MaxDelta

(* Audio and video stay in step: while the sender's clock runs on, nothing *)
(* but a reset moves the anchor, however long either thread waited for the *)
(* lock and whichever came first.  It moves only for a packet of another   *)
(* run of the sender than the one it was set by.                           *)
InStep ==
    [][initialized /\ initialized' /\ <<source, obs>>' # <<source, obs>>
         => \E c \in Callers : caller[c] # caller'[c] /\ caller[c].skew # anchor_skew]_clockVars
=============================================================================
