---------------------------- MODULE AudioRetimer ----------------------------
(***************************************************************************)
(* The mirror-audio re-timer, src/audio-retimer.hpp: every packet of a     *)
(* mirror audio stream is given the OBS timestamp it is output with, or is *)
(* dropped.  One instance is used under the audio decoder lock, so it is a *)
(* sequential state machine whose inputs (arrival time and play-at time)   *)
(* are the environment's.                                                  *)
(*                                                                         *)
(* Times are on the OBS clock in an arbitrary unit.  They are unbounded    *)
(* integers here: the code's uint64_t nanoseconds since boot are far from  *)
(* both ends, because normalizeTimestamp hands over play-at times within   *)
(* five seconds of now (module StreamClock).                               *)
(***************************************************************************)
EXTENDS Integers

CONSTANTS
    LateNs,       \* audio this far behind the OBS clock is late
    StartupNs,    \* length of the startup window of a stream
    JitterNs,     \* play-at times this close to the timeline are jitter
    MaxLeadNs,    \* the lead an anchored timeline is trimmed to
    StartLeadNs,  \* the least lead a stream starts or restarts with
    SlewDivisor,  \* a packet moves by at most 1/SlewDivisor of its length
    Durations,    \* packet lengths
    ClockSteps,   \* how far the clock moves between two packets
    PlayOffsets,  \* play-at times the sender may send, relative to now
    ClockOrigin,  \* the OBS clock when the stream starts
    ClockEnd      \* bound: no packet arrives after this time

ASSUME RetimerAssumption ==
    /\ LateNs \in Nat /\ StartupNs \in Nat /\ JitterNs \in Nat
    /\ MaxLeadNs \in Nat /\ StartLeadNs \in Nat
    /\ SlewDivisor \in Nat \ {0}
    /\ Durations \subseteq Nat \ {0}
    /\ ClockSteps \subseteq Nat
    /\ PlayOffsets \subseteq Int
    /\ ClockOrigin \in Nat \ {0}
    /\ ClockEnd \in Nat

VARIABLES
    now,       \* os_gettime_ns() at the last packet
    started,   \* m_started
    origin,    \* m_stream_start
    next,      \* m_next; 0 until the timeline has its first packet
    offset,    \* m_offset
    anchored,  \* m_anchored
    resynced,  \* m_resyncs > 0
    result     \* what process() returned for the last packet, with its inputs

rvars == <<started, origin, next, offset, anchored, resynced>>
vars == <<now, rvars, result>>

-----------------------------------------------------------------------------
(* The helpers of the class. *)

Late(timestamp, t) == timestamp + LateNs < t

Distance(a, b) == IF a > b THEN a - b ELSE b - a

Shifted(timestamp) == timestamp + offset

(* Mutants: only one direction is limited. *)
SlewUpLimited(difference, duration) ==
    IF difference > duration \div SlewDivisor THEN duration \div SlewDivisor ELSE difference

SlewDownLimited(difference, duration) ==
    IF difference < -(duration \div SlewDivisor) THEN -(duration \div SlewDivisor) ELSE difference

SlewBy(difference, duration) ==
    LET limit == duration \div SlewDivisor
    IN  IF difference > limit THEN limit
        ELSE IF difference < -limit THEN -limit ELSE difference

NoResult == [kind |-> "none", timestamp |-> 0, lead |-> 0, gap |-> 0, overlap |-> 0]

(* The outcome of a packet output at ts, when `now` is t and the timeline  *)
(* ended at `end` (0: there was none).  gap and overlap say how it joins   *)
(* the packet before it.                                                   *)
Output(kind, ts, t, end) ==
    [kind |-> kind, timestamp |-> ts, lead |-> ts - t,
     gap     |-> IF end = 0 \/ ts < end THEN 0 ELSE ts - end,
     overlap |-> IF end = 0 \/ ts > end THEN 0 ELSE end - ts]

Dropped(kind) == [NoResult EXCEPT !.kind = kind]

-----------------------------------------------------------------------------
(* Mutant: the stream starts at the play-at time as it is. *)
StartAsSent(ts, duration, t, resync) ==
    /\ offset' = 0
    /\ resynced' = (resynced \/ resync)
    /\ anchored' = (resynced \/ resync)
    /\ next' = ts + duration
    /\ result' = Output(IF resync THEN "restart" ELSE "start", ts, t, next)

(* start(): the timeline begins at this packet, at least StartLeadNs ahead. *)
Start(ts, duration, t, resync) ==
    LET out == IF ts < t + StartLeadNs THEN t + StartLeadNs ELSE ts
    IN  /\ offset' = out - ts
        /\ resynced' = (resynced \/ resync)
        /\ anchored' = (resynced \/ resync)
        /\ next' = out + duration
        /\ result' = Output(IF resync THEN "restart" ELSE "start", out, t, next)

DropBacklog ==
    /\ result' = Dropped("backlog")
    /\ UNCHANGED <<next, offset, anchored, resynced>>

(* process() when the timeline has no packet yet (m_next == 0). *)
FirstPacket(ts, duration, t, in_startup) ==
    IF Late(ts, t) /\ in_startup
    THEN DropBacklog
    ELSE Start(ts, duration, t, Late(ts, t))

(* The last part of process(): a timeline that is to be kept is trimmed    *)
(* when it runs ahead, otherwise the packet is output at `out`.            *)
Finish(kind, out, off, anch, ts, duration, t) ==
    /\ anchored' = anch
    /\ UNCHANGED resynced
    /\ IF anch /\ out > t + MaxLeadNs
       THEN /\ offset' = next - ts - duration
            /\ result' = Dropped("trim")
            /\ UNCHANGED next
       ELSE /\ offset' = off
            /\ next' = out + duration
            /\ result' = Output(kind, out, t, next)

(* process() on a running timeline. *)
LaterPacket(ts, duration, t, in_startup) ==
    LET expected    == Shifted(ts)
        on_timeline == Distance(expected, next) <= JitterNs
        slewed      == next + SlewBy(expected - next, duration)
        on_time     == IF on_timeline THEN ~Late(slewed, t) ELSE ~Late(ts, t)
        behind      == t - (IF on_timeline THEN slewed ELSE ts)
    IN  IF on_time
        THEN IF on_timeline
             THEN Finish("slew", slewed, offset, anchored, ts, duration, t)
             ELSE Finish("follow", ts, 0, FALSE, ts, duration, t)
        ELSE IF ~Late(next, t)
        THEN Finish("hold", next, next - ts, TRUE, ts, duration, t)
        ELSE IF in_startup /\ behind > JitterNs
        THEN DropBacklog
        ELSE Start(ts, duration, t, TRUE)

(* process(): one packet arrives, `step` after the last one. *)
Process(step, play, duration) ==
    LET t  == now + step
        ts == t + play
        begun == IF started THEN origin ELSE t
        in_startup == t - begun < StartupNs
    IN  /\ t <= ClockEnd
        /\ ts > 0
        /\ now' = t
        /\ started' = TRUE
        /\ origin' = begun
        /\ IF next = 0 THEN FirstPacket(ts, duration, t, in_startup)
                       ELSE LaterPacket(ts, duration, t, in_startup)

(* reset(): a new stream (SETUP, flush, reconnect). *)
Reset ==
    /\ started
    /\ started' = FALSE /\ origin' = 0 /\ next' = 0 /\ offset' = 0
    /\ anchored' = FALSE /\ resynced' = FALSE
    /\ result' = NoResult
    /\ UNCHANGED now

Init ==
    /\ now = ClockOrigin
    /\ started = FALSE /\ origin = 0 /\ next = 0 /\ offset = 0
    /\ anchored = FALSE /\ resynced = FALSE
    /\ result = NoResult

Packet == \E step \in ClockSteps, play \in PlayOffsets, duration \in Durations :
              Process(step, play, duration)

Next == Packet \/ Reset

Spec == Init /\ [][Next]_vars

-----------------------------------------------------------------------------
Outputs == {"start", "restart", "slew", "follow", "hold"}

TypeOK ==
    /\ now \in Nat /\ origin \in Nat /\ next \in Int /\ offset \in Int
    /\ started \in BOOLEAN /\ anchored \in BOOLEAN
    /\ resynced \in BOOLEAN
    /\ result \in [kind : Outputs \cup {"none", "backlog", "trim"},
                   timestamp : Int, lead : Int, gap : Int, overlap : Int]

(* The most one packet is moved to follow the sender's clock. *)
SlewLimit(duration) == duration \div SlewDivisor

WithinSlew(distance) == \E d \in Durations : distance <= SlewLimit(d)

(* No packet reaches OBS late: whatever the sender's play-at times do      *)
(* (steps, bursts, stalls), a packet that is output is at most LateNs      *)
(* behind the OBS clock.  This is what the class is for.                   *)
NeverLate == result.kind \in Outputs => result.lead >= -LateNs

(* Audio goes back over samples already output only to follow a play-at    *)
(* time that is itself on time; any other packet, a restart included,      *)
(* overlaps the one before it by at most one slew step.                    *)
OverlapOnlyToFollow ==
    result.kind \in Outputs \ {"follow"} => WithinSlew(result.overlap)

(* A packet is dropped to keep the delay down only when OBS already has    *)
(* audio for the whole lead, so trimming never makes a gap.                *)
TrimOnlyWhenCovered ==
    result.kind = "trim" => WithinSlew(now + MaxLeadNs - next)

(* Apart from following the sender, the re-timer leaves a gap in the audio *)
(* only when the timeline had already run out: while it is still on time   *)
(* the next packet joins it.                                               *)
GapOnlyAfterStall ==
    [][result'.kind \in Outputs \ {"follow"} /\ ~WithinSlew(result'.gap)
           => Late(next, now')]_vars
=============================================================================
