-------------------------- MODULE MirrorTimingProofs --------------------------
(***************************************************************************)
(* Where mirrored media is placed in time, for every value of the          *)
(* constants and every sender: first the re-timer of the sound, then the   *)
(* clock that sound and pictures share.                                    *)
(*                                                                         *)
(* The re-timer: its types, that nothing it outputs is late, that it goes  *)
(* back only to follow the sender, that trimming never makes a gap, and    *)
(* that a gap is only made when the timeline had run out.                  *)
(***************************************************************************)
EXTENDS AudioRetimer, StreamClock, TLAPS


(* The slew of a packet is at most its limit, in either direction. *)
LEMMA SlewByBound ==
    ASSUME NEW difference \in Int, NEW duration \in Durations
    PROVE  /\ SlewLimit(duration) \in Nat
           /\ SlewBy(difference, duration) \in Int
           /\ SlewBy(difference, duration) <= SlewLimit(duration)
           /\ -SlewLimit(duration) <= SlewBy(difference, duration)
<1>1. duration \in Nat
  BY RetimerAssumption
<1>2. SlewLimit(duration) \in Nat
  BY <1>1, RetimerAssumption DEF SlewLimit
<1>3. SlewBy(difference, duration) =
        IF difference > SlewLimit(duration) THEN SlewLimit(duration)
        ELSE IF difference < -SlewLimit(duration) THEN -SlewLimit(duration)
        ELSE difference
  BY DEF SlewBy, SlewLimit
<1> QED
  BY <1>2, <1>3

(* One packet: what process() leaves behind, in a state of the right type. *)
(* Every theorem below takes its conjunct from here.                       *)
PacketEffect(duration) ==
    /\ TypeOK'
    /\ NeverLate'
    /\ result'.kind \in Outputs \ {"follow"} =>
           result'.overlap <= SlewLimit(duration)
    /\ result'.kind = "trim" => now' + MaxLeadNs - next' <= SlewLimit(duration)
    /\ result'.kind \in Outputs \ {"follow"} /\ ~(result'.gap <= SlewLimit(duration))
           => Late(next, now')

(* The shape of a packet that is output, for a timeline ending at `end`. *)
LEMMA OutputFields ==
    ASSUME NEW kind, NEW ts \in Int, NEW t \in Int, NEW end \in Int
    PROVE  LET o == Output(kind, ts, t, end)
           IN  /\ o \in [kind : {kind}, timestamp : Int, lead : Int,
                         gap : Int, overlap : Int]
               /\ o.kind = kind /\ o.lead = ts - t
               /\ end = 0 => o.gap = 0 /\ o.overlap = 0
               /\ end # 0 => /\ o.gap = IF ts < end THEN 0 ELSE ts - end
                             /\ o.overlap = IF ts > end THEN 0 ELSE end - ts
BY DEF Output

(* start(): on time, and after the end of a timeline that had run out. *)
LEMMA StartEffect ==
    ASSUME TypeOK, NEW ts \in Int, NEW duration \in Durations,
           NEW t \in Nat, now' = t, started' \in BOOLEAN, origin' \in Nat,
           NEW resync \in BOOLEAN,
           Start(ts, duration, t, resync),
           next = 0 \/ Late(next, t)
    PROVE  PacketEffect(duration)
<1> DEFINE out == IF ts < t + StartLeadNs THEN t + StartLeadNs ELSE ts
           kind == IF resync THEN "restart" ELSE "start"
<1>1. duration \in Nat /\ LateNs \in Nat /\ StartLeadNs \in Nat /\ next \in Int
  BY RetimerAssumption DEF TypeOK
<1>2. out \in Int /\ out >= t + StartLeadNs
  BY <1>1
<1>3. SlewLimit(duration) \in Nat
  BY SlewByBound, 0 \in Int
<1>4. /\ offset' = out - ts /\ next' = out + duration
      /\ anchored' = (resynced \/ resync) /\ resynced' = (resynced \/ resync)
      /\ result' = Output(kind, out, t, next)
  BY DEF Start
<1> HIDE DEF out
<1>5. /\ result' \in [kind : {kind}, timestamp : Int, lead : Int,
                      gap : Int, overlap : Int]
      /\ result'.kind = kind /\ result'.lead = out - t
      /\ next = 0 => result'.gap = 0 /\ result'.overlap = 0
      /\ next # 0 => result'.overlap = IF out > next THEN 0 ELSE next - out
  BY <1>1, <1>2, <1>4, OutputFields
<1>6. kind \in {"start", "restart"}
  OBVIOUS
<1> HIDE DEF kind
<1>7. TypeOK'
  BY <1>1, <1>2, <1>4, <1>5, <1>6 DEF TypeOK, Outputs
<1>8. NeverLate'
  BY <1>1, <1>2, <1>5 DEF NeverLate
<1>9. result'.overlap <= SlewLimit(duration)
  BY <1>1, <1>2, <1>3, <1>5 DEF Late
<1>10. result'.kind # "trim"
  BY <1>5, <1>6
<1>11. next = 0 => result'.gap <= SlewLimit(duration)
  BY <1>3, <1>5
<1> QED
  BY <1>7, <1>8, <1>9, <1>10, <1>11 DEF PacketEffect

(* Dropping a packet of the startup backlog. *)
LEMMA BacklogEffect ==
    ASSUME TypeOK, NEW duration \in Durations,
           NEW t \in Nat, now' = t, started' \in BOOLEAN, origin' \in Nat,
           DropBacklog
    PROVE  PacketEffect(duration)
BY DEF PacketEffect, DropBacklog, Dropped, NoResult, TypeOK, NeverLate, Outputs

(* The last part of process(): `out` is on time and joins the timeline, or *)
(* is a play-at time that is followed.                                     *)
LEMMA FinishEffect ==
    ASSUME TypeOK, NEW ts \in Int, NEW duration \in Durations,
           NEW t \in Nat, now' = t, started' \in BOOLEAN, origin' \in Nat,
           NEW kind \in {"slew", "follow", "hold"},
           NEW out \in Int, NEW off \in Int, NEW anch \in BOOLEAN,
           ~Late(out, t),
           kind = "follow" => ~anch,
           kind # "follow" => /\ out <= next + SlewLimit(duration)
                              /\ next <= out + SlewLimit(duration),
           Finish(kind, out, off, anch, ts, duration, t)
    PROVE  PacketEffect(duration)
<1>1. duration \in Nat /\ LateNs \in Nat /\ MaxLeadNs \in Nat /\ next \in Int
  BY RetimerAssumption DEF TypeOK
<1>2. SlewLimit(duration) \in Nat
  BY SlewByBound, 0 \in Int
<1>3. CASE anch /\ out > t + MaxLeadNs
  <2>1. /\ result' = Dropped("trim") /\ next' = next /\ anchored' = anch
        /\ offset' = next - ts - duration /\ resynced' = resynced
    BY <1>3 DEF Finish
  <2>2. result'.kind = "trim"
    BY <2>1 DEF Dropped, NoResult
  <2>3. TypeOK'
    BY <1>1, <2>1 DEF TypeOK, Dropped, NoResult, Outputs
  <2>4. now' + MaxLeadNs - next' <= SlewLimit(duration)
    BY <1>1, <1>2, <1>3, <2>1
  <2> QED
    BY <2>2, <2>3, <2>4 DEF PacketEffect, NeverLate, Outputs
<1>4. CASE ~(anch /\ out > t + MaxLeadNs)
  <2>1. /\ result' = Output(kind, out, t, next) /\ next' = out + duration
        /\ offset' = off /\ anchored' = anch /\ resynced' = resynced
    BY <1>4 DEF Finish
  <2>2. /\ result' \in [kind : {kind}, timestamp : Int, lead : Int,
                        gap : Int, overlap : Int]
        /\ result'.kind = kind /\ result'.lead = out - t
        /\ next = 0 => result'.gap = 0 /\ result'.overlap = 0
        /\ next # 0 => /\ result'.gap = IF out < next THEN 0 ELSE out - next
                       /\ result'.overlap = IF out > next THEN 0 ELSE next - out
    BY <1>1, <2>1, OutputFields
  <2>3. TypeOK'
    BY <1>1, <2>1, <2>2 DEF TypeOK, Outputs
  <2>4. NeverLate'
    BY <1>1, <2>2 DEF NeverLate, Late
  <2>5. result'.kind \in Outputs \ {"follow"} =>
            /\ result'.overlap <= SlewLimit(duration)
            /\ result'.gap <= SlewLimit(duration)
    BY <1>1, <1>2, <2>2
  <2> QED
    BY <2>2, <2>3, <2>4, <2>5 DEF PacketEffect
<1> QED
  BY <1>3, <1>4

(* process() on a running timeline: one case per way a packet can go. *)
LEMMA LaterPacketEffect ==
    ASSUME TypeOK, NEW ts \in Int, NEW duration \in Durations,
           NEW t \in Nat, now' = t, started' \in BOOLEAN, origin' \in Nat,
           NEW in_startup \in BOOLEAN,
           LaterPacket(ts, duration, t, in_startup)
    PROVE  PacketEffect(duration)
<1> DEFINE expected    == Shifted(ts)
           slew        == SlewBy(expected - next, duration)
           slewed      == next + slew
           on_timeline == Distance(expected, next) <= JitterNs
           on_time     == IF on_timeline THEN ~Late(slewed, t) ELSE ~Late(ts, t)
           behind      == t - (IF on_timeline THEN slewed ELSE ts)
<1>1. next \in Int /\ offset \in Int /\ anchored \in BOOLEAN
  BY DEF TypeOK
<1>2. expected - next \in Int
  BY <1>1 DEF Shifted
<1>3. SlewLimit(duration) \in Nat /\ slew \in Int
  BY <1>2, SlewByBound
<1>4. slewed <= next + SlewLimit(duration) /\ next <= slewed + SlewLimit(duration)
  <2>1. slew <= SlewLimit(duration) /\ -SlewLimit(duration) <= slew
    BY <1>2, SlewByBound
  <2> QED
    BY <1>1, <1>3, <2>1
<1>5. slewed \in Int
  BY <1>1, <1>3
<1>6. CASE on_time /\ on_timeline
  <2>1. Finish("slew", slewed, offset, anchored, ts, duration, t)
    BY <1>6 DEF LaterPacket
  <2>2. ~Late(slewed, t)
    BY <1>6
  <2> HIDE DEF slewed
  <2> QED
    BY <1>1, <1>4, <1>5, <2>1, <2>2, FinishEffect
<1>7. CASE on_time /\ ~on_timeline
  <2>1. Finish("follow", ts, 0, FALSE, ts, duration, t)
    BY <1>7 DEF LaterPacket
  <2> DEFINE anch == FALSE
  <2>2. /\ ~Late(ts, t) /\ anch \in BOOLEAN /\ ~anch
        /\ Finish("follow", ts, 0, anch, ts, duration, t)
    BY <1>7, <2>1
  <2> HIDE DEF anch
  <2> QED
    BY <2>2, FinishEffect
<1>8. CASE ~on_time /\ ~Late(next, t)
  <2>1. Finish("hold", next, next - ts, TRUE, ts, duration, t)
    BY <1>8 DEF LaterPacket
  <2>2. next - ts \in Int /\ next <= next + SlewLimit(duration)
    BY <1>1, <1>3
  <2>3. ~Late(next, t) /\ next \in Int
    BY <1>1, <1>8
  <2> DEFINE off == next - ts
             out == next
             anch == TRUE
  <2>4. /\ anch \in BOOLEAN /\ off \in Int /\ out \in Int /\ ~Late(out, t)
        /\ out <= next + SlewLimit(duration) /\ next <= out + SlewLimit(duration)
        /\ Finish("hold", out, off, anch, ts, duration, t)
    BY <2>1, <2>2, <2>3
  <2> HIDE DEF off, out, anch
  <2> QED
    BY <2>4, FinishEffect
<1>9. CASE ~on_time /\ Late(next, t) /\ in_startup /\ behind > JitterNs
  <2>1. DropBacklog
    BY <1>9 DEF LaterPacket
  <2> QED
    BY <2>1, BacklogEffect
<1>10. CASE ~on_time /\ Late(next, t) /\ ~(in_startup /\ behind > JitterNs)
  <2>1. Start(ts, duration, t, TRUE)
    BY <1>10 DEF LaterPacket
  <2> QED
    BY <1>10, <2>1, StartEffect
<1> QED
  BY <1>6, <1>7, <1>8, <1>9, <1>10

(* process(): every packet, whatever its arrival and play-at time. *)
LEMMA ProcessEffect ==
    ASSUME TypeOK, NEW step \in ClockSteps, NEW play \in PlayOffsets,
           NEW duration \in Durations, Process(step, play, duration)
    PROVE  PacketEffect(duration)
<1> DEFINE t          == now + step
           ts         == t + play
           begun      == IF started THEN origin ELSE t
           in_startup == t - begun < StartupNs
<1>1. t \in Nat /\ ts \in Int /\ begun \in Nat /\ in_startup \in BOOLEAN
  BY RetimerAssumption DEF TypeOK
<1>2. now' = t /\ started' \in BOOLEAN /\ origin' \in Nat
  BY <1>1 DEF Process
<1>3. IF next = 0 THEN FirstPacket(ts, duration, t, in_startup)
                  ELSE LaterPacket(ts, duration, t, in_startup)
  BY DEF Process
<1> HIDE DEF t, ts, begun, in_startup
<1>4. CASE next = 0 /\ Late(ts, t) /\ in_startup
  BY <1>1, <1>2, <1>3, <1>4, BacklogEffect DEF FirstPacket
<1>5. CASE next = 0 /\ ~(Late(ts, t) /\ in_startup)
  <2>1. Start(ts, duration, t, Late(ts, t)) /\ Late(ts, t) \in BOOLEAN
    BY <1>3, <1>5 DEF FirstPacket, Late
  <2> QED
    BY <1>1, <1>2, <1>5, <2>1, StartEffect
<1>6. CASE next # 0
  BY <1>1, <1>2, <1>3, <1>6, LaterPacketEffect
<1> QED
  BY <1>4, <1>5, <1>6

(* The invariants, and the action property, of one step. *)
Safe == TypeOK /\ NeverLate /\ OverlapOnlyToFollow /\ TrimOnlyWhenCovered

GapStep ==
    result'.kind \in Outputs \ {"follow"} /\ ~WithinSlew(result'.gap)
        => Late(next, now')

LEMMA NoResultType ==
    NoResult \in [kind : Outputs \cup {"none", "backlog", "trim"},
                  timestamp : Int, lead : Int, gap : Int, overlap : Int]
<1>1. "none" \in Outputs \cup {"none", "backlog", "trim"}
  OBVIOUS
<1> QED
  BY <1>1 DEF NoResult

LEMMA NoResultSafe ==
    ASSUME result = NoResult
    PROVE  NeverLate /\ OverlapOnlyToFollow /\ TrimOnlyWhenCovered
<1>1. result.kind = "none"
  BY DEF NoResult
<1> QED
  BY <1>1 DEF NeverLate, OverlapOnlyToFollow, TrimOnlyWhenCovered, Outputs

LEMMA InitSafe == Init => Safe
<1> SUFFICES ASSUME Init PROVE Safe
  OBVIOUS
<1>1. TypeOK
  <2>1. now \in Nat /\ origin \in Nat /\ next \in Int /\ offset \in Int
    BY RetimerAssumption DEF Init
  <2>2. started \in BOOLEAN /\ anchored \in BOOLEAN /\ resynced \in BOOLEAN
    BY DEF Init
  <2> QED
    BY <2>1, <2>2, NoResultType DEF Init, TypeOK
<1> QED
  BY <1>1, NoResultSafe DEF Init, Safe

LEMMA StepSafe == TypeOK /\ [Next]_vars => (Safe => Safe') /\ [GapStep]_vars
<1> SUFFICES ASSUME TypeOK, [Next]_vars
             PROVE  (Safe => Safe') /\ [GapStep]_vars
  OBVIOUS
<1>1. ASSUME NEW step \in ClockSteps, NEW play \in PlayOffsets,
             NEW duration \in Durations, Process(step, play, duration)
      PROVE  Safe' /\ GapStep
  <2>1. PacketEffect(duration)
    BY <1>1, ProcessEffect
  <2> QED
    BY <2>1 DEF PacketEffect, Safe, OverlapOnlyToFollow, TrimOnlyWhenCovered,
       WithinSlew, GapStep
<1>2. CASE Reset
  <2>1. TypeOK'
    <3>1. now' \in Nat /\ origin' \in Nat /\ next' \in Int /\ offset' \in Int
      BY <1>2 DEF Reset, TypeOK
    <3>2. started' \in BOOLEAN /\ anchored' \in BOOLEAN /\ resynced' \in BOOLEAN
      BY <1>2 DEF Reset
    <3> QED
      BY <1>2, <3>1, <3>2, NoResultType DEF Reset, TypeOK
  <2>2. result'.kind = "none"
    BY <1>2 DEF Reset, NoResult
  <2> QED
    BY <2>1, <2>2 DEF Safe, NeverLate, OverlapOnlyToFollow, TrimOnlyWhenCovered,
       GapStep, Outputs
<1>3. CASE UNCHANGED vars
  BY <1>3 DEF vars, rvars, Safe, TypeOK, NeverLate, OverlapOnlyToFollow,
     TrimOnlyWhenCovered, WithinSlew, SlewLimit, Outputs
<1> QED
  BY <1>1, <1>2, <1>3 DEF Next, Packet

LEMMA SafeInvariant == Spec => []Safe
<1>1. Safe /\ [Next]_vars => Safe'
  BY StepSafe DEF Safe
<1> QED
  BY InitSafe, <1>1, PTL DEF Spec

(* The state of the re-timer is always well typed. *)
THEOREM TypeCorrect == Spec => []TypeOK
<1>1. Safe => TypeOK
  BY DEF Safe
<1> QED
  BY SafeInvariant, <1>1, PTL

(* No packet reaches OBS late, for every sender and every set of limits. *)
THEOREM NoLateAudio == Spec => []NeverLate
<1>1. Safe => NeverLate
  BY DEF Safe
<1> QED
  BY SafeInvariant, <1>1, PTL

(* Only following the sender plays over samples already output.            *)
THEOREM TimelineHolds == Spec => []OverlapOnlyToFollow
<1>1. Safe => OverlapOnlyToFollow
  BY DEF Safe
<1> QED
  BY SafeInvariant, <1>1, PTL

(* A packet is trimmed only where OBS already has the audio of its whole   *)
(* lead.                                                                   *)
THEOREM TrimIsCovered == Spec => []TrimOnlyWhenCovered
<1>1. Safe => TrimOnlyWhenCovered
  BY DEF Safe
<1> QED
  BY SafeInvariant, <1>1, PTL

(* A gap that is not the sender's is made only after the timeline ran out. *)
THEOREM GapsAreStalls == Spec => GapOnlyAfterStall
<1>1. TypeOK /\ [Next]_vars => [GapStep]_vars
  BY StepSafe
<1>2. [GapStep]_vars => [result'.kind \in Outputs \ {"follow"}
                           /\ ~WithinSlew(result'.gap) => Late(next, now')]_vars
  BY DEF GapStep
<1> QED
  BY TypeCorrect, <1>1, <1>2, PTL DEF Spec, GapOnlyAfterStall

-----------------------------------------------------------------------------
(***************************************************************************)
(* The shared clock, for every limit, set of lags and sender clocks.  Two  *)
(* facts make InStep hold: a call keeps the relation its packet had to the *)
(* clock when it was looked at, whatever has happened since, and so does   *)
(* the anchor.  The difference of two such relations of one sender run is  *)
(* a difference of lags.                                                   *)
(***************************************************************************)

Times == LoadTime..FinalTime

(* A timestamp that was taken at time t, when the sender's clock was ahead *)
(* by s.                                                                   *)
Taken(timestamp, t, s) == \E lag \in Lags : timestamp = t + s - lag

CallsTaken ==
    \A c \in Callers :
        caller[c] # NoCall => /\ caller[c].now \in Times
                              /\ caller[c].skew \in Skews
                              /\ Taken(caller[c].timestamp, caller[c].now, caller[c].skew)

AnchorTaken ==
    initialized => obs \in Times /\ anchor_skew \in Skews /\ Taken(source, obs, anchor_skew)

ClockInv == ClockTypeOK /\ NearNow /\ CallsTaken /\ AnchorTaken

(* Packets of one run of the sender are never far from the anchor.         *)
LEMMA SameRunIsNear ==
  ASSUME ClockInv, NEW c \in Callers, caller[c] # NoCall, initialized,
         caller[c].skew = anchor_skew
  PROVE  Normalized(caller[c]) \in 0..LastTime /\ Near(Normalized(caller[c]), caller[c].now)
  <1> DEFINE t == caller[c].now
  <1>1. PICK a \in Lags : source = obs + anchor_skew - a
      BY DEF ClockInv, AnchorTaken, Taken
  <1>2. PICK b \in Lags : caller[c].timestamp = t + anchor_skew - b
      BY DEF ClockInv, CallsTaken, Taken
  <1>3. t \in Times /\ obs \in Int /\ anchor_skew \in Int /\ a \in Int /\ b \in Int
        /\ t \in Int /\ caller[c].timestamp \in Int /\ source \in Int
      BY ClockAssumption DEF ClockInv, CallsTaken, AnchorTaken, ClockTypeOK, Times
  <1>4. a - b <= MaxDelta /\ b - a <= MaxDelta
      BY ClockAssumption
  <1>5. Normalized(caller[c]) = t + (a - b)
      BY <1>1, <1>2, <1>3 DEF Normalized
  <1> QED BY <1>3, <1>4, <1>5, ClockAssumption DEF Near, Times

LEMMA ClockInitHolds == ClockInit => ClockInv
  <1> SUFFICES ASSUME ClockInit PROVE ClockInv
      OBVIOUS
  <1>1. caller \in [Callers -> [timestamp : 0..LastTime, now : 0..FinalTime,
                                skew : Skews \cup {0}]]
      BY ClockAssumption DEF ClockInit, NoCall
  <1>2. answer \in [time : 0..LastTime, now : 0..FinalTime]
      BY ClockAssumption DEF ClockInit, NoAnswer
  <1>3. ClockTypeOK
    <2>1. clock \in LoadTime..FinalTime /\ 0 \in 0..LastTime
        BY ClockAssumption DEF ClockInit
    <2> QED BY <1>1, <1>2, <2>1 DEF ClockInit, ClockTypeOK
  <1>4. NearNow
      BY ClockAssumption DEF ClockInit, NearNow, NoAnswer
  <1>5. CallsTaken /\ AnchorTaken
      BY DEF ClockInit, CallsTaken, AnchorTaken
  <1> QED BY <1>3, <1>4, <1>5 DEF ClockInv

LEMMA ReadHolds ==
  ASSUME ClockInv, NEW c \in Callers, NEW lag \in Lags, Read(c, lag)
  PROVE  ClockInv'
  <1> USE ClockAssumption
  <1>0. clock \in 0..FinalTime /\ clock \in Times /\ skew \in Skews
      BY DEF ClockInv, ClockTypeOK, Times
  <1>1. CASE clock + skew - lag = 0
    <2>1. answer' = [time |-> clock, now |-> clock] /\ UNCHANGED <<caller, clock, skew, anchor>>
        BY <1>1 DEF Read
    <2>2. ClockTypeOK'
        BY <1>0, <2>1 DEF ClockInv, ClockTypeOK, anchor
    <2>3. NearNow'
        BY <1>0, <2>1 DEF NearNow
    <2>4. CallsTaken' /\ AnchorTaken'
        BY <2>1 DEF ClockInv, CallsTaken, AnchorTaken, Taken, anchor
    <2> QED BY <2>2, <2>3, <2>4 DEF ClockInv
  <1>2. CASE clock + skew - lag # 0
    <2> DEFINE call == [timestamp |-> clock + skew - lag, now |-> clock, skew |-> skew]
    <2>1. caller' = [caller EXCEPT ![c] = call] /\ UNCHANGED <<answer, clock, skew, anchor>>
          /\ clock + skew - lag \in 0..LastTime
        BY <1>2 DEF Read
    <2>2. ClockTypeOK'
        BY <1>0, <2>1 DEF ClockInv, ClockTypeOK, anchor
    <2>3. NearNow' /\ AnchorTaken'
        BY <2>1 DEF ClockInv, NearNow, AnchorTaken, Taken, anchor
    <2>4. CallsTaken'
      <3>1. Taken(call.timestamp, call.now, call.skew) /\ call.now \in Times
            /\ call.skew \in Skews
          BY <1>0 DEF Taken
      <3> SUFFICES ASSUME NEW d \in Callers, caller'[d] # NoCall
                   PROVE  /\ caller'[d].now \in Times /\ caller'[d].skew \in Skews
                          /\ Taken(caller'[d].timestamp, caller'[d].now, caller'[d].skew)
          BY DEF CallsTaken, Times, Taken
      <3>2. caller'[d] = call \/ caller'[d] = caller[d]
          BY <2>1 DEF ClockInv, ClockTypeOK
      <3> QED BY <3>1, <3>2 DEF ClockInv, CallsTaken
    <2> QED BY <2>2, <2>3, <2>4 DEF ClockInv
  <1> QED BY <1>1, <1>2

LEMMA NormalizeHolds ==
  ASSUME ClockInv, NEW c \in Callers, Normalize(c)
  PROVE  ClockInv'
  <1> USE ClockAssumption
  <1>1. caller[c] # NoCall /\ caller' = [caller EXCEPT ![c] = NoCall] /\ UNCHANGED <<clock, skew>>
      BY DEF Normalize
  <1>2. /\ caller[c].now \in Times /\ caller[c].now \in 0..FinalTime
        /\ caller[c].skew \in Skews /\ caller[c].timestamp \in 0..LastTime
        /\ Taken(caller[c].timestamp, caller[c].now, caller[c].skew)
      BY <1>1 DEF ClockInv, ClockTypeOK, CallsTaken
  <1>3. caller' \in [Callers -> [timestamp : 0..LastTime, now : 0..FinalTime,
                                 skew : Skews \cup {0}]]
      BY <1>1 DEF ClockInv, ClockTypeOK, NoCall
  <1>4. CallsTaken'
    <2> SUFFICES ASSUME NEW d \in Callers, caller'[d] # NoCall
                 PROVE  /\ caller'[d].now \in Times /\ caller'[d].skew \in Skews
                        /\ Taken(caller'[d].timestamp, caller'[d].now, caller'[d].skew)
        BY DEF CallsTaken, Times, Taken
    <2>1. caller'[d] = caller[d]
        BY <1>1 DEF ClockInv, ClockTypeOK
    <2> QED BY <2>1 DEF ClockInv, CallsTaken
  <1>5. CASE ResetAnchor(caller[c])
    <2>1. /\ initialized' = TRUE /\ source' = caller[c].timestamp /\ obs' = caller[c].now
          /\ anchor_skew' = caller[c].skew
          /\ answer' = [time |-> caller[c].now, now |-> caller[c].now]
        BY <1>5 DEF ResetAnchor
    <2>2. ClockTypeOK'
        BY <1>1, <1>2, <1>3, <2>1 DEF ClockInv, ClockTypeOK, Times
    <2>3. NearNow'
        BY <1>2, <2>1 DEF NearNow
    <2>4. AnchorTaken'
        BY <1>2, <2>1 DEF AnchorTaken, Taken, Times
    <2> QED BY <1>4, <2>2, <2>3, <2>4 DEF ClockInv
  <1>6. CASE /\ Normalized(caller[c]) \in 0..LastTime
             /\ Near(Normalized(caller[c]), caller[c].now)
             /\ answer' = [time |-> Normalized(caller[c]), now |-> caller[c].now]
             /\ UNCHANGED anchor
    <2>1. ClockTypeOK'
        BY <1>1, <1>2, <1>3, <1>6 DEF ClockInv, ClockTypeOK, anchor
    <2>2. NearNow'
        BY <1>2, <1>6 DEF NearNow, Near
    <2>3. AnchorTaken'
        BY <1>6 DEF ClockInv, AnchorTaken, Taken, anchor
    <2> QED BY <1>4, <2>1, <2>2, <2>3 DEF ClockInv
  <1> QED BY <1>5, <1>6 DEF Normalize

LEMMA ResetHolds ==
  ASSUME ClockInv, ResetStreamClock \/ Tick \/ Restart \/ UNCHANGED clockVars
  PROVE  ClockInv'
  <1>1. CASE ResetStreamClock
    <2>1. 0 \in 0..LastTime
        BY ClockAssumption
    <2>2. ClockTypeOK'
        BY <1>1, <2>1 DEF ResetStreamClock, ClockInv, ClockTypeOK
    <2>3. NearNow' /\ CallsTaken' /\ AnchorTaken'
        BY <1>1 DEF ResetStreamClock, ClockInv, NearNow, CallsTaken, AnchorTaken, Taken
    <2> QED BY <2>2, <2>3 DEF ClockInv
  <1>2. CASE Tick
    <2>1. clock' \in LoadTime..FinalTime
        BY <1>2, ClockAssumption DEF Tick, ClockInv, ClockTypeOK
    <2>2. ClockTypeOK'
        BY <1>2, <2>1 DEF Tick, anchor, ClockInv, ClockTypeOK
    <2>3. NearNow' /\ CallsTaken' /\ AnchorTaken'
        BY <1>2 DEF Tick, anchor, ClockInv, NearNow, CallsTaken, AnchorTaken, Taken
    <2> QED BY <2>2, <2>3 DEF ClockInv
  <1>3. CASE Restart
    <2>1. ClockTypeOK'
        BY <1>3 DEF Restart, anchor, ClockInv, ClockTypeOK
    <2>2. NearNow' /\ CallsTaken' /\ AnchorTaken'
        BY <1>3 DEF Restart, anchor, ClockInv, NearNow, CallsTaken, AnchorTaken, Taken
    <2> QED BY <2>1, <2>2 DEF ClockInv
  <1>4. CASE UNCHANGED clockVars
      BY <1>4 DEF clockVars, anchor, ClockInv, ClockTypeOK, NearNow, CallsTaken, AnchorTaken, Taken
  <1> QED BY <1>1, <1>2, <1>3, <1>4

THEOREM ClockInvariance == ClockSpec => []ClockInv
  <1>1. ClockInv /\ [ClockNext]_clockVars => ClockInv'
    <2> SUFFICES ASSUME ClockInv, [ClockNext]_clockVars PROVE ClockInv'
        OBVIOUS
    <2>1. CASE \E c \in Callers : (\E lag \in Lags : Read(c, lag)) \/ Normalize(c)
        BY <2>1, ReadHolds, NormalizeHolds
    <2>2. CASE ResetStreamClock \/ Tick \/ Restart \/ UNCHANGED clockVars
        BY <2>2, ResetHolds
    <2> QED BY <2>1, <2>2 DEF ClockNext
  <1> QED BY ClockInitHolds, <1>1, PTL DEF ClockSpec

(* The shared clock's state is well typed: no answer has wrapped.          *)
THEOREM ClockTypeCorrect == ClockSpec => []ClockTypeOK
  BY ClockInvariance, PTL DEF ClockInv

(* No media is placed further from clock than kMaximumClockDeltaNs.          *)
THEOREM MediaIsNear == ClockSpec => []NearNow
  BY ClockInvariance, PTL DEF ClockInv

(* The anchor moves only for a packet of another run of the sender, or by  *)
(* a reset: audio and video keep one offset.                               *)
THEOREM StreamsKeepStep == ClockSpec => InStep
  <1> DEFINE Moved == initialized /\ initialized' /\ <<source, obs>>' # <<source, obs>>
             Excused == \E c \in Callers : caller[c] # caller'[c] /\ caller[c].skew # anchor_skew
  <1>1. ASSUME ClockInv, ClockNext, Moved PROVE Excused
    <2>1. PICK c \in Callers : Normalize(c)
        BY <1>1 DEF ClockNext, Read, ResetStreamClock, Tick, Restart, anchor
    <2>2. caller[c] # NoCall /\ caller'[c] = NoCall
        BY <1>1, <2>1 DEF Normalize, ClockInv, ClockTypeOK
    <2>3. ~(Normalized(caller[c]) \in 0..LastTime /\ Near(Normalized(caller[c]), caller[c].now))
        BY <1>1, <2>1 DEF Normalize, anchor
    <2>4. caller[c].skew # anchor_skew
        BY <1>1, <2>2, <2>3, SameRunIsNear
    <2> QED BY <2>2, <2>4
  <1>2. ClockInv /\ [ClockNext]_clockVars => [Moved => Excused]_clockVars
      BY <1>1
  <1>3. [][Moved => Excused]_clockVars <=> InStep
      BY DEF InStep
  <1> QED BY ClockInvariance, <1>2, <1>3, PTL DEF ClockSpec
=============================================================================
