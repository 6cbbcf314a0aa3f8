---------------------------- MODULE MediaPlayerProofs ----------------------------
(***************************************************************************)
(* Theorems about module MediaPlayer: for every set of items, duration and *)
(* queue length, the player keeps what PlayerPromise promises.  Pictures   *)
(* that are still fresh come in the order they were read; the first one    *)
(* that passes the target of a seek puts all that follow past it, and past *)
(* the position that was reported meanwhile.                               *)
(***************************************************************************)
EXTENDS MediaPlayer, SequenceTheorems, TLAPS

USE PlayerAssumption

(* The types, thread by thread.                                            *)
CallPcs == {"idle", "lock", "join", "start"}
WorkerPcs == {"none", "open", "loop", "seek", "read", "picture", "decoded", "software", "sound",
              "due", "end", "idle", "hold", "mark", "quit", "exit"}
PresenterPcs == {"none", "wait", "taken", "late", "due", "show", "gone"}

Calls == [pc : CallPcs, item : Items \cup {NoItem}, start : Positions \cup {0}, rate : {0, 1}]
Infos == [rate : {0, 1}, position : Positions, ready : BOOLEAN, ended : BOOLEAN,
          known : BOOLEAN, clock : BOOLEAN]
Seeks == [pending : BOOLEAN, target : Positions, last : Positions \cup {-1},
          burst : BOOLEAN, coarse : BOOLEAN, again : BOOLEAN, preview : BOOLEAN,
          resync : BOOLEAN, video : Positions \cup {-1}, audio : Positions \cup {-1}]
Workers == [pc : WorkerPcs, item : Items \cup {NoItem}, to : Positions, next : 0..LastPacket]
Progress == [recoveries : 0..MaxRecoveries, at : Positions \cup {-1}, asked : BOOLEAN,
             until : 0..Duration, current : BOOLEAN, since : BOOLEAN]
Queued == [item : Items, at : 0..Duration, fresh : BOOLEAN]
Presenters == [pc : PresenterPcs,
               picture : [item : Items \cup {NoItem}, at : 0..Duration, fresh : BOOLEAN]]
Decoders == [hardware : BOOLEAN, errors : 0..MaxHardwareErrors, reopen : BOOLEAN]

CallsTyped == /\ control \in Callers \cup {"free"} /\ call \in [Callers -> Calls]
              /\ location \in Items \cup {NoItem} /\ commands \in [Callers -> Nat]
StateTyped == /\ stop_requested \in BOOLEAN /\ info \in Infos /\ seek \in Seeks
WorkerTyped == /\ worker \in Workers /\ reads \in Progress
               /\ worker.pc # "none" => worker.item \in Items
               /\ worker.pc = "picture" => worker.next > 0
QueueTyped == queue \in Seq(Queued) /\ Len(queue) <= QueueFrames
PresenterTyped == presenter \in Presenters

(* Hardware that has reached the limit of errors is about to be replaced.  *)
Limited(d) == d \in Decoders /\ (d.hardware /\ ~d.reopen => d.errors < MaxHardwareErrors)
DecoderTyped == Limited(decoder)

Typed == CallsTyped /\ StateTyped /\ WorkerTyped /\ QueueTyped /\ PresenterTyped /\ DecoderTyped

(* Who holds the control lock, and what it waits for.                      *)
Serialised ==
    \A c \in Callers :
        /\ call[c].pc \in {"join", "start"} <=> control = c
        /\ call[c].pc \in {"join", "start"} => stop_requested
        /\ call[c].pc = "start" => worker.pc = "none" /\ call[c].item # NoItem

(* The presenter lives from the opening of an item to its end, and by then *)
(* has nothing left to show.                                               *)
Closed == {"none", "open", "exit"}
Ending == {"hold", "mark", "quit"}
Resting == queue = <<>> /\ presenter.pc \in {"none", "wait", "gone"}

Lives ==
    /\ worker.pc \in Closed <=> presenter.pc = "none"
    /\ worker.pc \in Closed => queue = <<>>
    /\ worker.pc \in Ending => PresenterIdle \/ stop_requested
    /\ worker.pc # "none" => location # NoItem
    /\ info.ended => worker.pc \in {"none", "exit", "quit"} /\ Resting /\ location # NoItem

(* The pictures on their way are of the item, and those that are fresh are *)
(* in the order in which they were read.                                   *)
Holding == {"taken", "late", "due", "show"}
Held == presenter.pc \in Holding
ReadBefore == IF worker.pc = "picture" THEN worker.next - 1 ELSE worker.next

Pictures ==
    /\ \A i \in DOMAIN queue : queue[i].item = worker.item
    /\ Held => presenter.picture.item = worker.item
    /\ worker.pc = "seek" => /\ \A i \in DOMAIN queue : ~queue[i].fresh
                             /\ Held => ~presenter.picture.fresh
    /\ worker.pc # "seek" => /\ \A i \in DOMAIN queue : 2 * queue[i].at < ReadBefore
                             /\ \A i, j \in DOMAIN queue : i < j => queue[i].at <= queue[j].at
    /\ Held /\ presenter.picture.fresh
           => /\ 2 * presenter.picture.at < ReadBefore
              /\ \A i \in DOMAIN queue : presenter.picture.at <= queue[i].at

(* Nothing that is still fresh is before this second.                      *)
AllFrom(second) ==
    \/ second = 0
    \/ /\ 2 * second < worker.next
       /\ \A i \in DOMAIN queue : queue[i].fresh => second <= queue[i].at
       /\ Held /\ presenter.picture.fresh => second <= presenter.picture.at

Reading == {"open", "loop", "seek", "read", "picture", "decoded", "software", "sound", "due",
            "end", "idle", "hold"}

(* Until a picture has passed the target, the reported position is not     *)
(* past the target; from then on no picture is before either of them.      *)
Aimed ==
    /\ seek.video \in {seek.target, -1} /\ (seek.pending => seek.video = seek.target)
    /\ presenter.pc = "due" /\ ~Stale => seek.video = -1
    /\ worker.pc \in {"open", "seek"} => seek.video = seek.target \/ seek.target = 0
    /\ worker.pc \in Reading =>
           /\ seek.video = seek.target \/ worker.pc \in {"open", "seek"}
                  => info.position <= seek.target
           /\ seek.video = -1 /\ worker.pc \notin {"open", "seek"}
                  => AllFrom(seek.target) /\ AllFrom(info.position)

Inv == Typed /\ Serialised /\ Lives /\ Pictures /\ Aimed

-----------------------------------------------------------------------------
(* Packets and seconds, positions, and what a sequence gives.              *)
LEMMA PositionsTyped ==
    /\ Positions \subseteq Nat /\ 0..Duration \subseteq Positions /\ Targets \subseteq Positions
    /\ 0 \in Positions /\ Duration \in Positions /\ Duration \in Int
    /\ \A p \in Positions : p \in Nat /\ p \in Int
<1> QED BY DEF Positions

LEMMA SmallerLarger ==
    \A a, b \in Int : /\ Smaller(a, b) \in {a, b} /\ Smaller(a, b) <= a /\ Smaller(a, b) <= b
                      /\ Larger(a, b) \in {a, b} /\ Larger(a, b) >= a /\ Larger(a, b) >= b
<1> QED BY DEF Smaller, Larger

LEMMA SecondOf ==
    ASSUME NEW packet \in Nat
    PROVE  /\ Second(packet) \in Nat
           /\ 2 * Second(packet) <= packet /\ packet < 2 * Second(packet) + 2
<1> QED BY DEF Second

LEMMA FirstPacketsTyped ==
    ASSUME NEW second \in Nat, NEW packet \in FirstPackets(second)
    PROVE  packet \in 0..LastPacket /\ packet <= 2 * second
<1>1. PICK s \in 0..Smaller(second, Duration) : packet = 2 * s
      BY DEF FirstPackets
<1>2. Smaller(second, Duration) \in Nat /\ Smaller(second, Duration) <= second
      /\ Smaller(second, Duration) <= Duration
      BY SmallerLarger
<1> QED BY <1>1, <1>2 DEF LastPacket

LEMMA TakenFrom ==
    ASSUME NEW S, NEW q \in Seq(S), q # <<>>
    PROVE  /\ Head(q) \in S /\ Head(q) = q[1] /\ 1 \in DOMAIN q
           /\ Tail(q) \in Seq(S) /\ Len(Tail(q)) = Len(q) - 1
           /\ \A i \in DOMAIN Tail(q) : i \in Nat /\ i + 1 \in DOMAIN q /\ Tail(q)[i] = q[i + 1]
<1> QED OBVIOUS

LEMMA AddedTo ==
    ASSUME NEW S, NEW q \in Seq(S), NEW e \in S
    PROVE  /\ Append(q, e) \in Seq(S) /\ Len(Append(q, e)) = Len(q) + 1
           /\ \A i \in DOMAIN Append(q, e) :
                  \/ i \in DOMAIN q /\ Append(q, e)[i] = q[i]
                  \/ i = Len(q) + 1 /\ Append(q, e)[i] = e
<1>1. Append(q, e) \in Seq(S) /\ Len(Append(q, e)) = Len(q) + 1
      OBVIOUS
<1>2. ASSUME NEW i \in 1..(Len(q) + 1)
      PROVE  \/ i \in 1..Len(q) /\ Append(q, e)[i] = q[i]
             \/ i = Len(q) + 1 /\ Append(q, e)[i] = e
      OBVIOUS
<1> QED BY <1>1, <1>2

-----------------------------------------------------------------------------
(* Types.                                                                  *)
LEMMA TypeParts == Typed => TypeOK
<1> QED BY DEF Typed, TypeOK, CallsTyped, StateTyped, WorkerTyped, QueueTyped, PresenterTyped,
           DecoderTyped, CallPcs, WorkerPcs, PresenterPcs, Calls, Infos, Seeks, Workers, Progress,
           Queued, Presenters, Decoders, Limited

LEMMA InfosTyped ==
    ASSUME NEW start \in Positions, NEW rate \in {0, 1}
    PROVE  /\ InitialInfo(start, rate) \in Infos
           /\ OpenFailed(InitialInfo(start, rate)) \in Infos
           /\ InitialSeek(start) \in Seeks
<1> QED BY PositionsTyped DEF InitialInfo, InitialSeek, OpenFailed, Infos, Seeks

LEMMA ReseekTyped ==
    ASSUME seek \in Seeks, NEW position \in Positions
    PROVE  ReseekTo(position) \in Seeks
<1> QED BY PositionsTyped DEF ReseekTo, Seeks

LEMMA CallsStep == Inv /\ Commands => CallsTyped'
<1> SUFFICES ASSUME Inv, Commands PROVE CallsTyped'
    OBVIOUS
<1> USE DEF Inv, Typed, CallsTyped, Calls, CallPcs, Command, Enter, Callers
<1>1. ASSUME NEW item \in Items, NEW start \in Targets, Play(item, start) PROVE CallsTyped'
      BY <1>1, PositionsTyped DEF Play
<1>2. ASSUME NEW c \in Callers, Stop(c) PROVE CallsTyped'
      BY <1>2, PositionsTyped DEF Stop
<1>3. ASSUME NEW asked \in Targets, Seek(asked) PROVE CallsTyped'
      <2>1. Clamped(asked) \in Positions
            BY PositionsTyped, SmallerLarger DEF Clamped
      <2> QED BY <1>3, <2>1, PositionsTyped DEF Seek, Reopens
<1>4. ASSUME NEW rate \in {0, 1}, SetRate(rate) PROVE CallsTyped'
      BY <1>4 DEF SetRate
<1>5. CASE PauseForPlaylistRemoval
      BY <1>5 DEF PauseForPlaylistRemoval
<1> QED BY <1>1, <1>2, <1>3, <1>4, <1>5 DEF Commands

LEMMA StateStepCommands == Inv /\ Commands => StateTyped'
<1> SUFFICES ASSUME Inv, Commands PROVE StateTyped'
    OBVIOUS
<1> USE DEF Inv, Typed, StateTyped
<1>1. ASSUME NEW item \in Items, NEW start \in Targets, Play(item, start) PROVE StateTyped'
      BY <1>1 DEF Play
<1>2. ASSUME NEW c \in Callers, Stop(c) PROVE StateTyped'
      BY <1>2 DEF Stop
<1>3. ASSUME NEW asked \in Targets, Seek(asked) PROVE StateTyped'
      <2>1. Clamped(asked) \in Positions
            BY PositionsTyped, SmallerLarger DEF Clamped, Infos
      <2>2. CASE SeekLocked(Clamped(asked))
            <3>1. PICK burst \in BOOLEAN :
                    seek' = [pending |-> TRUE, target |-> Clamped(asked),
                             last |-> Clamped(asked), burst |-> burst, coarse |-> FALSE,
                             again |-> TRUE, preview |-> TRUE, resync |-> FALSE,
                             video |-> Clamped(asked), audio |-> Clamped(asked)]
                  BY <2>2 DEF SeekLocked
            <3>2. seek' \in Seeks
                  BY <2>1, <3>1 DEF Seeks
            <3>3. info' \in Infos
                  BY <2>1, <2>2 DEF SeekLocked, Infos
            <3> QED BY <1>3, <3>2, <3>3 DEF Seek
      <2>3. CASE UNCHANGED <<info, seek>>
            BY <1>3, <2>3 DEF Seek
      <2> QED BY <1>3, <2>2, <2>3 DEF Seek
<1>4. ASSUME NEW rate \in {0, 1}, SetRate(rate) PROVE StateTyped'
      <2>1. info.position \in Positions
            BY DEF Infos
      <2>2. ReseekTo(info.position) \in Seeks
            BY <2>1, ReseekTyped
      <2>3. info' \in Infos
            BY <1>4 DEF SetRate, Infos
      <2>4. seek' \in Seeks
            <3>1. \/ seek' = seek
                  \/ \E s \in Seeks : seek' = [s EXCEPT !.preview = FALSE, !.resync = FALSE]
                  BY <1>4, <2>2 DEF SetRate
            <3> QED BY <3>1 DEF Seeks
      <2> QED BY <1>4, <2>3, <2>4 DEF SetRate
<1>5. CASE PauseForPlaylistRemoval
      BY <1>5 DEF PauseForPlaylistRemoval, Infos
<1> QED BY <1>1, <1>2, <1>3, <1>4, <1>5 DEF Commands

LEMMA TypedCommands == Inv /\ Commands => Typed'
<1> SUFFICES ASSUME Inv, Commands PROVE Typed'
    OBVIOUS
<1>1. UNCHANGED <<worker, queue, presenter, decoder>>
      BY DEF Commands, Play, Stop, Seek, SetRate, PauseForPlaylistRemoval
<1>2. reads' \in Progress
      BY DEF Commands, Play, Stop, Seek, SeekLocked, SetRate, PauseForPlaylistRemoval, Inv, Typed,
         WorkerTyped, Progress
<1>3. WorkerTyped' /\ QueueTyped' /\ PresenterTyped' /\ DecoderTyped'
      BY <1>1, <1>2 DEF Inv, Typed, WorkerTyped, QueueTyped, PresenterTyped, DecoderTyped
<1> QED BY <1>3, CallsStep, StateStepCommands DEF Typed

LEMMA TypedControl == Inv /\ Control => Typed'
<1> SUFFICES ASSUME Inv, NEW c \in Callers, Lock(c) \/ Join(c) \/ Start(c) PROVE Typed'
    BY DEF Control
<1>1. UNCHANGED <<queue, presenter, decoder, commands>>
      BY DEF Lock, Join, Start
<1>2. QueueTyped' /\ PresenterTyped' /\ DecoderTyped'
      BY <1>1 DEF Inv, Typed, QueueTyped, PresenterTyped, DecoderTyped
<1> USE DEF Inv, Typed
<1>3. CASE Lock(c)
      <2>1. CallsTyped'
            BY <1>3 DEF Lock, CallsTyped, Calls, CallPcs
      <2>2. StateTyped' /\ WorkerTyped'
            BY <1>3 DEF Lock, StateTyped, WorkerTyped
      <2> QED BY <1>2, <2>1, <2>2
<1>4. CASE Join(c)
      <2>1. CallsTyped'
            BY <1>4, PositionsTyped DEF Join, CallsTyped, Calls, CallPcs, IdleCall
      <2>2. StateTyped'
            BY <1>4 DEF Join, StateTyped, Infos
      <2>3. WorkerTyped'
            BY <1>4, PositionsTyped DEF Join, NoWorker, WorkerTyped, Workers, WorkerPcs, LastPacket
      <2> QED BY <1>2, <2>1, <2>2, <2>3
<1>5. CASE Start(c)
      <2>1. call[c] \in Calls /\ call[c].item \in Items /\ call[c].start \in Positions
            /\ call[c].rate \in {0, 1}
            BY <1>5, PositionsTyped DEF Start, Serialised, CallsTyped, Calls
      <2>2. CallsTyped'
            BY <1>5, <2>1, PositionsTyped DEF Start, CallsTyped, Calls, CallPcs, IdleCall
      <2>3. StateTyped'
            BY <1>5, <2>1, InfosTyped DEF Start, StateTyped
      <2>4. reads' \in Progress
            BY <1>5 DEF Start, InitialReads, Progress
      <2>5. ASSUME worker' = [pc |-> "open", item |-> call[c].item, to |-> call[c].start,
                              next |-> 0]
            PROVE  WorkerTyped'
            BY <2>1, <2>4, <2>5 DEF WorkerTyped, Workers, WorkerPcs, LastPacket
      <2>6. ASSUME UNCHANGED worker PROVE WorkerTyped'
            BY <2>4, <2>6 DEF WorkerTyped
      <2> QED BY <1>2, <1>5, <2>2, <2>3, <2>5, <2>6 DEF Start
<1> QED BY <1>3, <1>4, <1>5

(* The worker's steps, group by group.                                     *)
LEMMA WorkerAt ==
    ASSUME Inv, NEW pc \in WorkerPcs, At(pc), pc \notin {"none", "picture"}, worker.pc # "none",
           reads' \in Progress
    PROVE  WorkerTyped'
<1> QED BY DEF Inv, Typed, WorkerTyped, Workers, At

LEMMA HardwareErrorTyped == \A d : Limited(d) => Limited(HardwareError(d))
<1> SUFFICES ASSUME NEW d, Limited(d) PROVE Limited(HardwareError(d))
    OBVIOUS
<1>1. CASE ~d.hardware \/ d.reopen
      BY <1>1 DEF HardwareError
<1>2. CASE d.hardware /\ ~d.reopen
      <2> DEFINE enough == d.errors + 1 >= MaxHardwareErrors
                 e == [hardware |-> TRUE, errors |-> d.errors + 1, reopen |-> enough]
      <2>1. HardwareError(d) = [d EXCEPT !.errors = d.errors + 1, !.reopen = enough]
            BY <1>2 DEF HardwareError
      <2>2. d.errors + 1 \in 0..MaxHardwareErrors /\ d.hardware = TRUE /\ d \in Decoders
            BY <1>2 DEF Limited, Decoders
      <2>3. enough \in BOOLEAN
            OBVIOUS
      <2> HIDE DEF enough
      <2>4. HardwareError(d) = e
            BY <2>1, <2>2, <2>3 DEF Decoders
      <2>5. e \in Decoders
            BY <2>2, <2>3 DEF Decoders
      <2>6. ~enough => d.errors + 1 < MaxHardwareErrors
            BY <2>2 DEF enough
      <2> QED BY <2>4, <2>5, <2>6 DEF Limited
<1> QED BY <1>1, <1>2

LEMMA SameCalls == Inv /\ UNCHANGED <<control, call, location, commands>> => CallsTyped'
<1> QED BY DEF Inv, Typed, CallsTyped

LEMMA TypedOpen == Inv /\ Open => Typed'
<1> SUFFICES ASSUME Inv, Open PROVE Typed'
    OBVIOUS
<1> USE DEF Inv, Typed
<1>1. CallsTyped' /\ QueueTyped'
      BY SameCalls DEF Open, QueueTyped
<1>2. reads' \in Progress /\ worker.pc = "open"
      BY DEF Open, WorkerTyped
<1>3. CASE At("exit") /\ UNCHANGED <<presenter, decoder>> /\ info' \in {info, OpenFailed(info)}
      <2>1. StateTyped'
            BY <1>3 DEF Open, StateTyped, Infos, OpenFailed
      <2>2. WorkerTyped'
            BY <1>2, <1>3, WorkerAt DEF WorkerPcs
      <2>3. PresenterTyped' /\ DecoderTyped'
            BY <1>3 DEF PresenterTyped, DecoderTyped
      <2> QED BY <1>1, <2>1, <2>2, <2>3
<1>4. ASSUME NEW known \in BOOLEAN, NEW first \in FirstPackets(worker.to),
             NEW device \in {Hardware, FALSE},
             info' = [info EXCEPT !.position = IF known THEN Smaller(@, Duration) ELSE @,
                                  !.known = known, !.ready = TRUE],
             worker' = [worker EXCEPT !.pc = "loop", !.next = first],
             presenter' = [pc |-> "wait", picture |-> NoPicture],
             decoder' = [hardware |-> device, errors |-> 0, reopen |-> FALSE]
      PROVE  Typed'
      <2>0. info.position \in Positions
            BY DEF StateTyped, Infos
      <2>1. info.position \in Positions /\ info.position \in Int /\ Duration \in Int
            BY <2>0, PositionsTyped
      <2>2. Smaller(info.position, Duration) \in Positions
            BY <2>1, PositionsTyped, SmallerLarger
      <2>3. StateTyped'
            BY <1>4, <2>1, <2>2 DEF Open, StateTyped, Infos
      <2>4. worker.to \in Nat
            BY PositionsTyped DEF WorkerTyped, Workers
      <2>5. first \in 0..LastPacket
            BY <2>4, FirstPacketsTyped
      <2>6. WorkerTyped'
            BY <1>2, <1>4, <2>5 DEF WorkerTyped, Workers, WorkerPcs
      <2>7. PresenterTyped'
            BY <1>4 DEF PresenterTyped, Presenters, PresenterPcs, NoPicture, Picture
      <2>8. DecoderTyped'
            <3>1. device \in BOOLEAN
                  OBVIOUS
            <3>2. decoder' \in Decoders /\ decoder'.errors < MaxHardwareErrors
                  BY <1>4, <3>1 DEF Decoders
            <3> QED BY <3>2 DEF DecoderTyped, Limited
      <2> QED BY <1>1, <2>3, <2>6, <2>7, <2>8
<1> QED BY <1>3, <1>4 DEF Open

(* The steps of the worker that leave the queue and the presenter alone.   *)
LEMMA TypedReading ==
    Inv /\ (Loop \/ Read \/ Decoded \/ CheckSound \/ SkipSound \/ ClockForSound \/ PresentSound)
        => Typed'
<1> SUFFICES ASSUME Inv,
                    Loop \/ Read \/ Decoded \/ CheckSound \/ SkipSound \/ ClockForSound
                        \/ PresentSound
             PROVE  Typed'
    OBVIOUS
<1> USE DEF Inv, Typed
<1>1. UNCHANGED <<control, call, location, commands, stop_requested, queue, presenter, decoder>>
      BY DEF Loop, Read, Decoded, CheckSound, SkipSound, ClockForSound, PresentSound, StartClock
<1>2. CallsTyped' /\ QueueTyped' /\ PresenterTyped' /\ DecoderTyped'
      BY <1>1, SameCalls DEF QueueTyped, PresenterTyped, DecoderTyped
<1>3. CASE Loop
      BY <1>2, <1>3, WorkerAt DEF Loop, StateTyped, WorkerTyped, WorkerPcs
<1>4. CASE Read
      <2>1. StateTyped'
            BY <1>4 DEF Read, StateTyped
      <2>2. CASE At("end") /\ UNCHANGED reads
            BY <1>2, <1>4, <2>1, <2>2, WorkerAt DEF Read, WorkerTyped, WorkerPcs
      <2>3. CASE /\ worker.pc = "read" /\ worker.next < LastPacket
                 /\ reads' = [reads EXCEPT
                        !.until = IF reads.current THEN Larger(@, Second(worker.next) + 1)
                                  ELSE Second(worker.next) + 1,
                        !.current = TRUE, !.since = TRUE]
                 /\ worker' = [worker EXCEPT !.next = @ + 1,
                                   !.pc = IF IsPicture(worker.next) THEN "picture" ELSE "sound"]
            <3> DEFINE until == IF reads.current THEN Larger(reads.until, Second(worker.next) + 1)
                                ELSE Second(worker.next) + 1
            <3>1. worker.next \in 0..LastPacket /\ worker.next \in Nat /\ reads.until \in 0..Duration
                  BY DEF WorkerTyped, Workers, Progress, LastPacket
            <3>2. Second(worker.next) + 1 \in 0..Duration
                  BY <2>3, <3>1, SecondOf DEF LastPacket
            <3>3. until \in 0..Duration
                  BY <3>1, <3>2, SmallerLarger
            <3>0. reads' = [reads EXCEPT !.until = until, !.current = TRUE, !.since = TRUE]
                  BY <2>3
            <3> HIDE DEF until
            <3>4. reads' \in Progress
                  BY <3>0, <3>3 DEF WorkerTyped, Progress
            <3>5. worker.next + 1 \in 0..LastPacket /\ worker.next + 1 > 0
                  BY <2>3, <3>1 DEF LastPacket
            <3>6. WorkerTyped'
                  BY <2>3, <3>4, <3>5 DEF WorkerTyped, Workers, WorkerPcs
            <3> QED BY <1>2, <2>1, <3>6
      <2> QED BY <1>4, <2>2, <2>3 DEF Read
<1>5. CASE Decoded
      BY <1>2, <1>5, WorkerAt DEF Decoded, StateTyped, WorkerTyped, WorkerPcs
<1>6. CASE CheckSound
      <2>1. StateTyped'
            BY <1>6 DEF CheckSound, StateTyped, Seeks
      <2>2. WorkerTyped'
            BY <1>6, WorkerAt DEF CheckSound, WorkerTyped, WorkerPcs
      <2> QED BY <1>2, <2>1, <2>2
<1>7. CASE SkipSound
      BY <1>2, <1>7, WorkerAt DEF SkipSound, StateTyped, WorkerTyped, WorkerPcs
<1>8. CASE ClockForSound
      BY <1>2, <1>8 DEF ClockForSound, StartClock, StateTyped, WorkerTyped, Infos
<1>9. CASE PresentSound
      BY <1>2, <1>9, WorkerAt DEF PresentSound, StateTyped, WorkerTyped, WorkerPcs
<1> QED BY <1>3, <1>4, <1>5, <1>6, <1>7, <1>8, <1>9

(* The steps of the worker that touch the queue, the presenter or the      *)
(* decoder.                                                                *)
LEMMA TypedTakeSeek == Inv /\ TakeSeek => Typed'
<1> SUFFICES ASSUME Inv, TakeSeek PROVE Typed'
    OBVIOUS
<1> USE DEF Inv, Typed, TakeSeek
<1>1. CallsTyped' /\ DecoderTyped'
      BY SameCalls DEF DecoderTyped
<1>2. StateTyped'
      BY DEF StateTyped, Infos, Seeks
<1>3. seek.target \in Positions
      BY DEF StateTyped, Seeks
<1>4. WorkerTyped'
      BY <1>3 DEF WorkerTyped, Workers, WorkerPcs
<1>5. \A i \in DOMAIN queue : queue[i] \in Queued
      BY DEF QueueTyped
<1>6. \A i \in DOMAIN queue : Aged(queue[i]) \in Queued
      BY <1>5 DEF Queued, Aged
<1>7. queue' \in Seq(Queued) /\ Len(queue') = Len(queue)
      BY <1>6 DEF QueueTyped
<1>8. QueueTyped'
      BY <1>7 DEF QueueTyped
<1>9. PresenterTyped'
      BY DEF PresenterTyped, Presenters, Aged
<1> QED BY <1>1, <1>2, <1>4, <1>8, <1>9

LEMMA NothingQueued == <<>> \in Seq(Queued) /\ Len(<<>>) <= QueueFrames
<1> QED OBVIOUS

LEMMA TypedReposition == Inv /\ Reposition => Typed'
<1> SUFFICES ASSUME Inv, Reposition PROVE Typed'
    OBVIOUS
<1> USE DEF Inv, Typed, Reposition
<1>1. CallsTyped' /\ DecoderTyped' /\ StateTyped' /\ PresenterTyped'
      BY SameCalls DEF DecoderTyped, StateTyped, PresenterTyped
<1>2. queue' = <<>>
      OBVIOUS
<1>3. QueueTyped'
      BY <1>2, NothingQueued DEF QueueTyped
<1>4. reads' \in Progress
      BY DEF WorkerTyped, Progress
<1>5. worker.to \in Nat
      BY PositionsTyped DEF WorkerTyped, Workers
<1>6. \A first \in FirstPackets(worker.to) : first \in 0..LastPacket
      BY <1>5, FirstPacketsTyped
<1>7. WorkerTyped'
      BY <1>4, <1>6 DEF WorkerTyped, Workers, WorkerPcs, At
<1> QED BY <1>1, <1>3, <1>7

LEMMA PacketAtTyped ==
    ASSUME WorkerTyped, worker.pc = "picture"
    PROVE  PacketAt \in 0..Duration
<1>1. worker.next \in 0..LastPacket /\ worker.next > 0
      BY DEF WorkerTyped, Workers
<1>2. worker.next - 1 \in Nat /\ worker.next - 1 < 2 * Duration
      BY <1>1 DEF LastPacket
<1>3. Second(worker.next - 1) \in Nat /\ 2 * Second(worker.next - 1) <= worker.next - 1
      BY <1>2, SecondOf
<1> QED BY <1>2, <1>3 DEF PacketAt

LEMMA TypedQueuePicture == Inv /\ QueuePicture => Typed'
<1> SUFFICES ASSUME Inv, QueuePicture PROVE Typed'
    OBVIOUS
<1> USE DEF Inv, Typed
<1>1. CallsTyped' /\ StateTyped' /\ PresenterTyped'
      BY SameCalls DEF QueuePicture, StateTyped, PresenterTyped
<1>2. WorkerTyped'
      BY WorkerAt DEF QueuePicture, WorkerTyped, WorkerPcs
<1>3. DecoderTyped'
      BY HardwareErrorTyped DEF QueuePicture, DecoderTyped
<1>4. QueueTyped'
      <2>1. CASE UNCHANGED queue
            BY <2>1 DEF QueueTyped
      <2>2. CASE Room /\ queue' = Append(queue, Picture(worker.item, PacketAt))
            <3>1. Picture(worker.item, PacketAt) \in Queued
                  BY PacketAtTyped DEF QueuePicture, WorkerTyped, Queued, Picture
            <3>2. queue' \in Seq(Queued) /\ Len(queue') = Len(queue) + 1
                  BY <2>2, <3>1, AddedTo DEF QueueTyped
            <3> QED BY <2>2, <3>2 DEF QueueTyped, Room
      <2> QED BY <2>1, <2>2 DEF QueuePicture
<1> QED BY <1>1, <1>2, <1>3, <1>4

LEMMA TypedContinueInSoftware == Inv /\ ContinueInSoftware => Typed'
<1> SUFFICES ASSUME Inv, ContinueInSoftware PROVE Typed'
    OBVIOUS
<1> USE DEF Inv, Typed
<1>1. CallsTyped' /\ QueueTyped' /\ PresenterTyped'
      BY SameCalls DEF ContinueInSoftware, QueueTyped, PresenterTyped
<1>2. WorkerTyped'
      BY WorkerAt DEF ContinueInSoftware, WorkerTyped, WorkerPcs
<1>3. DecoderTyped'
      BY DEF ContinueInSoftware, DecoderTyped, Limited, Decoders
<1>4. ReseekTo(info.position) \in Seeks
      BY ReseekTyped DEF StateTyped, Infos
<1>5. StateTyped'
      BY <1>4 DEF ContinueInSoftware, StateTyped, Infos
<1> QED BY <1>1, <1>2, <1>3, <1>5

LEMMA TypedReadOnAfterEnd == Inv /\ ReadOnAfterEnd => Typed'
<1> SUFFICES ASSUME Inv, ReadOnAfterEnd PROVE Typed'
    OBVIOUS
<1> USE DEF Inv, Typed
<1>1. CallsTyped' /\ QueueTyped' /\ PresenterTyped' /\ DecoderTyped'
      BY SameCalls DEF ReadOnAfterEnd, QueueTyped, PresenterTyped, DecoderTyped
<1> DEFINE recoveries ==
        IF info.position > reads.at \/ reads.asked THEN 0 ELSE reads.recoveries
<1>2. recoveries \in 0..MaxRecoveries
      BY DEF WorkerTyped, Progress
<1>3. ReseekTo(info.position) \in Seeks /\ info.position \in Positions
      BY ReseekTyped DEF StateTyped, Infos
<1>4. CASE /\ UNCHANGED <<info, seek, stop_requested>>
           /\ \/ At("quit") /\ UNCHANGED reads
              \/ /\ At("loop")
                 /\ reads' = [reads EXCEPT !.recoveries = recoveries, !.asked = FALSE,
                                           !.since = FALSE]
              \/ /\ At("idle")
                 /\ reads' = [reads EXCEPT !.recoveries = recoveries, !.asked = FALSE]
      <2>1. StateTyped'
            BY <1>4 DEF StateTyped
      <2>2. reads' \in Progress
            BY <1>2, <1>4 DEF WorkerTyped, Progress
      <2>3. WorkerTyped'
            BY <1>4, <2>2, WorkerAt DEF ReadOnAfterEnd, WorkerPcs
      <2> QED BY <1>1, <2>1, <2>3
<1>5. CASE /\ recoveries < MaxRecoveries /\ seek' = ReseekTo(info.position)
           /\ info' = [info EXCEPT !.clock = FALSE] /\ UNCHANGED stop_requested
           /\ reads' = [Counted(reads, recoveries) EXCEPT !.at = info.position, !.since = FALSE]
           /\ At("loop")
      <2>1. StateTyped'
            BY <1>3, <1>5 DEF StateTyped, Infos
      <2>2. reads' \in Progress
            <3> DEFINE r == Counted(reads, recoveries)
            <3>1. recoveries + 1 \in 0..MaxRecoveries
                  BY <1>2, <1>5
            <3>2. r \in Progress
                  BY <3>1 DEF WorkerTyped, Progress, Counted
            <3>3. reads' = [r EXCEPT !.at = info.position, !.since = FALSE]
                  BY <1>5
            <3> HIDE DEF r
            <3> QED BY <1>3, <3>2, <3>3 DEF Progress
      <2>3. WorkerTyped'
            BY <1>5, <2>2, WorkerAt DEF ReadOnAfterEnd, WorkerPcs
      <2> QED BY <1>1, <2>1, <2>3
<1> QED BY <1>4, <1>5 DEF ReadOnAfterEnd

LEMMA TypedEnding ==
    Inv /\ (WaitForPresenterIdle \/ HoldUntilEnd \/ MarkEnded \/ Quit) => Typed'
<1> SUFFICES ASSUME Inv, WaitForPresenterIdle \/ HoldUntilEnd \/ MarkEnded \/ Quit
             PROVE  Typed'
    OBVIOUS
<1> USE DEF Inv, Typed
<1>1. CASE WaitForPresenterIdle
      BY <1>1, WorkerAt, SameCalls DEF WaitForPresenterIdle, QueueTyped, PresenterTyped,
         DecoderTyped, StateTyped, WorkerTyped, WorkerPcs
<1>2. CASE HoldUntilEnd
      <2>1. CallsTyped' /\ QueueTyped' /\ PresenterTyped' /\ DecoderTyped'
            BY <1>2, SameCalls DEF HoldUntilEnd, QueueTyped, PresenterTyped, DecoderTyped
      <2>2. reads' \in Progress
            BY <1>2 DEF HoldUntilEnd, WorkerTyped, Progress
      <2>3. WorkerTyped'
            BY <1>2, <2>2, WorkerAt DEF HoldUntilEnd, WorkerPcs
      <2>4. CASE UNCHANGED info
            BY <1>2, <2>1, <2>3, <2>4 DEF HoldUntilEnd, StateTyped
      <2>5. CASE info.position < HeldUntil /\ info' = [info EXCEPT !.position = HeldUntil]
            <3>1. HeldUntil \in Positions
                  <4>1. CASE info.known
                        BY <4>1, PositionsTyped DEF HeldUntil
                  <4>2. CASE ~info.known
                        <5>1. info.position \in Nat
                              BY PositionsTyped DEF StateTyped, Infos
                        <5> QED BY <2>5, <4>2, <5>1 DEF HeldUntil
                  <4> QED BY <4>1, <4>2
            <3> QED BY <1>2, <2>1, <2>3, <2>5, <3>1 DEF HoldUntilEnd, StateTyped, Infos
      <2> QED BY <1>2, <2>4, <2>5 DEF HoldUntilEnd
<1>3. CASE MarkEnded
      BY <1>3, WorkerAt, SameCalls DEF MarkEnded, QueueTyped, PresenterTyped,
         DecoderTyped, StateTyped, Infos, WorkerTyped, WorkerPcs
<1>4. CASE Quit
      <2>1. CallsTyped' /\ DecoderTyped' /\ StateTyped'
            BY <1>4, SameCalls DEF Quit, DecoderTyped, StateTyped
      <2>2. QueueTyped' /\ PresenterTyped'
            BY <1>4 DEF Quit, QueueTyped, PresenterTyped, Presenters, PresenterPcs
      <2>3. WorkerTyped'
            BY <1>4, WorkerAt DEF Quit, WorkerTyped, WorkerPcs
      <2> QED BY <2>1, <2>2, <2>3
<1> QED BY <1>1, <1>2, <1>3, <1>4

LEMMA TypedWorker == Inv /\ Worker => Typed'
<1> QED BY TypedOpen, TypedReading, TypedTakeSeek, TypedReposition, TypedQueuePicture,
           TypedContinueInSoftware, TypedReadOnAfterEnd, TypedEnding DEF Worker

(* The presenter's steps.                                                  *)
LEMMA ReleaseTyped == Release => PresenterTyped'
<1>1. [pc |-> "wait", picture |-> NoPicture] \in Presenters
      BY DEF Presenters, PresenterPcs, NoPicture, Picture
<1> QED BY <1>1 DEF Release, PresenterTyped

LEMMA HandOnTyped ==
    ASSUME Inv, NEW pc \in PresenterPcs, NEW d, Limited(d), HandOn(pc, d)
    PROVE  PresenterTyped' /\ DecoderTyped'
<1>1. PresenterTyped'
      <2>1. CASE Now(pc)
            BY <2>1 DEF Now, Inv, Typed, PresenterTyped, Presenters
      <2> QED BY <2>1, ReleaseTyped DEF HandOn
<1>2. CASE decoder' = [d EXCEPT !.errors = 0]
      BY <1>1, <1>2 DEF Limited, Decoders, DecoderTyped
<1>3. CASE decoder' = HardwareError(d)
      BY <1>1, <1>3, HardwareErrorTyped DEF DecoderTyped
<1> QED BY <1>2, <1>3 DEF HandOn

LEMMA TypedPresenter == Inv /\ Presenter => Typed'
<1> SUFFICES ASSUME Inv, Presenter PROVE Typed'
    OBVIOUS
<1> USE DEF Inv, Typed
<1>1. CallsTyped' /\ WorkerTyped'
      BY SameCalls DEF Presenter, Take, CheckPicture, TakeCoarsePreview, GiveUpPicture,
         ClockForPicture, StartClock, PresentPicture, Show, WorkerTyped
<1>2. CASE Take
      <2>1. StateTyped' /\ DecoderTyped'
            BY <1>2 DEF Take, StateTyped, DecoderTyped
      <2>2. CASE presenter' = [pc |-> "gone", picture |-> NoPicture] /\ UNCHANGED queue
            BY <1>1, <2>1, <2>2 DEF QueueTyped, PresenterTyped, Presenters, PresenterPcs,
               NoPicture, Picture
      <2>3. CASE /\ queue # <<>> /\ queue' = Tail(queue)
                 /\ presenter' = [pc |-> "taken", picture |-> Head(queue)]
            <3>1. Head(queue) \in Queued
                  BY <2>3, TakenFrom DEF QueueTyped
            <3>2. Tail(queue) \in Seq(Queued) /\ Len(Tail(queue)) = Len(queue) - 1
                  BY <2>3, TakenFrom DEF QueueTyped
            <3>3. QueueTyped'
                  BY <2>3, <3>2 DEF QueueTyped
            <3>4. PresenterTyped'
                  BY <2>3, <3>1 DEF PresenterTyped, Presenters, PresenterPcs, Queued
            <3> QED BY <1>1, <2>1, <3>3, <3>4
      <2> QED BY <1>2, <2>2, <2>3 DEF Take
<1>3. CASE CheckPicture
      <2>1. QueueTyped'
            BY <1>3 DEF CheckPicture, QueueTyped
      <2>2. StateTyped'
            BY <1>3 DEF CheckPicture, StateTyped, Seeks
      <2>3. PICK inSoftware \in BOOLEAN :
              LET d == [decoder EXCEPT !.reopen = @ \/ inSoftware] IN
              \/ Now("late") /\ decoder' = d
              \/ HandOn("due", d)
            BY <1>3 DEF CheckPicture
      <2> DEFINE d == [decoder EXCEPT !.reopen = @ \/ inSoftware]
      <2>4. decoder.reopen \/ inSoftware \in BOOLEAN
            OBVIOUS
      <2>5. Limited(d)
            BY DEF DecoderTyped, Limited, Decoders
      <2>6. (Now("late") /\ decoder' = d) \/ HandOn("due", d)
            BY <2>3
      <2> HIDE DEF d
      <2>7. ASSUME HandOn("due", d) PROVE PresenterTyped' /\ DecoderTyped'
            BY <2>5, <2>7, HandOnTyped DEF PresenterPcs
      <2>8. ASSUME Now("late"), decoder' = d PROVE PresenterTyped' /\ DecoderTyped'
            BY <2>5, <2>8 DEF Now, PresenterTyped, Presenters, PresenterPcs, DecoderTyped
      <2> QED BY <1>1, <2>1, <2>2, <2>6, <2>7, <2>8
<1>4. CASE TakeCoarsePreview
      <2>1. QueueTyped' /\ StateTyped'
            BY <1>4 DEF TakeCoarsePreview, QueueTyped, StateTyped, Seeks
      <2>2. ASSUME Release, UNCHANGED decoder PROVE PresenterTyped' /\ DecoderTyped'
            BY <2>2, ReleaseTyped DEF DecoderTyped
      <2>3. ASSUME HandOn("show", decoder) PROVE PresenterTyped' /\ DecoderTyped'
            BY <2>3, HandOnTyped DEF PresenterPcs, DecoderTyped
      <2> QED BY <1>1, <1>4, <2>1, <2>2, <2>3 DEF TakeCoarsePreview
<1>5. CASE GiveUpPicture \/ Show
      BY <1>1, <1>5, ReleaseTyped DEF GiveUpPicture, Show, StateTyped, QueueTyped, DecoderTyped
<1>6. CASE ClockForPicture
      BY <1>1, <1>6 DEF ClockForPicture, StartClock, StateTyped, Infos, QueueTyped,
         PresenterTyped, DecoderTyped
<1>7. CASE PresentPicture
      <2>1. presenter.picture.at \in 0..Duration /\ info.position \in Positions
            BY DEF PresenterTyped, Presenters, StateTyped, Infos
      <2>2. presenter.picture.at \in Positions /\ presenter.picture.at \in Int
            /\ info.position \in Int
            BY <2>1, PositionsTyped
      <2>3. Larger(info.position, presenter.picture.at) \in Positions
            BY <2>1, <2>2, SmallerLarger
      <2>4. info' \in Infos
            BY <1>7, <2>2, <2>3 DEF PresentPicture, StateTyped, Infos
      <2>5. seek' \in Seeks
            BY <1>7 DEF PresentPicture, StateTyped, Seeks
      <2>6. PresenterTyped'
            BY <1>7 DEF PresentPicture, Now, PresenterTyped, Presenters, PresenterPcs
      <2> QED BY <1>1, <1>7, <2>4, <2>5, <2>6
              DEF PresentPicture, StateTyped, QueueTyped, DecoderTyped
<1> QED BY <1>2, <1>3, <1>4, <1>5, <1>6, <1>7 DEF Presenter

LEMMA TypedStep == Inv /\ [Next]_vars => Typed'
<1>1. Inv /\ UNCHANGED vars => Typed'
      BY DEF vars, Inv, Typed, CallsTyped, StateTyped, WorkerTyped, QueueTyped, PresenterTyped,
         DecoderTyped
<1> QED BY <1>1, TypedCommands, TypedControl, TypedWorker, TypedPresenter DEF Next

-----------------------------------------------------------------------------
(* What the steps of a thread leave alone.                                 *)
LEMMA AtFields ==
    ASSUME Inv, NEW pc, At(pc)
    PROVE  /\ worker'.pc = pc /\ worker'.item = worker.item /\ worker'.to = worker.to
           /\ worker'.next = worker.next
<1> QED BY DEF Inv, Typed, WorkerTyped, Workers, At

LEMMA NowFields ==
    ASSUME Inv, NEW pc, Now(pc)
    PROVE  presenter'.pc = pc /\ presenter'.picture = presenter.picture
<1> QED BY DEF Inv, Typed, PresenterTyped, Presenters, Now

LEMMA WorkerFrame ==
    ASSUME Inv, Worker
    PROVE  /\ UNCHANGED <<control, call, stop_requested, location, commands>>
           /\ worker.pc \notin {"none", "exit"} /\ worker'.pc # "none"
           /\ worker'.item = worker.item
<1>1. UNCHANGED <<control, call, stop_requested, location, commands>>
      /\ worker.pc \notin {"none", "exit"}
      BY DEF Worker, Open, Loop, TakeSeek, Reposition, Read, QueuePicture, Decoded,
         ContinueInSoftware, CheckSound, SkipSound, ClockForSound, StartClock, PresentSound,
         ReadOnAfterEnd, WaitForPresenterIdle, HoldUntilEnd, MarkEnded, Quit
<1>2. ASSUME NEW pc \in {"exit", "quit", "read", "decoded", "loop", "software", "due", "idle",
                         "hold", "mark"},
             At(pc)
      PROVE  worker'.pc # "none" /\ worker'.item = worker.item
      BY <1>2, AtFields
<1>3. ASSUME \A pc \in {"exit", "quit", "read", "decoded", "loop", "software", "due", "idle",
                        "hold", "mark"} : ~At(pc)
      PROVE  worker'.pc # "none" /\ worker'.item = worker.item
      <2>1. CASE Open
            <3>1. PICK first : worker' = [worker EXCEPT !.pc = "loop", !.next = first]
                  BY <1>3, <2>1 DEF Open
            <3> QED BY <3>1 DEF Inv, Typed, WorkerTyped, Workers
      <2>2. CASE TakeSeek \/ Reposition \/ Read
            <3>1. \/ \E to : worker' = [worker EXCEPT !.pc = "seek", !.to = to]
                  \/ \E first : worker' = [worker EXCEPT !.pc = "read", !.next = first]
                  \/ \E next : worker' = [worker EXCEPT !.next = next, !.pc = "picture"]
                  \/ \E next : worker' = [worker EXCEPT !.next = next, !.pc = "sound"]
                  \/ At("read") \/ At("end")
                  BY <2>2 DEF TakeSeek, Reposition, Read
            <3>2. ASSUME At("read") \/ At("end")
                  PROVE  worker'.pc # "none" /\ worker'.item = worker.item
                  BY <3>2, AtFields
            <3> QED BY <3>1, <3>2 DEF Inv, Typed, WorkerTyped, Workers
      <2>3. CASE ClockForSound
            BY <1>1, <2>3 DEF ClockForSound, StartClock
      <2> QED BY <1>3, <2>1, <2>2, <2>3
              DEF Worker, Loop, QueuePicture, Decoded, ContinueInSoftware, CheckSound, SkipSound,
                  PresentSound, ReadOnAfterEnd, WaitForPresenterIdle, HoldUntilEnd, MarkEnded,
                  Quit
<1> QED BY <1>1, <1>2, <1>3

LEMMA PresenterFrame ==
    ASSUME Inv, Presenter
    PROVE  /\ UNCHANGED <<control, call, stop_requested, location, worker, reads, commands>>
           /\ presenter.pc \notin {"none", "gone"} /\ presenter'.pc # "none"
           /\ info'.ended = info.ended
<1>1. UNCHANGED <<control, call, stop_requested, location, worker, reads, commands>>
      /\ presenter.pc \notin {"none", "gone"}
      BY DEF Presenter, Take, CheckPicture, TakeCoarsePreview, GiveUpPicture, ClockForPicture,
         StartClock, PresentPicture, Show
<1>2. presenter'.pc # "none"
      <2>1. CASE Take
            BY <2>1 DEF Take
      <2>2. ASSUME \/ Release \/ UNCHANGED presenter
                   \/ \E pc \in {"late", "due", "show"} : Now(pc)
            PROVE  presenter'.pc # "none"
            BY <1>1, <2>2, NowFields DEF Release
      <2> QED BY <2>1, <2>2 DEF Presenter, CheckPicture, HandOn, TakeCoarsePreview,
                 GiveUpPicture, ClockForPicture, StartClock, PresentPicture, Show
<1>3. info'.ended = info.ended
      BY DEF Presenter, Take, CheckPicture, TakeCoarsePreview, GiveUpPicture, ClockForPicture,
         StartClock, PresentPicture, Show, Inv, Typed, StateTyped, Infos
<1> QED BY <1>1, <1>2, <1>3

LEMMA CommandsFrame ==
    ASSUME Inv, Commands
    PROVE  /\ UNCHANGED <<control, stop_requested, location, worker, queue, presenter, decoder>>
           /\ info'.ended = info.ended
<1>1. UNCHANGED <<control, stop_requested, location, worker, queue, presenter, decoder>>
      BY DEF Commands, Play, Stop, Seek, SetRate, PauseForPlaylistRemoval
<1>2. info'.ended = info.ended
      BY DEF Commands, Play, Stop, Seek, SeekLocked, SetRate, PauseForPlaylistRemoval, Inv, Typed,
         StateTyped, Infos
<1> QED BY <1>1, <1>2

-----------------------------------------------------------------------------
(* The control lock.                                                       *)
LEMMA SerialisedCommands == Inv /\ Commands => Serialised'
<1> SUFFICES ASSUME Inv, Commands PROVE Serialised'
    OBVIOUS
<1>1. UNCHANGED <<control, stop_requested, worker>>
      BY CommandsFrame
<1>2. \/ UNCHANGED call
      \/ \E c \in Callers : \E item, start, rate :
             call[c].pc = "idle" /\ Enter(c, item, start, rate)
      BY DEF Commands, Play, Stop, Seek, SetRate, PauseForPlaylistRemoval, Command, Callers
<1>3. CASE UNCHANGED call
      BY <1>1, <1>3 DEF Inv, Serialised
<1>4. ASSUME NEW c \in Callers, NEW item, NEW start, NEW rate, call[c].pc = "idle",
             Enter(c, item, start, rate)
      PROVE  Serialised'
      BY <1>1, <1>4 DEF Inv, Typed, CallsTyped, Serialised, Enter
<1> QED BY <1>2, <1>3, <1>4

LEMMA SerialisedControl == Inv /\ Control => Serialised'
<1> SUFFICES ASSUME Inv, NEW c \in Callers, Lock(c) \/ Join(c) \/ Start(c) PROVE Serialised'
    BY DEF Control
<1> USE DEF Inv, Typed, CallsTyped, Calls, Serialised
<1>1. "free" \notin Callers
      BY DEF Callers
<1>2. CASE Lock(c)
      BY <1>1, <1>2 DEF Lock
<1>3. CASE Join(c)
      BY <1>1, <1>3 DEF Join, IdleCall, NoWorker
<1>4. CASE Start(c)
      BY <1>1, <1>4 DEF Start, IdleCall
<1> QED BY <1>2, <1>3, <1>4

LEMMA SerialisedStep == Inv /\ [Next]_vars => Serialised'
<1> SUFFICES ASSUME Inv, [Next]_vars PROVE Serialised'
    OBVIOUS
<1>1. CASE Worker
      BY <1>1, WorkerFrame DEF Inv, Serialised
<1>2. CASE Presenter
      BY <1>2, PresenterFrame DEF Inv, Serialised
<1>3. CASE UNCHANGED vars
      BY <1>3 DEF vars, Inv, Serialised
<1> QED BY <1>1, <1>2, <1>3, SerialisedCommands, SerialisedControl DEF Next

(* From the opening of an item to its end.                                 *)
LEMMA LivesControl == Inv /\ Control => Lives'
<1> SUFFICES ASSUME Inv, NEW c \in Callers, Lock(c) \/ Join(c) \/ Start(c) PROVE Lives'
    BY DEF Control
<1>1. UNCHANGED <<queue, presenter>>
      BY DEF Lock, Join, Start
<1> USE DEF Inv, Lives, Closed, Ending, Resting, PresenterIdle
<1>2. CASE Lock(c)
      BY <1>1, <1>2 DEF Lock
<1>3. CASE Join(c)
      <2>1. worker.pc \in Closed /\ worker'.pc = "none" /\ info'.ended = info.ended
            BY <1>3 DEF Join, Joined, NoWorker, Typed, StateTyped, Infos
      <2> QED BY <1>1, <1>3, <2>1 DEF Join
<1>4. CASE Start(c)
      <2>1. worker.pc = "none" /\ location' # NoItem
            BY <1>4 DEF Start, Serialised
      <2>2. CASE worker' = [pc |-> "open", item |-> call[c].item, to |-> call[c].start,
                            next |-> 0]
                 /\ info' = InitialInfo(call[c].start, call[c].rate)
            BY <1>1, <2>1, <2>2 DEF InitialInfo
      <2>3. CASE UNCHANGED worker
            BY <1>1, <2>1, <2>3
      <2> QED BY <1>4, <2>2, <2>3 DEF Start
<1> QED BY <1>2, <1>3, <1>4

LEMMA LivesPresenter == Inv /\ Presenter => Lives'
<1> SUFFICES ASSUME Inv, Presenter PROVE Lives'
    OBVIOUS
<1>1. /\ UNCHANGED <<stop_requested, location, worker>> /\ info'.ended = info.ended
      /\ presenter.pc # "none" /\ presenter'.pc # "none"
      BY PresenterFrame
<1> USE DEF Inv, Lives, Closed, Ending, Resting, PresenterIdle
<1>2. ASSUME queue = <<>>, presenter.pc \in {"wait", "gone"}
      PROVE  queue' = <<>> /\ presenter'.pc \in {"wait", "gone"}
      <2>1. Take
            BY <1>2 DEF Presenter, CheckPicture, TakeCoarsePreview, GiveUpPicture,
               ClockForPicture, PresentPicture, Show
      <2>2. presenter' = [pc |-> "gone", picture |-> NoPicture] /\ UNCHANGED queue
            BY <1>2, <2>1 DEF Take
      <2> QED BY <1>2, <2>2
<1>3. presenter.pc = "none" <=> presenter'.pc = "none"
      BY <1>1
<1>4. worker.pc \in Closed <=> worker'.pc \in Closed
      BY <1>1
<1>5. worker.pc \in Ending => (queue' = <<>> /\ presenter'.pc \in {"wait", "gone"}) \/ stop_requested
      BY <1>2
<1>6. info'.ended => queue' = <<>> /\ presenter'.pc \in {"none", "wait", "gone"}
      BY <1>1, <1>2
<1> QED BY <1>1, <1>3, <1>4, <1>5, <1>6

LEMMA LivesWorker == Inv /\ Worker => Lives'
<1> SUFFICES ASSUME Inv, Worker PROVE Lives'
    OBVIOUS
<1>1. /\ UNCHANGED <<stop_requested, location>> /\ worker'.pc # "none" /\ location # NoItem
      BY WorkerFrame DEF Inv, Lives
<1> USE DEF Inv, Lives, Closed, Ending, Resting, PresenterIdle
<1>2. CASE Open
      <2>0. worker.pc = "open" /\ presenter.pc = "none" /\ queue = <<>> /\ queue' = queue
            BY <1>2 DEF Open
      <2>1. CASE At("exit") /\ UNCHANGED presenter
            <3>1. worker'.pc = "exit" /\ presenter'.pc = "none" /\ queue' = <<>>
                  BY <2>0, <2>1, AtFields
            <3> QED BY <1>1, <3>1
      <2>2. CASE worker'.pc = "loop" /\ presenter' = [pc |-> "wait", picture |-> NoPicture]
                 /\ info'.ended = info.ended
            BY <1>1, <1>2, <2>2 DEF Open
      <2>3. ASSUME NEW first, worker' = [worker EXCEPT !.pc = "loop", !.next = first]
            PROVE  worker'.pc = "loop"
            BY <2>3 DEF Typed, WorkerTyped, Workers
      <2>4. ASSUME NEW known, NEW position,
                   info' = [info EXCEPT !.position = position, !.known = known, !.ready = TRUE]
            PROVE  info'.ended = info.ended
            BY <2>4 DEF Typed, StateTyped, Infos
      <2> QED BY <1>2, <2>1, <2>2, <2>3, <2>4 DEF Open
<1>3. CASE Loop \/ Decoded \/ CheckSound \/ SkipSound \/ PresentSound
      <2>1. PICK pc \in {"quit", "read", "loop", "software", "decoded", "due"} :
                At(pc) /\ (pc = "quit" => stop_requested)
            BY <1>3 DEF Loop, Decoded, CheckSound, SkipSound, PresentSound
      <2>2. worker.pc \in {"loop", "decoded", "sound", "due"} /\ UNCHANGED <<queue, presenter, info>>
            BY <1>3 DEF Loop, Decoded, CheckSound, SkipSound, PresentSound
      <2> QED BY <1>1, <2>1, <2>2, AtFields
<1>4. CASE TakeSeek
      <2>1. worker'.pc = "seek" /\ presenter'.pc = presenter.pc /\ worker.pc = "loop"
            /\ info'.ended = info.ended
            BY <1>4 DEF TakeSeek, Typed, WorkerTyped, Workers, PresenterTyped, Presenters,
               StateTyped, Infos
      <2> QED BY <1>1, <2>1
<1>5. CASE Reposition \/ Read
      <2>1. worker'.pc \in {"read", "picture", "sound", "end"} /\ worker.pc \in {"seek", "read"}
            /\ UNCHANGED <<presenter, info>>
            BY <1>5 DEF Reposition, Read, Typed, WorkerTyped, Workers, At
      <2> QED BY <1>1, <2>1
<1>6. CASE QueuePicture \/ ContinueInSoftware
      <2>1. worker'.pc \in {"decoded", "loop"} /\ worker.pc \in {"picture", "software"}
            /\ UNCHANGED presenter
            BY <1>6, AtFields DEF QueuePicture, ContinueInSoftware
      <2>2. info'.ended = info.ended
            BY <1>6 DEF QueuePicture, ContinueInSoftware, Typed, StateTyped, Infos
      <2> QED BY <1>1, <2>1, <2>2
<1>7. CASE ClockForSound
      <2>1. info'.ended = info.ended /\ UNCHANGED <<worker, presenter, queue>>
            BY <1>7 DEF ClockForSound, StartClock, Typed, StateTyped, Infos
      <2> QED BY <1>1, <2>1
<1>8. CASE ReadOnAfterEnd
      <2>1. PICK pc \in {"quit", "loop", "idle"} : At(pc) /\ (pc = "quit" => stop_requested)
            BY <1>8 DEF ReadOnAfterEnd
      <2>2. worker.pc = "end" /\ UNCHANGED <<queue, presenter>>
            BY <1>8 DEF ReadOnAfterEnd
      <2>3. info'.ended = info.ended
            BY <1>8 DEF ReadOnAfterEnd, Typed, StateTyped, Infos
      <2> QED BY <1>1, <2>1, <2>2, <2>3, AtFields
<1>9. CASE WaitForPresenterIdle \/ HoldUntilEnd
      <2>1. PICK pc \in {"hold", "loop", "mark"} :
                At(pc) /\ (worker.pc = "idle" => PresenterIdle \/ stop_requested)
            BY <1>9 DEF WaitForPresenterIdle, HoldUntilEnd
      <2>2. worker.pc \in {"idle", "hold"} /\ UNCHANGED <<queue, presenter>>
            BY <1>9 DEF WaitForPresenterIdle, HoldUntilEnd
      <2>3. info'.ended = info.ended
            BY <1>9 DEF WaitForPresenterIdle, HoldUntilEnd, Typed, StateTyped, Infos
      <2> QED BY <1>1, <2>1, <2>2, <2>3, AtFields
<1>10. CASE MarkEnded
      <2>1. worker'.pc = "quit" /\ worker.pc = "mark" /\ UNCHANGED <<queue, presenter>>
            BY <1>10, AtFields DEF MarkEnded
      <2>2. stop_requested => ~info'.ended
            BY <1>10, <2>1 DEF MarkEnded
      <2> QED BY <1>1, <2>1, <2>2
<1>11. CASE Quit
      <2>1. worker'.pc = "exit" /\ presenter'.pc = "none" /\ queue' = <<>> /\ UNCHANGED info
            BY <1>11, AtFields DEF Quit, Typed, PresenterTyped, Presenters
      <2> QED BY <1>1, <2>1
<1> QED BY <1>2, <1>3, <1>4, <1>5, <1>6, <1>7, <1>8, <1>9, <1>10, <1>11 DEF Worker

LEMMA LivesStep == Inv /\ [Next]_vars => Lives'
<1> SUFFICES ASSUME Inv, [Next]_vars PROVE Lives'
    OBVIOUS
<1>1. CASE Commands
      BY <1>1, CommandsFrame DEF Inv, Lives, Resting, PresenterIdle
<1>2. CASE UNCHANGED vars
      BY <1>2 DEF vars, Inv, Lives, Resting, PresenterIdle
<1> QED BY <1>1, <1>2, LivesControl, LivesWorker, LivesPresenter DEF Next

-----------------------------------------------------------------------------
(* The pictures on their way.                                              *)
LEMMA PicturesTyped ==
    ASSUME Inv
    PROVE  /\ \A i \in DOMAIN queue : /\ i \in Nat /\ i \in Int /\ queue[i] \in Queued
                                    /\ queue[i].at \in Nat /\ queue[i].at \in Int
           /\ presenter.picture.at \in Nat /\ presenter.picture.at \in Int
<1>1. DOMAIN queue = 1..Len(queue) /\ Len(queue) \in Nat /\ queue \in Seq(Queued)
      BY DEF Inv, Typed, QueueTyped
<1>2. ASSUME NEW i \in DOMAIN queue
      PROVE  /\ i \in Nat /\ i \in Int /\ queue[i] \in Queued
             /\ queue[i].at \in Nat /\ queue[i].at \in Int
      <2>1. i \in Nat /\ i \in Int /\ queue[i] \in Queued
            BY <1>1, <1>2
      <2>2. queue[i].at \in 0..Duration
            BY <2>1 DEF Queued
      <2> QED BY <2>1, <2>2
<1>3. presenter.picture.at \in 0..Duration
      BY DEF Inv, Typed, PresenterTyped, Presenters
<1> QED BY <1>2, <1>3

LEMMA NoPictures ==
    ASSUME queue' = <<>>, ~Held' \/ (~presenter'.picture.fresh /\ presenter'.picture.item = worker'.item)
    PROVE  Pictures'
<1> QED BY DEF Pictures

LEMMA SamePictures ==
    ASSUME Pictures, queue' = queue, Held' => Held /\ presenter'.picture = presenter.picture,
           UNCHANGED worker
    PROVE  Pictures'
<1> QED BY DEF Pictures, ReadBefore

LEMMA ReadOn ==
    ASSUME Inv, UNCHANGED <<queue, presenter>>, worker'.item = worker.item, ReadBefore \in Int,
           worker.pc # "seek", worker'.pc # "seek", ReadBefore' \in Int, ReadBefore <= ReadBefore'
    PROVE  Pictures'
<1> QED BY PicturesTyped DEF Inv, Pictures, Held

LEMMA ReadBeforeTyped ==
    ASSUME Inv
    PROVE  /\ worker.next \in Nat /\ ReadBefore \in Nat /\ ReadBefore <= worker.next
           /\ worker.pc = "picture" => ReadBefore = worker.next - 1 /\ worker.next > 0
           /\ worker.pc # "picture" => ReadBefore = worker.next
<1>1. worker.next \in Nat /\ (worker.pc = "picture" => worker.next > 0)
      BY DEF Inv, Typed, WorkerTyped, Workers, LastPacket
<1> QED BY <1>1 DEF ReadBefore

(* A step of the worker that only changes its place.                       *)
LEMMA ReadOnAt ==
    ASSUME Inv, UNCHANGED <<queue, presenter>>, NEW pc, At(pc), pc \notin {"seek", "picture"},
           worker.pc # "seek"
    PROVE  Pictures'
<1>1. /\ worker'.pc = pc /\ worker'.item = worker.item /\ worker'.next = worker.next
      BY AtFields
<1>2. ReadBefore' = worker.next
      BY <1>1 DEF ReadBefore
<1> QED BY <1>1, <1>2, ReadBeforeTyped, ReadOn

LEMMA PicturesQueue ==
    ASSUME Inv, worker.pc = "picture", At("decoded"), UNCHANGED presenter,
           queue' = Append(queue, Picture(worker.item, PacketAt))
    PROVE  Pictures'
<1> DEFINE e == Picture(worker.item, PacketAt)
<1>1. e \in Queued /\ e.at = PacketAt /\ e.item = worker.item /\ PacketAt \in Nat
      BY PacketAtTyped DEF Inv, Typed, WorkerTyped, Queued, Picture
<1>2. /\ worker'.pc = "decoded" /\ worker'.item = worker.item /\ worker'.next = worker.next
      BY AtFields
<1>3. ReadBefore' = worker.next /\ ReadBefore = worker.next - 1 /\ worker.next \in Nat
      /\ worker.next > 0
      BY <1>2, ReadBeforeTyped DEF ReadBefore
<1>4. 2 * PacketAt < worker.next /\ worker.next - 1 < 2 * PacketAt + 2
      <2>1. worker.next - 1 \in Nat
            BY <1>3
      <2>2. /\ PacketAt \in Nat /\ 2 * PacketAt <= worker.next - 1
            /\ worker.next - 1 < 2 * PacketAt + 2
            BY <2>1, SecondOf DEF PacketAt
      <2> QED BY <1>3, <2>2
<1>5. \A i \in DOMAIN queue :
          /\ queue[i] \in Queued /\ queue[i].item = worker.item /\ queue[i].at \in Nat
          /\ 2 * queue[i].at < worker.next - 1
      BY <1>3, PicturesTyped DEF Inv, Pictures
<1> HIDE DEF e
<1>6. /\ Len(queue') = Len(queue) + 1 /\ Len(queue) \in Nat
      /\ DOMAIN queue = 1..Len(queue) /\ DOMAIN queue' = 1..(Len(queue) + 1)
      /\ \A i \in DOMAIN queue : queue'[i] = queue[i]
      /\ queue'[Len(queue) + 1] = e
      BY <1>1 DEF Inv, Typed, QueueTyped, e
<1>7. \A i \in DOMAIN queue' :
          queue'[i].item = worker.item /\ queue'[i].at \in Nat /\ 2 * queue'[i].at < worker.next
      BY <1>1, <1>3, <1>4, <1>5, <1>6
<1>8. \A i \in DOMAIN queue : queue[i].at <= PacketAt
      BY <1>1, <1>3, <1>4, <1>5
<1>9. ASSUME NEW i \in DOMAIN queue', NEW j \in DOMAIN queue', i < j
      PROVE  queue'[i].at <= queue'[j].at
      <2>1. i \in DOMAIN queue /\ queue'[i] = queue[i]
            BY <1>6, <1>9
      <2>2. CASE j \in DOMAIN queue
            BY <1>6, <1>9, <2>1, <2>2 DEF Inv, Pictures
      <2>3. CASE j = Len(queue) + 1
            BY <1>1, <1>6, <1>8, <2>1, <2>3
      <2> QED BY <1>6, <2>2, <2>3
<1>10. ASSUME Held, presenter.picture.fresh
       PROVE  /\ 2 * presenter.picture.at < worker.next
              /\ \A i \in DOMAIN queue' : presenter.picture.at <= queue'[i].at
      <2>1. /\ 2 * presenter.picture.at < worker.next - 1 /\ presenter.picture.at \in Nat
            /\ \A i \in DOMAIN queue : presenter.picture.at <= queue[i].at
            BY <1>3, <1>10 DEF Inv, Pictures, Typed, PresenterTyped, Presenters
      <2>2. presenter.picture.at <= PacketAt
            BY <1>1, <1>3, <1>4, <2>1
      <2>3. ASSUME NEW i \in DOMAIN queue' PROVE presenter.picture.at <= queue'[i].at
            <3>1. CASE i \in DOMAIN queue
                  BY <1>6, <2>1, <3>1
            <3>2. CASE i = Len(queue) + 1
                  BY <1>1, <1>6, <2>2, <3>2
            <3> QED BY <1>6, <3>1, <3>2
      <2> QED BY <1>1, <1>3, <1>4, <2>1, <2>3
<1>11. Held' => Held /\ presenter'.picture = presenter.picture
      BY DEF Held
<1>12. Held => presenter.picture.item = worker.item
      BY DEF Inv, Pictures
<1> QED BY <1>2, <1>3, <1>7, <1>9, <1>10, <1>11, <1>12 DEF Pictures

LEMMA PicturesTake ==
    ASSUME Inv, queue # <<>>, presenter' = [pc |-> "taken", picture |-> Head(queue)],
           queue' = Tail(queue), UNCHANGED worker
    PROVE  Pictures'
<1>1. /\ Head(queue) = queue[1] /\ 1 \in DOMAIN queue /\ Tail(queue) \in Seq(Queued)
      /\ \A i \in DOMAIN Tail(queue) :
             i \in Nat /\ i + 1 \in DOMAIN queue /\ Tail(queue)[i] = queue[i + 1]
      BY TakenFrom DEF Inv, Typed, QueueTyped
<1>2. Held' /\ presenter'.picture = queue[1]
      BY <1>1 DEF Held, Holding
<1>3. DOMAIN Tail(queue) \subseteq Nat \ {0}
      BY <1>1
<1>4. \A i \in DOMAIN queue : queue[i].at \in Int /\ i \in Int
      BY PicturesTyped
<1>5. /\ \A i \in DOMAIN queue' : queue'[i].item = worker'.item
      /\ Held' => presenter'.picture.item = worker'.item
      BY <1>1, <1>2 DEF Inv, Pictures
<1>6. worker'.pc = "seek" => /\ \A i \in DOMAIN queue' : ~queue'[i].fresh
                             /\ Held' => ~presenter'.picture.fresh
      BY <1>1, <1>2 DEF Inv, Pictures
<1>7. ASSUME worker'.pc # "seek"
      PROVE  /\ \A i \in DOMAIN queue' : 2 * queue'[i].at < ReadBefore'
             /\ \A i, j \in DOMAIN queue' : i < j => queue'[i].at <= queue'[j].at
             /\ 2 * presenter'.picture.at < ReadBefore'
             /\ \A i \in DOMAIN queue' : presenter'.picture.at <= queue'[i].at
      <2>1. ReadBefore' = ReadBefore
            BY DEF ReadBefore
      <2>2. /\ \A i \in DOMAIN queue : 2 * queue[i].at < ReadBefore
            /\ \A i, j \in DOMAIN queue : i < j => queue[i].at <= queue[j].at
            BY <1>7 DEF Inv, Pictures
      <2>3. \A i \in DOMAIN queue' : i \in Nat /\ i > 0 /\ i + 1 \in DOMAIN queue
                                     /\ queue'[i] = queue[i + 1]
            BY <1>1, <1>3
      <2>4. \A i, j \in DOMAIN queue' : i < j => i + 1 < j + 1
            BY <2>3
      <2>5. \A i \in DOMAIN queue' : 1 < i + 1
            BY <2>3
      <2> QED BY <1>1, <1>2, <2>1, <2>2, <2>3, <2>4, <2>5
<1> QED BY <1>2, <1>5, <1>6, <1>7 DEF Pictures

LEMMA PicturesWorker == Inv /\ Worker => Pictures'
<1> SUFFICES ASSUME Inv, Worker PROVE Pictures'
    OBVIOUS
<1>1. CASE Open
      <2>1. queue' = <<>> /\ presenter.pc = "none"
            BY <1>1 DEF Open, Inv, Lives, Closed
      <2>2. UNCHANGED presenter \/ presenter' = [pc |-> "wait", picture |-> NoPicture]
            BY <1>1 DEF Open
      <2>3. presenter'.pc \in {"none", "wait"}
            BY <2>1, <2>2
      <2> QED BY <2>1, <2>3, NoPictures DEF Held, Holding
<1>2. CASE Loop \/ Decoded \/ CheckSound \/ SkipSound \/ PresentSound
      <2>1. PICK pc \in {"quit", "read", "loop", "software", "decoded", "due"} : At(pc)
            BY <1>2 DEF Loop, Decoded, CheckSound, SkipSound, PresentSound
      <2>2. worker.pc # "seek" /\ UNCHANGED <<queue, presenter>>
            BY <1>2 DEF Loop, Decoded, CheckSound, SkipSound, PresentSound
      <2> QED BY <2>1, <2>2, ReadOnAt
<1>3. CASE TakeSeek
      <2>1. worker'.pc = "seek" /\ worker'.item = worker.item
            BY <1>3 DEF TakeSeek, Inv, Typed, WorkerTyped, Workers
      <2>2. presenter'.pc = presenter.pc /\ presenter'.picture.item = presenter.picture.item
            /\ ~presenter'.picture.fresh
            BY <1>3 DEF TakeSeek, Aged, Inv, Typed, PresenterTyped, Presenters
      <2>3. DOMAIN queue' = DOMAIN queue
            BY <1>3 DEF TakeSeek
      <2>4. ASSUME NEW i \in DOMAIN queue
            PROVE  queue'[i].item = queue[i].item /\ ~queue'[i].fresh
            <3>1. queue[i] \in Queued /\ queue'[i] = [queue[i] EXCEPT !.fresh = FALSE]
                  BY <1>3, PicturesTyped DEF TakeSeek, Aged
            <3> QED BY <3>1 DEF Queued
      <2> QED BY <2>1, <2>2, <2>3, <2>4 DEF Inv, Pictures, Held
<1>4. CASE Reposition
      <2>1. worker'.item = worker.item /\ queue' = <<>> /\ UNCHANGED presenter
            BY <1>4, WorkerFrame DEF Reposition
      <2>2. Held => presenter.picture.item = worker.item /\ ~presenter.picture.fresh
            BY <1>4 DEF Reposition, Inv, Pictures
      <2> QED BY <2>1, <2>2, NoPictures DEF Held
<1>5. CASE Read
      <2>1. CASE At("end")
            BY <1>5, <2>1, ReadOnAt DEF Read
      <2>2. CASE worker' = [worker EXCEPT !.next = @ + 1,
                                !.pc = IF IsPicture(worker.next) THEN "picture" ELSE "sound"]
            <3>1. /\ worker'.pc \in {"picture", "sound"} /\ worker'.next = worker.next + 1
                  /\ worker'.item = worker.item
                  BY <2>2 DEF Inv, Typed, WorkerTyped, Workers
            <3>2. ReadBefore' \in {worker.next, worker.next + 1} /\ ReadBefore = worker.next
                  /\ worker.next \in Nat
                  BY <1>5, <3>1, ReadBeforeTyped DEF ReadBefore, Read
            <3> QED BY <1>5, <3>1, <3>2, ReadOn DEF Read
      <2> QED BY <1>5, <2>1, <2>2 DEF Read
<1>6. CASE QueuePicture
      <2>1. CASE UNCHANGED queue
            BY <1>6, <2>1, ReadOnAt DEF QueuePicture
      <2> QED BY <1>6, <2>1, PicturesQueue DEF QueuePicture
<1>7. CASE ContinueInSoftware \/ WaitForPresenterIdle \/ HoldUntilEnd \/ MarkEnded
           \/ ReadOnAfterEnd
      <2>1. PICK pc \in {"loop", "hold", "mark", "quit", "idle"} : At(pc)
            BY <1>7 DEF ContinueInSoftware, WaitForPresenterIdle, HoldUntilEnd, MarkEnded,
               ReadOnAfterEnd
      <2>2. worker.pc # "seek" /\ UNCHANGED <<queue, presenter>>
            BY <1>7 DEF ContinueInSoftware, WaitForPresenterIdle, HoldUntilEnd, MarkEnded,
               ReadOnAfterEnd
      <2> QED BY <2>1, <2>2, ReadOnAt
<1>8. CASE ClockForSound
      BY <1>8, SamePictures DEF ClockForSound, StartClock, Held, Inv
<1>9. CASE Quit
      <2>1. queue' = <<>> /\ presenter'.pc = "none"
            BY <1>9 DEF Quit, Inv, Typed, PresenterTyped, Presenters
      <2> QED BY <2>1, NoPictures DEF Held, Holding
<1> QED BY <1>1, <1>2, <1>3, <1>4, <1>5, <1>6, <1>7, <1>8, <1>9 DEF Worker

LEMMA PicturesPresenter == Inv /\ Presenter => Pictures'
<1> SUFFICES ASSUME Inv, Presenter PROVE Pictures'
    OBVIOUS
<1>1. UNCHANGED worker
      BY PresenterFrame
<1>2. CASE Take
      <2>1. CASE UNCHANGED queue /\ presenter' = [pc |-> "gone", picture |-> NoPicture]
            BY <1>1, <2>1, SamePictures DEF Held, Holding, Inv
      <2> QED BY <1>1, <1>2, <2>1, PicturesTake DEF Take
<1>3. ASSUME UNCHANGED queue, presenter.pc \in Holding,
             \/ Release \/ UNCHANGED presenter
             \/ \E pc \in Holding : Now(pc)
      PROVE  Pictures'
      <2>1. Held' => Held /\ presenter'.picture = presenter.picture
            BY <1>3, NowFields DEF Release, Held, Holding
      <2> QED BY <1>1, <1>3, <2>1, SamePictures DEF Inv
<1> QED BY <1>2, <1>3 DEF Presenter, CheckPicture, HandOn, TakeCoarsePreview,
           GiveUpPicture, ClockForPicture, StartClock, PresentPicture, Show, Holding

LEMMA PicturesStep == Inv /\ [Next]_vars => Pictures'
<1> SUFFICES ASSUME Inv, [Next]_vars PROVE Pictures'
    OBVIOUS
<1>1. CASE Commands \/ UNCHANGED vars
      <2>1. UNCHANGED <<queue, presenter, worker>>
            BY <1>1, CommandsFrame DEF vars
      <2> QED BY <2>1, SamePictures DEF Inv, Held
<1>2. CASE Control
      <2>1. UNCHANGED <<queue, presenter>>
            BY <1>2 DEF Control, Lock, Join, Start
      <2>2. CASE UNCHANGED worker
            BY <2>1, <2>2, SamePictures DEF Inv, Held
      <2>3. CASE worker.pc \in Closed
            <3>1. queue = <<>> /\ presenter.pc = "none"
                  BY <2>3 DEF Inv, Lives
            <3> QED BY <2>1, <3>1, NoPictures DEF Held, Holding
      <2> QED BY <1>2, <2>2, <2>3 DEF Control, Lock, Join, Joined, Start, Inv, Serialised, Closed
<1> QED BY <1>1, <1>2, PicturesWorker, PicturesPresenter DEF Next

-----------------------------------------------------------------------------
(* The target of the last seek and the reported position.                  *)
LEMMA NumbersTyped ==
    ASSUME Inv
    PROVE  /\ info.position \in Nat /\ seek.target \in Nat /\ worker.next \in Nat
           /\ (seek.video = -1 \/ seek.video \in Nat)
<1>1. info.position \in Positions /\ seek.target \in Positions
      /\ seek.video \in Positions \cup {-1}
      BY DEF Inv, Typed, StateTyped, Infos, Seeks
<1>2. worker.next \in Nat
      BY ReadBeforeTyped
<1> QED BY <1>1, <1>2, PositionsTyped

(* While only pictures go, nothing fresh comes before what was excluded.   *)
LEMMA AllFromKept ==
    ASSUME Inv, NEW second \in Nat, AllFrom(second), queue' = queue,
           Held' => Held /\ presenter'.picture = presenter.picture,
           worker'.next \in Nat, worker.next <= worker'.next
    PROVE  AllFrom(second)'
<1> QED BY NumbersTyped DEF AllFrom

(* A step in which the target and the position stay, and no picture is     *)
(* accepted.                                                               *)
LEMMA AimedKept ==
    ASSUME Inv, queue' = queue, Held' => Held /\ presenter'.picture = presenter.picture,
           presenter'.pc = "due" => presenter.pc = "due",
           info'.position = info.position, seek'.pending = seek.pending,
           seek'.target = seek.target, seek'.video = seek.video,
           worker'.next \in Nat, worker.next <= worker'.next,
           \/ worker'.pc = worker.pc
           \/ worker.pc \in Reading \ {"open", "seek"} /\ worker'.pc \notin {"open", "seek"}
           \/ worker'.pc \notin Reading
    PROVE  Aimed'
<1>1. /\ seek.video \in {seek.target, -1} /\ (seek.pending => seek.video = seek.target)
      /\ presenter'.pc = "due" /\ ~Stale' => seek.video = -1
      BY DEF Inv, Aimed, Stale, Held, Holding
<1>2. info.position \in Nat /\ seek.target \in Nat
      BY NumbersTyped
<1>3. AllFrom(seek.target) => AllFrom(seek.target)'
      BY <1>2, AllFromKept
<1>4. AllFrom(info.position) => AllFrom(info.position)'
      BY <1>2, AllFromKept
<1> QED BY <1>1, <1>3, <1>4 DEF Inv, Aimed, Reading

LEMMA SameAim ==
    ASSUME Inv, UNCHANGED <<worker, queue, presenter>>, info'.position = info.position,
           seek'.pending = seek.pending, seek'.target = seek.target, seek'.video = seek.video
    PROVE  Aimed'
<1>1. AllFrom(seek.target) => AllFrom(seek.target)'
      BY DEF AllFrom, Held
<1>2. AllFrom(info.position) => AllFrom(info.position)'
      BY DEF AllFrom, Held
<1>3. Stale' = Stale
      BY DEF Stale
<1> QED BY <1>1, <1>2, <1>3 DEF Inv, Aimed

LEMMA AimedCommands == Inv /\ Commands => Aimed'
<1> SUFFICES ASSUME Inv, Commands PROVE Aimed'
    OBVIOUS
<1>1. UNCHANGED <<worker, queue, presenter>>
      BY CommandsFrame
<1>2. worker.next \in Nat /\ info.position \in Nat
      BY NumbersTyped
<1>3. CASE UNCHANGED seek /\ info'.position = info.position
      BY <1>1, <1>2, <1>3, AimedKept DEF Held
(* A seek, or what the player asks of itself, waits with its target where  *)
(* the position is.                                                        *)
<1>4. ASSUME NEW position \in Nat, seek'.pending = TRUE, seek'.target = position,
             seek'.video = position, info'.position = position
      PROVE  Aimed'
      BY <1>1, <1>4 DEF Aimed, Stale
<1>5. ASSUME NEW asked \in Targets, Seek(asked), SeekLocked(Clamped(asked)) PROVE Aimed'
      <2>1. Clamped(asked) \in Nat
            BY PositionsTyped, SmallerLarger DEF Clamped
      <2>2. /\ seek'.pending = TRUE /\ seek'.target = Clamped(asked)
            /\ seek'.video = Clamped(asked)
            BY <1>5 DEF SeekLocked
      <2>3. info'.position = Clamped(asked)
            BY <1>5 DEF SeekLocked, Inv, Typed, StateTyped, Infos
      <2> QED BY <1>4, <2>1, <2>2, <2>3
<1>6. ASSUME NEW rate \in {0, 1}, SetRate(rate) PROVE Aimed'
      <2>1. info'.position = info.position
            BY <1>6 DEF SetRate, Inv, Typed, StateTyped, Infos
      <2>2. CASE seek' = [ReseekTo(info.position) EXCEPT !.preview = FALSE, !.resync = FALSE]
            <3>1. seek'.pending = TRUE /\ seek'.target = info.position
                  /\ seek'.video = info.position
                  BY <2>2 DEF ReseekTo, Inv, Typed, StateTyped, Seeks
            <3> QED BY <1>2, <1>4, <2>1, <3>1
      <2>3. CASE seek' = [seek EXCEPT !.preview = FALSE, !.resync = FALSE]
            <3>1. seek'.pending = seek.pending /\ seek'.target = seek.target
                  /\ seek'.video = seek.video
                  BY <2>3 DEF Inv, Typed, StateTyped, Seeks
            <3> QED BY <1>1, <2>1, <3>1, SameAim
      <2> QED BY <1>3, <1>6, <2>1, <2>2, <2>3 DEF SetRate
<1>7. CASE PauseForPlaylistRemoval
      BY <1>3, <1>7 DEF PauseForPlaylistRemoval, Inv, Typed, StateTyped, Infos
<1> QED BY <1>3, <1>5, <1>6, <1>7 DEF Commands, Play, Stop, Seek

LEMMA AimedControl == Inv /\ Control => Aimed'
<1> SUFFICES ASSUME Inv, NEW c \in Callers, Lock(c) \/ Join(c) \/ Start(c) PROVE Aimed'
    BY DEF Control
<1>1. UNCHANGED <<queue, presenter>>
      BY DEF Lock, Join, Start
<1>2. worker.next \in Nat
      BY NumbersTyped
<1>3. CASE Lock(c)
      BY <1>1, <1>2, <1>3, AimedKept DEF Lock, Held
<1>4. CASE Join(c)
      <2>1. worker'.pc = "none" /\ UNCHANGED seek
            BY <1>4 DEF Join, NoWorker
      <2>2. presenter.pc = "none"
            BY <1>4 DEF Join, Joined, Inv, Lives, Closed
      <2> QED BY <1>1, <2>1, <2>2 DEF Inv, Aimed, Reading
<1>5. CASE Start(c)
      <2>1. worker.pc = "none" /\ presenter.pc = "none"
            BY <1>5 DEF Start, Inv, Serialised, Lives, Closed
      <2>2. call[c].start \in Nat
            BY <1>5, PositionsTyped DEF Inv, Typed, CallsTyped, Calls
      <2>3. /\ seek'.pending = FALSE /\ seek'.target = call[c].start
            /\ seek'.video = IF call[c].start > 0 THEN call[c].start ELSE -1
            BY <1>5 DEF Start, InitialSeek
      <2>4. worker'.pc \in {"open", "none"}
            BY <1>5, <2>1 DEF Start
      <2>5. info' \in {InitialInfo(call[c].start, call[c].rate),
                      OpenFailed(InitialInfo(call[c].start, call[c].rate))}
            BY <1>5 DEF Start
      <2>6. info'.position = call[c].start
            <3>1. InitialInfo(call[c].start, call[c].rate).position = call[c].start
                  BY DEF InitialInfo
            <3>2. OpenFailed(InitialInfo(call[c].start, call[c].rate)).position = call[c].start
                  BY DEF InitialInfo, OpenFailed
            <3> QED BY <2>5, <3>1, <3>2
      <2> QED BY <1>1, <2>1, <2>2, <2>3, <2>4, <2>6 DEF Aimed, Reading
<1> QED BY <1>3, <1>4, <1>5

LEMMA AimedQueue ==
    ASSUME Inv, worker.pc = "picture", At("decoded"), UNCHANGED <<presenter, seek, info>>,
           queue' = Append(queue, Picture(worker.item, PacketAt))
    PROVE  Aimed'
<1> DEFINE e == Picture(worker.item, PacketAt)
<1>1. e \in Queued /\ e.at = PacketAt /\ PacketAt \in Nat
      BY PacketAtTyped DEF Inv, Typed, WorkerTyped, Queued, Picture
<1>2. /\ worker'.pc = "decoded" /\ worker'.next = worker.next
      BY AtFields
<1>3. worker.next \in Nat /\ worker.next - 1 \in Nat
      BY ReadBeforeTyped
<1>4. worker.next - 1 < 2 * PacketAt + 2
      BY <1>3, SecondOf DEF PacketAt
<1> HIDE DEF e
<1>5. \A i \in DOMAIN queue' : (i \in DOMAIN queue /\ queue'[i] = queue[i]) \/ queue'[i] = e
      BY <1>1, AddedTo DEF Inv, Typed, QueueTyped, e
<1>6. ASSUME NEW second \in Nat, AllFrom(second) PROVE AllFrom(second)'
      <2>1. CASE second = 0
            BY <2>1 DEF AllFrom
      <2>2. CASE second # 0
            <3>1. 2 * second < worker.next
                  BY <1>6, <2>2 DEF AllFrom
            <3>2. second <= PacketAt
                  BY <1>1, <1>3, <1>4, <3>1
            <3>3. \A i \in DOMAIN queue' : queue'[i].fresh => second <= queue'[i].at
                  BY <1>1, <1>5, <1>6, <2>2, <3>2 DEF AllFrom
            <3> QED BY <1>2, <1>6, <2>2, <3>1, <3>3 DEF AllFrom, Held
      <2> QED BY <2>1, <2>2
<1>7. info.position \in Nat /\ seek.target \in Nat
      BY NumbersTyped
<1>8. /\ AllFrom(seek.target) => AllFrom(seek.target)'
      /\ AllFrom(info.position) => AllFrom(info.position)'
      BY <1>6, <1>7
<1>9. Stale' = Stale
      BY DEF Stale
<1> QED BY <1>2, <1>8, <1>9 DEF Inv, Aimed, Reading

LEMMA AimedWorker == Inv /\ Worker => Aimed'
<1> SUFFICES ASSUME Inv, Worker PROVE Aimed'
    OBVIOUS
<1>1. worker.next \in Nat /\ info.position \in Nat /\ seek.target \in Nat
      BY NumbersTyped
(* Steps within the reading of packets.                                    *)
<1>2. ASSUME NEW pc, At(pc), UNCHANGED <<queue, presenter, seek>>, info'.position = info.position,
             worker.pc \in Reading \ {"open", "seek"}, pc \notin {"open", "seek"}
      PROVE  Aimed'
      BY <1>1, <1>2, AtFields, AimedKept DEF Held
<1>3. CASE Open
      <2>1. presenter.pc = "none" /\ queue = <<>> /\ UNCHANGED <<queue, seek>>
            /\ worker.pc = "open"
            BY <1>3 DEF Open, Inv, Lives, Closed
      <2>2. ASSUME At("exit"), UNCHANGED presenter PROVE Aimed'
            BY <2>1, <2>2, AtFields DEF Inv, Aimed, Reading
      <2>3. ASSUME NEW known \in BOOLEAN, NEW first \in FirstPackets(worker.to),
                   info' = [info EXCEPT
                       !.position = IF known THEN Smaller(@, Duration) ELSE @,
                       !.known = known, !.ready = TRUE],
                   worker' = [worker EXCEPT !.pc = "loop", !.next = first],
                   presenter' = [pc |-> "wait", picture |-> NoPicture]
            PROVE  Aimed'
            <3>1. info'.position = IF known THEN Smaller(info.position, Duration)
                                   ELSE info.position
                  BY <2>3 DEF Inv, Typed, StateTyped, Infos
            <3>2. info'.position \in Nat /\ info'.position <= info.position
                  BY <1>1, <3>1, PositionsTyped, SmallerLarger
            <3>3. info.position <= seek.target /\ (seek.video = seek.target \/ seek.target = 0)
                  BY <2>1 DEF Inv, Aimed, Reading
            <3>4. worker'.pc = "loop" /\ presenter'.pc = "wait"
                  BY <2>3 DEF Inv, Typed, WorkerTyped, Workers
            <3>5. info'.position <= seek.target
                  BY <1>1, <3>2, <3>3
            <3>6. seek.video = -1 => seek.target = 0 /\ info'.position = 0
                  BY <1>1, <3>2, <3>3, <3>5
            <3> QED BY <2>1, <3>3, <3>4, <3>5, <3>6 DEF Inv, Aimed, AllFrom
      <2> QED BY <1>3, <2>2, <2>3 DEF Open
<1>4. CASE Loop \/ Decoded \/ SkipSound \/ PresentSound \/ WaitForPresenterIdle
      <2>1. PICK pc \in {"quit", "read", "loop", "software", "decoded", "due", "hold"} : At(pc)
            BY <1>4 DEF Loop, Decoded, SkipSound, PresentSound, WaitForPresenterIdle
      <2>2. /\ worker.pc \in Reading \ {"open", "seek"}
            /\ UNCHANGED <<queue, presenter, seek, info>>
            BY <1>4 DEF Loop, Decoded, SkipSound, PresentSound, WaitForPresenterIdle, Reading
      <2> QED BY <1>2, <2>1, <2>2
<1>5. CASE CheckSound
      <2>1. PICK pc \in {"decoded", "due"} : At(pc)
            BY <1>5 DEF CheckSound
      <2>2. /\ seek'.pending = seek.pending /\ seek'.target = seek.target
            /\ seek'.video = seek.video
            BY <1>5 DEF CheckSound, Inv, Typed, StateTyped, Seeks
      <2>3. worker.pc = "sound" /\ UNCHANGED <<queue, presenter, info>>
            BY <1>5 DEF CheckSound
      <2>4. worker'.pc = pc /\ worker'.next = worker.next
            BY <2>1, AtFields
      <2>5. /\ AllFrom(seek.target) => AllFrom(seek.target)'
            /\ AllFrom(info.position) => AllFrom(info.position)'
            BY <2>2, <2>3, <2>4 DEF AllFrom, Held
      <2>6. Stale' = Stale
            BY <2>2, <2>3 DEF Stale
      <2> QED BY <2>2, <2>3, <2>4, <2>5, <2>6 DEF Inv, Aimed, Reading
<1>6. CASE TakeSeek
      <2>1. worker'.pc = "seek" /\ worker.pc = "loop"
            BY <1>6 DEF TakeSeek, Inv, Typed, WorkerTyped, Workers
      <2>2. ~presenter'.picture.fresh
            BY <1>6 DEF TakeSeek, Aged, Inv, Typed, PresenterTyped, Presenters
      <2>3. info'.position = info.position
            BY <1>6 DEF TakeSeek, Inv, Typed, StateTyped, Infos
      <2>4. seek'.target = seek.target /\ seek'.video = seek.video /\ seek'.pending = FALSE
            /\ seek.pending
            BY <1>6 DEF TakeSeek, Inv, Typed, StateTyped, Seeks
      <2>5. seek.video = seek.target /\ info.position <= seek.target
            BY <2>1, <2>4 DEF Inv, Aimed, Reading
      <2> QED BY <2>1, <2>2, <2>3, <2>4, <2>5 DEF Aimed, Stale
<1>7. CASE Reposition
      <2>1. worker'.pc = "read" /\ worker.pc = "seek"
            <3>1. At("read") \/ \E first : worker' = [worker EXCEPT !.pc = "read", !.next = first]
                  BY <1>7 DEF Reposition
            <3>2. At("read") => worker'.pc = "read"
                  BY AtFields
            <3> QED BY <1>7, <3>1, <3>2 DEF Reposition, Inv, Typed, WorkerTyped, Workers
      <2>2. Held => ~presenter.picture.fresh
            BY <2>1 DEF Inv, Pictures
      <2>3. UNCHANGED <<info, seek, presenter>>
            BY <1>7 DEF Reposition
      <2>4. info.position <= seek.target /\ (seek.video = seek.target \/ seek.target = 0)
            BY <2>1 DEF Inv, Aimed, Reading
      <2>5. seek.video = -1 => seek.target = 0 /\ info.position = 0
            BY <1>1, <2>4
      <2>6. Stale' = Stale
            BY <2>3 DEF Stale
      <2> QED BY <2>1, <2>3, <2>4, <2>5, <2>6 DEF Inv, Aimed, AllFrom
<1>8. CASE Read
      <2>1. CASE At("end")
            BY <1>2, <1>8, <2>1 DEF Read, Reading
      <2>2. CASE worker' = [worker EXCEPT !.next = @ + 1,
                                !.pc = IF IsPicture(worker.next) THEN "picture" ELSE "sound"]
            <3>1. /\ worker'.pc \in {"picture", "sound"} /\ worker'.next = worker.next + 1
                  BY <2>2 DEF Inv, Typed, WorkerTyped, Workers
            <3>2. worker.pc = "read" /\ UNCHANGED <<queue, presenter, seek, info>>
                  BY <1>8 DEF Read
            <3>3. worker.pc \in Reading \ {"open", "seek"}
                  BY <3>2 DEF Reading
            <3> QED BY <1>1, <3>1, <3>2, <3>3, AimedKept DEF Held
      <2> QED BY <1>8, <2>1, <2>2 DEF Read
<1>9. CASE QueuePicture
      <2>1. CASE UNCHANGED queue
            BY <1>2, <1>9, <2>1 DEF QueuePicture, Reading
      <2>2. CASE queue' = Append(queue, Picture(worker.item, PacketAt))
            BY <1>9, <2>2, AimedQueue DEF QueuePicture
      <2> QED BY <1>9, <2>1, <2>2 DEF QueuePicture
<1>10. CASE ContinueInSoftware \/ ReadOnAfterEnd
      <2>1. PICK pc \in {"loop", "quit", "idle"} : At(pc)
            BY <1>10 DEF ContinueInSoftware, ReadOnAfterEnd
      <2>2. /\ worker.pc \in {"software", "end"} /\ UNCHANGED <<queue, presenter>>
            /\ info'.position = info.position
            BY <1>10 DEF ContinueInSoftware, ReadOnAfterEnd, Inv, Typed, StateTyped, Infos
      <2>3. CASE UNCHANGED seek
            BY <1>2, <2>1, <2>2, <2>3 DEF Reading
      <2>4. CASE seek' = ReseekTo(info.position)
            <3>1. seek'.pending = TRUE /\ seek'.target = info.position
                  /\ seek'.video = info.position
                  BY <2>4 DEF ReseekTo, Inv, Typed, StateTyped, Seeks
            <3> QED BY <1>1, <2>2, <3>1 DEF Aimed, Stale
      <2> QED BY <1>10, <2>3, <2>4 DEF ContinueInSoftware, ReadOnAfterEnd
<1>11. CASE HoldUntilEnd
      <2>1. CASE At("loop") /\ UNCHANGED info
            BY <1>2, <1>11, <2>1 DEF HoldUntilEnd, Reading
      <2>2. CASE At("mark")
            <3>1. worker'.pc = "mark" /\ UNCHANGED <<queue, presenter, seek>>
                  BY <1>11, <2>2, AtFields DEF HoldUntilEnd
            <3> QED BY <3>1 DEF Inv, Aimed, Reading, Stale
      <2> QED BY <1>11, <2>1, <2>2 DEF HoldUntilEnd
<1>12. CASE MarkEnded
      <2>1. worker'.pc = "quit" /\ UNCHANGED <<queue, presenter, seek>>
            BY <1>12, AtFields DEF MarkEnded
      <2> QED BY <2>1 DEF Inv, Aimed, Reading, Stale
<1>13. CASE ClockForSound
      <2>1. info'.position = info.position /\ UNCHANGED <<worker, queue, presenter, seek>>
            BY <1>13 DEF ClockForSound, StartClock, Inv, Typed, StateTyped, Infos
      <2> QED BY <2>1, SameAim
<1>14. CASE Quit
      <2>1. worker'.pc = "exit" /\ presenter'.pc = "none" /\ UNCHANGED seek
            BY <1>14, AtFields DEF Quit, Inv, Typed, PresenterTyped, Presenters
      <2> QED BY <2>1 DEF Inv, Aimed, Reading
<1> QED BY <1>3, <1>4, <1>5, <1>6, <1>7, <1>8, <1>9, <1>10, <1>11, <1>12, <1>13, <1>14
        DEF Worker

(* A picture that passes the target of the last seek puts everything that  *)
(* is still fresh past it.                                                 *)
LEMMA FromPicture ==
    ASSUME Inv, Held, presenter.picture.fresh,
           NEW second \in Nat, second <= presenter.picture.at
    PROVE  AllFrom(second)
<1>1. worker.pc # "seek" /\ 2 * presenter.picture.at < ReadBefore
      /\ \A i \in DOMAIN queue : presenter.picture.at <= queue[i].at
      BY DEF Inv, Pictures
<1>2. 2 * second < worker.next
      BY <1>1, PicturesTyped, ReadBeforeTyped
<1>3. \A i \in DOMAIN queue : second <= queue[i].at
      BY <1>1, PicturesTyped
<1> QED BY <1>2, <1>3 DEF AllFrom

LEMMA AcceptedPicture ==
    ASSUME Inv, presenter.pc = "taken", ~Stale, worker.pc \in Reading,
           ~(seek.video >= 0 /\ presenter.picture.at < seek.video)
    PROVE  AllFrom(seek.target) /\ AllFrom(info.position)
<1>1. /\ presenter.picture.fresh /\ Held /\ presenter.picture.at \in Nat
      BY PicturesTyped DEF Stale, Held, Holding
<1>2. worker.pc # "seek" /\ worker.pc # "open"
      BY <1>1 DEF Inv, Pictures, Lives, Closed, Held, Holding
<1>3. CASE seek.video = -1
      BY <1>2, <1>3 DEF Inv, Aimed
<1>4. CASE seek.video = seek.target
      <2>1. info.position <= seek.target /\ seek.target <= presenter.picture.at
            BY <1>1, <1>4, NumbersTyped DEF Inv, Aimed
      <2> QED BY <1>1, <2>1, FromPicture, NumbersTyped
<1> QED BY <1>3, <1>4 DEF Inv, Aimed

LEMMA AllFromTake ==
    ASSUME Inv, queue # <<>>, presenter' = [pc |-> "taken", picture |-> Head(queue)],
           queue' = Tail(queue), UNCHANGED worker, NEW second \in Nat, AllFrom(second)
    PROVE  AllFrom(second)'
<1>1. /\ Head(queue) = queue[1] /\ 1 \in DOMAIN queue
      /\ \A i \in DOMAIN Tail(queue) : i + 1 \in DOMAIN queue /\ Tail(queue)[i] = queue[i + 1]
      BY TakenFrom DEF Inv, Typed, QueueTyped
<1> QED BY <1>1 DEF AllFrom

(* A picture whose time has come is at or after the target, and moves the  *)
(* position no further than what follows it.                               *)
LEMMA DuePicture ==
    ASSUME Inv, presenter.pc = "due", ~Stale, ~stop_requested
    PROVE  /\ worker.pc \in Reading \ {"open", "seek", "hold"} /\ seek.video = -1
           /\ AllFrom(seek.target) /\ AllFrom(info.position)
           /\ AllFrom(presenter.picture.at) /\ seek.target <= presenter.picture.at
<1>1. /\ presenter.picture.fresh /\ Held /\ presenter.picture.at \in Nat
      BY PicturesTyped DEF Stale, Held, Holding
<1>2. worker.pc \notin Closed \cup {"seek"} \cup Ending
      BY <1>1 DEF Inv, Pictures, Lives, PresenterIdle
<1>3. worker.pc \in WorkerPcs
      BY DEF Inv, Typed, WorkerTyped, Workers
<1>4. worker.pc \in Reading \ {"open", "seek", "hold"}
      BY <1>2, <1>3 DEF Reading, WorkerPcs, Closed, Ending
<1>5. seek.video = -1 /\ AllFrom(seek.target) /\ AllFrom(info.position)
      BY <1>4 DEF Inv, Aimed
<1>6. AllFrom(presenter.picture.at)
      BY <1>1, FromPicture
<1>7. seek.target <= presenter.picture.at
      BY <1>1, <1>5, NumbersTyped DEF AllFrom
<1> QED BY <1>4, <1>5, <1>6, <1>7

LEMMA AimedPresenter == Inv /\ Presenter => Aimed'
<1> SUFFICES ASSUME Inv, Presenter PROVE Aimed'
    OBVIOUS
<1>1. UNCHANGED worker
      BY PresenterFrame
<1>2. worker.next \in Nat /\ info.position \in Nat /\ seek.target \in Nat
      BY NumbersTyped
<1>3. CASE Take
      <2>1. UNCHANGED <<info, seek>> /\ presenter'.pc \in {"gone", "taken"}
            BY <1>3 DEF Take
      <2>2. CASE UNCHANGED queue /\ presenter' = [pc |-> "gone", picture |-> NoPicture]
            BY <1>1, <1>2, <2>1, <2>2, AimedKept DEF Held, Holding
      <2>3. CASE /\ queue # <<>> /\ queue' = Tail(queue)
                 /\ presenter' = [pc |-> "taken", picture |-> Head(queue)]
            <3>1. /\ AllFrom(seek.target) => AllFrom(seek.target)'
                  /\ AllFrom(info.position) => AllFrom(info.position)'
                  BY <1>1, <1>2, <2>1, <2>3, AllFromTake
            <3> QED BY <1>1, <2>1, <3>1 DEF Inv, Aimed
      <2> QED BY <1>3, <2>2, <2>3 DEF Take
(* Nothing is accepted.                                                    *)
<1>4. ASSUME UNCHANGED queue, info'.position = info.position, presenter.pc \in Holding,
             seek'.pending = seek.pending, seek'.target = seek.target,
             seek'.video = seek.video,
             \/ Release
             \/ \E pc \in {"late", "show"} : Now(pc)
      PROVE  Aimed'
      <2>1. /\ Held' => Held /\ presenter'.picture = presenter.picture
            /\ presenter'.pc # "due"
            BY <1>4, NowFields DEF Release, Held, Holding
      <2> QED BY <1>1, <1>2, <1>4, <2>1, AimedKept
<1>5. CASE CheckPicture
      <2>0. presenter.pc = "taken" /\ UNCHANGED <<queue, info>>
            BY <1>5 DEF CheckPicture
      <2>1. CASE Now("late") /\ UNCHANGED seek
            BY <1>4, <2>0, <2>1 DEF Holding
      <2>2. CASE /\ ~(Stale \/ (seek.video >= 0 /\ presenter.picture.at < seek.video))
                 /\ Now("due") \/ Release
                 /\ seek' = [seek EXCEPT !.video = -1]
            <3>1. seek'.pending = seek.pending /\ seek'.target = seek.target
                  /\ seek'.video = -1 /\ ~seek.pending
                  BY <2>2 DEF Stale, Inv, Typed, StateTyped, Seeks
            <3>2. Held' => Held /\ presenter'.picture = presenter.picture
                  BY <2>0, <2>2, NowFields DEF Release, Held, Holding
            <3>3. /\ AllFrom(seek.target) => AllFrom(seek.target)'
                  /\ AllFrom(info.position) => AllFrom(info.position)'
                  BY <1>1, <1>2, <2>0, <3>1, <3>2, AllFromKept
            <3>4. worker.pc \in Reading => AllFrom(seek.target) /\ AllFrom(info.position)
                  BY <2>0, <2>2, AcceptedPicture
            <3>5. worker.pc \notin {"open", "seek"}
                  BY <2>0, <2>2 DEF Stale, Held, Holding, Inv, Pictures, Lives, Closed
            <3> QED BY <1>1, <2>0, <3>1, <3>3, <3>4, <3>5, NumbersTyped DEF Aimed
      <2> QED BY <1>5, <2>1, <2>2 DEF CheckPicture, HandOn
<1>6. CASE TakeCoarsePreview
      <2>1. seek'.pending = seek.pending /\ seek'.target = seek.target
            /\ seek'.video = seek.video
            BY <1>6 DEF TakeCoarsePreview, Inv, Typed, StateTyped, Seeks
      <2> QED BY <1>4, <1>6, <2>1 DEF TakeCoarsePreview, HandOn, Holding
<1>7. CASE GiveUpPicture \/ Show
      BY <1>4, <1>7 DEF GiveUpPicture, Show, Holding
<1>8. CASE ClockForPicture
      <2>1. info'.position = info.position /\ UNCHANGED <<queue, presenter, seek>>
            BY <1>8 DEF ClockForPicture, StartClock, Inv, Typed, StateTyped, Infos
      <2> QED BY <1>1, <2>1, SameAim
<1>9. CASE PresentPicture
      <2>1. /\ worker.pc \in Reading \ {"open", "seek", "hold"} /\ seek.video = -1
            /\ AllFrom(seek.target) /\ AllFrom(info.position)
            /\ AllFrom(presenter.picture.at)
            BY <1>9, DuePicture DEF PresentPicture
      <2>2. presenter'.pc = "show" /\ presenter'.picture = presenter.picture
            BY <1>9, NowFields DEF PresentPicture
      <2>3. seek'.pending = seek.pending /\ seek'.target = seek.target
            /\ seek'.video = seek.video
            BY <1>9 DEF PresentPicture, Inv, Typed, StateTyped, Seeks
      <2>4. info'.position \in {presenter.picture.at,
                               Larger(info.position, presenter.picture.at)}
            BY <1>9 DEF PresentPicture, Inv, Typed, StateTyped, Infos
      <2>5. info'.position \in {presenter.picture.at, info.position}
            BY <2>4 DEF Larger
      <2>6. presenter.picture.at \in Nat
            BY PicturesTyped
      <2>7. \A second \in Nat : AllFrom(second) => AllFrom(second)'
            BY <1>1, <1>2, <1>9, <2>2, AllFromKept DEF PresentPicture, Held, Holding
      <2>8. AllFrom(seek.target)'
            BY <1>2, <2>1, <2>3, <2>7
      <2>9. AllFrom(info.position)'
            BY <1>2, <2>1, <2>5, <2>6, <2>7
      <2> QED BY <1>1, <2>1, <2>2, <2>3, <2>8, <2>9, NumbersTyped DEF Inv, Aimed
<1> QED BY <1>3, <1>5, <1>6, <1>7, <1>8, <1>9 DEF Presenter

LEMMA AimedStep == Inv /\ [Next]_vars => Aimed'
<1> SUFFICES ASSUME Inv, [Next]_vars PROVE Aimed'
    OBVIOUS
<1>1. CASE UNCHANGED vars
      BY <1>1, SameAim DEF vars
<1> QED BY <1>1, AimedCommands, AimedControl, AimedWorker, AimedPresenter DEF Next

-----------------------------------------------------------------------------
LEMMA Initially == Init => Inv
<1> SUFFICES ASSUME Init PROVE Inv
    OBVIOUS
<1> USE DEF Init
<1>1. InitialInfo(0, 0) \in Infos /\ InitialSeek(0) \in Seeks
      BY InfosTyped, PositionsTyped
<1>2. CallsTyped
      BY PositionsTyped DEF CallsTyped, Calls, CallPcs, IdleCall, Callers
<1>3. StateTyped
      BY <1>1 DEF StateTyped, Seeks
<1>4. WorkerTyped
      BY PositionsTyped DEF WorkerTyped, Workers, WorkerPcs, NoWorker, InitialReads, Progress,
         LastPacket
<1>5. QueueTyped
      BY NothingQueued DEF QueueTyped
<1>6. PresenterTyped
      BY DEF PresenterTyped, Presenters, PresenterPcs, NoPicture, Picture
<1>7. DecoderTyped
      BY DEF DecoderTyped, Limited, Decoders
<1>8. Serialised
      BY DEF Serialised, IdleCall, Callers
<1>9. Lives
      BY DEF Lives, Closed, Ending, NoWorker, InitialInfo
<1>10. Pictures
      BY DEF Pictures, Held, Holding
<1>11. Aimed
      BY DEF Aimed, InitialSeek, NoWorker, Reading
<1> QED BY <1>2, <1>3, <1>4, <1>5, <1>6, <1>7, <1>8, <1>9, <1>10, <1>11 DEF Inv, Typed

THEOREM Invariance == Spec => []Inv
<1>1. Inv /\ [Next]_vars => Inv'
      BY TypedStep, SerialisedStep, LivesStep, PicturesStep, AimedStep DEF Inv
<1> QED BY Initially, <1>1, PTL DEF Spec

(* The state of the player, of the threads and of what they share has the  *)
(* types the code gives it.                                                *)
THEOREM PlayerTypeCorrect == Spec => []TypeOK
<1>1. Inv => TypeOK
      BY TypeParts DEF Inv
<1> QED BY <1>1, Invariance, PTL

(* When the item is reported as ended, no picture of it is queued or held  *)
(* by the presenter (markEnded() after waitForPresenterIdle()).            *)
THEOREM EndIsLast == Spec => []NothingAfterEnd
<1>1. Inv => NothingAfterEnd
      BY DEF Inv, Lives, Resting, NothingAfterEnd
<1> QED BY <1>1, Invariance, PTL

(* waitForPresentation() only lets a picture go that is at or after the    *)
(* target of the last seek, wherever the seek met it on its way.           *)
THEOREM ShownFromTarget == Spec => PictureAtTarget
<1>1. Inv => (PresentPicture => presenter.picture.at >= seek.target)
      <2>1. Inv /\ PresentPicture => seek.target <= presenter.picture.at
            BY DuePicture DEF PresentPicture
      <2> QED BY <2>1, NumbersTyped, PicturesTyped
<1>2. Inv => [PresentPicture => presenter.picture.at >= seek.target]_vars
      BY <1>1
<1> QED BY <1>2, Invariance, PTL DEF PictureAtTarget

-----------------------------------------------------------------------------
(* The player implements PlayerPromise: every step is one of its steps, or *)
(* leaves what it promises about as it is.                                 *)
Simulated == Promise!Next \/ UNCHANGED Promise!promised

LEMMA Playing ==
    ASSUME Inv, worker.pc # "none"
    PROVE  ItemPlayed = worker.item /\ worker.item \in Items /\ ItemPlayed # NoItem
<1> QED BY DEF Inv, Typed, WorkerTyped, ItemPlayed

LEMMA Stutter ==
    ASSUME ItemPlayed' = ItemPlayed, info'.position = info.position, info'.ended = info.ended,
           ItemShown' = ItemShown
    PROVE  Simulated
<1> QED BY DEF Simulated, Promise!promised

LEMMA SimulatedCommands == Inv /\ Commands => Simulated
<1> SUFFICES ASSUME Inv, Commands PROVE Simulated
    OBVIOUS
<1>1. ItemPlayed' = ItemPlayed /\ ItemShown' = ItemShown /\ info'.ended = info.ended
      BY CommandsFrame DEF ItemPlayed, ItemShown
<1>2. CASE info'.position = info.position
      BY <1>1, <1>2, Stutter
<1>3. ASSUME NEW asked \in Targets, Seek(asked), SeekLocked(Clamped(asked)), ~Reopens
      PROVE  Simulated
      <2>1. Clamped(asked) \in Positions
            BY PositionsTyped, SmallerLarger DEF Clamped
      <2>2. info'.position = Clamped(asked)
            BY <1>3 DEF SeekLocked, Inv, Typed, StateTyped, Infos
      <2>3. ~info.ended
            BY <1>3 DEF Reopens, Inv, Lives
      <2>4. Promise!Scrub
            BY <1>1, <2>1, <2>2, <2>3 DEF Promise!Scrub
      <2> QED BY <2>4 DEF Simulated, Promise!Next
<1>4. CASE PauseForPlaylistRemoval \/ \E rate \in {0, 1} : SetRate(rate)
      BY <1>2, <1>4 DEF PauseForPlaylistRemoval, SetRate, Inv, Typed, StateTyped, Infos
<1> QED BY <1>2, <1>3, <1>4 DEF Commands, Play, Stop, Seek

LEMMA SimulatedControl == Inv /\ Control => Simulated
<1> SUFFICES ASSUME Inv, NEW c \in Callers, Lock(c) \/ Join(c) \/ Start(c) PROVE Simulated
    BY DEF Control
<1>1. ItemShown' = ItemShown
      BY DEF Lock, Join, Start, ItemShown
<1>2. CASE Lock(c)
      BY <1>1, <1>2, Stutter DEF Lock, ItemPlayed
<1>3. CASE Join(c)
      <2>1. ItemShown = NoItem
            BY <1>3 DEF Join, Joined, Inv, Lives, Closed, ItemShown
      <2>2. ItemPlayed' = NoItem
            BY <1>3 DEF Join, NoWorker, ItemPlayed
      <2>3. info'.position = info.position /\ info'.ended = info.ended
            BY <1>3 DEF Join, Inv, Typed, StateTyped, Infos
      <2>4. Promise!Stop
            BY <1>1, <2>1, <2>2, <2>3 DEF Promise!Stop
      <2> QED BY <2>4 DEF Simulated, Promise!Next
<1>4. CASE Start(c)
      <2> DEFINE p == call[c]
      <2>1. /\ worker.pc = "none" /\ ItemPlayed = NoItem
            /\ p.item \in Items /\ p.item # NoItem /\ p.start \in Positions
            BY <1>4, PositionsTyped
            DEF Start, Inv, Serialised, ItemPlayed, Typed, CallsTyped, Calls
      <2>2. \/ /\ info' = InitialInfo(p.start, p.rate)
               /\ worker' = [pc |-> "open", item |-> p.item, to |-> p.start, next |-> 0]
            \/ info' = OpenFailed(InitialInfo(p.start, p.rate)) /\ UNCHANGED worker
            BY <1>4 DEF Start
      <2>3. /\ InitialInfo(p.start, p.rate).position = p.start
            /\ InitialInfo(p.start, p.rate).ended = FALSE
            /\ OpenFailed(InitialInfo(p.start, p.rate)).position = p.start
            /\ OpenFailed(InitialInfo(p.start, p.rate)).ended = TRUE
            BY DEF InitialInfo, OpenFailed
      <2>4. \/ ItemPlayed' = p.item /\ info'.ended = FALSE /\ info'.position = p.start
            \/ ItemPlayed' = NoItem /\ info'.ended = TRUE /\ info'.position = p.start
            BY <2>1, <2>2, <2>3 DEF ItemPlayed
      <2>5. info'.ended = (ItemPlayed' = NoItem)
            BY <2>1, <2>4
      <2>6. Promise!Play(p.item)
            BY <1>1, <2>1, <2>4, <2>5 DEF Promise!Play
      <2> QED BY <2>1, <2>6 DEF Simulated, Promise!Next
<1> QED BY <1>2, <1>3, <1>4

LEMMA SimulatedWorker == Inv /\ Worker => Simulated
<1> SUFFICES ASSUME Inv, Worker PROVE Simulated
    OBVIOUS
<1>1. /\ worker.pc # "none" /\ worker'.pc # "none" /\ worker'.item = worker.item
      BY WorkerFrame
<1>2. ItemPlayed' = ItemPlayed /\ ItemPlayed # NoItem
      BY <1>1, Playing DEF ItemPlayed
<1>3. info.position \in Nat /\ info.position \in Positions
      BY NumbersTyped DEF Inv, Typed, StateTyped, Infos
<1>4. CASE Open
      <2>1. presenter.pc = "none" /\ ~info.ended
            BY <1>4 DEF Open, Inv, Lives, Closed
      <2>2. ItemShown = NoItem /\ ItemShown' = NoItem
            <3>1. UNCHANGED presenter \/ presenter' = [pc |-> "wait", picture |-> NoPicture]
                  BY <1>4 DEF Open
            <3> QED BY <2>1, <3>1 DEF ItemShown
      <2>3. CASE UNCHANGED info
            BY <1>2, <2>2, <2>3, Stutter
      <2>4. CASE info' = OpenFailed(info)
            <3>1. info'.ended = TRUE /\ info'.position = info.position
                  BY <2>4 DEF OpenFailed, Inv, Typed, StateTyped, Infos
            <3>2. Promise!End
                  BY <1>2, <2>2, <3>1 DEF Promise!End
            <3> QED BY <3>2 DEF Simulated, Promise!Next
      <2>5. ASSUME NEW known \in BOOLEAN,
                   info' = [info EXCEPT
                       !.position = IF known THEN Smaller(@, Duration) ELSE @,
                       !.known = known, !.ready = TRUE]
            PROVE  Simulated
            <3>1. /\ info'.position \in {info.position, Smaller(info.position, Duration)}
                  /\ info'.ended = info.ended
                  BY <2>5 DEF Inv, Typed, StateTyped, Infos
            <3>2. Promise!MovesOn
                  BY <1>3, <3>1, PositionsTyped DEF Promise!MovesOn, Smaller
            <3>3. Promise!Advance
                  BY <1>2, <2>1, <2>2, <3>1, <3>2 DEF Promise!Advance
            <3> QED BY <3>3 DEF Simulated, Promise!Next
      <2> QED BY <1>4, <2>3, <2>4, <2>5 DEF Open
<1>5. CASE Loop \/ TakeSeek \/ Reposition \/ Read \/ QueuePicture \/ Decoded
           \/ ContinueInSoftware \/ CheckSound \/ SkipSound \/ ClockForSound \/ PresentSound
           \/ ReadOnAfterEnd \/ WaitForPresenterIdle \/ Quit
      <2>1. UNCHANGED info \/ info' = [info EXCEPT !.clock = TRUE]
            \/ info' = [info EXCEPT !.clock = FALSE]
            BY <1>5 DEF Loop, TakeSeek, Reposition, Read, QueuePicture, Decoded,
               ContinueInSoftware, CheckSound, SkipSound, ClockForSound, StartClock,
               PresentSound, ReadOnAfterEnd, WaitForPresenterIdle, Quit
      <2>2. info'.position = info.position /\ info'.ended = info.ended
            BY <2>1 DEF Inv, Typed, StateTyped, Infos
      <2>3. \/ UNCHANGED presenter
            \/ presenter' = [presenter EXCEPT !.picture = Aged(@)]
            \/ presenter.pc = "gone" /\ presenter' = [presenter EXCEPT !.pc = "none"]
            BY <1>5 DEF Loop, TakeSeek, Reposition, Read, QueuePicture, Decoded,
               ContinueInSoftware, CheckSound, SkipSound, ClockForSound, StartClock,
               PresentSound, ReadOnAfterEnd, WaitForPresenterIdle, Quit
      <2>4. ItemShown' = ItemShown
            BY <2>3 DEF ItemShown, Aged, Inv, Typed, PresenterTyped, Presenters
      <2> QED BY <1>2, <2>2, <2>4, Stutter
<1>6. CASE HoldUntilEnd
      <2>1. ItemShown' = ItemShown /\ ~info.ended
            BY <1>6 DEF HoldUntilEnd, ItemShown, Inv, Lives
      <2>2. CASE UNCHANGED info
            BY <1>2, <2>1, <2>2, Stutter
      <2>3. CASE info.position < HeldUntil /\ info' = [info EXCEPT !.position = HeldUntil]
            <3>1. info'.position = HeldUntil /\ info'.ended = info.ended
                  BY <2>3 DEF Inv, Typed, StateTyped, Infos
            <3>2. HeldUntil = Duration
                  BY <1>3, <2>3 DEF HeldUntil
            <3>3. Promise!MovesOn
                  BY <1>3, <2>3, <3>1, <3>2, PositionsTyped DEF Promise!MovesOn
            <3>4. Promise!Advance
                  BY <1>2, <2>1, <3>1, <3>3 DEF Promise!Advance
            <3> QED BY <3>4 DEF Simulated, Promise!Next
      <2> QED BY <1>6, <2>2, <2>3 DEF HoldUntilEnd
<1>7. CASE MarkEnded
      <2>1. ItemShown' = ItemShown
            BY <1>7 DEF MarkEnded, ItemShown
      <2>2. CASE stop_requested
            BY <1>2, <1>7, <2>1, <2>2, Stutter DEF MarkEnded
      <2>3. CASE ~stop_requested
            <3>1. ItemShown = NoItem
                  BY <1>7, <2>3 DEF MarkEnded, Inv, Lives, Ending, PresenterIdle, ItemShown
            <3>2. info'.ended = TRUE /\ info'.position = info.position
                  BY <1>7, <2>3 DEF MarkEnded, Inv, Typed, StateTyped, Infos
            <3>3. Promise!End
                  BY <1>2, <2>1, <3>1, <3>2 DEF Promise!End
            <3> QED BY <3>3 DEF Simulated, Promise!Next
      <2> QED BY <2>2, <2>3
<1> QED BY <1>4, <1>5, <1>6, <1>7 DEF Worker

LEMMA SimulatedPresenter == Inv /\ Presenter => Simulated
<1> SUFFICES ASSUME Inv, Presenter PROVE Simulated
    OBVIOUS
<1>1. UNCHANGED worker /\ presenter.pc # "none" /\ info'.ended = info.ended
      BY PresenterFrame
<1>2. worker.pc # "none"
      BY <1>1 DEF Inv, Lives, Closed
<1>3. ItemPlayed' = ItemPlayed /\ ItemPlayed = worker.item /\ ItemPlayed # NoItem
      BY <1>1, <1>2, Playing DEF ItemPlayed
<1>4. info.position \in Nat /\ info.position \in Positions
      BY NumbersTyped DEF Inv, Typed, StateTyped, Infos
(* A picture comes on screen.                                              *)
<1>5. ASSUME Now("show"), presenter.pc \in {"due", "late"}, Promise!MovesOn PROVE Simulated
      <2>1. presenter.picture.item = worker.item /\ ~info.ended
            BY <1>5 DEF Inv, Pictures, Held, Holding, Lives, Resting
      <2>2. ItemShown = NoItem /\ ItemShown' = worker.item
            BY <1>5, <2>1, NowFields DEF ItemShown
      <2>3. Promise!Show
            BY <1>1, <1>3, <1>5, <2>1, <2>2 DEF Promise!Show
      <2> QED BY <2>3 DEF Simulated, Promise!Next
(* One that does not come on screen.                                       *)
<1>6. ASSUME presenter.pc # "show", info'.position = info.position, presenter'.pc # "show"
      PROVE  Simulated
      BY <1>1, <1>3, <1>6, Stutter DEF ItemShown
<1>7. ASSUME presenter.pc # "show", info'.position = info.position,
             \/ Release \/ UNCHANGED presenter
             \/ \E pc \in {"late", "due"} : Now(pc)
      PROVE  Simulated
      BY <1>6, <1>7, NowFields DEF Release
<1>8. CASE Take
      BY <1>6, <1>8 DEF Take
<1>9. CASE CheckPicture
      BY <1>7, <1>9 DEF CheckPicture, HandOn
<1>10. CASE TakeCoarsePreview
      <2>1. presenter.pc = "late" /\ UNCHANGED info
            BY <1>10 DEF TakeCoarsePreview
      <2>2. Promise!MovesOn
            BY <1>4, <2>1 DEF Promise!MovesOn
      <2> QED BY <1>5, <1>7, <1>10, <2>1, <2>2 DEF TakeCoarsePreview, HandOn
<1>11. CASE GiveUpPicture
      BY <1>7, <1>11 DEF GiveUpPicture
<1>12. CASE ClockForPicture
      BY <1>7, <1>12 DEF ClockForPicture, StartClock, Inv, Typed, StateTyped, Infos
<1>13. CASE PresentPicture
      <2>1. AllFrom(info.position)
            BY <1>13, DuePicture DEF PresentPicture
      <2>2. /\ presenter.picture.fresh /\ Held /\ presenter.picture.at \in Nat
            BY <1>13, PicturesTyped DEF PresentPicture, Stale, Held, Holding
      <2>3. info.position <= presenter.picture.at
            BY <1>4, <2>1, <2>2 DEF AllFrom
      <2>4. info'.position \in {presenter.picture.at,
                               Larger(info.position, presenter.picture.at)}
            BY <1>13 DEF PresentPicture, Inv, Typed, StateTyped, Infos
      <2>5. info'.position \in {presenter.picture.at, info.position}
            BY <2>4 DEF Larger
      <2>6. presenter.picture.at \in Positions
            BY PositionsTyped DEF Inv, Typed, PresenterTyped, Presenters
      <2>7. Promise!MovesOn
            BY <1>4, <2>2, <2>3, <2>5, <2>6 DEF Promise!MovesOn
      <2> QED BY <1>5, <1>13, <2>7 DEF PresentPicture
<1>14. CASE Show
      <2>1. ItemShown = worker.item /\ ItemShown' = NoItem
            BY <1>14 DEF Show, Release, ItemShown, Inv, Pictures, Held, Holding
      <2>2. Promise!Shown
            BY <1>3, <1>14, <2>1 DEF Show, Promise!Shown
      <2> QED BY <2>2 DEF Simulated, Promise!Next
<1> QED BY <1>8, <1>9, <1>10, <1>11, <1>12, <1>13, <1>14 DEF Presenter

(* The player implements PlayerPromise: pictures only of the item that     *)
(* plays, none after its end or after stop() has returned, and a reported  *)
(* position that only the sender moves back.                               *)
THEOREM PlayerKeepsPromise == Spec => PromiseKept
<1>1. Init => Promise!Init
      BY DEF Init, Promise!Init, ItemPlayed, ItemShown, NoWorker, InitialInfo
<1>2. Inv /\ [Next]_vars => [Promise!Next]_(Promise!promised)
      <2> SUFFICES ASSUME Inv, [Next]_vars PROVE Simulated
          BY DEF Simulated
      <2>1. CASE UNCHANGED vars
            BY <2>1, Stutter DEF vars, ItemPlayed, ItemShown
      <2> QED BY <2>1, SimulatedCommands, SimulatedControl, SimulatedWorker, SimulatedPresenter
              DEF Next
<1> QED BY <1>1, <1>2, Invariance, PTL DEF Spec, PromiseKept, Promise!Spec
====
