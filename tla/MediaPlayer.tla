----------------------------- MODULE MediaPlayer -----------------------------
(***************************************************************************)
(* MediaPlayer::Impl (src/media-player.cpp): the AirPlay video player.     *)
(* Its commands come from UxPlay's HTTP thread and, for stop(), from other *)
(* threads as well; one worker thread per item opens it, reads packets,    *)
(* hands pictures to a queue and presents the sound itself; one presenter  *)
(* thread per item takes the pictures from the queue and shows them.       *)
(*                                                                         *)
(* An item has one picture and one packet of sound for every second of its *)
(* Duration, read in the order picture 0, sound 0, picture 1, ..., and a   *)
(* decoder hands out what it was given at once.  The tolerances of the     *)
(* code are below a second, except kEndTolerance, which is one.  A due     *)
(* time is any time at which the clock runs.  An epoch is only compared    *)
(* with the current one, so a picture carries whether its epoch still is   *)
(* (fresh); the same holds for m_seek_generation.  Items without pictures  *)
(* are left out, and so is the setting "follow the sender's clock", which  *)
(* is off by default.                                                      *)
(***************************************************************************)
EXTENDS Integers, Sequences

CONSTANTS
    Items,             \* the locations a sender can play
    NoItem,            \* an empty location
    Duration,          \* of every item
    Targets,           \* the positions a sender names
    QueueFrames,       \* kVideoQueueFrames
    MaxRecoveries,     \* kMaxReadRecoveries
    Hardware,          \* hardware_decode_requested()
    MaxHardwareErrors, \* kMaxHardwareErrors
    MaxCommands,       \* bound: commands on the HTTP thread
    MaxStops           \* bound: stops by other threads

ASSUME PlayerAssumption ==
    /\ NoItem \notin Items
    /\ Duration \in Nat \ {0} /\ Targets \subseteq Nat
    /\ QueueFrames \in Nat \ {0} /\ MaxRecoveries \in Nat
    /\ Hardware \in BOOLEAN /\ MaxHardwareErrors \in Nat \ {0}
    /\ MaxCommands \in Nat /\ MaxStops \in Nat

Callers == {"http", "other"}

VARIABLES
    control,        \* the holder of m_control_mutex
    call,           \* per caller, the play() or stop() it is in
    stop_requested, \* m_stop_requested
    info,           \* m_info, and whether the clock runs (m_clock_initialized)
    location,       \* m_current_location
    seek,           \* the members that describe the last seek
    worker,         \* the worker thread: where it is, its item, what it reads
    reads,          \* ReadProgress of the worker
    queue,          \* m_video_queue
    presenter,      \* the presenter thread: where it is, the picture it holds
    decoder,        \* VideoOutput: hardware, hardware_errors, reopen_in_software
    commands        \* commands issued so far

vars == <<control, call, stop_requested, info, location, seek, worker, reads, queue,
          presenter, decoder, commands>>

-----------------------------------------------------------------------------
Smaller(a, b) == IF a < b THEN a ELSE b
Larger(a, b) == IF a > b THEN a ELSE b

LastPacket == 2 * Duration
Second(packet) == packet \div 2
IsPicture(packet) == packet % 2 = 0
FirstPackets(second) == {2 * s : s \in 0..Smaller(second, Duration)}

Picture(item, second) == [item |-> item, at |-> second, fresh |-> TRUE]
NoPicture == Picture(NoItem, 0)

(* What play() sets, before the worker is started. *)
InitialInfo(start, rate) ==
    [rate |-> rate, position |-> start, ready |-> FALSE, ended |-> FALSE, known |-> FALSE,
     clock |-> FALSE]

InitialSeek(start) ==
    [pending |-> FALSE, target |-> start, last |-> -1, burst |-> FALSE, coarse |-> FALSE,
     again |-> FALSE, preview |-> TRUE, resync |-> FALSE,
     video |-> IF start > 0 THEN start ELSE -1, audio |-> IF start > 0 THEN start ELSE -1]

InitialReads ==
    [recoveries |-> 0, at |-> -1, asked |-> FALSE, until |-> 0, current |-> TRUE,
     since |-> FALSE]

NoWorker == [pc |-> "none", item |-> NoItem, to |-> 0, next |-> 0]
IdleCall == [pc |-> "idle", item |-> NoItem, start |-> 0, rate |-> 0]

Init ==
    /\ control = "free" /\ call = [c \in Callers |-> IdleCall]
    /\ stop_requested = TRUE
    /\ info = InitialInfo(0, 0) /\ location = NoItem
    /\ seek = [InitialSeek(0) EXCEPT !.preview = FALSE]
    /\ worker = NoWorker /\ reads = InitialReads
    /\ queue = <<>> /\ presenter = [pc |-> "none", picture |-> NoPicture]
    /\ decoder = [hardware |-> FALSE, errors |-> 0, reopen |-> FALSE]
    /\ commands = [c \in Callers |-> 0]

-----------------------------------------------------------------------------
(* Commands.  play() and stop() of all threads are serialised by           *)
(* m_control_mutex; seek(), setRate() and pauseForPlaylistRemoval() take   *)
(* m_state_mutex only.                                                     *)
Command(c) ==
    /\ call[c].pc = "idle"
    /\ commands[c] < (IF c = "http" THEN MaxCommands ELSE MaxStops)
    /\ commands' = [commands EXCEPT ![c] = @ + 1]

Enter(c, item, start, rate) ==
    call' = [call EXCEPT ![c] = [pc |-> "lock", item |-> item, start |-> start, rate |-> rate]]

Play(item, start) ==
    /\ Command("http") /\ Enter("http", item, start, 1)
    /\ UNCHANGED <<control, stop_requested, info, location, seek, worker, reads, queue,
                   presenter, decoder>>

Stop(c) ==
    /\ Command(c) /\ Enter(c, NoItem, 0, 0)
    /\ UNCHANGED <<control, stop_requested, info, location, seek, worker, reads, queue,
                   presenter, decoder>>

(* stopLocked(), first half: ask the threads of the item to leave. *)
Lock(c) ==
    /\ call[c].pc = "lock" /\ control = "free"
    /\ control' = c /\ stop_requested' = TRUE
    /\ call' = [call EXCEPT ![c].pc = "join"]
    /\ UNCHANGED <<info, location, seek, worker, reads, queue, presenter, decoder, commands>>

(* Mutant: stop() returns without waiting for the worker. *)
JoinedAnyway == worker.pc # "open"

Joined == worker.pc \in {"none", "exit"}

(* stopLocked(), second half: the worker is joined. *)
Join(c) ==
    /\ call[c].pc = "join" /\ Joined
    /\ worker' = NoWorker
    /\ info' = [info EXCEPT !.rate = 0, !.ready = FALSE, !.clock = FALSE]
    /\ IF call[c].item = NoItem
       THEN control' = "free" /\ call' = [call EXCEPT ![c] = IdleCall]
       ELSE control' = control /\ call' = [call EXCEPT ![c].pc = "start"]
    /\ UNCHANGED <<stop_requested, location, seek, reads, queue, presenter, decoder, commands>>

OpenFailed(before) == [before EXCEPT !.ready = FALSE, !.rate = 0, !.ended = TRUE]

(* play(), after stopLocked(): the thread may fail to start. *)
Start(c) ==
    LET p == call[c] IN
    /\ p.pc = "start"
    /\ location' = p.item /\ seek' = InitialSeek(p.start) /\ reads' = InitialReads
    /\ \/ /\ info' = InitialInfo(p.start, p.rate) /\ stop_requested' = FALSE
          /\ worker' = [pc |-> "open", item |-> p.item, to |-> p.start, next |-> 0]
       \/ /\ info' = OpenFailed(InitialInfo(p.start, p.rate))
          /\ UNCHANGED <<stop_requested, worker>>
    /\ control' = "free" /\ call' = [call EXCEPT ![c] = IdleCall]
    /\ UNCHANGED <<queue, presenter, decoder, commands>>

-----------------------------------------------------------------------------
(* seek() *)
Clamped(position) == IF info.known THEN Smaller(position, Duration) ELSE position

SeekIgnored(position) ==
    \/ /\ info.rate > 0 /\ info.ready /\ ~info.ended /\ ~seek.pending /\ info.clock
       /\ position = info.position
    \/ /\ info.rate <= 0 /\ ~info.ended /\ ~seek.pending /\ ~seek.preview
       /\ position = seek.last

SeekLocked(position) ==
    /\ \E burst \in (IF seek.again THEN BOOLEAN ELSE {FALSE}) :
         seek' = [pending |-> TRUE, target |-> position, last |-> position, burst |-> burst,
                  coarse |-> FALSE, again |-> TRUE, preview |-> TRUE, resync |-> FALSE,
                  video |-> position, audio |-> position]
    /\ reads' = [reads EXCEPT !.asked = TRUE, !.current = FALSE]
    /\ info' = [info EXCEPT !.position = position, !.clock = FALSE]

(* A seek after the end of the item opens it again there, paused. *)
Reopens == info.ended /\ location # NoItem

Seek(asked) ==
    LET position == Clamped(asked) IN
    /\ Command("http")
    /\ \/ /\ Reopens /\ Enter("http", location, position, 0)
          /\ UNCHANGED <<info, seek, reads>>
       \/ ~Reopens /\ SeekIgnored(position) /\ UNCHANGED <<call, info, seek, reads>>
       \/ ~Reopens /\ ~SeekIgnored(position) /\ SeekLocked(position) /\ UNCHANGED call
    /\ UNCHANGED <<control, stop_requested, location, worker, queue, presenter, decoder>>

(* A seek the player asks of itself, to a position it is already at. *)
ReseekTo(position) ==
    [seek EXCEPT !.pending = TRUE, !.target = position, !.video = position,
                 !.audio = position]

SetRate(rate) ==
    /\ Command("http")
    /\ IF info.ended /\ rate > 0 THEN UNCHANGED <<info, seek>>
       ELSE /\ info' = [info EXCEPT !.rate = rate]
            /\ seek' = IF rate = 0 THEN seek
                       ELSE [IF seek.resync /\ ~seek.pending THEN ReseekTo(info.position)
                             ELSE seek EXCEPT !.preview = FALSE, !.resync = FALSE]
    /\ UNCHANGED <<control, call, stop_requested, location, worker, reads, queue, presenter,
                   decoder>>

PauseForPlaylistRemoval ==
    /\ Command("http")
    /\ info' = [info EXCEPT !.rate = 0, !.clock = FALSE]
    /\ UNCHANGED <<control, call, stop_requested, location, seek, worker, reads, queue,
                   presenter, decoder>>

-----------------------------------------------------------------------------
(* The worker thread. *)
At(pc) == worker' = [worker EXCEPT !.pc = pc]

(* Mutant: only a seek ends a wait of the worker. *)
SeekPendingOnly == seek.pending

StopOrSeekPending == stop_requested \/ seek.pending

(* run() up to openItem(): a stop interrupts it, a failure ends the item,  *)
(* or the item opens, is positioned and gets its presenter thread.         *)
Open ==
    /\ worker.pc = "open"
    /\ \/ /\ stop_requested /\ At("exit") /\ UNCHANGED <<info, presenter, decoder>>
       \/ /\ At("exit") /\ info' = OpenFailed(info) /\ UNCHANGED <<presenter, decoder>>
       \/ /\ \E known \in BOOLEAN :
               info' = [info EXCEPT !.position = IF known THEN Smaller(@, Duration) ELSE @,
                                    !.known = known, !.ready = TRUE]
          /\ \E first \in FirstPackets(worker.to) :
               worker' = [worker EXCEPT !.pc = "loop", !.next = first]
          /\ presenter' = [pc |-> "wait", picture |-> NoPicture]
          /\ \E device \in {Hardware, FALSE} :
               decoder' = [hardware |-> device, errors |-> 0, reopen |-> FALSE]
    /\ UNCHANGED <<control, call, stop_requested, location, seek, reads, queue, commands>>

(* The loop of playItem(). *)
Loop ==
    /\ worker.pc = "loop"
    /\ \/ stop_requested /\ At("quit")
       \/ ~StopOrSeekPending /\ At("read")
    /\ UNCHANGED <<control, call, stop_requested, info, location, seek, reads, queue,
                   presenter, decoder, commands>>

Aged(picture) == [picture EXCEPT !.fresh = FALSE]

(* handlePendingSeek() takes the seek and advances m_queue_epoch ...       *)
TakeSeek ==
    /\ worker.pc = "loop" /\ ~stop_requested /\ seek.pending
    /\ seek' = [seek EXCEPT !.pending = FALSE]
    /\ info' = [info EXCEPT !.clock = FALSE]
    /\ queue' = [i \in DOMAIN queue |-> Aged(queue[i])]
    /\ presenter' = [presenter EXCEPT !.picture = Aged(@)]
    /\ worker' = [worker EXCEPT !.pc = "seek", !.to = seek.target]
    /\ UNCHANGED <<control, call, stop_requested, location, reads, decoder, commands>>

(* ... then clears the queue and repositions the demuxer, which may fail   *)
(* and leave it where it was.                                              *)
Reposition ==
    /\ worker.pc = "seek"
    /\ queue' = <<>>
    /\ \/ \E first \in FirstPackets(worker.to) :
            worker' = [worker EXCEPT !.pc = "read", !.next = first]
       \/ At("read")
    /\ reads' = [reads EXCEPT !.since = FALSE]
    /\ UNCHANGED <<control, call, stop_requested, info, location, seek, presenter, decoder,
                   commands>>

(* av_read_frame() and noteDemuxed(); at any packet the read may fail or   *)
(* report the end of the file.                                             *)
Read ==
    /\ worker.pc = "read"
    /\ \/ /\ worker.next < LastPacket
          /\ LET second == Second(worker.next) IN
             reads' = [reads EXCEPT
                 !.until = IF reads.current THEN Larger(@, second + 1) ELSE second + 1,
                 !.current = TRUE, !.since = TRUE]
          /\ worker' = [worker EXCEPT !.next = @ + 1,
                            !.pc = IF IsPicture(worker.next) THEN "picture" ELSE "sound"]
       \/ At("end") /\ UNCHANGED reads
    /\ UNCHANGED <<control, call, stop_requested, info, location, seek, queue, presenter,
                   decoder, commands>>

PacketAt == Second(worker.next - 1)

(* noteHardwareError() *)
HardwareError(d) ==
    IF ~d.hardware \/ d.reopen THEN d
    ELSE [d EXCEPT !.errors = @ + 1, !.reopen = d.errors + 1 >= MaxHardwareErrors]

(* Mutant: the queue takes one picture too many. *)
RoomForOneMore == Len(queue) <= QueueFrames

Room == Len(queue) < QueueFrames

(* queueVideoFrame(): waits while the queue is full; a stop or a pending   *)
(* seek drops the picture.  The decoder may also give no picture.          *)
QueuePicture ==
    /\ worker.pc = "picture"
    /\ \/ StopOrSeekPending /\ UNCHANGED <<queue, decoder>>
       \/ /\ ~StopOrSeekPending /\ Room
          /\ queue' = Append(queue, Picture(worker.item, PacketAt))
          /\ UNCHANGED decoder
       \/ decoder' = HardwareError(decoder) /\ UNCHANGED queue
    /\ At("decoded")
    /\ UNCHANGED <<control, call, stop_requested, info, location, seek, reads, presenter,
                   commands>>

(* The end of decodePacket() *)
Decoded ==
    /\ worker.pc = "decoded"
    /\ At(IF decoder.reopen THEN "software" ELSE "loop")
    /\ UNCHANGED <<control, call, stop_requested, info, location, seek, reads, queue,
                   presenter, decoder, commands>>

(* Mutant: a picture the presenter holds does not count. *)
IdleIgnoresBusy == queue = <<>>

(* Under m_queue_mutex: nothing queued, and m_presenter_busy not set. *)
PresenterIdle == queue = <<>> /\ presenter.pc \in {"wait", "gone"}

(* Hardware decoding gave up: once the presenter is idle, decode the rest  *)
(* in software, from the picture on screen.                                *)
ContinueInSoftware ==
    /\ worker.pc = "software" /\ (PresenterIdle \/ stop_requested)
    /\ decoder' = [hardware |-> FALSE, errors |-> 0, reopen |-> FALSE]
    /\ IF seek.pending THEN UNCHANGED <<seek, info>>
       ELSE seek' = ReseekTo(info.position) /\ info' = [info EXCEPT !.clock = FALSE]
    /\ At("loop")
    /\ UNCHANGED <<control, call, stop_requested, location, reads, queue, presenter, commands>>

(* emitAudio(): shouldDiscard() for a packet of sound. *)
CheckSound ==
    /\ worker.pc = "sound"
    /\ IF seek.pending \/ (seek.audio >= 0 /\ PacketAt < seek.audio)
       THEN At("decoded") /\ UNCHANGED seek
       ELSE At("due") /\ seek' = [seek EXCEPT !.audio = -1]
    /\ UNCHANGED <<control, call, stop_requested, info, location, reads, queue, presenter,
                   decoder, commands>>

(* Mutant: a paused item waits with its sound. *)
WaitWhilePaused ==
    /\ worker.pc = "due" /\ At("decoded") /\ StopOrSeekPending
    /\ UNCHANGED <<control, call, stop_requested, info, location, seek, reads, queue,
                   presenter, decoder, commands>>

(* waitForPresentation() for sound: while a paused item looks for its      *)
(* preview, sound is moved; otherwise it waits until the item plays.     *)
SkipSound ==
    /\ worker.pc = "due" /\ At("decoded")
    /\ StopOrSeekPending \/ (info.rate = 0 /\ seek.preview)
    /\ UNCHANGED <<control, call, stop_requested, info, location, seek, reads, queue,
                   presenter, decoder, commands>>

(* An item that plays starts its clock, then waits for the due time. *)
StartClock ==
    /\ info.rate > 0 /\ ~info.clock
    /\ info' = [info EXCEPT !.clock = TRUE]
    /\ UNCHANGED <<control, call, stop_requested, location, seek, worker, reads, queue,
                   presenter, decoder, commands>>

ClockForSound == worker.pc = "due" /\ ~StopOrSeekPending /\ StartClock

PresentSound ==
    /\ worker.pc = "due" /\ ~StopOrSeekPending /\ info.rate > 0 /\ info.clock
    /\ At("decoded")
    /\ UNCHANGED <<control, call, stop_requested, info, location, seek, reads, queue, presenter,
                   decoder, commands>>

-----------------------------------------------------------------------------
(* The end of reading. *)
(* Mutant: a retry is not counted. *)
RetriesUncounted(r, recoveries) == [r EXCEPT !.recoveries = recoveries, !.asked = FALSE]

Counted(r, recoveries) == [r EXCEPT !.recoveries = recoveries + 1, !.asked = FALSE]

(* readOnAfterEnd(): a read that ends well before the item does is asked   *)
(* for again, at most MaxRecoveries times unless the output moves on.      *)
ReadOnAfterEnd ==
    LET recoveries == IF info.position > reads.at \/ reads.asked THEN 0 ELSE reads.recoveries
        covered == reads.current /\ reads.until >= Duration
        atEnd == IF worker.next = LastPacket /\ reads.since THEN BOOLEAN ELSE {FALSE}
    IN
    /\ worker.pc = "end"
    /\ \/ stop_requested /\ At("quit") /\ UNCHANGED <<info, seek, reads>>
       \/ /\ ~stop_requested /\ seek.pending /\ At("loop")
          /\ reads' = [reads EXCEPT !.recoveries = recoveries, !.asked = FALSE, !.since = FALSE]
          /\ UNCHANGED <<info, seek>>
       \/ /\ ~stop_requested /\ ~seek.pending
          /\ \E io_at_end \in atEnd :
               IF /\ ~io_at_end /\ info.known /\ info.position < Duration - 1 /\ ~covered
                  /\ recoveries < MaxRecoveries
               THEN /\ seek' = ReseekTo(info.position)
                    /\ info' = [info EXCEPT !.clock = FALSE]
                    /\ reads' = [Counted(reads, recoveries) EXCEPT
                                    !.at = info.position, !.since = FALSE]
                    /\ At("loop")
               ELSE /\ reads' = [reads EXCEPT !.recoveries = recoveries, !.asked = FALSE]
                    /\ At("idle") /\ UNCHANGED <<info, seek>>
    /\ UNCHANGED <<control, call, stop_requested, location, queue, presenter, decoder,
                   commands>>

WaitForPresenterIdle ==
    /\ worker.pc = "idle" /\ (PresenterIdle \/ stop_requested)
    /\ At("hold")
    /\ UNCHANGED <<control, call, stop_requested, info, location, seek, reads, queue,
                   presenter, decoder, commands>>

(* holdUntilEnd(): the last picture lasts until the end of the item, if    *)
(* that is known.                                                          *)
HeldUntil == IF info.known THEN Duration ELSE -1

HoldUntilEnd ==
    /\ worker.pc = "hold"
    /\ \/ /\ ~stop_requested /\ seek.pending
          /\ reads' = [reads EXCEPT !.since = FALSE] /\ At("loop") /\ UNCHANGED info
       \/ /\ \/ stop_requested
             \/ ~seek.pending /\ (HeldUntil <= info.position \/ ~info.clock)
          /\ At("mark") /\ UNCHANGED <<info, reads>>
       \/ /\ ~StopOrSeekPending /\ info.rate > 0 /\ info.clock /\ info.position < HeldUntil
          /\ info' = [info EXCEPT !.position = HeldUntil]
          /\ At("mark") /\ UNCHANGED reads
    /\ UNCHANGED <<control, call, stop_requested, location, seek, queue, presenter, decoder,
                   commands>>

MarkEnded ==
    /\ worker.pc = "mark"
    /\ info' = IF stop_requested THEN info ELSE [info EXCEPT !.ended = TRUE, !.rate = 0]
    /\ At("quit")
    /\ UNCHANGED <<control, call, stop_requested, location, seek, reads, queue, presenter,
                   decoder, commands>>

(* stop_presenter: m_presenter_quit is set, the presenter joined. *)
Quit ==
    /\ worker.pc = "quit" /\ presenter.pc = "gone"
    /\ presenter' = [presenter EXCEPT !.pc = "none"]
    /\ queue' = <<>> /\ At("exit")
    /\ UNCHANGED <<control, call, stop_requested, info, location, seek, reads, decoder,
                   commands>>

Worker ==
    \/ Open \/ Loop \/ TakeSeek \/ Reposition \/ Read \/ QueuePicture \/ Decoded
    \/ ContinueInSoftware \/ CheckSound \/ SkipSound \/ ClockForSound \/ PresentSound
    \/ ReadOnAfterEnd \/ WaitForPresenterIdle \/ HoldUntilEnd \/ MarkEnded \/ Quit

-----------------------------------------------------------------------------
(* The presenter thread. *)
Now(pc) == presenter' = [presenter EXCEPT !.pc = pc]

(* The picture is released and m_presenter_busy cleared. *)
Release == presenter' = [pc |-> "wait", picture |-> NoPicture]

(* presenterLoop() takes the next picture, or leaves. *)
Take ==
    /\ presenter.pc = "wait"
    /\ \/ /\ stop_requested \/ (worker.pc = "quit" /\ queue = <<>>)
          /\ presenter' = [pc |-> "gone", picture |-> NoPicture] /\ UNCHANGED queue
       \/ /\ ~stop_requested /\ queue # <<>>
          /\ presenter' = [pc |-> "taken", picture |-> Head(queue)] /\ queue' = Tail(queue)
    /\ UNCHANGED <<control, call, stop_requested, info, location, seek, worker, reads, decoder,
                   commands>>

(* Mutant: only a pending seek makes a picture stale. *)
StaleIfPending == seek.pending

Stale == seek.pending \/ ~presenter.picture.fresh

(* emitVideo() hands a picture on unless it cannot be read back from the   *)
(* hardware or cannot be converted.                                        *)
HandOn(pc, d) ==
    \/ (Now(pc) \/ Release) /\ decoder' = [d EXCEPT !.errors = 0]
    \/ d.hardware /\ Release /\ decoder' = HardwareError(d)

(* shouldDiscard() keeps the pictures from the target on.  One that a      *)
(* hardware decoder decoded in software asks for a software decoder.       *)
CheckPicture ==
    /\ presenter.pc = "taken"
    /\ \E inSoftware \in (IF decoder.hardware /\ presenter.picture.fresh
                          THEN BOOLEAN ELSE {FALSE}) :
         LET d == [decoder EXCEPT !.reopen = @ \/ inSoftware] IN
         IF Stale \/ (seek.video >= 0 /\ presenter.picture.at < seek.video)
         THEN Now("late") /\ decoder' = d /\ UNCHANGED seek
         ELSE HandOn("due", d) /\ seek' = [seek EXCEPT !.video = -1]
    /\ UNCHANGED <<control, call, stop_requested, info, location, worker, reads, queue,
                   commands>>

(* takeCoarsePreview(): during a drag, an earlier picture if the exact one *)
(* is late.                                                                *)
TakeCoarsePreview ==
    /\ presenter.pc = "late"
    /\ \/ Release /\ UNCHANGED <<seek, decoder>>
       \/ /\ ~Stale /\ info.rate = 0 /\ seek.preview /\ seek.burst /\ ~seek.coarse
          /\ presenter.picture.at < seek.video
          /\ seek' = [seek EXCEPT !.coarse = TRUE] /\ HandOn("show", decoder)
    /\ UNCHANGED <<control, call, stop_requested, info, location, worker, reads, queue,
                   commands>>

(* waitForPresentation() for a picture: given up on a stop or a seek,      *)
(* shown once when paused with a preview due, else when its time comes.    *)
GiveUpPicture ==
    /\ presenter.pc = "due" /\ (stop_requested \/ Stale)
    /\ Release
    /\ UNCHANGED <<control, call, stop_requested, info, location, seek, worker, reads, queue,
                   decoder, commands>>

ClockForPicture == presenter.pc = "due" /\ ~stop_requested /\ ~Stale /\ StartClock

PresentPicture ==
    /\ presenter.pc = "due" /\ ~stop_requested /\ ~Stale
    /\ \/ /\ info.rate = 0 /\ seek.preview
          /\ seek' = [seek EXCEPT !.preview = FALSE, !.resync = TRUE]
          /\ info' = [info EXCEPT !.position = presenter.picture.at, !.clock = FALSE]
       \/ /\ info.rate > 0 /\ info.clock
          /\ info' = [info EXCEPT !.position = Larger(@, presenter.picture.at)]
          /\ UNCHANGED seek
    /\ Now("show")
    /\ UNCHANGED <<control, call, stop_requested, location, worker, reads, queue, decoder,
                   commands>>

(* The video callback, outside the locks. *)
Show ==
    /\ presenter.pc = "show" /\ Release
    /\ UNCHANGED <<control, call, stop_requested, info, location, seek, worker, reads, queue,
                   decoder, commands>>

Presenter ==
    \/ Take \/ CheckPicture \/ TakeCoarsePreview \/ GiveUpPicture \/ ClockForPicture
    \/ PresentPicture \/ Show

-----------------------------------------------------------------------------
Control ==
    \E c \in Callers : Lock(c) \/ Join(c) \/ Start(c)

Commands ==
    \/ \E item \in Items, start \in Targets : Play(item, start)
    \/ \E c \in Callers : Stop(c)
    \/ \E position \in Targets : Seek(position)
    \/ \E rate \in {0, 1} : SetRate(rate)
    \/ PauseForPlaylistRemoval

Next == Commands \/ Control \/ Worker \/ Presenter

Spec == Init /\ [][Next]_vars

(* Threads run; a read or a lookup that blocks is interrupted by           *)
(* stop_requested or ends by its own timeout; the clock of an item that    *)
(* plays runs on.  Nothing is assumed of the sender.                       *)
FairSpec ==
    /\ Spec
    /\ \A c \in Callers : WF_vars(Lock(c)) /\ WF_vars(Join(c)) /\ WF_vars(Start(c))
    /\ WF_vars(Worker) /\ WF_vars(Presenter)

-----------------------------------------------------------------------------
Positions == Targets \cup 0..Duration

TypeOK ==
    /\ control \in Callers \cup {"free"}
    /\ call \in [Callers -> [pc : {"idle", "lock", "join", "start"}, item : Items \cup {NoItem},
                             start : Positions \cup {0}, rate : {0, 1}]]
    /\ stop_requested \in BOOLEAN
    /\ info \in [rate : {0, 1}, position : Positions, ready : BOOLEAN, ended : BOOLEAN,
                 known : BOOLEAN, clock : BOOLEAN]
    /\ location \in Items \cup {NoItem}
    /\ seek \in [pending : BOOLEAN, target : Positions, last : Positions \cup {-1},
                 burst : BOOLEAN, coarse : BOOLEAN, again : BOOLEAN, preview : BOOLEAN,
                 resync : BOOLEAN, video : Positions \cup {-1}, audio : Positions \cup {-1}]
    /\ worker \in [pc : {"none", "open", "loop", "seek", "read", "picture", "decoded",
                         "software", "sound", "due", "end", "idle", "hold", "mark", "quit",
                         "exit"},
                   item : Items \cup {NoItem}, to : Positions, next : 0..LastPacket]
    /\ reads \in [recoveries : 0..MaxRecoveries, at : Positions \cup {-1}, asked : BOOLEAN,
                  until : 0..Duration, current : BOOLEAN, since : BOOLEAN]
    /\ queue \in Seq([item : Items, at : 0..Duration, fresh : BOOLEAN])
    /\ Len(queue) <= QueueFrames
    /\ presenter \in [pc : {"none", "wait", "taken", "late", "due", "show", "gone"},
                      picture : [item : Items \cup {NoItem}, at : 0..Duration,
                                 fresh : BOOLEAN]]
    /\ decoder \in [hardware : BOOLEAN, errors : 0..MaxHardwareErrors, reopen : BOOLEAN]
    /\ commands \in [Callers -> Nat]

(* Once an item is reported as ended, no picture of it is still coming:    *)
(* what a sender that polls /playback-info acts upon.  The end of the      *)
(* input, the pictures queued and the one the presenter holds are reached  *)
(* by different threads.                                                   *)
NothingAfterEnd == info.ended => queue = <<>> /\ presenter.pc \in {"none", "wait", "gone"}

(* No picture from before the target of a seek is shown but a coarse       *)
(* preview: the presenter accepts a picture only at or after the target of *)
(* the last seek, however the seek fell between the queue, the discarding  *)
(* and the wait for the due time.                                          *)
PictureAtTarget ==
    [][PresentPicture => presenter.picture.at >= seek.target]_vars

(* The player keeps what module PlayerPromise promises, whatever the       *)
(* threads do: it shows pictures only of the item that plays, none after   *)
(* its end or after stop() has returned, and its threads never move the    *)
(* reported position back (src/media-player.cpp: "only ever raised").      *)
ItemPlayed == IF worker.pc = "none" THEN NoItem ELSE worker.item
ItemShown == IF presenter.pc = "show" THEN presenter.picture.item ELSE NoItem

Promise ==
    INSTANCE PlayerPromise WITH item <- ItemPlayed, position <- info.position,
                                ended <- info.ended, shown <- ItemShown

PromiseKept == Promise!Spec

(* stop() and the play() of another item return: whatever the worker and   *)
(* the presenter wait for (a full queue, an idle presenter, playback to    *)
(* start, the end of the item), a stop ends the wait.                      *)
StopReturns == \A c \in Callers : call[c].pc = "join" ~> call[c].pc # "join"

(* An item that is paused while it looks for its preview (a scrub, or a    *)
(* start while paused) shows it, unless the sender plays on, stops, or     *)
(* everything has been read without one: neither the queue, nor the wait   *)
(* for sound, nor a picture left from before the scrub keeps it away.      *)
PreviewShown ==
    (worker.pc = "loop" /\ info.rate = 0 /\ seek.preview)
        ~> (~seek.preview \/ info.rate > 0 \/ worker.pc = "hold" \/ stop_requested)

(* An item that plays reaches its end, also when every read from the       *)
(* sender's server ends early.                                             *)
PlaysToEnd ==
    (worker.pc = "loop" /\ info.rate > 0) ~> (info.ended \/ info.rate = 0 \/ stop_requested)

==============================================================================
