---------------------------- MODULE MirrorServer ----------------------------
(***************************************************************************)
(* The mirror video path of AirPlayServer (src/airplay-server.cpp): UxPlay's *)
(* mirror thread queues compressed payloads, one decode thread takes and   *)
(* decodes them in order and outputs the pictures, and any of UxPlay's     *)
(* threads (or the deferred-clear thread) may reset the stream meanwhile.  *)
(*                                                                         *)
(* A payload is its number in arrival order and whether it is a keyframe.  *)
(* The H.264/HEVC decoder is what it needs of earlier payloads: a keyframe *)
(* starts it, any other payload refers to the payload before it.  Errors   *)
(* inside the decoder are module VideoDecoder.                             *)
(***************************************************************************)
EXTENDS Integers, Sequences

CONSTANTS
    MaxQueued,    \* kMaxQueuedVideo
    Resetters,    \* the threads that call resetDecoders()
    MaxArrivals   \* bound: payloads that arrive in a behaviour

ASSUME ServerAssumption ==
    /\ MaxQueued \in Nat \ {0}
    /\ MaxArrivals \in Nat

VARIABLES
    queue,    \* m_video_queue
    waiting,  \* m_waiting_for_keyframe
    quit,     \* m_video_thread_quit
    arrived,  \* payloads arrived so far
    dpc,      \* where the decode thread is
    hand,     \* the payload it popped last
    decoder,  \* what the video decoder can refer to
    screen,   \* what the sources show
    reset,    \* per thread, the resetDecoders() call it is in
    ended     \* ghost: payloads up to this one belong to a stream that a
              \* completed resetDecoders() ended

serverVars == <<queue, waiting, quit, arrived, dpc, hand, decoder, screen, reset, ended>>

Payload == [id : Nat, key : BOOLEAN]
NoPayload == [id |-> 0, key |-> FALSE]

(* last: the payload decoded last, 0 after a flush; whole: every payload   *)
(* since a keyframe was decoded, so the picture is the sender's.           *)
Flushed == [last |-> 0, whole |-> FALSE]

Idle == [pc |-> "idle", clear |-> FALSE, flush |-> FALSE, upto |-> 0]

-----------------------------------------------------------------------------
(* Mutant: one payload too many. *)
BehindByOneMore == Len(queue) > MaxQueued /\ ~waiting

(* UxPlay's mirror thread: ingestVideoBitstream().  A backlog of MaxQueued *)
(* payloads is dropped, and then everything up to the next keyframe.       *)
Behind == Len(queue) >= MaxQueued /\ ~waiting

(* Mutant: after the backlog is dropped the next payload is taken as it is. *)
IngestAnything(key) ==
    /\ arrived < MaxArrivals
    /\ ~quit
    /\ arrived' = arrived + 1
    /\ waiting' = FALSE
    /\ queue' = Append(IF Behind THEN <<>> ELSE queue, [id |-> arrived + 1, key |-> key])
    /\ UNCHANGED <<quit, dpc, hand, decoder, screen, reset, ended>>

Ingest(key) ==
    LET backlog == IF Behind THEN <<>> ELSE queue
        refused == (waiting \/ Behind) /\ ~key
    IN  /\ arrived < MaxArrivals
        /\ ~quit
        /\ arrived' = arrived + 1
        /\ waiting' = refused
        /\ queue' = IF refused THEN backlog
                    ELSE Append(backlog, [id |-> arrived + 1, key |-> key])
        /\ UNCHANGED <<quit, dpc, hand, decoder, screen, reset, ended>>

-----------------------------------------------------------------------------
(* The decode thread: videoDecodeLoop() and decodeAndOutputVideo().  It    *)
(* holds the decoder lock from Decode until the picture's callback returns. *)
(* Mutant: the thread is woken for the payload before the one that arrived. *)
TakeNextToLast ==
    /\ dpc = "idle" /\ ~quit /\ Len(queue) > 1
    /\ hand' = Head(queue)
    /\ queue' = Tail(queue)
    /\ dpc' = "taken"
    /\ UNCHANGED <<waiting, quit, arrived, decoder, screen, reset, ended>>

Take ==
    /\ dpc = "idle" /\ ~quit /\ queue # <<>>
    /\ hand' = Head(queue)
    /\ queue' = Tail(queue)
    /\ dpc' = "taken"
    /\ UNCHANGED <<waiting, quit, arrived, decoder, screen, reset, ended>>

(* What decoding a payload makes of the decoder: without anything to refer *)
(* to it decodes nothing but a keyframe.                                   *)
Decoded(payload) ==
    IF payload.key THEN [last |-> payload.id, whole |-> TRUE]
    ELSE IF decoder.last = 0 THEN Flushed
    ELSE [last  |-> payload.id,
          whole |-> decoder.whole /\ decoder.last + 1 = payload.id]

Decode ==
    /\ dpc = "taken"
    /\ decoder' = Decoded(hand)
    /\ IF Decoded(hand) = Flushed
       THEN dpc' = "idle" /\ UNCHANGED screen
       ELSE dpc' = "output" /\ screen' = "mirror"
    /\ UNCHANGED <<queue, waiting, quit, arrived, hand, reset, ended>>

(* m_mirror_frame_output_callback has returned. *)
FrameOutput ==
    /\ dpc = "output"
    /\ dpc' = "idle"
    /\ UNCHANGED <<queue, waiting, quit, arrived, hand, decoder, screen, reset, ended>>

Exit ==
    /\ dpc = "idle" /\ quit
    /\ dpc' = "stopped"
    /\ UNCHANGED <<queue, waiting, quit, arrived, hand, decoder, screen, reset, ended>>

DecodeThread == Take \/ Decode \/ FrameOutput \/ Exit

-----------------------------------------------------------------------------
(* resetDecoders(clear, flush), on thread r: it is called, empties the     *)
(* queue under the queue lock, then resets decoder and output under the    *)
(* decoder lock.                                                           *)
CallReset(r, clear, flush) ==
    /\ reset[r].pc = "idle"
    /\ reset' = [reset EXCEPT ![r] =
                   [pc |-> IF flush THEN "queue" ELSE "decoder",
                    clear |-> clear, flush |-> flush, upto |-> 0]]
    /\ UNCHANGED <<queue, waiting, quit, arrived, dpc, hand, decoder, screen, ended>>

(* Mutant: the queue is kept. *)
DropNothing(r) ==
    /\ reset[r].pc = "queue"
    /\ waiting' = FALSE
    /\ reset' = [reset EXCEPT ![r].pc = "decoder", ![r].upto = arrived]
    /\ UNCHANGED <<queue, quit, arrived, dpc, hand, decoder, screen, ended>>

DropQueue(r) ==
    /\ reset[r].pc = "queue"
    /\ queue' = <<>>
    /\ waiting' = FALSE
    /\ reset' = [reset EXCEPT ![r].pc = "decoder", ![r].upto = arrived]
    /\ UNCHANGED <<quit, arrived, dpc, hand, decoder, screen, ended>>

ResetOutput(r) ==
    /\ reset[r].pc = "decoder"
    /\ dpc # "output"
    /\ decoder' = IF reset[r].flush THEN Flushed ELSE decoder
    /\ screen' = IF reset[r].clear THEN "empty" ELSE screen
    /\ ended' = IF reset[r].upto > ended THEN reset[r].upto ELSE ended
    /\ reset' = [reset EXCEPT ![r] = Idle]
    /\ UNCHANGED <<queue, waiting, quit, arrived, dpc, hand>>

ResetStep(r) == DropQueue(r) \/ ResetOutput(r)

(* outputMediaVideoFrame(): the media player shows a frame of its item,    *)
(* without the decoder lock.                                               *)
ItemFrame ==
    /\ screen' = "item"
    /\ UNCHANGED <<queue, waiting, quit, arrived, dpc, hand, decoder, reset, ended>>

-----------------------------------------------------------------------------
(* stopVideoThread(): stop() then joins the decode thread. *)
Quit ==
    /\ ~quit
    /\ quit' = TRUE
    /\ UNCHANGED <<queue, waiting, arrived, dpc, hand, decoder, screen, reset, ended>>

Init ==
    /\ queue = <<>> /\ waiting = FALSE /\ quit = FALSE /\ arrived = 0
    /\ dpc = "idle" /\ hand = NoPayload /\ decoder = Flushed
    /\ screen = "empty" /\ reset = [r \in Resetters |-> Idle] /\ ended = 0

Next ==
    \/ \E key \in BOOLEAN : Ingest(key)
    \/ DecodeThread
    \/ \E r \in Resetters : \/ \E clear, flush \in BOOLEAN : CallReset(r, clear, flush)
                            \/ ResetStep(r)
    \/ ItemFrame \/ Quit

Spec == Init /\ [][Next]_serverVars

(* The decode thread and a thread inside resetDecoders() keep running;     *)
(* payloads, resets and the stop come when they like.                      *)
Fairness == WF_serverVars(DecodeThread) /\ \A r \in Resetters : WF_serverVars(ResetStep(r))

FairSpec == Spec /\ Fairness

-----------------------------------------------------------------------------
TypeOK ==
    /\ queue \in Seq(Payload)
    /\ waiting \in BOOLEAN /\ quit \in BOOLEAN
    /\ arrived \in Nat /\ ended \in Nat
    /\ dpc \in {"idle", "taken", "output", "stopped"}
    /\ hand \in Payload
    /\ decoder \in [last : Nat, whole : BOOLEAN]
    /\ screen \in {"empty", "mirror", "item"}
    /\ reset \in [Resetters -> [pc : {"idle", "queue", "decoder"},
                                clear : BOOLEAN, flush : BOOLEAN, upto : Nat]]

(* The queue never holds more than a second of video (kMaxQueuedVideo      *)
(* payloads), however slow the decoder: the mirror thread never waits.     *)
QueueBounded == Len(queue) <= MaxQueued

(* Every payload is needed, a picture refers to the ones before it: the    *)
(* picture on screen is damaged (a payload it refers to was not decoded)   *)
(* only when a reset overlaps it, that is while one is between emptying    *)
(* the queue and flushing the decoder, or because the decoder was handed a *)
(* payload from before the reset after its flush.  A backlog that is       *)
(* dropped never damages the picture.                                      *)
PictureWhole ==
    [][decoder.whole /\ ~decoder'.whole /\ decoder'.last # 0
         => \/ decoder.last <= ended
            \/ \E r \in Resetters : reset[r].pc = "decoder" /\ reset[r].flush]_serverVars

(* Once a reset is done, the decode thread takes no payload that arrived   *)
(* before it: only the one it already held can still be decoded.           *)
EndedNeverTaken == [][hand' # hand => hand'.id > ended]_serverVars

InServer(id) == \/ dpc = "taken" /\ hand.id = id
                \/ \E i \in DOMAIN queue : queue[i].id = id

(* No payload is stuck: each one that was queued is decoded or dropped,    *)
(* unless the plugin is shutting down.                                     *)
PayloadLeaves == \A id \in 1..MaxArrivals : InServer(id) ~> (~InServer(id) \/ quit)

=============================================================================
