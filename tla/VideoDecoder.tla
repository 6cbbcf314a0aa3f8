---------------------------- MODULE VideoDecoder ----------------------------
(***************************************************************************)
(* H264Decoder (src/h264-decoder.cpp): the mirror's H.264 or HEVC decoder, *)
(* in VideoToolbox hardware while that works and in software otherwise.    *)
(* decode() and flush() run under the server's decoder lock, so one call   *)
(* runs at a time; within a call the outcomes are FFmpeg's to choose:      *)
(* every send, receive, open or transfer may fail, and while the hardware  *)
(* decoder is open FFmpeg may say the stream is not for it (chooseFormat). *)
(*                                                                         *)
(* A parameter set is the mirror stream it belongs to.  A step of decode() *)
(* is one packet sent, with what the code does about the outcome.          *)
(***************************************************************************)
EXTENDS Integers

CONSTANTS
    MaxHardwareErrors,  \* kMaxHardwareErrors
    MaxStreamErrors,    \* kMaxStreamErrors
    MaxUnits,           \* bound: access units in a payload
    MaxStreams          \* bound: mirror streams (flushes)

ASSUME DecoderAssumption ==
    /\ MaxHardwareErrors \in Nat \ {0} /\ MaxStreamErrors \in Nat \ {0}
    /\ MaxUnits \in Nat \ {0} /\ MaxStreams \in Nat \ {0}

VARIABLES
    preferred,       \* m_hardware_preferred
    allowed,         \* m_hardware_allowed
    context,         \* m_codec_context and m_hardware_open
    refused,         \* m_hardware_refused
    hardware_errors, \* m_hardware_errors
    stream_errors,   \* m_stream_errors
    parameter_sets,  \* the stream whose parameter sets are remembered, 0: none
    frame,           \* m_frame holds a picture
    pc,              \* the packet decode() sends next; "finish": the loop is over
    left,            \* access units left, the one being sent included
    received,        \* a picture was collected in this call
    error,           \* the error this call has met, for its end
    stream,          \* ghost: number of the mirror stream
    gave_up          \* ghost: the stream in which hardware decoding was given up

counters == <<hardware_errors, stream_errors>>
mode == <<preferred, allowed, context>>
call == <<pc, left, received, error>>
vars == <<mode, refused, counters, parameter_sets, frame, call, stream, gave_up>>

Returns == {"ok", "again", "invalid", "failed"}
Errors == {"none", "invalid", "failed"}
Contexts == {"none", "software", "hardware"}

-----------------------------------------------------------------------------
(* reopen(), at first and for a new stream: hardware when it is wanted (an *)
(* FFmpeg without it leaves software); software if that cannot be opened.  *)
Opens(wanted, may, opened) ==
    \/ opened = "hardware" /\ wanted /\ may
    \/ opened = "software" /\ (may => wanted)
    \/ opened = "none" /\ ~may

ClearErrors == hardware_errors' = 0 /\ stream_errors' = 0

Reopen ==
    /\ \E may \in BOOLEAN, opened \in Contexts :
          Opens(preferred, may, opened) /\ allowed' = may /\ context' = opened
    /\ parameter_sets' = 0
    /\ refused' = FALSE /\ frame' = FALSE
    /\ ClearErrors
    /\ gave_up' = IF preferred /\ ~allowed' THEN stream + 1 ELSE 0

(* A decoder that stays open for the next stream is only emptied. *)
Drain(sets) ==
    /\ parameter_sets' = sets /\ frame' = FALSE
    /\ ClearErrors
    /\ UNCHANGED <<allowed, context, refused, gave_up>>

(* flush(): a stream boundary. *)
Boundary(again, sets) ==
    /\ pc = "idle" /\ stream < MaxStreams
    /\ stream' = stream + 1
    /\ UNCHANGED <<preferred, call>>
    /\ IF again THEN Reopen ELSE Drain(sets)

(* Mutant: the decoder that stays open keeps the parameter sets. *)
FlushKeepsSets == Boundary(context = "none" \/ (preferred /\ ~allowed), parameter_sets)

Flush == Boundary(context = "none" \/ (preferred /\ ~allowed), 0)

(* noteError(): counts an error of the hardware decoder ...  *)
NoteError(e) ==
    IF context # "hardware" THEN UNCHANGED counters
    ELSE IF e = "invalid"
         THEN stream_errors' = stream_errors + 1 /\ UNCHANGED hardware_errors
         ELSE hardware_errors' = hardware_errors + 1 /\ UNCHANGED stream_errors

(* ... and says when hardware decoding should be given up. *)
GiveUp(e) ==
    /\ context = "hardware"
    /\ IF e = "invalid" THEN stream_errors + 1 >= MaxStreamErrors
                        ELSE hardware_errors + 1 >= MaxHardwareErrors

(* fallBackToSoftware(): a software decoder for the rest of the stream,    *)
(* given the remembered parameter sets, or none if it cannot be opened.    *)
FallBack(opened) ==
    /\ allowed' = FALSE /\ refused' = FALSE /\ frame' = FALSE
    /\ ClearErrors
    /\ context' = IF opened THEN "software" ELSE "none"
    /\ gave_up' = stream
    /\ UNCHANGED <<preferred, parameter_sets, stream>>

-----------------------------------------------------------------------------
Return == pc' = "idle" /\ received' = FALSE /\ error' = "none" /\ left' = 0

(* chooseFormat(): FFmpeg finds that the hardware cannot take the stream.  *)
MayRefuse == refused' \in {refused, refused \/ context = "hardware"}

(* collectFrames(): a picture or none, then perhaps an error. *)
Collect ==
    /\ \E got \in BOOLEAN, met \in Errors :
          /\ frame' = (frame \/ got)
          /\ received' = (received \/ got)
          /\ error' = IF met = "none" THEN error ELSE met
    /\ MayRefuse

(* Mutant: pictures of the decoder that a fallback closes still count. *)
FallBackKeeping(next) ==
    \E opened \in BOOLEAN :
        /\ FallBack(opened)
        /\ IF opened THEN pc' = next /\ UNCHANGED <<left, received, error>>
                     ELSE Return

(* Give up hardware decoding and send the access unit again: pictures of   *)
(* the closed decoder are gone.                                            *)
FallBackAndSend(next) ==
    \E opened \in BOOLEAN :
        /\ FallBack(opened)
        /\ IF opened THEN pc' = next /\ received' = FALSE /\ UNCHANGED <<left, error>>
                     ELSE Return

(* The packet was taken: collect, and on to the next access unit. *)
UnitDone ==
    /\ Collect
    /\ left' = left - 1
    /\ pc' = IF left > 1 THEN "send" ELSE "finish"
    /\ UNCHANGED <<counters, mode, parameter_sets, stream, gave_up>>

(* What the loop does with the final return code of a send. *)
Settle(ret) ==
    \/ ret = "ok" /\ UnitDone
    \/ ret # "ok" /\ GiveUp(ret) /\ FallBackAndSend("last")
    \/ /\ ret # "ok" /\ ~GiveUp(ret)
       /\ NoteError(ret)
       /\ Return
       /\ IF pc = "retry" THEN MayRefuse ELSE UNCHANGED refused
       /\ UNCHANGED <<mode, parameter_sets, frame, stream, gave_up>>

(* EAGAIN the first time: collect what nobody collected, and send again. *)
AgainOrSettle(ret) ==
    IF ret = "again"
    THEN /\ Collect
         /\ pc' = "retry" /\ UNCHANGED left
         /\ UNCHANGED <<mode, counters, parameter_sets, stream, gave_up>>
    ELSE Settle(ret)

(* decode(): the payload's parameter sets are remembered first. *)
Decode ==
    /\ pc = "idle" /\ context # "none"
    /\ pc' = "send" /\ left' \in 1..MaxUnits
    /\ parameter_sets' \in {parameter_sets, stream}
    /\ UNCHANGED <<mode, refused, counters, frame, received, error, stream, gave_up>>

Send ==
    /\ pc = "send"
    /\ \/ (refused \/ context = "hardware") /\ FallBackAndSend("resend")
       \/ ~refused /\ \E ret \in Returns : AgainOrSettle(ret)

(* After a fallback for a refusal the new decoder is a software one. *)
Resend == pc = "resend" /\ \E ret \in Returns : AgainOrSettle(ret)

(* After EAGAIN a refusal is left for the next packet to find: no check.   *)
Retry == pc = "retry" /\ \E ret \in Returns : Settle(ret)

(* After a fallback for errors any failure ends the call. *)
Last ==
    /\ pc = "last"
    /\ \/ UnitDone
       \/ Return /\ UNCHANGED <<mode, refused, counters, parameter_sets, frame, stream, gave_up>>

(* produceFrame() hands the picture to OBS; the caller releases it. *)
Produce ==
    /\ pc = "finish" /\ received
    /\ ClearErrors /\ frame' = FALSE
    /\ Return
    /\ UNCHANGED <<mode, refused, parameter_sets, stream, gave_up>>

EndError == IF received THEN "failed" ELSE error

(* Mutant: an error at the end of decode() is not counted. *)
NoPictureSilent ==
    /\ pc = "finish"
    /\ Return
    /\ UNCHANGED <<mode, refused, counters, parameter_sets, frame, stream, gave_up>>

(* No picture, or it could not be copied out of the hardware surface. *)
NoPicture ==
    /\ pc = "finish"
    /\ Return
    /\ IF EndError # "none" /\ GiveUp(EndError)
       THEN \E opened \in BOOLEAN : FallBack(opened)
       ELSE /\ IF EndError = "none" THEN UNCHANGED counters ELSE NoteError(EndError)
            /\ UNCHANGED <<mode, refused, parameter_sets, frame, stream, gave_up>>

(* The rest of a call of decode(). *)
Continue == Send \/ Resend \/ Retry \/ Last \/ Produce \/ NoPicture

Init ==
    /\ preferred \in BOOLEAN
    /\ \E may \in BOOLEAN, opened \in Contexts :
          Opens(preferred, may, opened) /\ allowed = may /\ context = opened
    /\ refused = FALSE /\ hardware_errors = 0 /\ stream_errors = 0
    /\ parameter_sets = 0 /\ frame = FALSE
    /\ pc = "idle" /\ left = 0 /\ received = FALSE /\ error = "none"
    /\ stream = 1
    /\ gave_up = IF preferred /\ ~allowed THEN 1 ELSE 0

Next == Flush \/ Decode \/ Continue

Spec == Init /\ [][Next]_vars

(* A call of decode() goes on to its end. *)
FairSpec == Spec /\ WF_vars(Continue)

-----------------------------------------------------------------------------
FlagsOK ==
    /\ preferred \in BOOLEAN /\ allowed \in BOOLEAN /\ refused \in BOOLEAN
    /\ frame \in BOOLEAN /\ received \in BOOLEAN

ValuesOK ==
    /\ context \in Contexts
    /\ hardware_errors \in Nat /\ stream_errors \in Nat
    /\ pc \in {"idle", "send", "resend", "retry", "last", "finish"}
    /\ left \in 0..MaxUnits /\ (left = 0 <=> pc \in {"idle", "finish"})
    /\ error \in Errors
    /\ stream \in 1..MaxStreams
    /\ parameter_sets \in 0..MaxStreams /\ gave_up \in 0..MaxStreams
    /\ pc # "idle" => context # "none"

(* The types; and a call goes on only while there is a decoder. *)
TypeOK == FlagsOK /\ ValuesOK

(* A picture decode() counts as received is in m_frame: it did not go with *)
(* a decoder that a fallback closed after it was collected.                *)
ReceivedIsHeld == received => frame

(* However the errors of a stream fall on sends, receives and transfers,   *)
(* the decoder never stays in hardware at or past a limit.                 *)
LimitsHold ==
    context = "hardware"
        => hardware_errors < MaxHardwareErrors /\ stream_errors < MaxStreamErrors

(* Parameter sets never outlive their stream: what a fallback replays into *)
(* the software decoder is the current stream's.                           *)
SetsOfThisStream == parameter_sets \in {0, stream}

(* Software decoding where hardware was wanted was decided in the stream   *)
(* being decoded: no fallback carries over to the next stream.             *)
FallbackEndsWithStream == preferred /\ ~allowed => gave_up = stream

(* A hardware decoder that keeps failing is given up: calls cannot end     *)
(* with an error for ever, and none with a picture, in hardware.           *)
FailingHardwareLeft ==
    ([]<>(pc = "finish" /\ error # "none") /\ <>[](pc = "finish" => ~received))
        => <>[](context # "hardware")
=============================================================================
