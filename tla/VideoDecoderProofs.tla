------------------------- MODULE VideoDecoderProofs -------------------------
(***************************************************************************)
(* The safety of the video decoder, for every error limit, payload length  *)
(* and number of streams.  The parts of the invariant lean on each other:  *)
(* a fallback drops the picture, so it must also drop "received"; an idle  *)
(* decoder has received nothing, so a flush may drop the picture.          *)
(***************************************************************************)
EXTENDS VideoDecoder, TLAPS

(* A call that is over has received nothing. *)
IdleIsEmpty == pc = "idle" => ~received

Values == ValuesOK /\ LimitsHold /\ SetsOfThisStream
Links == IdleIsEmpty /\ ReceivedIsHeld /\ FallbackEndsWithStream
IInv == FlagsOK /\ Values /\ Links

LEMMA InitHolds == Init => IInv
  <1> SUFFICES ASSUME Init PROVE IInv
      OBVIOUS
  <1>1. PICK a \in BOOLEAN, c \in Contexts : Opens(preferred, a, c) /\ allowed = a /\ context = c
      BY DEF Init
  <1>2. FlagsOK
      BY <1>1 DEF Init, FlagsOK
  <1>3. Values
      BY <1>1, DecoderAssumption DEF Init, Values, ValuesOK, LimitsHold, SetsOfThisStream, Errors
  <1>4. Links
      BY DEF Init, Links, IdleIsEmpty, ReceivedIsHeld, FallbackEndsWithStream
  <1> QED BY <1>2, <1>3, <1>4 DEF IInv

(* flush(): the decoder is opened again, or emptied. *)
LEMMA FlushHolds == IInv /\ Flush => IInv'
  <1> SUFFICES ASSUME IInv, Flush PROVE IInv'
      OBVIOUS
  <1>1. pc = "idle" /\ stream' = stream + 1 /\ stream < MaxStreams
        /\ UNCHANGED <<preferred, call>>
      BY DEF Flush, Boundary
  <1>2. CASE Reopen
    <2>1. PICK a \in BOOLEAN, c \in Contexts :
            Opens(preferred, a, c) /\ allowed' = a /\ context' = c
        BY <1>2 DEF Reopen
    <2>2. FlagsOK'
        BY <1>1, <1>2, <2>1 DEF Reopen, IInv, FlagsOK, call
    <2>3. gave_up' \in {0, stream + 1}
        BY <1>2 DEF Reopen
    <2>4. Values'
        BY <1>1, <1>2, <2>1, <2>3, DecoderAssumption DEF Reopen, ClearErrors, IInv, Values,
           ValuesOK, LimitsHold, SetsOfThisStream, call
    <2>5. Links'
        BY <1>1, <1>2 DEF Reopen, IInv, Links, IdleIsEmpty, ReceivedIsHeld,
           FallbackEndsWithStream, call
    <2> QED BY <2>2, <2>4, <2>5 DEF IInv
  <1>3. CASE Drain(0) /\ ~(preferred /\ ~allowed)
    <2>1. FlagsOK'
        BY <1>1, <1>3 DEF Drain, IInv, FlagsOK, call
    <2>2. Values'
        BY <1>1, <1>3, DecoderAssumption DEF Drain, ClearErrors, IInv, Values, ValuesOK,
           LimitsHold, SetsOfThisStream, call
    <2>3. Links'
        BY <1>1, <1>3 DEF Drain, IInv, Links, IdleIsEmpty, ReceivedIsHeld,
           FallbackEndsWithStream, call
    <2> QED BY <2>1, <2>2, <2>3 DEF IInv
  <1> QED BY <1>2, <1>3 DEF Flush, Boundary

LEMMA DecodeHolds == IInv /\ Decode => IInv'
  <1> SUFFICES ASSUME IInv, Decode PROVE IInv'
      OBVIOUS
  <1>1. FlagsOK'
      BY DEF Decode, IInv, FlagsOK, mode
  <1>2. Values'
      BY DecoderAssumption DEF Decode, IInv, Values, ValuesOK, LimitsHold, SetsOfThisStream,
         mode, counters
  <1>3. Links'
      BY DEF Decode, IInv, Links, IdleIsEmpty, ReceivedIsHeld, FallbackEndsWithStream, mode
  <1> QED BY <1>1, <1>2, <1>3 DEF IInv

(* A fallback leaves decode() with nothing collected, wherever it goes on. *)
LEMMA FallBackHolds ==
  ASSUME IInv, NEW opened \in BOOLEAN, FallBack(opened), received' = FALSE,
         \/ Return
         \/ opened /\ pc' \in {"resend", "last"} /\ left # 0 /\ UNCHANGED <<left, error>>
  PROVE  IInv'
  <1>1. FlagsOK'
      BY DEF FallBack, IInv, FlagsOK
  <1>2. Values'
      BY DecoderAssumption DEF FallBack, ClearErrors, Return, IInv, Values, ValuesOK,
         LimitsHold, SetsOfThisStream, Contexts, Errors
  <1>3. Links'
      BY DEF FallBack, IInv, Links, IdleIsEmpty, ReceivedIsHeld, FallbackEndsWithStream
  <1> QED BY <1>1, <1>2, <1>3 DEF IInv

LEMMA FallBackAndSendHolds ==
  ASSUME IInv, pc \in {"send", "resend", "retry"}, NEW next \in {"resend", "last"},
         FallBackAndSend(next)
  PROVE  IInv'
  <1>1. PICK opened \in BOOLEAN :
          /\ FallBack(opened)
          /\ IF opened THEN pc' = next /\ received' = FALSE /\ UNCHANGED <<left, error>>
                       ELSE Return
      BY DEF FallBackAndSend
  <1>2. received' = FALSE
      BY <1>1 DEF Return
  <1>3. left # 0
      BY DEF IInv, Values, ValuesOK
  <1> QED BY <1>1, <1>2, <1>3, FallBackHolds

(* Collecting pictures: one that is received is one that is held. *)
LEMMA CollectHolds ==
  ASSUME IInv, Collect
  PROVE  /\ frame' \in BOOLEAN /\ received' \in BOOLEAN /\ refused' \in BOOLEAN
         /\ (received' => frame')
         /\ error' \in Errors
  <1>1. PICK got \in BOOLEAN, met \in Errors :
          /\ frame' = (frame \/ got)
          /\ received' = (received \/ got)
          /\ error' = IF met = "none" THEN error ELSE met
      BY DEF Collect
  <1>2. frame' \in BOOLEAN /\ received' \in BOOLEAN /\ (received' => frame')
      BY <1>1 DEF IInv, Links, ReceivedIsHeld
  <1>3. refused' \in BOOLEAN
      BY DEF Collect, MayRefuse, IInv, FlagsOK
  <1>4. error' \in Errors
      BY <1>1 DEF IInv, Values, ValuesOK
  <1> QED BY <1>2, <1>3, <1>4

(* ... wherever the call goes on after it. *)
LEMMA CollectedHolds ==
  ASSUME IInv, Collect, context # "none",
         pc' \in {"send", "retry", "finish"},
         left' \in 0..MaxUnits, left' = 0 <=> pc' = "finish",
         UNCHANGED <<counters, mode, parameter_sets, stream, gave_up>>
  PROVE  IInv'
  <1>1. FlagsOK'
      BY CollectHolds DEF IInv, FlagsOK, mode
  <1>2. Values'
      BY CollectHolds DEF IInv, Values, ValuesOK, LimitsHold, SetsOfThisStream, mode, counters
  <1>3. Links'
      BY CollectHolds DEF IInv, Links, IdleIsEmpty, ReceivedIsHeld, FallbackEndsWithStream, mode
  <1> QED BY <1>1, <1>2, <1>3 DEF IInv

LEMMA UnitDoneHolds ==
  ASSUME IInv, pc \notin {"idle", "finish"}, UnitDone
  PROVE  IInv'
  <1>1. left \in 1..MaxUnits /\ context # "none"
      BY DecoderAssumption DEF IInv, Values, ValuesOK
  <1>2. /\ pc' \in {"send", "retry", "finish"}
        /\ left' \in 0..MaxUnits /\ (left' = 0 <=> pc' = "finish")
      BY <1>1, DecoderAssumption DEF UnitDone
  <1> QED BY <1>1, <1>2, CollectedHolds DEF UnitDone

(* A counted error that is not one too many leaves the limits unreached.   *)
LEMMA NoteErrorHolds ==
  ASSUME IInv, NEW e, NoteError(e), ~GiveUp(e)
  PROVE  /\ hardware_errors' \in Nat /\ stream_errors' \in Nat
         /\ context = "hardware" =>
              hardware_errors' < MaxHardwareErrors /\ stream_errors' < MaxStreamErrors
  BY DecoderAssumption DEF IInv, Values, ValuesOK, LimitsHold, NoteError, GiveUp, counters

(* A call that returns without a picture, its error counted or none met.   *)
LEMMA ReturnHolds ==
  ASSUME IInv, Return, refused' \in BOOLEAN,
         \/ UNCHANGED counters
         \/ \E e \in {"again", "invalid", "failed"} : NoteError(e) /\ ~GiveUp(e),
         UNCHANGED <<mode, parameter_sets, frame, stream, gave_up>>
  PROVE  IInv'
  <1>1. FlagsOK'
      BY DEF Return, IInv, FlagsOK, mode
  <1>2. /\ hardware_errors' \in Nat /\ stream_errors' \in Nat
        /\ context = "hardware" =>
             hardware_errors' < MaxHardwareErrors /\ stream_errors' < MaxStreamErrors
      BY NoteErrorHolds DEF IInv, Values, ValuesOK, LimitsHold, counters
  <1>3. Values'
      BY <1>2, DecoderAssumption DEF Return, IInv, Values, ValuesOK, LimitsHold,
         SetsOfThisStream, Errors, mode
  <1>4. Links'
      BY DEF Return, IInv, Links, IdleIsEmpty, ReceivedIsHeld, FallbackEndsWithStream, mode
  <1> QED BY <1>1, <1>3, <1>4 DEF IInv

LEMMA SettleHolds ==
  ASSUME IInv, pc \in {"send", "resend", "retry"}, NEW ret \in Returns, Settle(ret)
  PROVE  IInv'
  <1>1. CASE UnitDone
      BY <1>1, UnitDoneHolds
  <1>2. CASE FallBackAndSend("last")
      BY <1>2, FallBackAndSendHolds
  <1>3. CASE /\ ret # "ok" /\ ~GiveUp(ret) /\ NoteError(ret) /\ Return
             /\ IF pc = "retry" THEN MayRefuse ELSE UNCHANGED refused
             /\ UNCHANGED <<mode, parameter_sets, frame, stream, gave_up>>
    <2>1. refused' \in BOOLEAN
        BY <1>3 DEF IInv, FlagsOK, MayRefuse
    <2>2. ret \in {"again", "invalid", "failed"}
        BY <1>3 DEF Returns
    <2> QED BY <1>3, <2>1, <2>2, ReturnHolds
  <1> QED BY <1>1, <1>2, <1>3 DEF Settle

LEMMA AgainOrSettleHolds ==
  ASSUME IInv, pc \in {"send", "resend"}, NEW ret \in Returns, AgainOrSettle(ret)
  PROVE  IInv'
  <1>1. CASE Settle(ret)
      BY <1>1, SettleHolds
  <1>2. CASE /\ Collect
             /\ pc' = "retry" /\ UNCHANGED left
             /\ UNCHANGED <<mode, counters, parameter_sets, stream, gave_up>>
    <2>1. context # "none" /\ left' \in 0..MaxUnits /\ left' # 0
        BY <1>2 DEF IInv, Values, ValuesOK
    <2> QED BY <1>2, <2>1, CollectedHolds
  <1> QED BY <1>1, <1>2 DEF AgainOrSettle

LEMMA SendHolds == IInv /\ (Send \/ Resend \/ Retry \/ Last) => IInv'
  <1> SUFFICES ASSUME IInv, Send \/ Resend \/ Retry \/ Last PROVE IInv'
      OBVIOUS
  <1>1. CASE Send
    <2>1. CASE FallBackAndSend("resend")
        BY <1>1, <2>1, FallBackAndSendHolds DEF Send
    <2>2. CASE \E ret \in Returns : AgainOrSettle(ret)
        BY <1>1, <2>2, AgainOrSettleHolds DEF Send
    <2> QED BY <1>1, <2>1, <2>2 DEF Send
  <1>2. CASE Resend
      BY <1>2, AgainOrSettleHolds DEF Resend
  <1>3. CASE Retry
      BY <1>3, SettleHolds DEF Retry
  <1>4. CASE Last
    <2>1. CASE UnitDone
        BY <1>4, <2>1, UnitDoneHolds DEF Last
    <2>2. CASE Return /\ UNCHANGED <<mode, refused, counters, parameter_sets, frame, stream,
                                     gave_up>>
        BY <2>2, ReturnHolds DEF IInv, FlagsOK
    <2> QED BY <1>4, <2>1, <2>2 DEF Last
  <1> QED BY <1>1, <1>2, <1>3, <1>4

LEMMA FinishHolds == IInv /\ (Produce \/ NoPicture) => IInv'
  <1> SUFFICES ASSUME IInv, Produce \/ NoPicture PROVE IInv'
      OBVIOUS
  <1>1. CASE Produce
    <2>1. FlagsOK'
        BY <1>1 DEF Produce, Return, IInv, FlagsOK, mode
    <2>2. Values'
        BY <1>1, DecoderAssumption DEF Produce, Return, ClearErrors, IInv, Values, ValuesOK,
           LimitsHold, SetsOfThisStream, Errors, mode
    <2>3. Links'
        BY <1>1 DEF Produce, Return, IInv, Links, IdleIsEmpty, ReceivedIsHeld,
           FallbackEndsWithStream, mode
    <2> QED BY <2>1, <2>2, <2>3 DEF IInv
  <1>2. CASE NoPicture
    <2>1. Return /\ received' = FALSE
        BY <1>2 DEF NoPicture, Return
    <2>2. CASE \E opened \in BOOLEAN : FallBack(opened)
        BY <2>1, <2>2, FallBackHolds
    <2>3. CASE /\ EndError = "none" \/ ~GiveUp(EndError)
               /\ IF EndError = "none" THEN UNCHANGED counters ELSE NoteError(EndError)
               /\ UNCHANGED <<mode, refused, parameter_sets, frame, stream, gave_up>>
      <3>1. EndError \in {"none", "invalid", "failed"}
          BY DEF EndError, IInv, Values, ValuesOK, Errors
      <3>2. refused' \in BOOLEAN
          BY <2>3 DEF IInv, FlagsOK
      <3> QED BY <2>1, <2>3, <3>1, <3>2, ReturnHolds
    <2> QED BY <1>2, <2>2, <2>3 DEF NoPicture
  <1> QED BY <1>1, <1>2

THEOREM Invariance == Spec => []IInv
  <1>1. IInv /\ UNCHANGED vars => IInv'
    <2> SUFFICES ASSUME IInv, UNCHANGED vars PROVE IInv'
        OBVIOUS
    <2>1. FlagsOK'
        BY DEF vars, mode, call, IInv, FlagsOK
    <2>2. Values'
        BY DEF vars, mode, counters, call, IInv, Values, ValuesOK, LimitsHold, SetsOfThisStream
    <2>3. Links'
        BY DEF vars, mode, call, IInv, Links, IdleIsEmpty, ReceivedIsHeld,
           FallbackEndsWithStream
    <2> QED BY <2>1, <2>2, <2>3 DEF IInv
  <1>2. IInv /\ [Next]_vars => IInv'
      BY <1>1, FlushHolds, DecodeHolds, SendHolds, FinishHolds DEF Next, Continue
  <1> QED BY InitHolds, <1>2, PTL DEF Spec

(* The decoder's state is well typed, and no call goes on without a decoder. *)
THEOREM DecoderTypeCorrect == Spec => []TypeOK
  BY Invariance, PTL DEF IInv, Values, TypeOK

(* No picture counts as received after a fallback closed the decoder it    *)
(* came from.                                                              *)
THEOREM NoPictureLost == Spec => []ReceivedIsHeld
  BY Invariance, PTL DEF IInv, Links

(* Hardware decoding never outlasts its error limits. *)
THEOREM HardwareIsLimited == Spec => []LimitsHold
  BY Invariance, PTL DEF IInv, Values

(* Parameter sets end with their stream. *)
THEOREM StreamsAreApart == Spec => []SetsOfThisStream
  BY Invariance, PTL DEF IInv, Values

(* A fallback to software decoding ends with the stream it was made in. *)
THEOREM FallbackEnds == Spec => []FallbackEndsWithStream
  BY Invariance, PTL DEF IInv, Links
=============================================================================
