--------------------------- MODULE ReceiverProofs ---------------------------
(* Theorems about module Receiver, for every value of its constants. *)
EXTENDS Receiver, SequenceTheorems, TLAPS

USE ReceiverAssumption

(* Every thread's handler is made of the steps its handlers may take. *)
ProgramTyped ==
    /\ DOMAIN program = Threads
    /\ \A t \in Threads : program[t] \in Seq(StepsOf(t))

LEMMA PlainStepsOf == \A t \in Threads : PlainSteps \subseteq StepsOf(t)
<1> QED BY DEF StepsOf

LEMMA ResetStepsOf ==
    ASSUME NEW t \in Resetters, NEW clear \in BOOLEAN, NEW flush \in BOOLEAN
    PROVE  Reset(clear, flush) \in StepsOf(t)
<1>1. Reset(clear, flush) \in ResettingSteps
      BY DEF ResettingSteps
<1> QED BY <1>1 DEF StepsOf, Resetters

LEMMA PlainNames ==
    /\ <<"cancel">> \in PlainSteps /\ <<"schedule">> \in PlainSteps
    /\ <<"stop_player">> \in PlainSteps /\ <<"read_state">> \in PlainSteps
    /\ <<"schedule_if_shown">> \in PlainSteps /\ <<"schedule_if_mirroring">> \in PlainSteps
    /\ <<"exchange_shown">> \in PlainSteps /\ <<"exchange_media">> \in PlainSteps
    /\ <<"cancel_if_pending">> \in PlainSteps
    /\ \A b \in BOOLEAN : <<"set_media", b>> \in PlainSteps /\ <<"set_shown", b>> \in PlainSteps
    /\ \A state \in States : <<"store_state", state>> \in PlainSteps
<1> QED BY DEF PlainSteps

(* What a thread that may reset is made of, by name. *)
Usable(S) ==
    /\ \A clear, flush \in BOOLEAN : Reset(clear, flush) \in S
    /\ <<"cancel">> \in S /\ <<"schedule">> \in S
    /\ <<"stop_player">> \in S /\ <<"read_state">> \in S
    /\ <<"schedule_if_shown">> \in S /\ <<"schedule_if_mirroring">> \in S
    /\ <<"reset_unless_media">> \in S /\ <<"exchange_media">> \in S
    /\ <<"clear_by_connections">> \in S
    /\ \A b \in BOOLEAN : <<"set_media", b>> \in S /\ <<"set_shown", b>> \in S

LEMMA UsableSteps == \A t \in Resetters : Usable(StepsOf(t))
<1> SUFFICES ASSUME NEW t \in Resetters PROVE Usable(StepsOf(t))
    OBVIOUS
<1>1. t \in Threads
      BY DEF Threads
<1>2. PlainSteps \subseteq StepsOf(t)
      BY <1>1, PlainStepsOf
<1> DEFINE S == StepsOf(t)
<1>3. \A clear, flush \in BOOLEAN : Reset(clear, flush) \in S
      BY ResetStepsOf
<1>6. <<"reset_unless_media">> \in S /\ <<"clear_by_connections">> \in S
      BY DEF StepsOf, ResettingSteps, Resetters
<1> HIDE DEF S
<1>4. PlainSteps \subseteq S
      BY <1>2 DEF S
<1>5. Usable(S)
      BY <1>3, <1>4, <1>6, PlainNames DEF Usable
<1> QED BY <1>5 DEF S

(* Handlers that only use what every such thread may use. *)
LEMMA CommonHandlers ==
    ASSUME NEW S, Usable(S)
    PROVE  /\ ConnInit \in Seq(S)
           /\ \A last \in BOOLEAN : ConnDestroy(last) \in Seq(S)
           /\ ConnTeardown \in Seq(S) /\ OnVideoStop \in Seq(S)
           /\ \A ends \in BOOLEAN : VideoReset(ends) \in Seq(S)
           /\ ConnReset \in Seq(S) /\ VideoSetCodec \in Seq(S) /\ DeferredClear \in Seq(S)
<1>1. ConnInit \in Seq(S)
      BY DEF ConnInit, Notify, Usable
<1>2. ASSUME NEW last \in BOOLEAN PROVE ConnDestroy(last) \in Seq(S)
      <2>1. <<<<"schedule_if_shown">>>> \in Seq(S) /\ <<>> \in Seq(S) /\ <<Notify>> \in Seq(S)
            BY DEF Notify, Usable
      <2>2. (IF last THEN <<<<"schedule_if_shown">>>> ELSE <<>>) \in Seq(S)
            BY <2>1
      <2> QED BY <2>1, <2>2 DEF ConnDestroy
<1>3. ConnTeardown \in Seq(S)
      <2>1. Reset(FALSE, TRUE) \in S /\ <<"schedule_if_mirroring">> \in S
            BY DEF Usable
      <2>2. PICK call \in S : call = Reset(FALSE, TRUE)
            BY <2>1
      <2>3. <<call, <<"schedule_if_mirroring">>>> \in Seq(S)
            BY <2>1
      <2> QED BY <2>2, <2>3 DEF ConnTeardown
<1>4. OnVideoStop \in Seq(S)
      <2>1. /\ Reset(FALSE, FALSE) \in S /\ <<"stop_player">> \in S /\ <<"set_media", FALSE>> \in S
            /\ Notify \in S /\ <<"schedule">> \in S
            BY DEF Usable, Notify
      <2>2. PICK call \in S, end \in S : call = Reset(FALSE, FALSE) /\ end = <<"set_media", FALSE>>
            BY <2>1
      <2>3. <<<<"stop_player">>, end, Notify, call, <<"schedule">>>> \in Seq(S)
            BY <2>1
      <2> QED BY <2>2, <2>3 DEF OnVideoStop
<1>5. ASSUME NEW ends \in BOOLEAN PROVE VideoReset(ends) \in Seq(S)
      <2>1. /\ <<"stop_player">> \in S /\ <<"set_media", FALSE>> \in S /\ Notify \in S
            /\ <<"cancel">> \in S /\ <<"reset_unless_media">> \in S
            BY DEF Usable, Notify
      <2>2. EndItem \in Seq(S) /\ <<>> \in Seq(S) /\ <<<<"reset_unless_media">>>> \in Seq(S)
            BY <2>1 DEF EndItem
      <2>3. (IF ends THEN EndItem ELSE <<>>) \in Seq(S)
            BY <2>2
      <2> QED BY <2>2, <2>3 DEF VideoReset
<1>6. ConnReset \in Seq(S)
      BY DEF ConnReset, Usable
<1>7. VideoSetCodec \in Seq(S)
      <2>1. Reset(FALSE, TRUE) \in S
            BY DEF Usable
      <2>2. PICK call \in S : call = Reset(FALSE, TRUE)
            BY <2>1
      <2>3. <<call>> \in Seq(S)
            OBVIOUS
      <2> QED BY <2>2, <2>3 DEF VideoSetCodec
<1>8. DeferredClear \in Seq(S)
      <2>1. PICK hide \in S : hide = <<"set_shown", FALSE>>
            BY DEF Usable
      <2>2. <<"clear_by_connections">> \in S
            BY DEF Usable
      <2>3. <<hide, <<"clear_by_connections">>>> \in Seq(S)
            BY <2>2
      <2> QED BY <2>1, <2>3 DEF DeferredClear
<1> QED BY <1>1, <1>2, <1>3, <1>4, <1>5, <1>6, <1>7, <1>8

LEMMA PlayHandler == OnVideoPlay \in Seq(StepsOf("http"))
<1> DEFINE S == StepsOf("http")
<1>1. <<"play">> \in S
      BY DEF StepsOf
<1>2. Usable(S)
      BY UsableSteps DEF Resetters
<1> HIDE DEF S
<1>3. /\ Reset(FALSE, FALSE) \in S /\ <<"cancel">> \in S /\ <<"stop_player">> \in S
      /\ <<"set_media", TRUE>> \in S /\ Notify \in S /\ <<"set_shown", TRUE>> \in S
      BY <1>2 DEF Usable, Notify
<1>4. PICK call \in S, begin \in S, show \in S :
          /\ call = Reset(FALSE, FALSE) /\ begin = <<"set_media", TRUE>>
          /\ show = <<"set_shown", TRUE>>
      BY <1>3
<1>5. <<<<"cancel">>, <<"stop_player">>, call, begin, Notify, show, <<"play">>>> \in Seq(S)
      BY <1>1, <1>3
<1>6. OnVideoPlay \in Seq(S)
      BY <1>4, <1>5 DEF OnVideoPlay
<1> QED BY <1>6 DEF S

LEMMA CallbackHandler == OnMirrorFrameOutput \in Seq(StepsOf("decode"))
<1> DEFINE S == StepsOf("decode")
<1>1. <<"exchange_shown">> \in S /\ <<"cancel_if_pending">> \in S
      BY PlainNames, PlainStepsOf DEF Threads
<1> HIDE DEF S
<1>2. OnMirrorFrameOutput \in Seq(S)
      BY <1>1 DEF OnMirrorFrameOutput
<1> QED BY <1>2 DEF S

StreamNames == {"conn_reset", "video_reset", "video_shutdown", "video_set_codec"}
HttpNames == {"conn_init", "conn_destroy", "conn_teardown", "on_video_play",
              "on_video_stop", "video_reset", "video_shutdown"}

LEMMA HandlersTyped ==
    /\ \A name \in HttpNames : Handler(name) \in Seq(StepsOf("http"))
    /\ \A name \in StreamNames : Handler(name) \in Seq(StepsOf("stream"))
    /\ DeferredClear \in Seq(StepsOf("clear"))
<1> DEFINE H == StepsOf("http")
           M == StepsOf("stream")
           C == StepsOf("clear")
<1>1. Usable(H) /\ Usable(M) /\ Usable(C) /\ OnVideoPlay \in Seq(H)
      BY UsableSteps, PlayHandler DEF Resetters
<1> HIDE DEF H, M, C
<1>2. \A name : LastCloses(name) \in BOOLEAN
      BY DEF LastCloses
<1>3. \A name \in HttpNames : Handler(name) \in Seq(H)
      BY <1>1, <1>2, CommonHandlers DEF HttpNames, Handler
<1>4. \A name \in StreamNames : Handler(name) \in Seq(M)
      BY <1>1, <1>2, CommonHandlers DEF StreamNames, Handler
<1>5. DeferredClear \in Seq(C)
      BY <1>1, CommonHandlers
<1> QED BY <1>3, <1>4, <1>5 DEF H, M, C

-----------------------------------------------------------------------------
LEMMA ThenTyped ==
    ASSUME ProgramTyped, NEW t \in Threads, program[t] # <<>>,
           NEW steps \in Seq(StepsOf(t)), Then(t, steps)
    PROVE  ProgramTyped'
<1> DEFINE S == StepsOf(t)
<1>1. program[t] \in Seq(S) /\ steps \in Seq(S)
      BY DEF ProgramTyped
<1> HIDE DEF S
<1>2. steps \o Tail(program[t]) \in Seq(S)
      BY <1>1
<1>3. program'[t] \in Seq(S) /\ \A u \in Threads \ {t} : program'[u] = program[u]
      BY <1>2 DEF Then, ProgramTyped
<1>4. DOMAIN program' = Threads
      BY DEF Then, ProgramTyped
<1> QED BY <1>3, <1>4 DEF ProgramTyped, S

(* The step a thread is at is one its handlers take. *)
LEMMA HeadTyped ==
    ASSUME ProgramTyped, NEW t \in Threads, program[t] # <<>>
    PROVE  Head(program[t]) \in StepsOf(t)
<1> DEFINE S == StepsOf(t)
<1>1. program[t] \in Seq(S)
      BY DEF ProgramTyped
<1> HIDE DEF S
<1>2. Head(program[t]) \in S
      BY <1>1
<1> QED BY <1>2 DEF S

LEMMA StepKinds ==
    ASSUME NEW t \in Threads, NEW op \in StepsOf(t)
    PROVE  /\ op[1] = "reset" => t # "decode" /\ op[2] \in BOOLEAN /\ op[3] \in BOOLEAN
           /\ op[1] \in {"reset_unless_media", "clear_by_connections"} => t # "decode"
           /\ op[1] \in {"set_media", "set_shown"} => op[2] \in BOOLEAN
           /\ op[1] = "store_state" => op[2] \in States
           /\ op[1] = "play" => t = "http"
<1>1. CASE op \in PlainSteps
      BY <1>1 DEF PlainSteps
<1>2. CASE t # "decode" /\ op \in ResettingSteps
      BY <1>2 DEF ResettingSteps, Reset
<1>3. CASE t = "http" /\ op = <<"play">>
      BY <1>3
<1> QED BY <1>1, <1>2, <1>3 DEF StepsOf

LEMMA StateKnown == ConnectionState \in States
<1> QED BY DEF ConnectionState, States

(* A step puts steps the same thread may take in front of the rest. *)
LEMMA StepTyped ==
    ASSUME ProgramTyped, NEW t \in Threads, Step(t)
    PROVE  ProgramTyped'
<1> DEFINE S == StepsOf(t)
           op == Head(program[t])
<1>1. program[t] # <<>>
      BY DEF Step
<1>2. op \in S
      BY <1>1, HeadTyped
<1>3. <<>> \in Seq(S) /\ PlainSteps \subseteq S
      BY PlainStepsOf
<1>4. t # "decode" => Usable(S)
      BY UsableSteps DEF Threads
<1>5. ASSUME MemberStep(t, op) PROVE \E steps \in Seq(S) : Then(t, steps)
      <2>1. <<Notify>> \in Seq(S) /\ <<<<"stop_player">>>> \in Seq(S)
            <3>1. Notify \in S /\ <<"stop_player">> \in S
                  BY <1>3, PlainNames DEF Notify
            <3> HIDE DEF S
            <3> QED BY <3>1
      <2> HIDE DEF S, op
      <2> QED BY <1>3, <1>5, <2>1 DEF MemberStep
<1>6. ASSUME ReadStep(t, op) PROVE \E steps \in Seq(S) : Then(t, steps)
      <2>1. /\ <<<<"store_state", ConnectionState>>>> \in Seq(S)
            /\ <<<<"schedule">>>> \in Seq(S) /\ <<<<"cancel">>>> \in Seq(S)
            <3>1. PICK state \in States : state = ConnectionState
                  BY StateKnown
            <3>2. <<"store_state", state>> \in S /\ <<"schedule">> \in S /\ <<"cancel">> \in S
                  BY <1>3, PlainNames
            <3> HIDE DEF S
            <3>3. <<<<"store_state", state>>>> \in Seq(S)
                  BY <3>2
            <3> QED BY <3>1, <3>2, <3>3
      <2>2. ASSUME op[1] \in {"reset_unless_media", "clear_by_connections"}
            PROVE  /\ <<Reset(~uxplay.media_active, TRUE)>> \in Seq(S)
                   /\ <<<<"exchange_media">>, Notify, Reset(TRUE, TRUE)>> \in Seq(S)
                   /\ <<Reset(TRUE, FALSE)>> \in Seq(S)
            <3>1. Usable(S)
                  BY <1>2, <1>4, <2>2, StepKinds
            <3> HIDE DEF S
            <3>2. PICK b \in BOOLEAN : b = (~uxplay.media_active)
                  OBVIOUS
            <3>3. PICK all \in S, one \in S, two \in S :
                     /\ all = Reset(TRUE, TRUE) /\ one = Reset(b, TRUE) /\ two = Reset(TRUE, FALSE)
                  BY <3>1 DEF Usable
            <3>4. <<"exchange_media">> \in S /\ Notify \in S
                  BY <3>1 DEF Usable, Notify
            <3>5. /\ <<one>> \in Seq(S) /\ <<two>> \in Seq(S)
                  /\ <<<<"exchange_media">>, Notify, all>> \in Seq(S)
                  BY <3>4
            <3> QED BY <3>2, <3>3, <3>5
      <2> HIDE DEF S, op
      <2>3. CASE op[1] \in {"reset_unless_media", "clear_by_connections"}
            BY <1>6, <2>2, <2>3 DEF ReadStep
      <2>4. CASE op[1] \notin {"reset_unless_media", "clear_by_connections"}
            BY <1>3, <1>6, <2>1, <2>4 DEF ReadStep
      <2> QED BY <2>3, <2>4
<1>7. PlayerStep(t, op) \/ CallReset(t, op) => Then(t, <<>>)
      BY DEF PlayerStep, CallReset
<1>8. \E steps \in Seq(S) : Then(t, steps)
      BY <1>3, <1>5, <1>6, <1>7 DEF Step
<1> QED BY <1>1, <1>8, ThenTyped

(* A thread starts a handler. *)
LEMMA StartsTyped ==
    ASSUME ProgramTyped, NEW t \in Threads, NEW handler \in Seq(StepsOf(t)),
           program' = [program EXCEPT ![t] = handler]
    PROVE  ProgramTyped'
<1>1. program'[t] = handler /\ \A u \in Threads \ {t} : program'[u] = program[u]
      BY DEF ProgramTyped
<1> QED BY <1>1 DEF ProgramTyped

LEMMA TypedInit == Init => ProgramTyped
<1> SUFFICES ASSUME Init PROVE ProgramTyped
    OBVIOUS
<1>1. ASSUME NEW t \in Threads PROVE program[t] \in Seq(StepsOf(t))
      <2> DEFINE S == StepsOf(t)
      <2>1. program[t] = <<>>
            BY DEF Init
      <2> HIDE DEF S
      <2>2. program[t] \in Seq(S)
            BY <2>1
      <2> QED BY <2>2 DEF S
<1> QED BY <1>1 DEF Init, ProgramTyped

LEMMA TypedNext == ProgramTyped /\ [Next]_vars => ProgramTyped'
<1> SUFFICES ASSUME ProgramTyped, [Next]_vars PROVE ProgramTyped'
    OBVIOUS
<1>1. "http" \in Threads /\ "stream" \in Threads /\ "clear" \in Threads /\ "decode" \in Threads
      BY DEF Threads, Resetters
<1>2. CASE Connect \/ Disconnect \/ HttpCall
      <2>1. PICK name \in HttpNames : Start("http", name)
            BY <1>2, ReceiverAssumption
            DEF Connect, Disconnect, HttpCall, Call, HttpNames
      <2> QED BY <1>1, <2>1, HandlersTyped, StartsTyped DEF Start
<1>3. CASE StreamCall
      <2>1. PICK name \in StreamNames : Start("stream", name)
            BY <1>3, ReceiverAssumption DEF StreamCall, Call, StreamNames
      <2> QED BY <1>1, <2>1, HandlersTyped, StartsTyped DEF Start
<1>4. CASE Expire
      BY <1>1, <1>4, HandlersTyped, StartsTyped DEF Expire
<1>5. CASE DecodeStep
      <2>1. CASE program' = program
            BY <2>1 DEF ProgramTyped
      <2>2. CASE program' = [program EXCEPT !["decode"] = OnMirrorFrameOutput]
            BY <1>1, <2>2, CallbackHandler, StartsTyped
      <2> QED BY <1>5, <2>1, <2>2 DEF DecodeStep
<1>6. ASSUME NEW t \in Threads, Step(t) PROVE ProgramTyped'
      BY <1>6, StepTyped
<1>7. ASSUME UNCHANGED program PROVE ProgramTyped'
      BY <1>7 DEF ProgramTyped
<1>8. CASE \/ \E key \in BOOLEAN : VideoProcess(key)
           \/ \E t \in Resetters : ResetStep(t)
           \/ MediaFrame \/ StopHttpd \/ StopStep \/ Released \/ UNCHANGED vars
      BY <1>7, <1>8
      DEF VideoProcess, ResetStep, MediaFrame, StopHttpd, StopStep, JoinHttpd, JoinClear,
          StopPlayer, DestroyRaop, StopServer, Release, Stage, Released, vars
<1> QED BY <1>2, <1>3, <1>4, <1>5, <1>6, <1>8 DEF Next

LEMMA AlwaysTyped == Spec => []ProgramTyped
<1> QED BY TypedInit, TypedNext, PTL DEF Spec

-----------------------------------------------------------------------------
(* The receiver implements MirrorServer: each of its steps is a step of    *)
(* the server or leaves the server alone.  What is proved about every      *)
(* behaviour of MirrorServer therefore holds under every handler here.     *)
THEOREM ReceiverUsesServer == Spec => ServerUsed
<1>1. Init => Server!Init
      BY DEF Init
<1>2. ProgramTyped /\ [Next]_vars => [Server!Next]_(Server!serverVars)
      <2> SUFFICES ASSUME ProgramTyped, [Next]_vars
                   PROVE  Server!Next \/ UNCHANGED serverVars
          BY DEF serverVars, Server!serverVars
      <2>1. ASSUME NEW t \in Threads, Step(t) PROVE Server!Next \/ UNCHANGED serverVars
            <3> DEFINE op == Head(program[t])
            <3>1. CASE CallReset(t, op)
                  <4>1. program[t] # <<>> /\ op[1] = "reset" /\ Server!CallReset(t, op[2], op[3])
                        BY <2>1, <3>1 DEF Step, CallReset
                  <4>2. t # "decode" /\ op[2] \in BOOLEAN /\ op[3] \in BOOLEAN
                        BY <4>1, HeadTyped, StepKinds
                  <4>3. t \in Resetters
                        BY <4>2 DEF Threads
                  <4> QED BY <4>1, <4>2, <4>3 DEF Server!Next
            <3>2. CASE ~CallReset(t, op)
                  BY <2>1, <3>2 DEF Step
            <3> QED BY <3>1, <3>2
      <2>2. ASSUME NEW key \in BOOLEAN, VideoProcess(key) PROVE Server!Next
            BY <2>2 DEF VideoProcess, Server!Next
      <2>3. ASSUME NEW t \in Resetters, ResetStep(t) PROVE Server!Next
            BY <2>3 DEF ResetStep, Server!Next
      <2>4. CASE DecodeStep \/ MediaFrame \/ StopServer
            BY <2>4 DEF DecodeStep, MediaFrame, StopServer, Server!Next
      <2>5. CASE Connect \/ Disconnect \/ HttpCall \/ StreamCall \/ Expire
            BY <2>5 DEF Connect, Disconnect, HttpCall, StreamCall, Call, Start, Expire
      <2>6. CASE \/ StopHttpd \/ JoinHttpd \/ JoinClear \/ StopPlayer \/ DestroyRaop
                 \/ Release \/ Released \/ UNCHANGED vars
            BY <2>6
            DEF StopHttpd, JoinHttpd, JoinClear, StopPlayer, DestroyRaop, Release, Released, vars
      <2> QED BY <2>1, <2>2, <2>3, <2>4, <2>5, <2>6 DEF Next, StopStep
<1> QED BY <1>1, <1>2, AlwaysTyped, PTL DEF Spec, ServerUsed, Server!Spec

ServerProofs == INSTANCE MirrorServerProofs

(* The two instances of MirrorServer, the one the model uses and the one   *)
(* its proofs are stated for, are the same specification.                  *)
LEMMA SameServer == Server!Spec <=> ServerProofs!Spec
<1>1. Server!Init <=> ServerProofs!Init
      BY DEF Server!Init, ServerProofs!Init, Server!NoPayload, ServerProofs!NoPayload,
         Server!Flushed, ServerProofs!Flushed, Server!Idle, ServerProofs!Idle
<1>2. \A key \in BOOLEAN : Server!Ingest(key) <=> ServerProofs!Ingest(key)
      BY DEF Server!Ingest, ServerProofs!Ingest, Server!Behind, ServerProofs!Behind
<1>3. Server!DecodeThread <=> ServerProofs!DecodeThread
      <2>1. Server!Decoded(hand) = ServerProofs!Decoded(hand) /\ Server!Flushed = ServerProofs!Flushed
            BY DEF Server!Decoded, ServerProofs!Decoded, Server!Flushed, ServerProofs!Flushed
      <2>2. Server!Decode <=> ServerProofs!Decode
            BY <2>1 DEF Server!Decode, ServerProofs!Decode
      <2>3. /\ Server!Take <=> ServerProofs!Take
            /\ Server!FrameOutput <=> ServerProofs!FrameOutput
            /\ Server!Exit <=> ServerProofs!Exit
            BY DEF Server!Take, ServerProofs!Take, Server!FrameOutput, ServerProofs!FrameOutput,
               Server!Exit, ServerProofs!Exit
      <2> QED BY <2>2, <2>3 DEF Server!DecodeThread, ServerProofs!DecodeThread
<1>4. \A r \in Resetters, clear, flush \in BOOLEAN :
          Server!CallReset(r, clear, flush) <=> ServerProofs!CallReset(r, clear, flush)
      BY DEF Server!CallReset, ServerProofs!CallReset
<1>5. \A r \in Resetters : Server!ResetStep(r) <=> ServerProofs!ResetStep(r)
      <2> SUFFICES ASSUME NEW r \in Resetters
                   PROVE  Server!ResetStep(r) <=> ServerProofs!ResetStep(r)
          OBVIOUS
      <2>1. Server!DropQueue(r) <=> ServerProofs!DropQueue(r)
            BY DEF Server!DropQueue, ServerProofs!DropQueue
      <2>2. Server!ResetOutput(r) <=> ServerProofs!ResetOutput(r)
            BY DEF Server!ResetOutput, ServerProofs!ResetOutput, Server!Flushed,
               ServerProofs!Flushed, Server!Idle, ServerProofs!Idle
      <2> QED BY <2>1, <2>2 DEF Server!ResetStep, ServerProofs!ResetStep
<1>6. (Server!ItemFrame <=> ServerProofs!ItemFrame) /\ (Server!Quit <=> ServerProofs!Quit)
      BY DEF Server!ItemFrame, ServerProofs!ItemFrame, Server!Quit, ServerProofs!Quit
<1>7. Server!Next <=> ServerProofs!Next
      BY <1>2, <1>3, <1>4, <1>5, <1>6 DEF Server!Next, ServerProofs!Next
<1>8. Server!serverVars = ServerProofs!serverVars
      BY DEF Server!serverVars, ServerProofs!serverVars
<1>9. [Server!Next]_(Server!serverVars) <=> [ServerProofs!Next]_(ServerProofs!serverVars)
      BY <1>7, <1>8, Zenon DEF Server!serverVars, ServerProofs!serverVars
<1> QED BY <1>1, <1>9, PTL DEF Server!Spec, ServerProofs!Spec

(* Under the receiver's handlers, too, the queue stays bounded.            *)
THEOREM ReceiverQueueBounded == Spec => []Server!QueueBounded
<1>1. ServerProofs!ServerAssumption
      BY ReceiverAssumption DEF ServerProofs!ServerAssumption
<1>2. ServerProofs!Spec => []ServerProofs!QueueBounded
      BY <1>1, ServerProofs!QueueStaysBounded
<1>3. ServerProofs!QueueBounded <=> Server!QueueBounded
      BY DEF ServerProofs!QueueBounded, Server!QueueBounded
<1> QED BY <1>2, <1>3, SameServer, ReceiverUsesServer, PTL DEF ServerUsed

(* So does the picture lose its references only across a reset.            *)
THEOREM ReceiverPictureWhole == Spec => Server!PictureWhole
<1>1. ServerProofs!ServerAssumption
      BY ReceiverAssumption DEF ServerProofs!ServerAssumption
<1>2. ServerProofs!Spec => ServerProofs!PictureWhole
      BY <1>1, ServerProofs!BacklogNeverDamages
<1>3. ServerProofs!PictureWhole <=> Server!PictureWhole
      BY PTL DEF ServerProofs!PictureWhole, Server!PictureWhole, ServerProofs!serverVars,
         Server!serverVars
<1> QED BY <1>2, <1>3, SameServer, ReceiverUsesServer, PTL DEF ServerUsed

(* And whichever handler resets the decoders, the decode thread takes no   *)
(* payload from before a completed reset.                                  *)
THEOREM ReceiverTakesNoEnded == Spec => Server!EndedNeverTaken
<1>1. ServerProofs!ServerAssumption
      BY ReceiverAssumption DEF ServerProofs!ServerAssumption
<1>2. ServerProofs!Spec => ServerProofs!EndedNeverTaken
      BY <1>1, ServerProofs!NoEndedPayloadTaken
<1>3. ServerProofs!EndedNeverTaken <=> Server!EndedNeverTaken
      BY PTL DEF ServerProofs!EndedNeverTaken, Server!EndedNeverTaken,
         ServerProofs!serverVars, Server!serverVars
<1> QED BY <1>2, <1>3, SameServer, ReceiverUsesServer, PTL DEF ServerUsed

-----------------------------------------------------------------------------
(* What each stage of obs_module_unload() has made sure of. *)
StopInv ==
    /\ DOMAIN reset = Resetters
    /\ stage \in {"up", "stopping", "httpd_joined", "clear_joined", "player_stopped",
                  "raop_destroyed", "server_stopping", "released"}
    /\ Busy("http") => stage \in {"up", "stopping"}
    /\ Busy("clear") => stage \in {"up", "stopping", "httpd_joined"}
    /\ playing => stage \in {"up", "stopping", "httpd_joined", "clear_joined"}
    /\ Busy("stream") => stage \in {"up", "stopping", "httpd_joined", "clear_joined",
                                    "player_stopped"}
    /\ stage = "released" => dpc = "stopped"
    /\ program["decode"] # <<>> => dpc = "output"

LEMMA ThreadNames == Threads = {"http", "stream", "clear", "decode"} /\ "decode" \notin Resetters
<1> QED BY DEF Threads, Resetters

LEMMA StopInit == Init => StopInv
<1> QED BY ThreadNames DEF Init, StopInv, Busy, Server!Init, Server!Idle, Resetters

(* A step inside a handler starts none, and only the HTTP thread's start   *)
(* an item.                                                                *)
LEMMA StopStepInv ==
    ASSUME ProgramTyped, StopInv, NEW t \in Threads, Step(t)
    PROVE  StopInv'
<1> DEFINE op == Head(program[t])
<1>1. program[t] # <<>> /\ stage' = stage /\ dpc' = dpc
      BY DEF Step, CallReset, Server!CallReset, serverVars
<1>2. \A u \in Threads \ {t} : program'[u] = program[u]
      BY DEF Step, MemberStep, ReadStep, PlayerStep, CallReset, Then, ProgramTyped
<1>3. DOMAIN reset' = Resetters /\ \A u \in Resetters \ {t} : reset'[u] = reset[u]
      BY DEF StopInv, Step, CallReset, Server!CallReset, serverVars
<1>4. ASSUME NEW u \in Threads, Busy(u)' PROVE Busy(u)
      BY <1>1, <1>2, <1>3, <1>4 DEF Busy
<1>5. playing' => playing \/ t = "http"
      <2>1. CASE PlayerStep(t, op)
            BY <1>1, <2>1, HeadTyped, StepKinds DEF PlayerStep
      <2>2. CASE ~PlayerStep(t, op)
            BY <2>2 DEF Step, CallReset
      <2> QED BY <2>1, <2>2
<1>6. program'["decode"] # <<>> => program["decode"] # <<>>
      BY <1>1, <1>2, ThreadNames
<1>7. t = "http" => Busy("http")
      BY <1>1 DEF Busy
<1> QED BY <1>1, <1>3, <1>4, <1>5, <1>6, <1>7, ThreadNames DEF StopInv

LEMMA StopNext == ProgramTyped /\ StopInv /\ [Next]_vars => StopInv'
<1> SUFFICES ASSUME ProgramTyped, StopInv, [Next]_vars PROVE StopInv'
    OBVIOUS
<1>1. ASSUME NEW t \in Threads, NEW name, Start(t, name), t # "decode"
      PROVE  /\ \A u \in Threads \ {t} : Busy(u)' => Busy(u)
             /\ DOMAIN reset' = Resetters /\ stage' = stage /\ dpc' = dpc /\ playing' = playing
             /\ program'["decode"] = program["decode"]
      BY <1>1, ThreadNames DEF Start, Busy, StopInv, ProgramTyped, serverVars
<1>2. CASE Connect \/ Disconnect \/ HttpCall
      <2>1. PICK name \in HttpNames : Start("http", name)
            BY <1>2, ReceiverAssumption DEF Connect, Disconnect, HttpCall, Call, HttpNames
      <2>2. stage \in {"up", "stopping"}
            BY <1>2 DEF Connect, Disconnect, HttpCall
      <2> QED BY <1>1, <2>1, <2>2, ThreadNames DEF StopInv
<1>3. CASE StreamCall
      <2>1. PICK name \in StreamNames : Start("stream", name)
            BY <1>3, ReceiverAssumption DEF StreamCall, Call, StreamNames
      <2>2. stage \notin {"raop_destroyed", "server_stopping", "released"}
            BY <1>3 DEF StreamCall, Streaming
      <2> QED BY <1>1, <2>1, <2>2, ThreadNames DEF StopInv
<1>4. CASE Expire
      <2>1. \A u \in Threads \ {"clear"} : Busy(u)' => Busy(u)
            BY <1>4, ThreadNames DEF Expire, Busy, ProgramTyped, serverVars
      <2>2. program'["decode"] = program["decode"]
            BY <1>4, ThreadNames DEF Expire, ProgramTyped
      <2> QED BY <1>4, <2>1, <2>2, ThreadNames DEF Expire, StopInv, serverVars
<1>5. CASE DecodeStep
      <2>1. /\ \A u \in Threads \ {"decode"} : program'[u] = program[u]
            /\ program'["decode"] # <<>> => dpc' = "output"
            BY <1>5, ThreadNames DEF DecodeStep, ProgramTyped
      <2>2. reset' = reset /\ stage' = stage /\ playing' = playing
            BY <1>5 DEF DecodeStep, Server!DecodeThread, Server!Take, Server!Decode,
               Server!FrameOutput, Server!Exit
      <2>3. dpc # "stopped"
            BY <1>5 DEF DecodeStep, Server!DecodeThread, Server!Take, Server!Decode,
               Server!FrameOutput, Server!Exit
      <2>4. \A u \in Threads \ {"decode"} : Busy(u)' <=> Busy(u)
            BY <2>1, <2>2 DEF Busy
      <2> QED BY <2>1, <2>2, <2>3, <2>4, ThreadNames DEF StopInv
<1>6. ASSUME NEW t \in Threads, Step(t) PROVE StopInv'
      BY <1>6, StopStepInv
<1>7. ASSUME NEW r \in Resetters, ResetStep(r) PROVE StopInv'
      <2>1. /\ reset[r].pc # "idle" /\ DOMAIN reset' = Resetters /\ dpc' = dpc
            /\ \A u \in Resetters \ {r} : reset'[u] = reset[u]
            BY <1>7 DEF ResetStep, Server!ResetStep, Server!DropQueue, Server!ResetOutput, StopInv
      <2>2. program' = program /\ stage' = stage /\ playing' = playing
            BY <1>7 DEF ResetStep
      <2>3. \A u \in Threads : Busy(u)' => Busy(u)
            BY <2>1, <2>2 DEF Busy
      <2> QED BY <2>1, <2>2, <2>3, ThreadNames DEF StopInv
<1>8. CASE \E key \in BOOLEAN : VideoProcess(key)
      BY <1>8, ThreadNames DEF VideoProcess, Server!Ingest, StopInv, Busy
<1>9. CASE MediaFrame
      BY <1>9, ThreadNames DEF MediaFrame, Server!ItemFrame, StopInv, Busy
<1>10. CASE StopHttpd \/ StopStep
      <2>1. /\ program' = program /\ reset' = reset /\ dpc' = dpc
            /\ playing' = playing \/ playing' = FALSE
            BY <1>10 DEF StopHttpd, StopStep, JoinHttpd, JoinClear, StopPlayer, DestroyRaop,
               StopServer, Release, Stage, Server!Quit, serverVars
      <2>2. \A u \in Threads : Busy(u)' <=> Busy(u)
            BY <2>1 DEF Busy
      <2> QED BY <1>10, <2>1, <2>2, ThreadNames
          DEF StopInv, StopHttpd, StopStep, JoinHttpd, JoinClear, StopPlayer, DestroyRaop,
              StopServer, Release, Stage
<1>11. CASE Released \/ UNCHANGED vars
      BY <1>11, ThreadNames DEF Released, vars, serverVars, StopInv, Busy
<1> QED BY <1>2, <1>3, <1>4, <1>5, <1>6, <1>7, <1>8, <1>9, <1>10, <1>11 DEF Next

(* The order of stop() is right for any number of connections, callbacks   *)
(* and payloads: nothing plays once the player has been stopped, and no    *)
(* thread runs a callback once the plugin's objects are released.          *)
THEOREM StopIsOrdered == Spec => []StopOrder
<1>1. StopInv => StopOrder
      BY ThreadNames DEF StopInv, StopOrder, Busy
<1> QED BY <1>1, StopInit, StopNext, AlwaysTyped, PTL DEF Spec

-----------------------------------------------------------------------------
Members == [open_connections : 0..MaxConnections, media_active : BOOLEAN,
            frame_shown : BOOLEAN, clear_pending : BOOLEAN,
            last_state : States \cup {""}]

MembersTyped ==
    /\ uxplay \in Members
    /\ playing \in BOOLEAN /\ unsettled \in BOOLEAN
    /\ calls \in 0..MaxCalls

LEMMA ServerAlwaysTyped == Spec => []Server!TypeOK
<1>1. ServerProofs!ServerAssumption
      BY ReceiverAssumption DEF ServerProofs!ServerAssumption
<1>2. ServerProofs!Spec => []ServerProofs!TypeOK
      BY <1>1, ServerProofs!ServerTypeCorrect
<1>3. ServerProofs!TypeOK <=> Server!TypeOK
      BY DEF ServerProofs!TypeOK, Server!TypeOK, ServerProofs!Payload, Server!Payload
<1> QED BY <1>2, <1>3, SameServer, ReceiverUsesServer, PTL DEF ServerUsed

LEMMA MembersInit == Init => MembersTyped
<1> SUFFICES ASSUME Init PROVE MembersTyped
    OBVIOUS
<1>1. 0 \in 0..MaxConnections /\ 0 \in 0..MaxCalls
      BY ReceiverAssumption
<1>2. uxplay \in Members
      BY <1>1 DEF Init, Members
<1> QED BY <1>1, <1>2 DEF Init, MembersTyped

LEMMA MembersNext == ProgramTyped /\ MembersTyped /\ [Next]_vars => MembersTyped'
<1> SUFFICES ASSUME ProgramTyped, MembersTyped, [Next]_vars PROVE MembersTyped'
    OBVIOUS
<1> USE DEF MembersTyped
<1>1. ASSUME NEW t, NEW name, Start(t, name) PROVE unsettled' \in BOOLEAN /\ playing' = playing
      BY <1>1 DEF Start, Settled, LastCloses
<1>2. CASE Connect
      <2>1. uxplay.open_connections + 1 \in 0..MaxConnections
            <3>1. uxplay.open_connections \in 0..MaxConnections
                  BY DEF Members
            <3>2. uxplay.open_connections < MaxConnections
                  BY <1>2 DEF Connect
            <3>3. MaxConnections \in Nat
                  BY ReceiverAssumption
            <3> HIDE DEF MembersTyped
            <3> QED BY <3>1, <3>2, <3>3
      <2>2. uxplay' \in Members
            BY <1>2, <2>1 DEF Connect, Set, Members
      <2> QED BY <1>1, <1>2, <2>2, ReceiverAssumption DEF Connect
<1>3. CASE Disconnect
      <2>1. uxplay.open_connections - 1 \in 0..MaxConnections
            <3>1. uxplay.open_connections \in 0..MaxConnections
                  BY DEF Members
            <3>2. uxplay.open_connections > 0
                  BY <1>3 DEF Disconnect
            <3>3. MaxConnections \in Nat
                  BY ReceiverAssumption
            <3> HIDE DEF MembersTyped
            <3> QED BY <3>1, <3>2, <3>3
      <2>2. uxplay' \in Members
            BY <1>3, <2>1 DEF Disconnect, Set, Members
      <2> QED BY <1>1, <1>3, <2>2 DEF Disconnect
<1>4. CASE HttpCall \/ StreamCall
      BY <1>1, <1>4, ReceiverAssumption DEF HttpCall, StreamCall, Call
<1>5. CASE Expire
      <2>1. uxplay' \in Members
            BY <1>5 DEF Expire, Set, Members
      <2> QED BY <1>5, <2>1 DEF Expire
<1>6. ASSUME NEW t \in Threads, Step(t) PROVE MembersTyped'
      <2> DEFINE op == Head(program[t])
      <2>1. op \in StepsOf(t)
            BY <1>6, HeadTyped DEF Step
      <2>2. uxplay' \in Members
            <3>1. CASE MemberStep(t, op)
                  <4>1. /\ op[1] \in {"set_media", "set_shown"} => op[2] \in BOOLEAN
                        /\ op[1] = "store_state" => op[2] \in States \cup {""}
                        BY <2>1, StepKinds
                  <4>2. \/ \E field \in {"media_active", "frame_shown", "clear_pending"},
                              value \in BOOLEAN : Set(field, value)
                        \/ \E value \in States \cup {""} : Set("last_state", value)
                        BY <3>1, <4>1 DEF MemberStep
                  <4> QED BY <4>2 DEF Set, Members
            <3>2. CASE ~MemberStep(t, op)
                  BY <1>6, <3>2 DEF Step, ReadStep, PlayerStep, CallReset
            <3> QED BY <3>1, <3>2
      <2>3. playing' \in BOOLEAN
            BY <1>6 DEF Step, PlayerStep, CallReset
      <2> QED BY <1>6, <2>2, <2>3 DEF Step
<1>7. CASE StopStep
      BY <1>7 DEF StopStep, JoinHttpd, JoinClear, StopPlayer, DestroyRaop, StopServer,
         Release, Stage
<1>8. CASE \/ \E key \in BOOLEAN : VideoProcess(key)
           \/ \E r \in Resetters : ResetStep(r)
           \/ DecodeStep \/ MediaFrame \/ StopHttpd \/ Released \/ UNCHANGED vars
      BY <1>8 DEF VideoProcess, ResetStep, DecodeStep, MediaFrame, StopHttpd, Stage,
         Released, vars
<1> QED BY <1>2, <1>3, <1>4, <1>5, <1>6, <1>7, <1>8 DEF Next

LEMMA MembersAlwaysTyped == Spec => []MembersTyped
<1> QED BY MembersInit, MembersNext, AlwaysTyped, PTL DEF Spec

(* Every variable of the receiver and of its server keeps its type. *)
THEOREM ReceiverTypeCorrect == Spec => []TypeOK
<1>1. Server!TypeOK /\ MembersTyped /\ ProgramTyped /\ StopInv => TypeOK
      BY DEF TypeOK, MembersTyped, Members, ProgramTyped, StopInv
<1> QED BY <1>1, ServerAlwaysTyped, MembersAlwaysTyped, AlwaysTyped, StopInit, StopNext, PTL DEF Spec

-----------------------------------------------------------------------------
(* The invariant behind CleanAfterLast and ActiveItemStays: while every    *)
(* call came settled, what each thread has left to do, and what it relies  *)
(* on until then.  A rest is what is left of a handler, u the members, p   *)
(* whether the player has an item.                                         *)

(* Some steps, by name. *)
MediaOff == <<"set_media", FALSE>>
MediaOn == <<"set_media", TRUE>>
ShownOff == <<"set_shown", FALSE>>
ShownOn == <<"set_shown", TRUE>>
Waiting == Reset(FALSE, FALSE)       \* waits for the output, changes nothing
Flushing(clear) == Reset(clear, TRUE)
Stale == Reset(FALSE, TRUE)          \* ends the stream, the output stays
Everything == Reset(TRUE, TRUE)
ClearAlone == Reset(TRUE, FALSE)

(* A notification is about to read the state, or to store what it read. *)
Noting == {Notify} \cup {<<"store_state", state>> : state \in States}

(* The rest of conn_destroy for the last connection, up to the schedule. *)
Closing(rest) == rest = <<<<"schedule_if_shown">>, Notify>> \/ rest = <<<<"schedule">>, Notify>>

Tearing(rest) ==
    \/ rest = <<Stale, <<"schedule_if_mirroring">>>>
    \/ rest = <<<<"schedule_if_mirroring">>>>

(* on_video_stop: the player stops first, and the item is not active any   *)
(* more when the clear is scheduled.                                       *)
Stopping(rest, u, p) ==
    \/ rest = <<<<"stop_player">>, MediaOff, Notify, Waiting,
                <<"schedule">>>>
    \/ rest = <<MediaOff, Notify, Waiting, <<"schedule">>>> /\ ~p
    \/ /\ ~u.media_active
       /\ \/ \E op \in Noting : rest = <<op, Waiting, <<"schedule">>>>
          \/ rest = <<Waiting, <<"schedule">>>>
          \/ rest = <<<<"schedule">>>>

(* A reset, ending the item before it or not; it clears only the picture   *)
(* of an item that is not active.                                          *)
Resetting(rest, u, p) ==
    \/ rest = <<<<"stop_player">>, MediaOff, Notify, <<"cancel">>,
                <<"reset_unless_media">>>>
    \/ rest = <<MediaOff, Notify, <<"cancel">>, <<"reset_unless_media">>>> /\ ~p
    \/ /\ ~u.media_active
       /\ \/ \E op \in Noting : rest = <<op, <<"cancel">>, <<"reset_unless_media">>>>
          \/ rest = <<<<"cancel">>, <<"reset_unless_media">>>>
    \/ rest = <<<<"reset_unless_media">>>>
    \/ \E clear \in BOOLEAN : rest = <<Flushing(clear)>> /\ (clear => ~u.media_active)

(* Where a thread of UxPlay is, unless it starts an item or closes the     *)
(* last connection.                                                        *)
Request(rest, u, p) ==
    \/ rest = <<>>
    \/ \E op \in Noting : rest = <<op>>
    \/ Tearing(rest) \/ Stopping(rest, u, p) \/ Resetting(rest, u, p)

(* on_video_play: no clear is pending from its first step on. *)
Showing(rest) ==
    \/ \E op \in Noting : rest = <<op, ShownOn, <<"play">>>>
    \/ rest = <<ShownOn, <<"play">>>>

Playing(rest, u) ==
    /\ u.open_connections > 0
    /\ \/ rest = OnVideoPlay
       \/ /\ ~u.clear_pending
          /\ \/ rest = <<<<"stop_player">>, Waiting, MediaOn, Notify,
                         ShownOn, <<"play">>>>
             \/ rest = <<Waiting, MediaOn, Notify,
                         ShownOn, <<"play">>>>
             \/ rest = <<MediaOn, Notify, ShownOn, <<"play">>>>
             \/ u.media_active /\ Showing(rest)
             \/ u.media_active /\ u.frame_shown /\ rest = <<<<"play">>>>

(* Where the deferred clear is: it has no active item to take away, or no  *)
(* connection that could have started one.                                 *)
Quitting == <<<<"stop_player">>, Notify, Everything>>

Clearing(rest, u) ==
    \/ rest = <<>>
    \/ /\ rest = DeferredClear \/ rest = <<<<"clear_by_connections">>>>
       /\ ~u.media_active \/ u.open_connections = 0
    \/ rest = <<<<"exchange_media">>, Notify, Everything>>
    \/ /\ ~u.media_active
       /\ \/ rest = Quitting
          \/ \E op \in Noting : rest = <<op, Everything>>
          \/ rest = <<Everything>>
          \/ rest = <<ClearAlone>>

(* The callback of a mirror picture. *)
Callback(rest) ==
    \/ rest = <<>>
    \/ rest = OnMirrorFrameOutput
    \/ \E op \in Noting : rest = <<op, <<"cancel_if_pending">>>>
    \/ rest = <<<<"cancel_if_pending">>>>
    \/ rest = <<<<"cancel">>>>

Places ==
    /\ \/ Request(program["http"], uxplay, playing)
       \/ uxplay.open_connections = 0 /\ Closing(program["http"])
       \/ Playing(program["http"], uxplay)
    /\ Request(program["stream"], uxplay, playing)
    /\ Clearing(program["clear"], uxplay)
    /\ Callback(program["decode"])

(* A reset that is under way and clears the output has no item to clear,   *)
(* and the deferred clear's always clears it.                              *)
Resets ==
    /\ \A r \in Resetters : reset[r].pc # "idle" /\ reset[r].clear => ~uxplay.media_active
    /\ reset["clear"].pc # "idle" => reset["clear"].clear /\ program["clear"] = <<>>

(* While an item starts no clear runs, and all a stream thread may do is   *)
(* announce a codec.                                                       *)
Harmless ==
    /\ program["stream"] = <<>> \/ program["stream"] = <<Stale>>
    /\ reset["stream"].pc # "idle" => ~reset["stream"].clear

Apart == Starting => ~Busy("clear") /\ Harmless

(* The player has no item that is not active, except while the clear stops *)
(* it: an item is stopped before it is no longer active.                   *)
Follows == playing => uxplay.media_active \/ program["clear"] = Quitting

(* Without a connection nothing of a mirror stream is in the server. *)
Unconnected ==
    uxplay.open_connections = 0 => queue = <<>> /\ dpc \in {"idle", "stopped"}

(* What is on the screen or about to be is known to be (m_frame_shown), or *)
(* a clear is under way.                                                   *)
Known ==
    /\ screen # "empty" =>
         uxplay.frame_shown \/ Busy("clear") \/ program["decode"] = OnMirrorFrameOutput
    /\ playing => uxplay.frame_shown \/ Busy("clear")
    /\ uxplay.media_active =>
         \/ uxplay.frame_shown \/ Busy("clear")
         \/ uxplay.open_connections > 0 /\ Showing(program["http"])

(* A reset to come, or under way, that empties the screen unless an item   *)
(* is active.                                                              *)
Emptying(t) ==
    \/ program[t] = <<<<"reset_unless_media">>>> \/ program[t] = <<Everything>>
    \/ reset[t].pc # "idle" /\ reset[t].clear

(* After the last connection has closed, whatever is left has a clear to   *)
(* come, or a reset where no item is active; with a connection open no     *)
(* clear is pending for an active item.                                    *)
Coming ==
    /\ uxplay.open_connections = 0 /\ (screen # "empty" \/ playing \/ uxplay.media_active)
         => \/ uxplay.clear_pending \/ Busy("clear") \/ Closing(program["http"])
            \/ ~uxplay.media_active /\ \E t \in {"http", "stream"} : Emptying(t)
    /\ uxplay.clear_pending /\ uxplay.media_active => uxplay.open_connections = 0

Settlement ==
    Places /\ Resets /\ Apart /\ Follows /\ Unconnected /\ Known /\ Coming

SettledInv == ~unsettled => Settlement

(* What the steps leave of a handler. *)
LEMMA Rests ==
    /\ \A a : Head(<<a>>) = a /\ <<a>> # <<>> /\ <<>> \o Tail(<<a>>) = <<>>
    /\ \A a, x : <<x>> \o Tail(<<a>>) = <<x>>
    /\ \A a, x, y, z : <<x, y, z>> \o Tail(<<a>>) = <<x, y, z>>
    /\ \A a, b : Head(<<a, b>>) = a /\ <<a, b>> # <<>> /\ <<>> \o Tail(<<a, b>>) = <<b>>
    /\ \A a, b, c : /\ Head(<<a, b, c>>) = a /\ <<a, b, c>> # <<>>
                    /\ <<>> \o Tail(<<a, b, c>>) = <<b, c>>
    /\ \A a, b, c, d : /\ Head(<<a, b, c, d>>) = a /\ <<a, b, c, d>> # <<>>
                       /\ <<>> \o Tail(<<a, b, c, d>>) = <<b, c, d>>
    /\ \A a, b, c, d, e : /\ Head(<<a, b, c, d, e>>) = a /\ <<a, b, c, d, e>> # <<>>
                          /\ <<>> \o Tail(<<a, b, c, d, e>>) = <<b, c, d, e>>
    /\ \A a, b, c, d, e, f :
          /\ Head(<<a, b, c, d, e, f>>) = a /\ <<a, b, c, d, e, f>> # <<>>
          /\ <<>> \o Tail(<<a, b, c, d, e, f>>) = <<b, c, d, e, f>>
    /\ \A a, b, c, d, e, f, g :
          /\ Head(<<a, b, c, d, e, f, g>>) = a /\ <<a, b, c, d, e, f, g>> # <<>>
          /\ <<>> \o Tail(<<a, b, c, d, e, f, g>>) = <<b, c, d, e, f, g>>
<1> QED BY SMTT(30)

LEMMA OneBeforeOne == ASSUME NEW a, NEW b, NEW x PROVE <<x>> \o Tail(<<a, b>>) = <<x, b>>
<1> DEFINE S == {x, b}
<1>1. <<x>> \in Seq(S) /\ <<b>> \in Seq(S) /\ <<x, b>> \in Seq(S) /\ Tail(<<a, b>>) = <<b>>
      OBVIOUS
<1>2. Len(<<x>> \o <<b>>) = 2 /\ Len(<<x, b>>) = 2 /\ <<x>> \o <<b>> \in Seq(S)
      BY <1>1
<1>3. ASSUME NEW i \in 1..2 PROVE (<<x>> \o <<b>>)[i] = <<x, b>>[i]
      BY <1>1
<1> QED BY <1>1, <1>2, <1>3, SeqEqual

LEMMA OneBeforeTwo ==
    ASSUME NEW a, NEW b, NEW c, NEW x PROVE <<x>> \o Tail(<<a, b, c>>) = <<x, b, c>>
<1> DEFINE S == {x, b, c}
<1>1. /\ <<x>> \in Seq(S) /\ <<b, c>> \in Seq(S) /\ <<x, b, c>> \in Seq(S)
      /\ Tail(<<a, b, c>>) = <<b, c>>
      OBVIOUS
<1>2. Len(<<x>> \o <<b, c>>) = 3 /\ Len(<<x, b, c>>) = 3 /\ <<x>> \o <<b, c>> \in Seq(S)
      BY <1>1
<1>3. ASSUME NEW i \in 1..3 PROVE (<<x>> \o <<b, c>>)[i] = <<x, b, c>>[i]
      BY <1>1
<1> QED BY <1>1, <1>2, <1>3, SeqEqual

-----------------------------------------------------------------------------
(* What each step does. *)
Elsewhere(t) ==
    /\ \A u \in Threads \ {t} : program'[u] = program[u]
    /\ DOMAIN program' = Threads
    /\ stage' = stage /\ unsettled' = unsettled
    /\ <<queue, dpc, screen>>' = <<queue, dpc, screen>>
    /\ uxplay'.open_connections = uxplay.open_connections
    /\ uxplay' \in Members

Keeps == playing' = playing /\ reset' = reset

SetsOnly(field, value) == Keeps /\ Set(field, value)

Left(t, steps) == program'[t] = steps \o Tail(program[t])

LEMMA StepElsewhere ==
    ASSUME ProgramTyped, MembersTyped, MembersTyped', NEW t \in Threads, Step(t)
    PROVE  /\ Elsewhere(t)
           /\ program[t] # <<>>
           /\ t \in Resetters => reset[t].pc = "idle"
           /\ Busy(t)
<1> DEFINE op == Head(program[t])
<1>1. \E steps : Then(t, steps)
      BY DEF Step, MemberStep, ReadStep, PlayerStep, CallReset
<1>2. /\ \A u \in Threads \ {t} : program'[u] = program[u]
      /\ DOMAIN program' = Threads
      BY <1>1 DEF Then, ProgramTyped
<1>3. <<queue, dpc, screen>>' = <<queue, dpc, screen>>
      BY DEF Step, CallReset, serverVars, Server!CallReset
<1>4. uxplay'.open_connections = uxplay.open_connections
      <2>1. \/ \E field \in {"clear_pending", "media_active", "frame_shown", "last_state"} : \E value :
                  Set(field, value)
            \/ uxplay' = uxplay
            BY DEF Step, MemberStep, ReadStep, PlayerStep, CallReset
      <2> QED BY <2>1 DEF Set, MembersTyped, Members
<1> QED BY <1>2, <1>3, <1>4 DEF Step, Elsewhere, Busy, MembersTyped

LEMMA Second == \A a, b : <<a, b>>[1] = a /\ <<a, b>>[2] = b
<1> QED OBVIOUS

LEMMA StepEffects ==
    ASSUME ProgramTyped, MembersTyped, NEW t \in Threads, Step(t),
           NEW op, op = Head(program[t])
    PROVE  /\ op = <<"cancel">> => SetsOnly("clear_pending", FALSE) /\ Left(t, <<>>)
           /\ op = <<"schedule">> => SetsOnly("clear_pending", TRUE) /\ Left(t, <<>>)
           /\ op = MediaOff => SetsOnly("media_active", FALSE) /\ Left(t, <<>>)
           /\ op = MediaOn => SetsOnly("media_active", TRUE) /\ Left(t, <<>>)
           /\ op = ShownOff => SetsOnly("frame_shown", FALSE) /\ Left(t, <<>>)
           /\ op = ShownOn => SetsOnly("frame_shown", TRUE) /\ Left(t, <<>>)
           /\ op = <<"exchange_shown">> =>
                /\ SetsOnly("frame_shown", TRUE)
                /\ Left(t, IF uxplay.frame_shown THEN <<>> ELSE <<Notify>>)
           /\ op = <<"exchange_media">> =>
                /\ SetsOnly("media_active", FALSE)
                /\ Left(t, IF uxplay.media_active THEN <<<<"stop_player">>>> ELSE <<>>)
           /\ \A s : op = <<"store_state", s>> => SetsOnly("last_state", s) /\ Left(t, <<>>)
           /\ op = <<"read_state">> =>
                /\ Keeps /\ uxplay' = uxplay
                /\ \E s \in States : Left(t, <<<<"store_state", s>>>>)
           /\ op = <<"schedule_if_shown">> =>
                /\ Keeps /\ uxplay' = uxplay
                /\ Left(t, IF uxplay.frame_shown THEN <<<<"schedule">>>> ELSE <<>>)
           /\ op = <<"schedule_if_mirroring">> =>
                /\ Keeps /\ uxplay' = uxplay
                /\ Left(t, IF ~uxplay.media_active /\ uxplay.frame_shown
                           THEN <<<<"schedule">>>> ELSE <<>>)
           /\ op = <<"cancel_if_pending">> =>
                /\ Keeps /\ uxplay' = uxplay
                /\ Left(t, IF uxplay.clear_pending THEN <<<<"cancel">>>> ELSE <<>>)
           /\ op = <<"clear_by_connections">> =>
                /\ Keeps /\ uxplay' = uxplay
                /\ Left(t, IF uxplay.open_connections <= 0
                           THEN <<<<"exchange_media">>, Notify, Everything>>
                           ELSE <<ClearAlone>>)
           /\ op = <<"stop_player">> =>
                playing' = FALSE /\ reset' = reset /\ uxplay' = uxplay /\ Left(t, <<>>)
           /\ op = <<"play">> =>
                playing' = TRUE /\ reset' = reset /\ uxplay' = uxplay /\ Left(t, <<>>)
<1>1. \A steps : Then(t, steps) => Left(t, steps)
      BY DEF Then, Left, ProgramTyped
<1>2. \/ MemberStep(t, op) /\ Keeps
      \/ ReadStep(t, op) /\ Keeps
      \/ PlayerStep(t, op) /\ reset' = reset
      \/ CallReset(t, op)
      BY DEF Step, Keeps, serverVars
<1>3. op[1] \in {"cancel", "schedule", "set_media", "set_shown", "exchange_shown",
                 "exchange_media", "store_state"}
         => MemberStep(t, op) /\ Keeps
      BY <1>2 DEF ReadStep, PlayerStep, CallReset
<1>4. op[1] \in {"read_state", "schedule_if_shown", "schedule_if_mirroring",
                 "cancel_if_pending", "reset_unless_media", "clear_by_connections"}
         => ReadStep(t, op) /\ Keeps
      BY <1>2 DEF MemberStep, PlayerStep, CallReset
<1>5. op[1] \in {"stop_player", "play"} => PlayerStep(t, op) /\ reset' = reset
      BY <1>2 DEF MemberStep, ReadStep, CallReset
<1>7. op = <<"cancel">> => SetsOnly("clear_pending", FALSE) /\ Left(t, <<>>)
      BY <1>1, <1>3 DEF MemberStep, SetsOnly, Set
<1>8. op = <<"schedule">> => SetsOnly("clear_pending", TRUE) /\ Left(t, <<>>)
      BY <1>1, <1>3 DEF MemberStep, SetsOnly, Set
<1>6. op = MediaOff => SetsOnly("media_active", FALSE) /\ Left(t, <<>>)
      <2>1. op = MediaOff => op[1] = "set_media" /\ op[2] = FALSE
            BY Second, Zenon DEF MediaOff
      <2>2. op[1] = "set_media" => Set("media_active", op[2]) /\ Then(t, <<>>) /\ Keeps
            BY <1>3 DEF MemberStep
      <2> QED BY <1>1, <2>1, <2>2, Zenon DEF SetsOnly
<1>9. op = MediaOn => SetsOnly("media_active", TRUE) /\ Left(t, <<>>)
      <2>1. op = MediaOn => op[1] = "set_media" /\ op[2] = TRUE
            BY Second, Zenon DEF MediaOn
      <2>2. op[1] = "set_media" => Set("media_active", op[2]) /\ Then(t, <<>>) /\ Keeps
            BY <1>3 DEF MemberStep
      <2> QED BY <1>1, <2>1, <2>2, Zenon DEF SetsOnly
<1>10. op = ShownOff => SetsOnly("frame_shown", FALSE) /\ Left(t, <<>>)
      <2>1. op = ShownOff => op[1] = "set_shown" /\ op[2] = FALSE
            BY Second, Zenon DEF ShownOff
      <2>2. op[1] = "set_shown" => Set("frame_shown", op[2]) /\ Then(t, <<>>) /\ Keeps
            BY <1>3 DEF MemberStep
      <2> QED BY <1>1, <2>1, <2>2, Zenon DEF SetsOnly
<1>23. op = ShownOn => SetsOnly("frame_shown", TRUE) /\ Left(t, <<>>)
      <2>1. op = ShownOn => op[1] = "set_shown" /\ op[2] = TRUE
            BY Second, Zenon DEF ShownOn
      <2>2. op[1] = "set_shown" => Set("frame_shown", op[2]) /\ Then(t, <<>>) /\ Keeps
            BY <1>3 DEF MemberStep
      <2> QED BY <1>1, <2>1, <2>2, Zenon DEF SetsOnly
<1>11. op = <<"exchange_shown">> =>
         /\ SetsOnly("frame_shown", TRUE)
         /\ Left(t, IF uxplay.frame_shown THEN <<>> ELSE <<Notify>>)
      BY <1>1, <1>3 DEF MemberStep, SetsOnly, Set
<1>12. op = <<"exchange_media">> =>
         /\ SetsOnly("media_active", FALSE)
         /\ Left(t, IF uxplay.media_active THEN <<<<"stop_player">>>> ELSE <<>>)
      BY <1>1, <1>3 DEF MemberStep, SetsOnly, Set
<1>13. \A s : op = <<"store_state", s>> => SetsOnly("last_state", s) /\ Left(t, <<>>)
      BY <1>1, <1>3 DEF MemberStep, SetsOnly, Set
<1>14. op[1] \in {"read_state", "schedule_if_shown", "schedule_if_mirroring",
                  "cancel_if_pending", "reset_unless_media", "clear_by_connections"}
         => Keeps /\ uxplay' = uxplay
      BY <1>4 DEF ReadStep
<1>15. op = <<"read_state">> => \E s \in States : Left(t, <<<<"store_state", s>>>>)
      <2>1. op = <<"read_state">> => Then(t, <<<<"store_state", ConnectionState>>>>)
            BY <1>4 DEF ReadStep
      <2> QED BY <1>1, <2>1, StateKnown
<1>16. op = <<"schedule_if_shown">> =>
         Left(t, IF uxplay.frame_shown THEN <<<<"schedule">>>> ELSE <<>>)
      BY <1>1, <1>4 DEF ReadStep
<1>17. op = <<"schedule_if_mirroring">> =>
         Left(t, IF ~uxplay.media_active /\ uxplay.frame_shown THEN <<<<"schedule">>>> ELSE <<>>)
      BY <1>1, <1>4 DEF ReadStep
<1>18. op = <<"cancel_if_pending">> =>
         Left(t, IF uxplay.clear_pending THEN <<<<"cancel">>>> ELSE <<>>)
      BY <1>1, <1>4 DEF ReadStep
<1>20. op = <<"clear_by_connections">> =>
         Left(t, IF uxplay.open_connections <= 0
                 THEN <<<<"exchange_media">>, Notify, Everything>>
                 ELSE <<ClearAlone>>)
      BY <1>1, <1>4 DEF ReadStep, Everything, ClearAlone
<1>21. /\ op = <<"stop_player">> =>
            playing' = FALSE /\ reset' = reset /\ uxplay' = uxplay /\ Left(t, <<>>)
       /\ op = <<"play">> =>
            playing' = TRUE /\ reset' = reset /\ uxplay' = uxplay /\ Left(t, <<>>)
      BY <1>1, <1>5 DEF PlayerStep
<1>22. op \in {<<"read_state">>, <<"schedule_if_shown">>, <<"schedule_if_mirroring">>,
              <<"cancel_if_pending">>, <<"reset_unless_media">>, <<"clear_by_connections">>}
         => Keeps /\ uxplay' = uxplay
      BY <1>14
<1> QED BY <1>6, <1>7, <1>8, <1>9, <1>10, <1>11, <1>12, <1>13, <1>15, <1>16, <1>17, <1>18,
           <1>20, <1>21, <1>22, <1>23, Zenon

LEMMA UnlessMediaStep ==
    ASSUME ProgramTyped, NEW t \in Threads, Step(t), Head(program[t]) = <<"reset_unless_media">>
    PROVE  /\ Keeps /\ uxplay' = uxplay
           /\ \E clear \in BOOLEAN : Left(t, <<Flushing(clear)>>) /\ (clear <=> ~uxplay.media_active)
<1>1. PICK op : op = Head(program[t])
      OBVIOUS
<1>2. op[1] = "reset_unless_media"
      BY <1>1
<1>3. ReadStep(t, op) /\ Keeps
      BY <1>1, <1>2 DEF Step, MemberStep, PlayerStep, CallReset, Keeps, serverVars
<1>4. uxplay' = uxplay /\ Then(t, <<Reset(~uxplay.media_active, TRUE)>>)
      BY <1>2, <1>3 DEF ReadStep
<1>5. PICK clear \in BOOLEAN : clear = (~uxplay.media_active)
      OBVIOUS
<1>6. Left(t, <<Flushing(clear)>>)
      BY <1>4, <1>5 DEF Flushing, Then, Left, ProgramTyped
<1>7. clear <=> ~uxplay.media_active
      BY <1>5
<1> QED BY <1>3, <1>4, <1>6, <1>7

(* The members but for the announced state. *)
SameMembers ==
    /\ uxplay'.open_connections = uxplay.open_connections
    /\ uxplay'.media_active = uxplay.media_active
    /\ uxplay'.frame_shown = uxplay.frame_shown
    /\ uxplay'.clear_pending = uxplay.clear_pending

LEMMA NotingStep ==
    ASSUME ProgramTyped, MembersTyped, NEW t \in Threads, Step(t),
           NEW op \in Noting, op = Head(program[t])
    PROVE  /\ SameMembers /\ Keeps
           /\ Left(t, <<>>) \/ \E next \in Noting : Left(t, <<next>>)
<1>1. CASE op = <<"read_state">>
      <2>1. Keeps /\ uxplay' = uxplay /\ \E s \in States : Left(t, <<<<"store_state", s>>>>)
            BY <1>1, StepEffects
      <2> QED BY <2>1 DEF SameMembers, Noting
<1>2. ASSUME NEW s \in States, op = <<"store_state", s>>
      PROVE  SameMembers /\ Keeps /\ Left(t, <<>>)
      <2>1. SetsOnly("last_state", s) /\ Left(t, <<>>)
            BY <1>2, StepEffects
      <2> QED BY <2>1 DEF SetsOnly, Set, SameMembers, MembersTyped, Members
<1> QED BY <1>1, <1>2 DEF Noting, Notify

(* A step of a notification, whatever is left after it. *)
LEMMA NotingRests ==
    ASSUME NEW t, NEW op \in Noting,
           Left(t, <<>>) \/ \E next \in Noting : Left(t, <<next>>)
    PROVE  /\ program[t] = <<op>> =>
                program'[t] = <<>> \/ \E next \in Noting : program'[t] = <<next>>
           /\ \A a : program[t] = <<op, a>> =>
                program'[t] = <<a>> \/ \E next \in Noting : program'[t] = <<next, a>>
           /\ \A a, b : program[t] = <<op, a, b>> =>
                program'[t] = <<a, b>> \/ \E next \in Noting : program'[t] = <<next, a, b>>
<1>1. ASSUME Left(t, <<>>)
      PROVE  /\ program[t] = <<op>> => program'[t] = <<>>
             /\ \A a : program[t] = <<op, a>> => program'[t] = <<a>>
             /\ \A a, b : program[t] = <<op, a, b>> => program'[t] = <<a, b>>
      <2>1. program[t] = <<op>> => program'[t] = <<>>
            BY <1>1, Rests DEF Left
      <2>2. ASSUME NEW a, program[t] = <<op, a>> PROVE program'[t] = <<a>>
            BY <1>1, <2>2, Rests DEF Left
      <2>3. ASSUME NEW a, NEW b, program[t] = <<op, a, b>> PROVE program'[t] = <<a, b>>
            BY <1>1, <2>3, Rests DEF Left
      <2> QED BY <2>1, <2>2, <2>3
<1>2. ASSUME NEW next \in Noting, Left(t, <<next>>)
      PROVE  /\ program[t] = <<op>> => program'[t] = <<next>>
             /\ \A a : program[t] = <<op, a>> => program'[t] = <<next, a>>
             /\ \A a, b : program[t] = <<op, a, b>> => program'[t] = <<next, a, b>>
      <2>1. program[t] = <<op>> => program'[t] = <<next>>
            BY <1>2, Rests DEF Left
      <2>2. ASSUME NEW a, program[t] = <<op, a>> PROVE program'[t] = <<next, a>>
            <3>1. program'[t] = <<next>> \o Tail(<<op, a>>)
                  BY <1>2, <2>2 DEF Left
            <3> QED BY <3>1, OneBeforeOne
      <2>3. ASSUME NEW a, NEW b, program[t] = <<op, a, b>> PROVE program'[t] = <<next, a, b>>
            <3>1. program'[t] = <<next>> \o Tail(<<op, a, b>>)
                  BY <1>2, <2>3 DEF Left
            <3> QED BY <3>1, OneBeforeTwo
      <2> QED BY <2>1, <2>2, <2>3
<1> QED BY <1>1, <1>2

LEMMA NotingBeforeTwo ==
    ASSUME NEW t, NEW op \in Noting, NEW a, NEW b, program[t] = <<op, a, b>>,
           Left(t, <<>>) \/ \E next \in Noting : Left(t, <<next>>)
    PROVE  program'[t] = <<a, b>> \/ \E next \in Noting : program'[t] = <<next, a, b>>
<1> QED BY NotingRests

(* A call of resetDecoders(). *)
LEMMA ResetCalled ==
    ASSUME ProgramTyped, MembersTyped, DOMAIN reset = Resetters, NEW t \in Resetters, Step(t),
           NEW clear \in BOOLEAN, NEW flush \in BOOLEAN, Head(program[t]) = Reset(clear, flush)
    PROVE  /\ uxplay' = uxplay /\ playing' = playing /\ Left(t, <<>>)
           /\ DOMAIN reset' = Resetters
           /\ \A r \in Resetters \ {t} : reset'[r] = reset[r]
           /\ reset'[t].clear = clear /\ reset'[t].pc # "idle"
<1>1. t \in Threads /\ program[t] # <<>>
      BY DEF Threads, Step
<1>2. PICK op : op = Head(program[t])
      OBVIOUS
<1>3. op[1] = "reset" /\ op[2] = clear /\ op[3] = flush
      BY <1>2 DEF Reset
<1>4. CallReset(t, op)
      BY <1>2, <1>3 DEF Step, MemberStep, ReadStep, PlayerStep
<1>5. Server!CallReset(t, clear, flush) /\ Then(t, <<>>) /\ uxplay' = uxplay /\ playing' = playing
      BY <1>3, <1>4 DEF CallReset
<1>6. reset' = [reset EXCEPT ![t] = [pc |-> IF flush THEN "queue" ELSE "decoder",
                                    clear |-> clear, flush |-> flush, upto |-> 0]]
      BY <1>5 DEF Server!CallReset
<1>7. Left(t, <<>>)
      BY <1>1, <1>5 DEF Then, Left, ProgramTyped
<1> QED BY <1>5, <1>6, <1>7

-----------------------------------------------------------------------------
(* A step of a thread of UxPlay, unless it starts an item or closes the    *)
(* last connection.                                                        *)
RequestResult(t) ==
    /\ Request(program'[t], uxplay', playing')
    /\ playing' => playing
    /\ playing' /\ uxplay.media_active => uxplay'.media_active
    /\ uxplay'.media_active => uxplay.media_active
    /\ uxplay'.frame_shown = uxplay.frame_shown
    /\ uxplay'.clear_pending => uxplay.clear_pending \/ ~uxplay'.media_active
    /\ uxplay.clear_pending => uxplay'.clear_pending \/ (~uxplay'.media_active /\ Emptying(t)')
    /\ \A r \in Resetters \ {t} : reset'[r] = reset[r]
    /\ DOMAIN reset' = Resetters
    /\ reset'[t].pc # "idle" /\ reset'[t].clear => ~uxplay'.media_active

LEMMA RequestStep ==
    ASSUME ProgramTyped, MembersTyped, MembersTyped', DOMAIN reset = Resetters,
           NEW t \in {"http", "stream"}, Step(t),
           Request(program[t], uxplay, playing)
    PROVE  RequestResult(t)
<1> DEFINE op == Head(program[t])
<1>1. t \in Threads /\ t \in Resetters
      BY DEF Threads, Resetters
<1>2. Elsewhere(t) /\ program[t] # <<>> /\ reset[t].pc = "idle"
      BY <1>1, StepElsewhere
<1>3. uxplay \in Members /\ uxplay' \in Members
      BY DEF MembersTyped
<1>4. CASE \E tells \in Noting : program[t] = <<tells>>
      <2>1. PICK tells \in Noting : program[t] = <<tells>>
            BY <1>4
      <2>2. op = tells
            BY <2>1, Rests
      <2>3. /\ SameMembers /\ Keeps
            /\ Left(t, <<>>) \/ \E next \in Noting : Left(t, <<next>>)
            BY <1>1, <2>2, NotingStep
      <2>4. program'[t] = <<>> \/ \E next \in Noting : program'[t] = <<next>>
            BY <2>1, <2>3, NotingRests
      <2> QED BY <1>2, <1>3, <2>3, <2>4 DEF RequestResult, Request, SameMembers, Keeps
<1>7. CASE Tearing(program[t])
      <2>1. CASE program[t] = <<Stale, <<"schedule_if_mirroring">>>>
            <3>1. op = Stale
                  BY <2>1, Rests
            <3>2. /\ uxplay' = uxplay /\ playing' = playing /\ Left(t, <<>>)
                  /\ DOMAIN reset' = Resetters
                  /\ \A r \in Resetters \ {t} : reset'[r] = reset[r]
                  /\ ~reset'[t].clear
                  BY <1>1, <3>1, ResetCalled DEF Stale, Waiting
            <3>3. program'[t] = <<<<"schedule_if_mirroring">>>>
                  BY <2>1, <3>2, Rests DEF Left
            <3>4. Request(program'[t], uxplay', playing')
                  BY <1>7, <3>2, <3>3 DEF Request, Tearing
            <3> QED BY <1>1, <1>3, <1>7, <3>2, <3>4 DEF RequestResult
      <2>2. CASE program[t] = <<<<"schedule_if_mirroring">>>>
            <3>1. op = <<"schedule_if_mirroring">>
                  BY <2>2, Rests
            <3>2. /\ Keeps /\ uxplay' = uxplay
                  /\ Left(t, IF ~uxplay.media_active /\ uxplay.frame_shown
                             THEN <<<<"schedule">>>> ELSE <<>>)
                  BY <1>1, <3>1, StepEffects
            <3>3. \/ program'[t] = <<>>
                  \/ program'[t] = <<<<"schedule">>>> /\ ~uxplay.media_active
                  BY <2>2, <3>2, Rests DEF Left
            <3>4. Request(program'[t], uxplay', playing')
                  BY <1>7, <3>2, <3>3 DEF Request, Stopping
            <3> QED BY <1>2, <1>3, <1>7, <3>2, <3>4 DEF RequestResult, Keeps
      <2> QED BY <1>7, <2>1, <2>2 DEF Tearing
<1>8. CASE Stopping(program[t], uxplay, playing)
      <2>1. CASE program[t] = <<<<"stop_player">>, MediaOff, Notify,
                                Waiting, <<"schedule">>>>
            <3>1. op = <<"stop_player">>
                  BY <2>1, Rests
            <3>2. playing' = FALSE /\ reset' = reset /\ uxplay' = uxplay /\ Left(t, <<>>)
                  BY <1>1, <3>1, StepEffects
            <3>3. program'[t] = <<MediaOff, Notify, Waiting,
                                  <<"schedule">>>>
                  BY <2>1, <3>2, Rests DEF Left
            <3>4. Request(program'[t], uxplay', playing')
                  BY <3>2, <3>3 DEF Request, Stopping
            <3> QED BY <1>2, <1>3, <3>2, <3>4 DEF RequestResult
      <2>2. CASE /\ program[t] = <<MediaOff, Notify, Waiting,
                                  <<"schedule">>>>
                 /\ ~playing
            <3>1. op = MediaOff
                  BY <2>2, Rests
            <3>2. SetsOnly("media_active", FALSE) /\ Left(t, <<>>)
                  BY <1>1, <3>1, StepEffects
            <3>3. program'[t] = <<Notify, Waiting, <<"schedule">>>>
                  BY <2>2, <3>2, Rests DEF Left
            <3>4. /\ ~uxplay'.media_active /\ uxplay'.frame_shown = uxplay.frame_shown
                  /\ uxplay'.clear_pending = uxplay.clear_pending /\ reset' = reset /\ playing' = playing
                  BY <1>3, <3>2 DEF SetsOnly, Set, Keeps, Members
            <3>5. Request(program'[t], uxplay', playing')
                  BY <3>3, <3>4 DEF Request, Stopping, Noting
            <3> QED BY <1>2, <1>3, <2>2, <3>4, <3>5 DEF RequestResult
      <2>3. CASE /\ ~uxplay.media_active
                 /\ \E tells \in Noting : program[t] = <<tells, Waiting, <<"schedule">>>>
            <3>1. PICK tells \in Noting : program[t] = <<tells, Waiting, <<"schedule">>>>
                  BY <2>3
            <3>2. op = tells
                  BY <3>1, Rests
            <3>3. /\ SameMembers /\ Keeps
                  /\ Left(t, <<>>) \/ \E next \in Noting : Left(t, <<next>>)
                  BY <1>1, <3>2, NotingStep
            <3>4. \/ program'[t] = <<Waiting, <<"schedule">>>>
                  \/ \E next \in Noting : program'[t] = <<next, Waiting, <<"schedule">>>>
                  BY <3>1, <3>3, NotingBeforeTwo
            <3>5. Request(program'[t], uxplay', playing')
                  BY <2>3, <3>3, <3>4 DEF Request, Stopping, SameMembers
            <3> QED BY <1>2, <1>3, <2>3, <3>3, <3>5 DEF RequestResult, SameMembers, Keeps
      <2>4. CASE program[t] = <<Waiting, <<"schedule">>>> /\ ~uxplay.media_active
            <3>1. op = Waiting
                  BY <2>4, Rests
            <3>2. /\ uxplay' = uxplay /\ playing' = playing /\ Left(t, <<>>)
                  /\ DOMAIN reset' = Resetters
                  /\ \A r \in Resetters \ {t} : reset'[r] = reset[r]
                  /\ ~reset'[t].clear
                  BY <1>1, <3>1, ResetCalled DEF Stale, Waiting
            <3>3. program'[t] = <<<<"schedule">>>>
                  BY <2>4, <3>2, Rests DEF Left
            <3>4. Request(program'[t], uxplay', playing')
                  BY <2>4, <3>2, <3>3 DEF Request, Stopping
            <3> QED BY <1>1, <1>3, <3>2, <3>4 DEF RequestResult
      <2>5. CASE program[t] = <<<<"schedule">>>> /\ ~uxplay.media_active
            <3>1. op = <<"schedule">>
                  BY <2>5, Rests
            <3>2. SetsOnly("clear_pending", TRUE) /\ Left(t, <<>>)
                  BY <1>1, <3>1, StepEffects
            <3>3. program'[t] = <<>>
                  BY <2>5, <3>2, Rests DEF Left
            <3>4. /\ ~uxplay'.media_active /\ uxplay'.frame_shown = uxplay.frame_shown
                  /\ uxplay'.clear_pending /\ reset' = reset /\ playing' = playing
                  BY <1>3, <2>5, <3>2 DEF SetsOnly, Set, Keeps, Members
            <3>5. Request(program'[t], uxplay', playing')
                  BY <3>3 DEF Request
            <3> QED BY <1>2, <1>3, <2>5, <3>4, <3>5 DEF RequestResult
      <2> QED BY <1>8, <2>1, <2>2, <2>3, <2>4, <2>5 DEF Stopping
<1>9. CASE Resetting(program[t], uxplay, playing)
      <2>1. CASE program[t] = <<<<"stop_player">>, MediaOff, Notify, <<"cancel">>,
                                <<"reset_unless_media">>>>
            <3>1. op = <<"stop_player">>
                  BY <2>1, Rests
            <3>2. playing' = FALSE /\ reset' = reset /\ uxplay' = uxplay /\ Left(t, <<>>)
                  BY <1>1, <3>1, StepEffects
            <3>3. program'[t] = <<MediaOff, Notify, <<"cancel">>,
                                  <<"reset_unless_media">>>>
                  BY <2>1, <3>2, Rests DEF Left
            <3>4. Request(program'[t], uxplay', playing')
                  BY <3>2, <3>3 DEF Request, Resetting
            <3> QED BY <1>2, <1>3, <3>2, <3>4 DEF RequestResult
      <2>2. CASE /\ program[t] = <<MediaOff, Notify, <<"cancel">>,
                                  <<"reset_unless_media">>>>
                 /\ ~playing
            <3>1. op = MediaOff
                  BY <2>2, Rests
            <3>2. SetsOnly("media_active", FALSE) /\ Left(t, <<>>)
                  BY <1>1, <3>1, StepEffects
            <3>3. program'[t] = <<Notify, <<"cancel">>, <<"reset_unless_media">>>>
                  BY <2>2, <3>2, Rests DEF Left
            <3>4. /\ ~uxplay'.media_active /\ uxplay'.frame_shown = uxplay.frame_shown
                  /\ uxplay'.clear_pending = uxplay.clear_pending /\ reset' = reset /\ playing' = playing
                  BY <1>3, <3>2 DEF SetsOnly, Set, Keeps, Members
            <3>5. Request(program'[t], uxplay', playing')
                  BY <3>3, <3>4 DEF Request, Resetting, Noting
            <3> QED BY <1>2, <1>3, <2>2, <3>4, <3>5 DEF RequestResult
      <2>3. CASE /\ ~uxplay.media_active
                 /\ \E tells \in Noting :
                       program[t] = <<tells, <<"cancel">>, <<"reset_unless_media">>>>
            <3>1. PICK tells \in Noting :
                     program[t] = <<tells, <<"cancel">>, <<"reset_unless_media">>>>
                  BY <2>3
            <3>2. op = tells
                  BY <3>1, Rests
            <3>3. /\ SameMembers /\ Keeps
                  /\ Left(t, <<>>) \/ \E next \in Noting : Left(t, <<next>>)
                  BY <1>1, <3>2, NotingStep
            <3>4. \/ program'[t] = <<<<"cancel">>, <<"reset_unless_media">>>>
                  \/ \E next \in Noting :
                        program'[t] = <<next, <<"cancel">>, <<"reset_unless_media">>>>
                  BY <3>1, <3>3, NotingBeforeTwo
            <3>5. Request(program'[t], uxplay', playing')
                  BY <2>3, <3>3, <3>4 DEF Request, Resetting, SameMembers
            <3> QED BY <1>2, <1>3, <3>3, <3>5 DEF RequestResult, SameMembers, Keeps
      <2>4. CASE program[t] = <<<<"cancel">>, <<"reset_unless_media">>>> /\ ~uxplay.media_active
            <3>1. op = <<"cancel">>
                  BY <2>4, Rests
            <3>2. SetsOnly("clear_pending", FALSE) /\ Left(t, <<>>)
                  BY <1>1, <3>1, StepEffects
            <3>3. program'[t] = <<<<"reset_unless_media">>>>
                  BY <2>4, <3>2, Rests DEF Left
            <3>4. /\ uxplay'.media_active = uxplay.media_active
                  /\ uxplay'.frame_shown = uxplay.frame_shown
                  /\ ~uxplay'.clear_pending
                  /\ reset' = reset /\ playing' = playing
                  BY <1>3, <3>2 DEF SetsOnly, Set, Keeps, Members
            <3>5. Request(program'[t], uxplay', playing')
                  BY <3>3 DEF Request, Resetting
            <3>6. Emptying(t)'
                  BY <3>3 DEF Emptying
            <3> QED BY <1>2, <1>3, <2>4, <3>4, <3>5, <3>6 DEF RequestResult
      <2>5. CASE program[t] = <<<<"reset_unless_media">>>>
            <3>1. op = <<"reset_unless_media">>
                  BY <2>5, Rests
            <3>2. /\ Keeps /\ uxplay' = uxplay
                  /\ \E clear \in BOOLEAN : Left(t, <<Flushing(clear)>>) /\ (clear <=> ~uxplay.media_active)
                  BY <1>1, <3>1, UnlessMediaStep
            <3>3. PICK clear \in BOOLEAN : Left(t, <<Flushing(clear)>>) /\ (clear <=> ~uxplay.media_active)
                  BY <3>2
            <3>4. program'[t] = <<Flushing(clear)>>
                  BY <2>5, <3>3, Rests DEF Left
            <3>5. Request(program'[t], uxplay', playing')
                  BY <3>2, <3>3, <3>4 DEF Request, Resetting
            <3> QED BY <1>2, <1>3, <3>2, <3>5 DEF RequestResult, Keeps
      <2>6. CASE \E clear \in BOOLEAN :
                    program[t] = <<Flushing(clear)>> /\ (clear => ~uxplay.media_active)
            <3>1. PICK clear \in BOOLEAN :
                     program[t] = <<Flushing(clear)>> /\ (clear => ~uxplay.media_active)
                  BY <2>6
            <3>2. op = Flushing(clear)
                  BY <3>1, Rests
            <3>3. /\ uxplay' = uxplay /\ playing' = playing /\ Left(t, <<>>)
                  /\ DOMAIN reset' = Resetters
                  /\ \A r \in Resetters \ {t} : reset'[r] = reset[r]
                  /\ reset'[t].clear => ~uxplay'.media_active
                  BY <1>1, <3>1, <3>2, ResetCalled DEF Flushing
            <3>4. program'[t] = <<>>
                  BY <3>1, <3>3, Rests DEF Left
            <3>5. Request(program'[t], uxplay', playing')
                  BY <3>4 DEF Request
            <3> QED BY <1>1, <1>3, <3>1, <3>3, <3>5 DEF RequestResult
      <2> QED BY <1>9, <2>1, <2>2, <2>3, <2>4, <2>5, <2>6 DEF Resetting
<1> QED BY <1>2, <1>4, <1>7, <1>8, <1>9 DEF Request

(* A reset to come, without an active item, comes. *)
LEMMA EmptyingStep ==
    ASSUME ProgramTyped, MembersTyped, DOMAIN reset = Resetters, NEW t \in {"http", "stream"},
           Step(t), Emptying(t), ~uxplay.media_active
    PROVE  Emptying(t)'
<1>1. t \in Threads /\ t \in Resetters
      BY DEF Threads, Resetters
<1>2. reset[t].pc = "idle"
      BY <1>1 DEF Step
<1>3. CASE program[t] = <<<<"reset_unless_media">>>>
      <2>1. Head(program[t]) = <<"reset_unless_media">>
            BY <1>3, Rests
      <2>2. PICK clear \in BOOLEAN :
               Left(t, <<Flushing(clear)>>) /\ (clear <=> ~uxplay.media_active)
            BY <1>1, <2>1, UnlessMediaStep
      <2>3. program'[t] = <<Flushing(clear)>>
            BY <1>3, <2>2, Rests DEF Left
      <2>4. clear = TRUE
            BY <2>2
      <2>5. program'[t] = <<Everything>>
            BY <2>3, <2>4 DEF Flushing, Everything
      <2> QED BY <2>5 DEF Emptying
<1>4. CASE program[t] = <<Everything>>
      <2>1. Head(program[t]) = Reset(TRUE, TRUE)
            BY <1>4, Rests DEF Everything
      <2>2. reset'[t].clear /\ reset'[t].pc # "idle"
            BY <1>1, <2>1, ResetCalled
      <2> QED BY <2>2 DEF Emptying
<1> QED BY <1>2, <1>3, <1>4 DEF Emptying

(* A step of the HTTP thread when the last connection closes. *)
ClosingResult ==
    /\ Request(program'["http"], uxplay', playing') \/ Closing(program'["http"])
    /\ playing' = playing /\ reset' = reset
    /\ uxplay'.media_active = uxplay.media_active
    /\ uxplay'.frame_shown = uxplay.frame_shown
    /\ uxplay.clear_pending => uxplay'.clear_pending
    /\ uxplay.frame_shown => uxplay'.clear_pending \/ Closing(program'["http"])

LEMMA ClosingStep ==
    ASSUME ProgramTyped, MembersTyped, Step("http"), Closing(program["http"])
    PROVE  ClosingResult
<1> DEFINE op == Head(program["http"])
           rest1 == program'["http"]
<1>1. "http" \in Threads /\ uxplay \in Members
      BY DEF Threads, Resetters, MembersTyped
<1>2. CASE program["http"] = <<<<"schedule_if_shown">>, Notify>>
      <2>1. op = <<"schedule_if_shown">>
            BY <1>2, Rests
      <2>2. /\ Keeps /\ uxplay' = uxplay
            /\ Left("http", IF uxplay.frame_shown THEN <<<<"schedule">>>> ELSE <<>>)
            BY <1>1, <2>1, StepEffects
      <2>3. rest1 = IF uxplay.frame_shown THEN <<<<"schedule">>, Notify>> ELSE <<Notify>>
            BY <1>2, <2>2, Rests, OneBeforeOne DEF Left
      <2>4. Request(<<Notify>>, uxplay', playing') /\ Closing(<<<<"schedule">>, Notify>>)
            BY DEF Request, Closing, Noting
      <2> QED BY <2>2, <2>3, <2>4 DEF ClosingResult, Keeps
<1>3. CASE program["http"] = <<<<"schedule">>, Notify>>
      <2>1. op = <<"schedule">>
            BY <1>3, Rests
      <2>2. SetsOnly("clear_pending", TRUE) /\ Left("http", <<>>)
            BY <1>1, <2>1, StepEffects
      <2>3. rest1 = <<Notify>>
            BY <1>3, <2>2, Rests DEF Left
      <2>4. Request(rest1, uxplay', playing')
            BY <2>3 DEF Request, Noting
      <2> QED BY <1>1, <2>2, <2>4 DEF ClosingResult, SetsOnly, Set, Keeps, Members
<1> QED BY <1>2, <1>3 DEF Closing

-----------------------------------------------------------------------------
(* A step of the HTTP thread in on_video_play. *)
PlayResult ==
    /\ Request(program'["http"], uxplay', playing') \/ Playing(program'["http"], uxplay')
    /\ playing' => uxplay'.media_active
    /\ uxplay.frame_shown => uxplay'.frame_shown
    /\ playing' => uxplay'.frame_shown
    /\ uxplay'.media_active => uxplay'.frame_shown \/ Showing(program'["http"])
    /\ uxplay'.clear_pending => ~uxplay'.media_active
    /\ \A r \in Resetters \ {"http"} : reset'[r] = reset[r]
    /\ DOMAIN reset' = Resetters
    /\ ~reset'["http"].clear \/ reset'["http"].pc = "idle"

(* on_video_play, and what is left of it. *)
PlayRest1 == <<<<"stop_player">>, Waiting, MediaOn, Notify, ShownOn, <<"play">>>>
PlayRest2 == <<Waiting, MediaOn, Notify, ShownOn, <<"play">>>>
PlayRest3 == <<MediaOn, Notify, ShownOn, <<"play">>>>

LEMMA PlayStep ==
    ASSUME ProgramTyped, MembersTyped, MembersTyped', DOMAIN reset = Resetters,
           Step("http"), Playing(program["http"], uxplay),
           playing => uxplay.media_active,
           playing => uxplay.frame_shown,
           uxplay.media_active => uxplay.frame_shown \/ Showing(program["http"]),
           uxplay.clear_pending => ~uxplay.media_active
    PROVE  PlayResult
<1> DEFINE op == Head(program["http"])
           rest == program["http"]
           rest1 == program'["http"]
<1>1. "http" \in Threads /\ "http" \in Resetters
      BY DEF Threads, Resetters
<1>2. Elsewhere("http") /\ program["http"] # <<>> /\ reset["http"].pc = "idle"
      BY <1>1, StepElsewhere
<1>3. /\ uxplay.open_connections > 0 /\ uxplay \in Members
      /\ uxplay'.open_connections = uxplay.open_connections
      BY <1>2 DEF Playing, MembersTyped, Elsewhere
<1>4. CASE rest = OnVideoPlay
      <2>1. rest = <<<<"cancel">>, <<"stop_player">>, Waiting, MediaOn, Notify, ShownOn, <<"play">>>>
            BY <1>4 DEF OnVideoPlay, Waiting, MediaOn, ShownOn
      <2>2. op = <<"cancel">>
            BY <2>1, Rests
      <2>3. SetsOnly("clear_pending", FALSE) /\ Left("http", <<>>)
            BY <1>1, <2>2, StepEffects
      <2>4. rest1 = PlayRest1
            BY <2>1, <2>3, Rests DEF Left, PlayRest1
      <2>5. /\ uxplay'.media_active = uxplay.media_active
            /\ uxplay'.frame_shown = uxplay.frame_shown /\ ~uxplay'.clear_pending
            /\ reset' = reset /\ playing' = playing
            BY <1>3, <2>3 DEF SetsOnly, Set, Keeps, Members
      <2>6. Playing(rest1, uxplay')
            BY <1>3, <2>4, <2>5 DEF Playing, PlayRest1
      <2>7. ~Showing(rest)
            BY <2>1 DEF Showing
      <2> QED BY <1>2, <2>5, <2>6, <2>7 DEF PlayResult
<1>5. CASE ~uxplay.clear_pending /\ rest = PlayRest1
      <2>1. op = <<"stop_player">>
            BY <1>5, Rests DEF PlayRest1
      <2>2. playing' = FALSE /\ reset' = reset /\ uxplay' = uxplay /\ Left("http", <<>>)
            BY <1>1, <2>1, StepEffects
      <2>3. rest1 = PlayRest2
            BY <1>5, <2>2, Rests DEF Left, PlayRest1, PlayRest2
      <2>4. Playing(rest1, uxplay')
            BY <1>3, <1>5, <2>2, <2>3 DEF Playing, PlayRest2
      <2>5. ~Showing(rest)
            BY <1>5 DEF Showing, PlayRest1
      <2> QED BY <1>2, <1>5, <2>2, <2>4, <2>5 DEF PlayResult
<1>6. CASE ~uxplay.clear_pending /\ rest = PlayRest2
      <2>1. op = Waiting
            BY <1>6, Rests DEF PlayRest2
      <2>2. /\ uxplay' = uxplay /\ playing' = playing /\ Left("http", <<>>)
            /\ DOMAIN reset' = Resetters
            /\ \A r \in Resetters \ {"http"} : reset'[r] = reset[r]
            /\ ~reset'["http"].clear
            BY <1>1, <2>1, ResetCalled DEF Waiting
      <2>3. rest1 = PlayRest3
            BY <1>6, <2>2, Rests DEF Left, PlayRest2, PlayRest3
      <2>4. Playing(rest1, uxplay')
            BY <1>3, <1>6, <2>2, <2>3 DEF Playing, PlayRest3
      <2>5. ~Showing(rest)
            BY <1>6 DEF Showing, PlayRest2
      <2> QED BY <1>2, <1>6, <2>2, <2>4, <2>5 DEF PlayResult
<1>7. CASE ~uxplay.clear_pending /\ rest = PlayRest3
      <2>1. op = MediaOn
            BY <1>7, Rests DEF PlayRest3
      <2>2. SetsOnly("media_active", TRUE) /\ Left("http", <<>>)
            BY <1>1, <2>1, StepEffects
      <2>3. rest1 = <<Notify, ShownOn, <<"play">>>>
            BY <1>7, <2>2, Rests DEF Left, PlayRest3
      <2>4. /\ uxplay'.media_active /\ uxplay'.frame_shown = uxplay.frame_shown
            /\ ~uxplay'.clear_pending /\ reset' = reset /\ playing' = playing
            BY <1>3, <1>7, <2>2 DEF SetsOnly, Set, Keeps, Members
      <2>5. Showing(rest1)
            BY <2>3 DEF Showing, Noting
      <2>6. Playing(rest1, uxplay')
            BY <1>3, <2>4, <2>5 DEF Playing
      <2> QED BY <1>2, <2>4, <2>5, <2>6 DEF PlayResult
<1>8. CASE ~uxplay.clear_pending /\ uxplay.media_active /\ Showing(rest)
      <2>1. CASE \E tells \in Noting : rest = <<tells, ShownOn, <<"play">>>>
            <3>1. PICK tells \in Noting : rest = <<tells, ShownOn, <<"play">>>>
                  BY <2>1
            <3>2. op = tells
                  BY <3>1, Rests
            <3>3. /\ SameMembers /\ Keeps
                  /\ Left("http", <<>>) \/ \E next \in Noting : Left("http", <<next>>)
                  BY <1>1, <3>2, NotingStep
            <3>4. \/ rest1 = <<ShownOn, <<"play">>>>
                  \/ \E next \in Noting : rest1 = <<next, ShownOn, <<"play">>>>
                  BY <3>1, <3>3, NotingBeforeTwo
            <3>5. Showing(rest1)
                  BY <3>4 DEF Showing
            <3>6. Playing(rest1, uxplay')
                  BY <1>3, <1>8, <3>3, <3>5 DEF Playing, SameMembers
            <3> QED BY <1>2, <1>8, <3>3, <3>5, <3>6 DEF PlayResult, SameMembers, Keeps
      <2>2. CASE rest = <<ShownOn, <<"play">>>>
            <3>1. op = ShownOn
                  BY <2>2, Rests
            <3>2. SetsOnly("frame_shown", TRUE) /\ Left("http", <<>>)
                  BY <1>1, <3>1, StepEffects
            <3>3. rest1 = <<<<"play">>>>
                  BY <2>2, <3>2, Rests DEF Left
            <3>4. /\ uxplay'.media_active /\ uxplay'.frame_shown
                  /\ ~uxplay'.clear_pending /\ reset' = reset /\ playing' = playing
                  BY <1>3, <1>8, <3>2 DEF SetsOnly, Set, Keeps, Members
            <3>5. Playing(rest1, uxplay')
                  BY <1>3, <3>3, <3>4 DEF Playing
            <3> QED BY <1>2, <3>4, <3>5 DEF PlayResult
      <2> QED BY <1>8, <2>1, <2>2 DEF Showing
<1>9. CASE /\ ~uxplay.clear_pending /\ uxplay.media_active /\ uxplay.frame_shown
           /\ rest = <<<<"play">>>>
      <2>1. op = <<"play">>
            BY <1>9, Rests
      <2>2. playing' = TRUE /\ reset' = reset /\ uxplay' = uxplay /\ Left("http", <<>>)
            BY <1>1, <2>1, StepEffects
      <2>3. rest1 = <<>>
            BY <1>9, <2>2, Rests DEF Left
      <2>4. Request(rest1, uxplay', playing')
            BY <2>3 DEF Request
      <2> QED BY <1>2, <1>9, <2>2, <2>4 DEF PlayResult
<1> QED BY <1>4, <1>5, <1>6, <1>7, <1>8, <1>9 DEF Playing, PlayRest1, PlayRest2, PlayRest3

-----------------------------------------------------------------------------
(* A step of the deferred clear. *)
ClearResult ==
    /\ Clearing(program'["clear"], uxplay')
    /\ Follows'
    /\ playing' => playing
    /\ uxplay'.media_active => uxplay.media_active
    /\ uxplay'.clear_pending = uxplay.clear_pending
    /\ \A r \in Resetters \ {"clear"} : reset'[r] = reset[r]
    /\ DOMAIN reset' = Resetters
    /\ reset'["clear"].pc # "idle" =>
         reset'["clear"].clear /\ program'["clear"] = <<>> /\ ~uxplay'.media_active
    /\ program'["clear"] # <<>> \/ reset'["clear"].pc # "idle"

LEMMA ClearStep ==
    ASSUME ProgramTyped, MembersTyped, MembersTyped', DOMAIN reset = Resetters,
           Step("clear"), Clearing(program["clear"], uxplay), Follows
    PROVE  ClearResult
<1> DEFINE op == Head(program["clear"])
           rest == program["clear"]
           rest1 == program'["clear"]
           open == uxplay.open_connections
<1>1. "clear" \in Threads /\ "clear" \in Resetters
      BY DEF Threads, Resetters
<1>2. Elsewhere("clear") /\ program["clear"] # <<>> /\ reset["clear"].pc = "idle"
      BY <1>1, StepElsewhere
<1>3. open \in Nat /\ uxplay \in Members /\ uxplay'.open_connections = open
      <2>1. uxplay \in Members
            BY DEF MembersTyped
      <2>2. open \in 0..MaxConnections
            BY <2>1 DEF Members
      <2> QED BY <1>2, <2>1, <2>2, ReceiverAssumption DEF Elsewhere
<1>4. CASE ~uxplay.media_active /\ rest = Quitting
      <2>1. op = <<"stop_player">>
            BY <1>4, Rests DEF Quitting
      <2>2. playing' = FALSE /\ reset' = reset /\ uxplay' = uxplay /\ Left("clear", <<>>)
            BY <1>1, <2>1, StepEffects
      <2>3. rest1 = <<Notify, Everything>>
            BY <1>4, <2>2, Rests DEF Left, Quitting
      <2>4. Clearing(rest1, uxplay')
            BY <1>4, <2>2, <2>3 DEF Clearing, Noting
      <2> QED BY <1>2, <2>2, <2>3, <2>4, Rests DEF ClearResult, Follows
<1>5. ASSUME playing => uxplay.media_active, rest = DeferredClear,
             ~uxplay.media_active \/ open = 0
      PROVE  ClearResult
      <2>1. rest = <<ShownOff, <<"clear_by_connections">>>>
            BY <1>5 DEF DeferredClear, ShownOff
      <2>2. op = ShownOff
            BY <2>1, Rests
      <2>3. SetsOnly("frame_shown", FALSE) /\ Left("clear", <<>>)
            BY <1>1, <2>2, StepEffects
      <2>4. rest1 = <<<<"clear_by_connections">>>>
            BY <2>1, <2>3, Rests DEF Left
      <2>5. /\ uxplay'.media_active = uxplay.media_active
            /\ uxplay'.clear_pending = uxplay.clear_pending
            /\ reset' = reset /\ playing' = playing
            BY <1>3, <2>3 DEF SetsOnly, Set, Keeps, Members
      <2>6. Clearing(rest1, uxplay')
            BY <1>3, <1>5, <2>4, <2>5 DEF Clearing
      <2> QED BY <1>2, <1>5, <2>4, <2>5, <2>6, Rests DEF ClearResult, Follows
<1>6. ASSUME playing => uxplay.media_active, rest = <<<<"clear_by_connections">>>>,
             ~uxplay.media_active \/ open = 0
      PROVE  ClearResult
      <2>1. op = <<"clear_by_connections">>
            BY <1>6, Rests
      <2>2. /\ Keeps /\ uxplay' = uxplay
            /\ Left("clear", IF open <= 0 THEN <<<<"exchange_media">>, Notify, Everything>>
                             ELSE <<ClearAlone>>)
            BY <1>1, <2>1, StepEffects
      <2>3. CASE open = 0
            <3>1. rest1 = <<<<"exchange_media">>, Notify, Everything>>
                  BY <1>6, <2>2, <2>3, Rests DEF Left
            <3>2. Clearing(rest1, uxplay')
                  BY <1>6, <2>2, <3>1 DEF Clearing, Keeps
            <3> QED BY <1>2, <1>6, <2>2, <3>1, <3>2, Rests DEF ClearResult, Follows, Keeps
      <2>4. CASE open # 0
            <3>1. ~(open <= 0)
                  BY <1>3, <2>4
            <3>2. rest1 = <<ClearAlone>>
                  BY <1>6, <2>2, <3>1, Rests DEF Left
            <3>3. Clearing(rest1, uxplay')
                  BY <1>6, <2>2, <2>4, <3>2 DEF Clearing, Keeps
            <3> QED BY <1>2, <1>6, <2>2, <3>2, <3>3, Rests DEF ClearResult, Follows, Keeps
      <2> QED BY <2>3, <2>4
<1>7. ASSUME playing => uxplay.media_active,
             rest = <<<<"exchange_media">>, Notify, Everything>>
      PROVE  ClearResult
      <2>1. op = <<"exchange_media">>
            BY <1>7, Rests
      <2>2. /\ SetsOnly("media_active", FALSE)
            /\ Left("clear", IF uxplay.media_active THEN <<<<"stop_player">>>> ELSE <<>>)
            BY <1>1, <2>1, StepEffects
      <2>3. /\ ~uxplay'.media_active /\ uxplay'.clear_pending = uxplay.clear_pending
            /\ reset' = reset /\ playing' = playing
            BY <1>3, <2>2 DEF SetsOnly, Set, Keeps, Members
      <2>4. CASE uxplay.media_active
            <3>1. rest1 = Quitting
                  BY <1>7, <2>2, <2>4, Rests, OneBeforeTwo DEF Left, Quitting
            <3>2. Clearing(rest1, uxplay')
                  BY <2>3, <3>1 DEF Clearing
            <3> QED BY <1>2, <2>3, <3>1, <3>2, Rests DEF ClearResult, Follows, Quitting
      <2>5. CASE ~uxplay.media_active
            <3>1. rest1 = <<Notify, Everything>>
                  BY <1>7, <2>2, <2>5, Rests DEF Left
            <3>2. Clearing(rest1, uxplay')
                  BY <1>7, <2>3, <2>5, <3>1 DEF Clearing, Noting
            <3> QED BY <1>2, <1>7, <2>3, <2>5, <3>1, <3>2, Rests DEF ClearResult, Follows
      <2> QED BY <2>4, <2>5
<1>8. ASSUME playing => uxplay.media_active, ~uxplay.media_active,
             \E tells \in Noting : rest = <<tells, Everything>>
      PROVE  ClearResult
      <2>1. PICK tells \in Noting : rest = <<tells, Everything>>
            BY <1>8
      <2>2. op = tells
            BY <2>1, Rests
      <2>3. /\ SameMembers /\ Keeps
            /\ Left("clear", <<>>) \/ \E next \in Noting : Left("clear", <<next>>)
            BY <1>1, <2>2, NotingStep
      <2>4. rest1 = <<Everything>> \/ \E next \in Noting : rest1 = <<next, Everything>>
            BY <2>1, <2>3, NotingRests
      <2>5. Clearing(rest1, uxplay')
            BY <1>8, <2>3, <2>4 DEF Clearing, SameMembers, Keeps
      <2>6. rest1 # <<>>
            BY <2>4, Rests
      <2> QED BY <1>2, <1>8, <2>3, <2>5, <2>6 DEF ClearResult, Follows, SameMembers, Keeps
<1>9. ASSUME playing => uxplay.media_active, ~uxplay.media_active,
             rest = <<Everything>> \/ rest = <<ClearAlone>>
      PROVE  ClearResult
      <2>1. op = Everything \/ op = ClearAlone
            BY <1>9, Rests
      <2>2. /\ uxplay' = uxplay /\ playing' = playing /\ Left("clear", <<>>)
            /\ DOMAIN reset' = Resetters
            /\ \A r \in Resetters \ {"clear"} : reset'[r] = reset[r]
            /\ reset'["clear"].clear /\ reset'["clear"].pc # "idle"
            BY <1>1, <2>1, ResetCalled DEF Everything, ClearAlone
      <2>3. rest1 = <<>>
            <3>1. \A a : <<>> \o Tail(<<a>>) = <<>>
                  BY Rests
            <3>2. rest1 = <<>> \o Tail(rest)
                  BY <2>2 DEF Left
            <3> QED BY <1>9, <3>1, <3>2
      <2>4. Clearing(rest1, uxplay')
            BY <1>9, <2>2, <2>3 DEF Clearing
      <2> QED BY <1>9, <2>2, <2>3, <2>4 DEF ClearResult, Follows
<1>10. rest # Quitting => (playing => uxplay.media_active)
      BY DEF Follows
<1> QED BY <1>2, <1>4, <1>5, <1>6, <1>7, <1>8, <1>9, <1>10 DEF Clearing

-----------------------------------------------------------------------------
(* A step of the callback for a mirror picture. *)
CallbackResult ==
    /\ Callback(program'["decode"])
    /\ playing' = playing /\ reset' = reset
    /\ uxplay'.media_active = uxplay.media_active
    /\ uxplay.frame_shown => uxplay'.frame_shown
    /\ uxplay'.clear_pending => uxplay.clear_pending
    /\ program["decode"] = OnMirrorFrameOutput => uxplay'.frame_shown

LEMMA CallbackStep ==
    ASSUME ProgramTyped, MembersTyped, MembersTyped', Step("decode"), Callback(program["decode"])
    PROVE  CallbackResult
<1> DEFINE op == Head(program["decode"])
           rest == program["decode"]
           rest1 == program'["decode"]
<1>1. "decode" \in Threads
      BY DEF Threads
<1>2. rest # <<>> /\ uxplay \in Members
      BY <1>1, StepElsewhere DEF MembersTyped
<1>3. CASE rest = OnMirrorFrameOutput
      <2>1. rest = <<<<"exchange_shown">>, <<"cancel_if_pending">>>>
            BY <1>3 DEF OnMirrorFrameOutput
      <2>2. op = <<"exchange_shown">>
            BY <2>1, Rests
      <2>3. /\ SetsOnly("frame_shown", TRUE)
            /\ Left("decode", IF uxplay.frame_shown THEN <<>> ELSE <<Notify>>)
            BY <1>1, <2>2, StepEffects
      <2>4. \/ rest1 = <<<<"cancel_if_pending">>>>
            \/ rest1 = <<Notify, <<"cancel_if_pending">>>>
            <3>1. CASE uxplay.frame_shown
                  BY <2>1, <2>3, <3>1, Rests DEF Left
            <3>2. CASE ~uxplay.frame_shown
                  <4>1. program'["decode"] = <<Notify>> \o Tail(rest)
                        BY <2>3, <3>2 DEF Left
                  <4> QED BY <2>1, <4>1, OneBeforeOne
            <3> QED BY <3>1, <3>2
      <2>5. Callback(rest1)
            BY <2>4 DEF Callback, Noting
      <2>6. /\ uxplay'.media_active = uxplay.media_active /\ uxplay'.frame_shown
            /\ uxplay'.clear_pending = uxplay.clear_pending
            /\ reset' = reset /\ playing' = playing
            BY <1>2, <2>3 DEF SetsOnly, Set, Keeps, Members
      <2> QED BY <2>5, <2>6 DEF CallbackResult
<1>4. CASE \E tells \in Noting : rest = <<tells, <<"cancel_if_pending">>>>
      <2>1. PICK tells \in Noting : rest = <<tells, <<"cancel_if_pending">>>>
            BY <1>4
      <2>2. op = tells
            BY <2>1, Rests
      <2>3. /\ SameMembers /\ Keeps
            /\ Left("decode", <<>>) \/ \E next \in Noting : Left("decode", <<next>>)
            BY <1>1, <2>2, NotingStep
      <2>4. \/ rest1 = <<<<"cancel_if_pending">>>>
            \/ \E next \in Noting : rest1 = <<next, <<"cancel_if_pending">>>>
            BY <2>1, <2>3, NotingRests
      <2>5. Callback(rest1)
            BY <2>4 DEF Callback
      <2>6. rest # OnMirrorFrameOutput
            BY <2>1 DEF OnMirrorFrameOutput, Noting, Notify
      <2> QED BY <2>3, <2>5, <2>6 DEF CallbackResult, SameMembers, Keeps
<1>5. CASE rest = <<<<"cancel_if_pending">>>>
      <2>1. op = <<"cancel_if_pending">>
            BY <1>5, Rests
      <2>2. /\ Keeps /\ uxplay' = uxplay
            /\ Left("decode", IF uxplay.clear_pending THEN <<<<"cancel">>>> ELSE <<>>)
            BY <1>1, <2>1, StepEffects
      <2>3. rest1 = <<<<"cancel">>>> \/ rest1 = <<>>
            BY <1>5, <2>2, Rests DEF Left
      <2>4. Callback(rest1)
            BY <2>3 DEF Callback
      <2>5. rest # OnMirrorFrameOutput
            BY <1>5 DEF OnMirrorFrameOutput
      <2> QED BY <2>2, <2>4, <2>5 DEF CallbackResult, Keeps
<1>6. CASE rest = <<<<"cancel">>>>
      <2>1. op = <<"cancel">>
            BY <1>6, Rests
      <2>2. SetsOnly("clear_pending", FALSE) /\ Left("decode", <<>>)
            BY <1>1, <2>1, StepEffects
      <2>3. rest1 = <<>>
            BY <1>6, <2>2, Rests DEF Left
      <2>4. Callback(rest1)
            BY <2>3 DEF Callback
      <2>5. rest # OnMirrorFrameOutput
            BY <1>6 DEF OnMirrorFrameOutput
      <2>6. /\ uxplay'.media_active = uxplay.media_active
            /\ uxplay'.frame_shown = uxplay.frame_shown /\ ~uxplay'.clear_pending
            /\ reset' = reset /\ playing' = playing
            BY <1>2, <2>2 DEF SetsOnly, Set, Keeps, Members
      <2> QED BY <2>4, <2>5, <2>6 DEF CallbackResult
<1> QED BY <1>2, <1>3, <1>4, <1>5, <1>6 DEF Callback

-----------------------------------------------------------------------------
(* Where a thread is depends on few of the members, and an item that is    *)
(* not active stays so under every other thread.                           *)
LEMMA RequestKept ==
    ASSUME NEW rest, NEW u, NEW v, NEW p, NEW q, Request(rest, u, p),
           v.media_active => u.media_active, q => p
    PROVE  Request(rest, v, q)
<1> QED BY DEF Request, Stopping, Resetting

LEMMA PlayingKept ==
    ASSUME NEW rest, NEW u, NEW v, Playing(rest, u),
           v.open_connections = u.open_connections, v.media_active = u.media_active,
           u.frame_shown => v.frame_shown, v.clear_pending => u.clear_pending
    PROVE  Playing(rest, v)
<1> QED BY DEF Playing

LEMMA ClearingKept ==
    ASSUME NEW rest, NEW u, NEW v, Clearing(rest, u),
           u.open_connections = 0 => v.open_connections = 0,
           v.media_active => u.media_active
    PROVE  Clearing(rest, v)
<1> QED BY DEF Clearing

(* A handler that does not start an item has no step that does. *)
Last(rest) == rest[Len(rest)]

LEMMA Lasts ==
    /\ \A a : Last(<<a>>) = a
    /\ \A a, b : Last(<<a, b>>) = b
    /\ \A a, b, c : Last(<<a, b, c>>) = c
    /\ \A a, b, c, d : Last(<<a, b, c, d>>) = d
    /\ \A a, b, c, d, e : Last(<<a, b, c, d, e>>) = e
    /\ \A a, b, c, d, e, f : Last(<<a, b, c, d, e, f>>) = f
    /\ \A a, b, c, d, e, f, g : Last(<<a, b, c, d, e, f, g>>) = g
<1> QED BY DEF Last

LEMMA RequestApart ==
    ASSUME NEW rest, NEW u, NEW p, Request(rest, u, p) \/ Closing(rest), rest # <<>>
    PROVE  Last(rest) # <<"play">>
<1>1. ASSUME NEW op \in Noting, rest = <<op>> PROVE Last(rest) # <<"play">>
      <2>1. op # <<"play">>
            BY DEF Noting, Notify
      <2> QED BY <1>1, <2>1 DEF Last
<1>2. CASE Closing(rest) \/ Tearing(rest)
      BY <1>2 DEF Closing, Tearing, Notify, Last
<1>3. CASE Stopping(rest, u, p)
      <2>1. Last(rest) = <<"schedule">>
            BY <1>3, Lasts DEF Stopping
      <2> QED BY <2>1
<1>4. CASE Resetting(rest, u, p)
      <2>1. Last(rest) = <<"reset_unless_media">> \/ \E clear \in BOOLEAN : Last(rest) = Flushing(clear)
            BY <1>4, Lasts DEF Resetting
      <2>2. \A clear \in BOOLEAN : Flushing(clear) # <<"play">>
            BY DEF Flushing, Reset
      <2> QED BY <2>1, <2>2
<1> QED BY <1>1, <1>2, <1>3, <1>4 DEF Request

LEMMA ClosingApart == ASSUME NEW rest, NEW u, NEW p, Request(rest, u, p) PROVE ~Closing(rest)
<1>1. ~Closing(<<>>) /\ \A op \in Noting : ~Closing(<<op>>)
      BY DEF Closing
<1>3. Tearing(rest) => ~Closing(rest)
      BY DEF Tearing, Closing, Notify
<1>4. Stopping(rest, u, p) => ~Closing(rest)
      BY DEF Stopping, Closing, Notify
<1>5. Resetting(rest, u, p) => ~Closing(rest)
      BY DEF Resetting, Closing, Notify
<1> QED BY <1>1, <1>3, <1>4, <1>5 DEF Request

(* So a thread that is elsewhere is not between an item's activation and   *)
(* its start.                                                              *)
LEMMA NotStarting ==
    ASSUME NEW u, NEW p,
           Request(program["http"], u, p) \/ Closing(program["http"])
    PROVE  ~Starting /\ ~Showing(program["http"])
<1>1. ~Starting
      BY RequestApart DEF Starting, Last
<1>2. Showing(program["http"]) => Starting
      <2>1. \A op : <<op, ShownOn, <<"play">>>>[Len(<<op, ShownOn, <<"play">>>>)] = <<"play">>
            OBVIOUS
      <2>2. <<ShownOn, <<"play">>>>[Len(<<ShownOn, <<"play">>>>)] = <<"play">>
            OBVIOUS
      <2>3. Showing(program["http"]) => program["http"] # <<>>
            BY Rests DEF Showing
      <2> QED BY <2>1, <2>2, <2>3 DEF Showing, Starting
<1> QED BY <1>1, <1>2

LEMMA PlayingStarts == ASSUME NEW u, Playing(program["http"], u) PROVE Starting
<1> DEFINE rest == program["http"]
<1>1. CASE rest = OnVideoPlay
      <2>1. PICK a, b, c, d, e, f : rest = <<a, b, c, d, e, f, <<"play">>>>
            BY <1>1 DEF OnVideoPlay
      <2> QED BY <2>1, Lasts, Rests DEF Starting, Last
<1>2. CASE rest \in {PlayRest1, PlayRest2, PlayRest3, <<<<"play">>>>}
      <2>1. Last(rest) = <<"play">> /\ rest # <<>>
            <3>1. CASE rest = PlayRest1
                  BY <3>1, Lasts DEF PlayRest1
            <3>2. CASE rest = PlayRest2
                  BY <3>2, Lasts DEF PlayRest2
            <3>3. CASE rest = PlayRest3
                  BY <3>3, Lasts DEF PlayRest3
            <3>4. CASE rest = <<<<"play">>>>
                  BY <3>4, Lasts
            <3> QED BY <1>2, <3>1, <3>2, <3>3, <3>4
      <2> QED BY <2>1 DEF Starting, Last
<1>3. CASE Showing(rest)
      <2>1. CASE \E op \in Noting : rest = <<op, ShownOn, <<"play">>>>
            <3>1. PICK op \in Noting : rest = <<op, ShownOn, <<"play">>>>
                  BY <2>1
            <3>2. Last(rest) = <<"play">> /\ rest # <<>>
                  BY <3>1, Lasts
            <3> QED BY <3>2 DEF Starting, Last
      <2>2. CASE rest = <<ShownOn, <<"play">>>>
            <3>1. Last(rest) = <<"play">> /\ rest # <<>>
                  BY <2>2, Lasts
            <3> QED BY <3>1 DEF Starting, Last
      <2> QED BY <1>3, <2>1, <2>2 DEF Showing
<1> QED BY <1>1, <1>2, <1>3 DEF Playing, PlayRest1, PlayRest2, PlayRest3

Idle(t) == program[t] = <<>> /\ reset[t].pc = "idle"

LEMMA ThreadsApart ==
    /\ Resetters = {"http", "stream", "clear"} /\ Resetters \subseteq Threads
    /\ Threads = {"http", "stream", "clear", "decode"}
<1> QED BY DEF Resetters, Threads

LEMMA BusyOrIdle == \A t \in Resetters : Busy(t) <=> ~Idle(t)
<1> QED BY DEF Busy, Idle

LEMMA OpenIsNatural == MembersTyped => uxplay.open_connections \in Nat
<1> SUFFICES ASSUME MembersTyped PROVE uxplay.open_connections \in Nat
    OBVIOUS
<1>1. uxplay \in Members
      BY DEF MembersTyped
<1>2. uxplay.open_connections \in 0..MaxConnections
      BY <1>1 DEF Members
<1> QED BY <1>2, ReceiverAssumption

(* A step of a thread that may reset leaves the others where they are. *)
LEMMA OthersStay ==
    ASSUME NEW t \in Resetters, Elsewhere(t), \A u \in Resetters \ {t} : reset'[u] = reset[u]
    PROVE  /\ \A u \in Resetters \ {t} : /\ program'[u] = program[u]
                                         /\ Busy(u)' <=> Busy(u)
                                         /\ Emptying(u)' <=> Emptying(u)
           /\ program'["decode"] = program["decode"]
<1>1. \A u \in Resetters \ {t} : program'[u] = program[u]
      BY ThreadsApart DEF Elsewhere
<1> QED BY <1>1, ThreadsApart DEF Elsewhere, Busy, Emptying

-----------------------------------------------------------------------------
(* Every step inside a handler keeps the invariant. *)
LEMMA RequestSettled ==
    ASSUME ProgramTyped, MembersTyped, MembersTyped', StopInv, Settlement,
           NEW t \in {"http", "stream"}, Step(t), Request(program[t], uxplay, playing),
           t = "stream" => ~Playing(program["http"], uxplay)
    PROVE  Settlement'
<1> DEFINE open == uxplay.open_connections
<1>1. /\ t \in Threads /\ t \in Resetters /\ t # "clear"
      /\ Elsewhere(t) /\ Busy(t) /\ program[t] # <<>> /\ reset[t].pc = "idle"
      BY ThreadsApart, StepElsewhere
<1>2. DOMAIN reset = Resetters
      BY DEF StopInv
<1>3. open' = open /\ screen' = screen /\ queue' = queue /\ dpc' = dpc
      BY <1>1 DEF Elsewhere
<1>4. RequestResult(t)
      BY <1>2, RequestStep
<1>5. /\ \A u \in Resetters \ {t} : /\ program'[u] = program[u]
                                    /\ Busy(u)' <=> Busy(u)
                                    /\ Emptying(u)' <=> Emptying(u)
      /\ program'["decode"] = program["decode"]
      BY <1>1, <1>4, OthersStay DEF RequestResult
<1>6. program'["clear"] = program["clear"] /\ (Busy("clear")' <=> Busy("clear"))
      BY <1>1, <1>5, ThreadsApart
<1>7. /\ uxplay'.media_active => uxplay.media_active
      /\ playing' => playing
      BY <1>4 DEF RequestResult
<1>8. \/ Request(program'["http"], uxplay', playing')
      \/ open' = 0 /\ Closing(program'["http"])
      <2>1. CASE t = "http"
            BY <1>4, <2>1 DEF RequestResult
      <2>2. CASE t = "stream"
            <3>1. program'["http"] = program["http"]
                  BY <1>5, <2>2, ThreadsApart
            <3>2. \/ Request(program["http"], uxplay, playing)
                  \/ open = 0 /\ Closing(program["http"])
                  BY <2>2 DEF Settlement, Places
            <3> QED BY <1>3, <1>7, <3>1, <3>2, RequestKept
      <2> QED BY <2>1, <2>2
<1>9. ~Starting'
      BY <1>8, RequestApart DEF Starting, Last
<1>10. Places'
      <2>1. Request(program'["stream"], uxplay', playing')
            <3>1. CASE t = "stream"
                  BY <1>4, <3>1 DEF RequestResult
            <3>2. CASE t = "http"
                  <4>1. program'["stream"] = program["stream"]
                        BY <1>5, <3>2, ThreadsApart
                  <4> QED BY <1>7, <4>1, RequestKept DEF Settlement, Places
            <3> QED BY <3>1, <3>2
      <2>2. Clearing(program'["clear"], uxplay')
            BY <1>3, <1>6, <1>7, ClearingKept DEF Settlement, Places
      <2> QED BY <1>5, <1>8, <2>1, <2>2 DEF Settlement, Places
<1>11. Resets'
      <2>1. \A r \in Resetters : reset'[r].pc # "idle" /\ reset'[r].clear => ~uxplay'.media_active
            BY <1>4 DEF RequestResult, Settlement, Resets
      <2> QED BY <1>1, <1>4, <1>6, <2>1, ThreadsApart DEF RequestResult, Settlement, Resets
<1>12. Apart' /\ Unconnected'
      BY <1>3, <1>9 DEF Apart, Settlement, Unconnected
<1>13. Follows'
      BY <1>4, <1>6 DEF RequestResult, Settlement, Follows
<1>14. Known'
      <2>1. t = "http" => ~Showing(program["http"])
            BY NotStarting
      <2>2. t = "stream" => program'["http"] = program["http"]
            BY <1>5, ThreadsApart
      <2> QED BY <1>3, <1>4, <1>5, <1>6, <2>1, <2>2 DEF RequestResult, Settlement, Known
<1>15. Coming'
      <2>1. ASSUME open' = 0, screen' # "empty" \/ playing' \/ uxplay'.media_active
            PROVE  \/ uxplay'.clear_pending \/ Busy("clear")' \/ Closing(program'["http"])
                   \/ /\ ~uxplay'.media_active
                      /\ \E r \in {"http", "stream"} : Emptying(r)'
            <3>1. \/ uxplay.clear_pending \/ Busy("clear") \/ Closing(program["http"])
                  \/ ~uxplay.media_active /\ \E r \in {"http", "stream"} : Emptying(r)
                  BY <1>3, <1>7, <2>1 DEF Settlement, Coming
            <3>2. CASE uxplay.clear_pending
                  BY <1>4, <3>2 DEF RequestResult
            <3>3. CASE Closing(program["http"])
                  <4>1. t # "http"
                        BY <3>3, ClosingApart
                  <4> QED BY <1>5, <3>3, <4>1, ThreadsApart
            <3>4. ASSUME ~uxplay.media_active, NEW r \in {"http", "stream"}, Emptying(r)
                  PROVE  ~uxplay'.media_active /\ Emptying(r)'
                  <4>1. CASE r = t
                        BY <1>2, <1>7, <3>4, <4>1, EmptyingStep
                  <4>2. CASE r # t
                        BY <1>5, <1>7, <3>4, <4>2, ThreadsApart
                  <4> QED BY <4>1, <4>2
            <3> QED BY <1>6, <3>1, <3>2, <3>3, <3>4
      <2>2. uxplay'.clear_pending /\ uxplay'.media_active => open' = 0
            BY <1>3, <1>4 DEF RequestResult, Settlement, Coming
      <2> QED BY <2>1, <2>2 DEF Coming
<1> QED BY <1>10, <1>11, <1>12, <1>13, <1>14, <1>15 DEF Settlement

(* The HTTP thread after the last connection has closed. *)
LEMMA ClosingSettled ==
    ASSUME ProgramTyped, MembersTyped, MembersTyped', StopInv, Settlement,
           Step("http"), uxplay.open_connections = 0, Closing(program["http"])
    PROVE  Settlement'
<1> DEFINE open == uxplay.open_connections
<1>1. /\ "http" \in Threads /\ "http" \in Resetters /\ Elsewhere("http")
      BY ThreadsApart, StepElsewhere
<1>2. ClosingResult
      BY ClosingStep
<1>3. open' = 0 /\ screen' = screen /\ queue' = queue /\ dpc' = dpc
      BY <1>1 DEF Elsewhere
<1>4. /\ \A u \in Resetters \ {"http"} : /\ program'[u] = program[u]
                                         /\ Busy(u)' <=> Busy(u)
                                         /\ Emptying(u)' <=> Emptying(u)
      /\ program'["decode"] = program["decode"]
      BY <1>1, <1>2, OthersStay DEF ClosingResult
<1>5. /\ program'["clear"] = program["clear"] /\ (Busy("clear")' <=> Busy("clear"))
      /\ program'["stream"] = program["stream"]
      BY <1>4, ThreadsApart
<1>6. Places'
      <2>1. Request(program'["stream"], uxplay', playing')
            BY <1>2, <1>5, RequestKept DEF ClosingResult, Settlement, Places
      <2>2. Clearing(program'["clear"], uxplay')
            BY <1>2, <1>3, <1>5, ClearingKept DEF ClosingResult, Settlement, Places
      <2> QED BY <1>2, <1>3, <1>4, <2>1, <2>2 DEF ClosingResult, Settlement, Places
<1>7. Resets'
      BY <1>2, <1>5 DEF ClosingResult, Settlement, Resets
<1>8. ~Starting'
      BY <1>2, RequestApart DEF ClosingResult, Starting, Last
<1>9. Apart' /\ Unconnected'
      BY <1>3, <1>8 DEF Apart, Settlement, Unconnected
<1>10. Follows'
      BY <1>2, <1>5 DEF ClosingResult, Settlement, Follows
<1>11. ~Showing(program["http"])
      BY NotStarting
<1>12. Known'
      BY <1>2, <1>3, <1>4, <1>5, <1>11 DEF ClosingResult, Settlement, Known
<1>13. Coming'
      <2>1. ASSUME screen' # "empty" \/ playing' \/ uxplay'.media_active
            PROVE  uxplay'.clear_pending \/ Busy("clear")' \/ Closing(program'["http"])
            <3>1. program["decode"] # OnMirrorFrameOutput
                  <4>1. dpc # "output"
                        BY DEF Settlement, Unconnected
                  <4>2. program["decode"] = <<>>
                        BY <4>1 DEF StopInv
                  <4> QED BY <4>2, Rests DEF OnMirrorFrameOutput
            <3>2. uxplay.frame_shown \/ Busy("clear")
                  BY <1>2, <1>3, <1>11, <2>1, <3>1 DEF ClosingResult, Settlement, Known
            <3> QED BY <1>2, <1>5, <3>2 DEF ClosingResult
      <2> QED BY <1>3, <2>1 DEF Coming
<1> QED BY <1>6, <1>7, <1>9, <1>10, <1>12, <1>13 DEF Settlement

(* The HTTP thread starts an item: no clear runs and no reset that clears. *)
LEMMA PlaySettled ==
    ASSUME ProgramTyped, MembersTyped, MembersTyped', StopInv, Settlement,
           Step("http"), Playing(program["http"], uxplay)
    PROVE  Settlement'
<1> DEFINE open == uxplay.open_connections
<1>1. /\ "http" \in Threads /\ "http" \in Resetters /\ Elsewhere("http")
      BY ThreadsApart, StepElsewhere
<1>2. open' = open /\ screen' = screen /\ queue' = queue /\ dpc' = dpc
      BY <1>1 DEF Elsewhere
<1>3. open > 0 /\ open # 0
      BY OpenIsNatural DEF Playing
<1>4. ~Busy("clear") /\ Harmless
      BY PlayingStarts DEF Settlement, Apart
<1>5. program["clear"] = <<>> /\ reset["clear"].pc = "idle"
      BY <1>4, ThreadsApart DEF Busy
<1>6. playing => uxplay.media_active
      <2>1. program["clear"] # Quitting
            BY <1>5, Rests DEF Quitting
      <2> QED BY <2>1 DEF Settlement, Follows
<1>7. PlayResult
      <2>1. playing => uxplay.frame_shown
            BY <1>4 DEF Settlement, Known
      <2>2. uxplay.media_active => uxplay.frame_shown \/ Showing(program["http"])
            BY <1>4 DEF Settlement, Known
      <2>3. uxplay.clear_pending => ~uxplay.media_active
            BY <1>3 DEF Settlement, Coming
      <2>4. DOMAIN reset = Resetters
            BY DEF StopInv
      <2> QED BY <1>6, <2>1, <2>2, <2>3, <2>4, PlayStep
<1>8. /\ \A u \in Resetters \ {"http"} : /\ program'[u] = program[u]
                                         /\ Busy(u)' <=> Busy(u)
                                         /\ Emptying(u)' <=> Emptying(u)
      /\ program'["decode"] = program["decode"]
      BY <1>1, <1>7, OthersStay DEF PlayResult
<1>9. /\ program'["clear"] = <<>> /\ ~Busy("clear")' /\ program'["stream"] = program["stream"]
      /\ reset'["clear"] = reset["clear"] /\ reset'["stream"] = reset["stream"]
      BY <1>4, <1>5, <1>7, <1>8, ThreadsApart DEF PlayResult
<1>10. Places'
      <2>1. Request(program'["stream"], uxplay', playing')
            <3>1. Request(<<>>, uxplay', playing') /\ Request(<<Stale>>, uxplay', playing')
                  <4>1. PICK clear \in BOOLEAN : clear = FALSE
                        OBVIOUS
                  <4>2. <<Stale>> = <<Flushing(clear)>>
                        BY <4>1 DEF Stale, Flushing
                  <4> QED BY <4>1, <4>2 DEF Request, Resetting
            <3> QED BY <1>4, <1>9, <3>1 DEF Harmless
      <2>2. Clearing(program'["clear"], uxplay')
            BY <1>9 DEF Clearing
      <2> QED BY <1>7, <1>8, <2>1, <2>2 DEF PlayResult, Settlement, Places
<1>11. Resets'
      <2>1. \A r \in Resetters : ~(reset'[r].pc # "idle" /\ reset'[r].clear)
            BY <1>4, <1>5, <1>7, <1>9, ThreadsApart DEF PlayResult, Harmless
      <2> QED BY <1>5, <1>9, <2>1 DEF Resets
<1>12. Apart' /\ Unconnected'
      BY <1>2, <1>3, <1>4, <1>9 DEF Apart, Harmless, Unconnected
<1>13. Follows'
      BY <1>7 DEF PlayResult, Follows
<1>14. Known'
      <2>1. screen' # "empty" => uxplay'.frame_shown \/ program'["decode"] = OnMirrorFrameOutput
            BY <1>2, <1>4, <1>7, <1>8 DEF Settlement, Known, PlayResult
      <2>2. uxplay'.media_active => uxplay'.frame_shown \/ (open' > 0 /\ Showing(program'["http"]))
            BY <1>2, <1>3, <1>7 DEF PlayResult
      <2> QED BY <1>7, <2>1, <2>2 DEF Known, PlayResult
<1>15. Coming'
      BY <1>2, <1>3, <1>7 DEF PlayResult, Coming
<1> QED BY <1>10, <1>11, <1>12, <1>13, <1>14, <1>15 DEF Settlement

(* All a stream thread does while an item starts. *)
LEMMA HarmlessSettled ==
    ASSUME ProgramTyped, MembersTyped, MembersTyped', StopInv, Settlement,
           Step("stream"), Playing(program["http"], uxplay)
    PROVE  Settlement'
<1> DEFINE open == uxplay.open_connections
<1>1. /\ "stream" \in Threads /\ "stream" \in Resetters /\ Elsewhere("stream")
      /\ program["stream"] # <<>>
      BY ThreadsApart, StepElsewhere
<1>2. open' = open /\ screen' = screen /\ queue' = queue /\ dpc' = dpc
      BY <1>1 DEF Elsewhere
<1>3. open # 0
      BY OpenIsNatural DEF Playing
<1>4. Starting /\ ~Busy("clear") /\ program["stream"] = <<Stale>>
      BY <1>1, PlayingStarts DEF Settlement, Apart, Harmless
<1>5. /\ uxplay' = uxplay /\ playing' = playing /\ Left("stream", <<>>)
      /\ DOMAIN reset' = Resetters
      /\ \A r \in Resetters \ {"stream"} : reset'[r] = reset[r]
      /\ ~reset'["stream"].clear
      <2>1. Head(program["stream"]) = Reset(FALSE, TRUE)
            BY <1>4, Rests DEF Stale
      <2>2. DOMAIN reset = Resetters
            BY DEF StopInv
      <2> QED BY <1>1, <2>1, <2>2, ResetCalled
<1>6. program'["stream"] = <<>>
      BY <1>4, <1>5, Rests DEF Left
<1>7. /\ \A u \in Resetters \ {"stream"} : /\ program'[u] = program[u]
                                           /\ Busy(u)' <=> Busy(u)
                                           /\ Emptying(u)' <=> Emptying(u)
      /\ program'["decode"] = program["decode"]
      BY <1>1, <1>5, OthersStay
<1>8. /\ program'["http"] = program["http"] /\ program'["clear"] = program["clear"]
      /\ (Busy("clear")' <=> Busy("clear"))
      BY <1>7, ThreadsApart
<1>9. Places'
      <2>1. Request(program'["stream"], uxplay', playing')
            BY <1>6 DEF Request
      <2> QED BY <1>5, <1>7, <1>8, <2>1 DEF Settlement, Places
<1>10. Resets'
      BY <1>5, <1>8, ThreadsApart DEF Settlement, Resets
<1>11. Apart'
      BY <1>4, <1>5, <1>6, <1>8 DEF Apart, Harmless
<1>12. Follows' /\ Unconnected'
      BY <1>2, <1>3, <1>5, <1>8 DEF Settlement, Follows, Unconnected
<1>13. Known'
      BY <1>2, <1>5, <1>7, <1>8 DEF Settlement, Known
<1>14. Coming'
      BY <1>2, <1>3, <1>5 DEF Settlement, Coming
<1> QED BY <1>9, <1>10, <1>11, <1>12, <1>13, <1>14 DEF Settlement

LEMMA ClearSettled ==
    ASSUME ProgramTyped, MembersTyped, MembersTyped', StopInv, Settlement, Step("clear")
    PROVE  Settlement'
<1> DEFINE open == uxplay.open_connections
<1>1. "clear" \in Threads /\ "clear" \in Resetters /\ Elsewhere("clear") /\ Busy("clear")
      BY ThreadsApart, StepElsewhere
<1>2. ClearResult
      BY ClearStep DEF Settlement, Places, StopInv
<1>3. /\ \A u \in Resetters \ {"clear"} : /\ program'[u] = program[u]
                                          /\ Busy(u)' <=> Busy(u)
                                          /\ Emptying(u)' <=> Emptying(u)
      /\ program'["decode"] = program["decode"]
      BY <1>1, <1>2, OthersStay DEF ClearResult
<1>4. program'["http"] = program["http"] /\ program'["stream"] = program["stream"]
      BY <1>3, ThreadsApart
<1>5. open' = open /\ screen' = screen /\ queue' = queue /\ dpc' = dpc
      BY <1>1 DEF Elsewhere
<1>6. Busy("clear")'
      BY <1>2, ThreadsApart DEF ClearResult, Busy
<1>7. ~Starting /\ ~Playing(program["http"], uxplay)
      BY <1>1, PlayingStarts DEF Settlement, Apart
<1>8. Places'
      <2>1. /\ Request(program["http"], uxplay, playing) =>
                 Request(program'["http"], uxplay', playing')
            /\ Request(program'["stream"], uxplay', playing')
            BY <1>2, <1>4, RequestKept DEF ClearResult, Settlement, Places
      <2> QED BY <1>2, <1>3, <1>4, <1>5, <1>7, <2>1 DEF ClearResult, Settlement, Places
<1>9. Resets'
      BY <1>2, ThreadsApart DEF ClearResult, Settlement, Resets
<1>10. Apart' /\ Unconnected'
      BY <1>4, <1>5, <1>7 DEF Settlement, Apart, Starting, Unconnected
<1>11. Known'
      BY <1>6 DEF Known
<1>12. Coming'
      BY <1>2, <1>5, <1>6 DEF ClearResult, Settlement, Coming
<1> QED BY <1>2, <1>8, <1>9, <1>10, <1>11, <1>12 DEF ClearResult, Settlement


LEMMA CallbackSettled ==
    ASSUME ProgramTyped, MembersTyped, MembersTyped', StopInv, Settlement, Step("decode")
    PROVE  Settlement'
<1> DEFINE open == uxplay.open_connections
<1>1. "decode" \in Threads /\ "decode" \notin Resetters /\ program["decode"] # <<>>
      BY ThreadsApart, StepElsewhere
<1>2. Elsewhere("decode")
      BY <1>1, StepElsewhere
<1>3. open' = open /\ screen' = screen /\ queue' = queue /\ dpc' = dpc
      BY <1>2 DEF Elsewhere
<1>4. CallbackResult
      BY CallbackStep DEF Settlement, Places
<1>5. open # 0
      <2>1. dpc = "output"
            BY <1>1 DEF StopInv
      <2> QED BY <2>1 DEF Settlement, Unconnected
<1>6. /\ program'["http"] = program["http"] /\ program'["stream"] = program["stream"]
      /\ program'["clear"] = program["clear"]
      BY <1>2, ThreadsApart DEF Elsewhere
<1>7. \A u \in Resetters : Busy(u)' <=> Busy(u)
      BY <1>4, <1>6, ThreadsApart DEF Busy, CallbackResult
<1>8. Places'
      <2>1. /\ Request(program["http"], uxplay, playing) =>
                 Request(program'["http"], uxplay', playing')
            /\ Request(program'["stream"], uxplay', playing')
            BY <1>3, <1>4, <1>6, RequestKept DEF CallbackResult, Settlement, Places
      <2>2. Playing(program["http"], uxplay) => Playing(program'["http"], uxplay')
            BY <1>3, <1>4, <1>6, PlayingKept DEF CallbackResult
      <2>3. Clearing(program'["clear"], uxplay')
            BY <1>3, <1>4, <1>6, ClearingKept DEF CallbackResult, Settlement, Places
      <2> QED BY <1>4, <1>5, <2>1, <2>2, <2>3 DEF CallbackResult, Settlement, Places
<1>9. Resets'
      BY <1>4, <1>6 DEF CallbackResult, Settlement, Resets
<1>10. Apart' /\ Follows'
      BY <1>4, <1>6, <1>7, ThreadsApart
      DEF CallbackResult, Settlement, Apart, Starting, Harmless, Follows
<1>11. Unconnected'
      BY <1>3, <1>5 DEF Unconnected
<1>12. Known'
      <2>1. /\ screen # "empty" => \/ uxplay.frame_shown \/ Busy("clear")
                                   \/ program["decode"] = OnMirrorFrameOutput
            /\ playing => uxplay.frame_shown \/ Busy("clear")
            /\ uxplay.media_active => \/ uxplay.frame_shown \/ Busy("clear")
                                      \/ open > 0 /\ Showing(program["http"])
            BY DEF Settlement, Known
      <2>2. screen' # "empty" => uxplay'.frame_shown \/ Busy("clear")'
            BY <1>3, <1>4, <1>7, <2>1, ThreadsApart DEF CallbackResult
      <2>3. playing' => uxplay'.frame_shown \/ Busy("clear")'
            BY <1>4, <1>7, <2>1, ThreadsApart DEF CallbackResult
      <2>4. uxplay'.media_active => \/ uxplay'.frame_shown \/ Busy("clear")'
                                    \/ open' > 0 /\ Showing(program'["http"])
            BY <1>3, <1>4, <1>6, <1>7, <2>1, ThreadsApart DEF CallbackResult
      <2> QED BY <2>2, <2>3, <2>4 DEF Known
<1>13. Coming'
      BY <1>3, <1>4, <1>5 DEF CallbackResult, Settlement, Coming
<1> QED BY <1>8, <1>9, <1>10, <1>11, <1>12, <1>13 DEF Settlement

-----------------------------------------------------------------------------
(* A handler starts settled: what it may not meet is not there. *)
LEMMA StartIdle ==
    ASSUME NEW t \in {"http", "stream"}, NEW name, Start(t, name), ~unsettled', ProgramTyped
    PROVE  /\ ~unsettled /\ Settled(t, name) /\ Idle(t)
           /\ program'[t] = Handler(name)
           /\ \A u \in Threads \ {t} : program'[u] = program[u]
           /\ UNCHANGED <<serverVars, playing>>
<1>1. t \in Threads /\ t \in Resetters
      BY ThreadsApart
<1>2. Idle(t)
      BY <1>1, BusyOrIdle DEF Start
<1> QED BY <1>1, <1>2 DEF Start, ProgramTyped

(* What holds after any start. *)
LEMMA StartSettled ==
    ASSUME ProgramTyped, MembersTyped, StopInv, Settlement, NEW t \in {"http", "stream"},
           Idle(t), \A u \in Threads \ {t} : program'[u] = program[u],
           UNCHANGED <<serverVars, playing>>,
           t = "stream" => uxplay' = uxplay /\ uxplay.open_connections # 0,
           uxplay'.media_active = uxplay.media_active,
           uxplay'.frame_shown = uxplay.frame_shown,
           uxplay'.clear_pending = uxplay.clear_pending,
           \/ Request(program'[t], uxplay', playing')
           \/ /\ t = "http"
              /\ \/ uxplay'.open_connections = 0 /\ Closing(program'["http"])
                 \/ Playing(program'["http"], uxplay'),
           Clearing(program["clear"], uxplay'), Apart',
           uxplay'.open_connections = 0 =>
             t = "http" /\ queue = <<>> /\ dpc = "idle" /\ Closing(program'["http"]),
           uxplay'.clear_pending /\ uxplay'.media_active => uxplay'.open_connections = 0
    PROVE  Settlement'
<1>1. reset' = reset /\ screen' = screen /\ queue' = queue /\ dpc' = dpc /\ playing' = playing
      BY DEF serverVars
<1>2. t \in Threads /\ t \in Resetters /\ t # "clear" /\ t # "decode"
      BY ThreadsApart
<1>3. /\ program'["decode"] = program["decode"] /\ program'["clear"] = program["clear"]
      /\ t = "http" => program'["stream"] = program["stream"]
      /\ t = "stream" => program'["http"] = program["http"]
      BY <1>2, ThreadsApart
<1>4. Busy("clear")' <=> Busy("clear")
      BY <1>1, <1>3 DEF Busy
<1>5. Places'
      <2>1. t = "http" => Request(program'["stream"], uxplay', playing')
            BY <1>1, <1>3, RequestKept DEF Settlement, Places
      <2>2. t = "stream" => \/ Request(program'["http"], uxplay', playing')
                            \/ Playing(program'["http"], uxplay')
            BY <1>1, <1>3 DEF Settlement, Places
      <2>3. /\ \/ Request(program'["http"], uxplay', playing')
               \/ uxplay'.open_connections = 0 /\ Closing(program'["http"])
               \/ Playing(program'["http"], uxplay')
            /\ Request(program'["stream"], uxplay', playing')
            BY <2>1, <2>2
      <2> QED BY <1>3, <2>3 DEF Settlement, Places
<1>6. Resets'
      BY <1>1, <1>3 DEF Settlement, Resets
<1>7. Follows'
      BY <1>1, <1>3 DEF Settlement, Follows
<1>8. Unconnected'
      BY <1>1 DEF Unconnected
<1>9. Known'
      <2>1. t = "http" => ~Showing(program["http"])
            BY Rests DEF Idle, Showing
      <2> QED BY <1>1, <1>3, <1>4, <2>1 DEF Settlement, Known
<1>10. Coming'
      BY DEF Coming
<1> QED BY <1>5, <1>6, <1>7, <1>8, <1>9, <1>10 DEF Settlement

(* The handlers start where the invariant says. *)
LEMMA OneAndOne == ASSUME NEW a, NEW b PROVE <<a>> \o <<b>> = <<a, b>>
<1>1. <<a>> \o Tail(<<a, b>>) = <<a, b>>
      BY OneBeforeOne
<1>2. Tail(<<a, b>>) = <<b>>
      OBVIOUS
<1> QED BY <1>1, <1>2

LEMMA FourAndOne ==
    ASSUME NEW a, NEW b, NEW c, NEW d, NEW e
    PROVE  <<a, b, c, d>> \o <<e>> = <<a, b, c, d, e>>
<1> DEFINE S == {a, b, c, d, e}
<1>1. <<a, b, c, d>> \in Seq(S) /\ <<e>> \in Seq(S) /\ <<a, b, c, d, e>> \in Seq(S)
      OBVIOUS
<1>2. /\ Len(<<a, b, c, d>> \o <<e>>) = 5 /\ Len(<<a, b, c, d, e>>) = 5
      /\ <<a, b, c, d>> \o <<e>> \in Seq(S)
      BY <1>1
<1>3. ASSUME NEW i \in 1..5 PROVE (<<a, b, c, d>> \o <<e>>)[i] = <<a, b, c, d, e>>[i]
      BY <1>1
<1> QED BY <1>1, <1>2, <1>3, SeqEqual

LEMMA Beginnings ==
    ASSUME NEW u, NEW p,
           NEW name \in {"conn_teardown", "on_video_stop", "video_reset", "video_shutdown",
                         "conn_reset", "video_set_codec"}
    PROVE  Request(Handler(name), u, p)
<1>1. CASE name = "conn_teardown"
      <2>1. Handler(name) = <<Stale, <<"schedule_if_mirroring">>>>
            BY <1>1 DEF Handler, ConnTeardown, Stale
      <2> QED BY <2>1 DEF Request, Tearing
<1>2. CASE name = "on_video_stop"
      <2>1. Handler(name) = <<<<"stop_player">>, MediaOff, Notify, Waiting, <<"schedule">>>>
            BY <1>2 DEF Handler, OnVideoStop, MediaOff, Waiting
      <2> QED BY <2>1 DEF Request, Stopping
<1>3. CASE name \in {"video_reset", "conn_reset"}
      <2>1. <<>> \o <<<<"reset_unless_media">>>> = <<<<"reset_unless_media">>>>
            OBVIOUS
      <2>2. Handler(name) = <<<<"reset_unless_media">>>>
            BY <1>3, <2>1 DEF Handler, VideoReset, ConnReset
      <2> QED BY <2>2 DEF Request, Resetting
<1>4. CASE name = "video_shutdown"
      <2>1. EndItem = <<<<"stop_player">>, MediaOff, Notify, <<"cancel">>>>
            BY DEF EndItem, MediaOff
      <2>2. Handler(name) = EndItem \o <<<<"reset_unless_media">>>>
            BY <1>4 DEF Handler, VideoReset
      <2>3. Handler(name) = <<<<"stop_player">>, MediaOff, Notify, <<"cancel">>,
                              <<"reset_unless_media">>>>
            BY <2>1, <2>2, FourAndOne
      <2> QED BY <2>3 DEF Request, Resetting
<1>5. CASE name = "video_set_codec"
      <2>1. PICK clear \in BOOLEAN : clear = FALSE
            OBVIOUS
      <2>2. Handler(name) = <<Flushing(clear)>>
            BY <1>5, <2>1 DEF Handler, VideoSetCodec, Flushing
      <2> QED BY <2>1, <2>2 DEF Request, Resetting
<1> QED BY <1>1, <1>2, <1>3, <1>4, <1>5

SameButOpen ==
    /\ uxplay'.media_active = uxplay.media_active
    /\ uxplay'.frame_shown = uxplay.frame_shown
    /\ uxplay'.clear_pending = uxplay.clear_pending

LEMMA ConnectSettled ==
    ASSUME ProgramTyped, MembersTyped, StopInv, Settlement, ~unsettled', Connect
    PROVE  Settlement'
<1> DEFINE open == uxplay.open_connections
<1>1. Start("http", "conn_init")
      BY DEF Connect
<1>2. /\ Settled("http", "conn_init") /\ Idle("http")
      /\ program'["http"] = Handler("conn_init")
      /\ \A u \in Threads \ {"http"} : program'[u] = program[u]
      /\ UNCHANGED <<serverVars, playing>>
      BY <1>1, StartIdle
<1>3. open' = open + 1 /\ SameButOpen
      BY DEF Connect, Set, SameButOpen, MembersTyped, Members
<1>4. open' # 0
      BY <1>3, OpenIsNatural
<1>5. program'["http"] = <<Notify>>
      BY <1>2 DEF Handler, ConnInit
<1>6. Request(program'["http"], uxplay', playing')
      BY <1>5 DEF Request, Noting
<1>7. ~(uxplay.clear_pending /\ uxplay.media_active)
      <2>1. open = 0 => ~uxplay.clear_pending
            BY <1>2 DEF Settled
      <2> QED BY <2>1 DEF Settlement, Coming
<1>8. Clearing(program["clear"], uxplay')
      <2>1. CASE open = 0
            <3>1. ~Busy("clear")
                  BY <1>2, <2>1 DEF Settled
            <3>2. program["clear"] = <<>>
                  BY <3>1 DEF Busy
            <3> QED BY <3>2 DEF Clearing
      <2>2. CASE open # 0
            BY <1>3, <2>2, ClearingKept DEF SameButOpen, Settlement, Places
      <2> QED BY <2>1, <2>2
<1>9. Apart'
      <2>1. ~Starting'
            BY <1>6, RequestApart DEF Starting, Last
      <2> QED BY <2>1 DEF Apart
<1> QED BY <1>2, <1>3, <1>4, <1>6, <1>7, <1>8, <1>9, StartSettled DEF SameButOpen

LEMMA DisconnectSettled ==
    ASSUME ProgramTyped, MembersTyped, StopInv, Settlement, ~unsettled', Disconnect
    PROVE  Settlement'
<1> DEFINE open == uxplay.open_connections
<1>1. Start("http", "conn_destroy")
      BY DEF Disconnect
<1>2. /\ Settled("http", "conn_destroy") /\ Idle("http")
      /\ program'["http"] = Handler("conn_destroy")
      /\ \A u \in Threads \ {"http"} : program'[u] = program[u]
      /\ UNCHANGED <<serverVars, playing>>
      BY <1>1, StartIdle
<1>3. open' = open - 1 /\ open > 0 /\ SameButOpen
      BY DEF Disconnect, Set, SameButOpen, MembersTyped, Members
<1>4. open # 0 /\ Handler("conn_destroy") = ConnDestroy(LastCloses("conn_destroy"))
      BY <1>3, OpenIsNatural DEF Handler
<1>5. ~(uxplay.clear_pending /\ uxplay.media_active)
      BY <1>4 DEF Settlement, Coming
<1>6. Clearing(program["clear"], uxplay')
      BY <1>3, <1>4, ClearingKept DEF SameButOpen, Settlement, Places
<1>7. CASE open' = 0
      <2>1. LastCloses("conn_destroy")
            BY <1>3, <1>7, OpenIsNatural DEF LastCloses
      <2>2. program'["http"] = <<<<"schedule_if_shown">>>> \o <<Notify>>
            BY <1>2, <1>4, <2>1 DEF ConnDestroy
      <2>3. program'["http"] = <<<<"schedule_if_shown">>, Notify>>
            BY <2>2, OneAndOne
      <2>4. Closing(program'["http"])
            BY <2>3 DEF Closing
      <2>5. Apart'
            <3>1. ~Starting'
                  BY <2>4, RequestApart DEF Starting, Last
            <3> QED BY <3>1 DEF Apart
      <2>6. queue = <<>> /\ dpc = "idle"
            BY <1>2, <2>1 DEF Settled
      <2> QED BY <1>2, <1>3, <1>5, <1>6, <1>7, <2>4, <2>5, <2>6, StartSettled DEF SameButOpen
<1>8. CASE open' # 0
      <2>1. ~LastCloses("conn_destroy")
            BY <1>3, <1>8, OpenIsNatural DEF LastCloses
      <2>2. program'["http"] = <<>> \o <<Notify>>
            BY <1>2, <1>4, <2>1 DEF ConnDestroy
      <2>3. program'["http"] = <<Notify>>
            BY <2>2
      <2>4. Request(program'["http"], uxplay', playing')
            BY <2>3 DEF Request, Noting
      <2>5. Apart'
            <3>1. ~Starting'
                  BY <2>4, RequestApart DEF Starting, Last
            <3> QED BY <3>1 DEF Apart
      <2> QED BY <1>2, <1>3, <1>5, <1>6, <1>8, <2>4, <2>5, StartSettled DEF SameButOpen
<1> QED BY <1>7, <1>8

LEMMA CallSettled ==
    ASSUME ProgramTyped, MembersTyped, StopInv, Settlement, ~unsettled', HttpCall \/ StreamCall
    PROVE  Settlement'
<1> DEFINE open == uxplay.open_connections
<1>1. PICK t \in {"http", "stream"}, name \in HttpNames \cup StreamNames :
         /\ Call(t, name) /\ name \notin {"conn_init", "conn_destroy"}
         /\ name = "on_video_play" => t = "http"
      BY ReceiverAssumption DEF HttpCall, StreamCall, HttpNames, StreamNames
<1>2. /\ Start(t, name) /\ uxplay' = uxplay /\ open > 0
      BY <1>1 DEF Call
<1>3. /\ Settled(t, name) /\ Idle(t)
      /\ program'[t] = Handler(name)
      /\ \A u \in Threads \ {t} : program'[u] = program[u]
      /\ UNCHANGED <<serverVars, playing>>
      BY <1>2, StartIdle
<1>4. open # 0
      BY <1>2, OpenIsNatural
<1>5. ~(uxplay.clear_pending /\ uxplay.media_active)
      BY <1>4 DEF Settlement, Coming
<1>6. Clearing(program["clear"], uxplay')
      BY <1>2 DEF Settlement, Places
<1>7. reset' = reset
      BY <1>3 DEF serverVars
<1>8. CASE name = "on_video_play"
      <2>1. program'[t] = OnVideoPlay
            BY <1>3, <1>8 DEF Handler
      <2>2. t = "http" /\ Playing(program'["http"], uxplay')
            BY <1>1, <1>2, <1>8, <2>1 DEF Playing
      <2>3. Apart'
            <3>1. ~Busy("stream") /\ ~Busy("clear")
                  BY <1>3, <1>8 DEF Settled
            <3>2. program'["stream"] = program["stream"] /\ program'["clear"] = program["clear"]
                  BY <1>3, <2>2, ThreadsApart
            <3> QED BY <1>7, <3>1, <3>2, ThreadsApart DEF Apart, Harmless, Busy
      <2> QED BY <1>2, <1>3, <1>4, <1>5, <1>6, <2>2, <2>3, StartSettled
<1>9. CASE name # "on_video_play"
      <2>1. name \in {"conn_teardown", "on_video_stop", "video_reset", "video_shutdown",
                      "conn_reset", "video_set_codec"}
            BY <1>1, <1>9 DEF HttpNames, StreamNames
      <2>2. Request(program'[t], uxplay', playing')
            BY <1>3, <2>1, Beginnings
      <2>3. CASE t = "http"
            <3>1. ~Starting'
                  BY <2>2, <2>3, RequestApart DEF Starting, Last
            <3>2. Apart'
                  BY <3>1 DEF Apart
            <3> QED BY <1>2, <1>3, <1>4, <1>5, <1>6, <2>2, <3>2, StartSettled
      <2>4. CASE t = "stream"
            <3>1. program'["http"] = program["http"] /\ program'["clear"] = program["clear"]
                  BY <1>3, <2>4, ThreadsApart
            <3>2. Starting => name = "video_set_codec"
                  BY <1>3, <2>4 DEF Settled
            <3>3. name = "video_set_codec" => program'["stream"] = <<Stale>>
                  BY <1>3, <2>4 DEF Handler, VideoSetCodec, Stale
            <3>4. Apart'
                  BY <1>7, <3>1, <3>2, <3>3, ThreadsApart
                  DEF Settlement, Apart, Starting, Harmless, Busy
            <3> QED BY <1>2, <1>3, <1>4, <1>5, <1>6, <2>2, <3>4, StartSettled
      <2> QED BY <2>3, <2>4
<1> QED BY <1>8, <1>9

LEMMA ExpireSettled ==
    ASSUME ProgramTyped, MembersTyped, StopInv, Settlement, ~unsettled', Expire
    PROVE  Settlement'
<1> DEFINE open == uxplay.open_connections
<1>1. /\ uxplay.clear_pending /\ ~Busy("clear") /\ ~Starting
      /\ program' = [program EXCEPT !["clear"] = DeferredClear]
      /\ UNCHANGED <<serverVars, playing>>
      BY DEF Expire
<1>2. program["clear"] = <<>> /\ reset["clear"].pc = "idle"
      BY <1>1, ThreadsApart DEF Busy
<1>3. /\ open' = open /\ uxplay'.media_active = uxplay.media_active
      /\ uxplay'.frame_shown = uxplay.frame_shown /\ ~uxplay'.clear_pending
      BY DEF Expire, Set, MembersTyped, Members
<1>4. /\ reset' = reset /\ screen' = screen /\ queue' = queue /\ dpc' = dpc /\ playing' = playing
      BY <1>1 DEF serverVars
<1>5. /\ program'["clear"] = DeferredClear /\ program'["http"] = program["http"]
      /\ program'["stream"] = program["stream"] /\ program'["decode"] = program["decode"]
      BY <1>1, ThreadsApart DEF ProgramTyped
<1>6. Busy("clear")'
      <2>1. DeferredClear # <<>>
            BY Rests DEF DeferredClear
      <2> QED BY <1>5, <2>1 DEF Busy
<1>7. Places'
      <2>1. ~Playing(program["http"], uxplay)
            BY <1>1, PlayingStarts
      <2>2. /\ Request(program["http"], uxplay, playing) =>
                 Request(program'["http"], uxplay', playing')
            /\ Request(program'["stream"], uxplay', playing')
            BY <1>3, <1>4, <1>5, RequestKept DEF Settlement, Places
      <2>3. ~uxplay.media_active \/ open = 0
            BY <1>1 DEF Settlement, Coming
      <2>4. Clearing(program'["clear"], uxplay')
            BY <1>3, <1>5, <2>3 DEF Clearing
      <2> QED BY <1>3, <1>5, <2>1, <2>2, <2>4 DEF Settlement, Places
<1>8. Resets'
      BY <1>2, <1>3, <1>4 DEF Settlement, Resets
<1>9. Apart'
      BY <1>1, <1>5 DEF Apart, Starting
<1>10. Follows'
      <2>1. program["clear"] # Quitting
            BY <1>2, Rests DEF Quitting
      <2> QED BY <1>3, <1>4, <2>1 DEF Settlement, Follows
<1>11. Unconnected'
      BY <1>3, <1>4 DEF Settlement, Unconnected
<1>12. Known'
      BY <1>6 DEF Known
<1>13. Coming'
      BY <1>3, <1>6 DEF Coming
<1> QED BY <1>7, <1>8, <1>9, <1>10, <1>11, <1>12, <1>13 DEF Settlement

-----------------------------------------------------------------------------
(* Steps that leave the handlers alone. *)
HandlersStay ==
    /\ uxplay' = uxplay /\ reset' = reset
    /\ \A u \in Resetters : program'[u] = program[u]

LEMMA StaySettled ==
    ASSUME Settlement, HandlersStay, playing' => playing,
           Callback(program'["decode"]),
           uxplay.open_connections = 0 => queue' = <<>> /\ dpc' \in {"idle", "stopped"},
           \/ screen' = screen /\ program'["decode"] = program["decode"]
           \/ program'["decode"] = OnMirrorFrameOutput /\ uxplay.open_connections # 0
           \/ playing /\ program'["decode"] = program["decode"]
    PROVE  Settlement'
<1>1. \A u \in Resetters : Busy(u)' <=> Busy(u)
      BY DEF HandlersStay, Busy
<1>2. /\ program'["http"] = program["http"] /\ program'["stream"] = program["stream"]
      /\ program'["clear"] = program["clear"]
      BY ThreadsApart DEF HandlersStay
<1>3. Places'
      <2>1. /\ Request(program["http"], uxplay, playing) =>
                 Request(program'["http"], uxplay', playing')
            /\ Request(program'["stream"], uxplay', playing')
            BY <1>2, RequestKept DEF HandlersStay, Settlement, Places
      <2>2. Playing(program["http"], uxplay) => Playing(program'["http"], uxplay')
            BY <1>2 DEF HandlersStay
      <2>3. Clearing(program'["clear"], uxplay')
            BY <1>2, ClearingKept DEF HandlersStay, Settlement, Places
      <2> QED BY <1>2, <2>1, <2>2, <2>3 DEF HandlersStay, Settlement, Places
<1>4. Resets'
      BY <1>2 DEF HandlersStay, Settlement, Resets
<1>5. Apart' /\ Follows'
      BY <1>1, <1>2, ThreadsApart
      DEF HandlersStay, Settlement, Apart, Starting, Harmless, Follows
<1>6. Unconnected'
      BY <1>1, ThreadsApart DEF HandlersStay, Settlement, Unconnected
<1>7. Known'
      <2>1. /\ playing' => uxplay'.frame_shown \/ Busy("clear")'
            /\ uxplay'.media_active => \/ uxplay'.frame_shown \/ Busy("clear")'
                                       \/ /\ uxplay'.open_connections > 0
                                          /\ Showing(program'["http"])
            BY <1>1, <1>2, ThreadsApart DEF HandlersStay, Settlement, Known
      <2>2. screen' # "empty" => \/ uxplay'.frame_shown \/ Busy("clear")'
                                 \/ program'["decode"] = OnMirrorFrameOutput
            BY <1>1, ThreadsApart DEF HandlersStay, Settlement, Known
      <2> QED BY <2>1, <2>2 DEF Known
<1>8. Coming'
      <2>1. ASSUME uxplay'.open_connections = 0,
                   screen' # "empty" \/ playing' \/ uxplay'.media_active
            PROVE  \/ uxplay'.clear_pending \/ Busy("clear")' \/ Closing(program'["http"])
                   \/ ~uxplay'.media_active /\ \E r \in {"http", "stream"} : Emptying(r)'
            <3>1. uxplay.open_connections = 0 /\ (screen # "empty" \/ playing \/ uxplay.media_active)
                  BY <2>1 DEF HandlersStay
            <3>2. \/ uxplay.clear_pending \/ Busy("clear") \/ Closing(program["http"])
                  \/ ~uxplay.media_active /\ \E r \in {"http", "stream"} : Emptying(r)
                  BY <3>1 DEF Settlement, Coming
            <3>3. \A r \in {"http", "stream"} : Emptying(r)' <=> Emptying(r)
                  BY ThreadsApart DEF HandlersStay, Emptying
            <3> QED BY <1>1, <1>2, <3>2, <3>3, ThreadsApart DEF HandlersStay
      <2>2. uxplay'.clear_pending /\ uxplay'.media_active => uxplay'.open_connections = 0
            BY DEF HandlersStay, Settlement, Coming
      <2> QED BY <2>1, <2>2 DEF Coming
<1> QED BY <1>3, <1>4, <1>5, <1>6, <1>7, <1>8 DEF Settlement

LEMMA DecodeSettled ==
    ASSUME ProgramTyped, Settlement, DecodeStep
    PROVE  Settlement'
<1>1. /\ uxplay' = uxplay /\ playing' = playing /\ reset' = reset
      /\ \A u \in Resetters : program'[u] = program[u]
      BY ThreadsApart DEF DecodeStep, ProgramTyped, Server!DecodeThread, Server!Take,
         Server!Decode, Server!FrameOutput, Server!Exit
<1>2. HandlersStay
      BY <1>1 DEF HandlersStay
<1>3. Callback(<<>>) /\ Callback(OnMirrorFrameOutput) /\ program["decode"] = <<>>
      BY DEF Callback, DecodeStep
<1>4. CASE Server!Decode
      <2>1. dpc = "taken" /\ queue' = queue
            BY <1>4 DEF Server!Decode
      <2>2. uxplay.open_connections # 0
            BY <2>1 DEF Settlement, Unconnected
      <2>3. CASE dpc' = "output"
            <3>1. program'["decode"] = OnMirrorFrameOutput
                  BY <2>1, <2>3, ThreadsApart DEF DecodeStep, ProgramTyped
            <3> QED BY <1>1, <1>2, <1>3, <2>2, <3>1, StaySettled
      <2>4. CASE dpc' # "output"
            <3>1. program' = program /\ screen' = screen
                  BY <1>4, <2>4 DEF DecodeStep, Server!Decode
            <3> QED BY <1>1, <1>2, <1>3, <2>2, <3>1, StaySettled
      <2> QED BY <2>3, <2>4
<1>5. CASE Server!Take
      <2>1. queue # <<>> /\ dpc = "idle" /\ screen' = screen
            BY <1>5 DEF Server!Take
      <2>2. uxplay.open_connections # 0
            BY <2>1 DEF Settlement, Unconnected
      <2>3. program' = program
            BY <2>1 DEF DecodeStep
      <2> QED BY <1>1, <1>2, <1>3, <2>1, <2>2, <2>3, StaySettled
<1>6. CASE Server!FrameOutput \/ Server!Exit
      <2>1. /\ dpc' \in {"idle", "stopped"} /\ queue' = queue /\ screen' = screen
            /\ dpc # "taken"
            BY <1>6 DEF Server!FrameOutput, Server!Exit
      <2>2. program' = program
            BY <2>1 DEF DecodeStep
      <2>3. uxplay.open_connections = 0 => queue = <<>>
            BY DEF Settlement, Unconnected
      <2> QED BY <1>1, <1>2, <1>3, <2>1, <2>2, <2>3, StaySettled
<1> QED BY <1>4, <1>5, <1>6 DEF DecodeStep, Server!DecodeThread

LEMMA OutsideSettled ==
    ASSUME Settlement, MembersTyped,
           \/ \E key \in BOOLEAN : VideoProcess(key)
           \/ MediaFrame \/ StopHttpd \/ StopStep \/ Released \/ UNCHANGED vars
    PROVE  Settlement'
<1>1. Callback(program["decode"])
      BY DEF Settlement, Places
<1>2. CASE \E key \in BOOLEAN : VideoProcess(key)
      <2>1. /\ HandlersStay /\ playing' = playing /\ screen' = screen
            /\ program' = program
            BY <1>2 DEF VideoProcess, HandlersStay, Server!Ingest
      <2>2. uxplay.open_connections # 0
            BY <1>2, OpenIsNatural DEF VideoProcess, Streaming
      <2> QED BY <1>1, <2>1, <2>2, StaySettled
<1>3. CASE MediaFrame
      <2>1. /\ HandlersStay /\ playing' = playing /\ playing
            /\ program' = program /\ queue' = queue /\ dpc' = dpc
            BY <1>3 DEF MediaFrame, HandlersStay, Server!ItemFrame
      <2>2. uxplay.open_connections = 0 => queue = <<>> /\ dpc \in {"idle", "stopped"}
            BY DEF Settlement, Unconnected
      <2> QED BY <1>1, <2>1, <2>2, StaySettled
<1>4. CASE StopHttpd \/ StopStep \/ Released \/ UNCHANGED vars
      <2>1. /\ HandlersStay /\ (playing' => playing) /\ screen' = screen
            /\ program' = program /\ queue' = queue /\ dpc' = dpc
            BY <1>4 DEF StopHttpd, StopStep, JoinHttpd, JoinClear, StopPlayer, DestroyRaop,
               StopServer, Release, Released, Stage, vars, serverVars, HandlersStay, Server!Quit
      <2>2. uxplay.open_connections = 0 => queue = <<>> /\ dpc \in {"idle", "stopped"}
            BY DEF Settlement, Unconnected
      <2> QED BY <1>1, <2>1, <2>2, StaySettled
<1> QED BY <1>2, <1>3, <1>4

(* A reset that clears leaves nothing for Known or Coming to ask, and one   *)
(* that does not leaves everything as it was.                              *)
LEMMA ResetSettled ==
    ASSUME Settlement, Server!TypeOK, NEW r \in Resetters, ResetStep(r)
    PROVE  Settlement'
<1>1. uxplay' = uxplay /\ playing' = playing /\ program' = program
      BY DEF ResetStep
<1>2. /\ DOMAIN reset = Resetters /\ dpc' = dpc
      /\ reset[r] \in [pc : {"idle", "queue", "decoder"}, clear : BOOLEAN, flush : BOOLEAN,
                       upto : Nat]
      /\ reset[r].pc # "idle" /\ (queue' = <<>> \/ queue' = queue)
      /\ \A u \in Resetters \ {r} : reset'[u] = reset[u]
      BY DEF ResetStep, Server!ResetStep, Server!DropQueue, Server!ResetOutput, Server!TypeOK
<1>3. Places' /\ Follows'
      BY <1>1 DEF Settlement, Places, Follows
<1>4. Busy(r) /\ \A u \in Resetters : Busy(u)' => Busy(u)
      BY <1>1, <1>2 DEF Busy
<1>5. \A u \in Resetters \ {r} : (Busy(u)' <=> Busy(u)) /\ (Emptying(u)' <=> Emptying(u))
      BY <1>1, <1>2 DEF Busy, Emptying
<1>6. Unconnected'
      BY <1>1, <1>2 DEF Settlement, Unconnected
<1>7. CASE Server!DropQueue(r)
      <2>1. reset'[r].pc = "decoder" /\ reset'[r].clear = reset[r].clear /\ screen' = screen
            BY <1>2, <1>7 DEF Server!DropQueue
      <2>2. \A u \in Resetters : /\ reset'[u].pc # "idle" <=> reset[u].pc # "idle"
                                /\ reset'[u].clear = reset[u].clear
            BY <1>2, <2>1
      <2>3. \A u \in Resetters : (Busy(u)' <=> Busy(u)) /\ (Emptying(u)' <=> Emptying(u))
            <3> SUFFICES ASSUME NEW u \in Resetters
                         PROVE  (Busy(u)' <=> Busy(u)) /\ (Emptying(u)' <=> Emptying(u))
                OBVIOUS
            <3>1. Busy(u)' <=> Busy(u)
                  BY <1>1, <2>2 DEF Busy
            <3>2. Emptying(u)' <=> Emptying(u)
                  BY <1>1, <2>2 DEF Emptying
            <3> QED BY <3>1, <3>2
      <2>4. Resets'
            BY <1>1, <2>2, ThreadsApart DEF Settlement, Resets
      <2>5. Apart'
            BY <1>1, <2>2, <2>3, ThreadsApart DEF Settlement, Apart, Starting, Harmless
      <2>6. Known'
            BY <1>1, <2>1, <2>3, ThreadsApart DEF Settlement, Known
      <2>7. Coming'
            BY <1>1, <2>1, <2>3, ThreadsApart DEF Settlement, Coming
      <2> QED BY <1>3, <1>6, <2>4, <2>5, <2>6, <2>7 DEF Settlement
<1>8. CASE Server!ResetOutput(r)
      <2>1. /\ reset'[r].pc = "idle" /\ (screen' # "empty" => screen' = screen)
            /\ reset[r].clear => screen' = "empty"
            BY <1>2, <1>8 DEF Server!ResetOutput, Server!Idle
      <2>2. Resets'
            BY <1>1, <1>2, <2>1, ThreadsApart DEF Settlement, Resets
      <2>3. Apart'
            BY <1>1, <1>2, <1>4, <2>1, ThreadsApart DEF Settlement, Apart, Starting, Harmless
      <2>4. CASE reset[r].clear
            <3>1. screen' = "empty" /\ ~uxplay.media_active
                  BY <1>2, <2>1, <2>4 DEF Settlement, Resets
            <3>2. playing => Busy("clear")'
                  <4>1. playing => program["clear"] = Quitting
                        BY <3>1 DEF Settlement, Follows
                  <4>2. Quitting # <<>>
                        BY Rests DEF Quitting
                  <4> QED BY <1>1, <4>1, <4>2 DEF Busy
            <3>3. Known'
                  BY <1>1, <3>1, <3>2 DEF Known
            <3>4. Coming'
                  BY <1>1, <3>1, <3>2 DEF Coming
            <3> QED BY <1>3, <1>6, <2>2, <2>3, <3>3, <3>4 DEF Settlement
      <2>5. CASE ~reset[r].clear
            <3>1. r # "clear" /\ screen' = screen
                  BY <1>2, <1>8, <2>5 DEF Settlement, Resets, Server!ResetOutput
            <3>2. Busy("clear")' <=> Busy("clear")
                  BY <1>5, <3>1, ThreadsApart
            <3>3. \A u \in Resetters : Emptying(u) => Emptying(u)'
                  BY <1>1, <1>5, <2>5 DEF Emptying
            <3>4. Known'
                  BY <1>1, <3>1, <3>2 DEF Settlement, Known
            <3>5. Coming'
                  BY <1>1, <3>1, <3>2, <3>3, ThreadsApart DEF Settlement, Coming
            <3> QED BY <1>3, <1>6, <2>2, <2>3, <3>4, <3>5 DEF Settlement
      <2> QED BY <2>4, <2>5
<1> QED BY <1>7, <1>8 DEF ResetStep, Server!ResetStep

LEMMA SettlementInit == Init => SettledInv
<1> SUFFICES ASSUME Init PROVE Settlement
    BY DEF SettledInv
<1>1. /\ uxplay.open_connections = 0 /\ ~uxplay.media_active /\ ~uxplay.clear_pending
      /\ ~playing /\ queue = <<>> /\ dpc = "idle" /\ screen = "empty"
      BY DEF Init, Server!Init
<1>2. \A u \in Resetters : Idle(u) /\ ~Busy(u)
      BY ThreadsApart DEF Init, Server!Init, Server!Idle, Idle, Busy
<1>3. \A t \in Threads : program[t] = <<>>
      BY DEF Init
<1>4. Places
      BY <1>1, <1>3, ThreadsApart DEF Places, Request, Clearing, Callback
<1>5. Resets /\ Follows
      BY <1>1, <1>2, ThreadsApart DEF Resets, Follows, Idle
<1>6. Apart /\ Unconnected /\ Known /\ Coming
      BY <1>1, <1>3, ThreadsApart DEF Apart, Starting, Unconnected, Known, Coming
<1> QED BY <1>4, <1>5, <1>6 DEF Settlement

LEMMA SettledNext ==
    ASSUME ProgramTyped, MembersTyped, MembersTyped', StopInv, Server!TypeOK, SettledInv,
           [Next]_vars
    PROVE  SettledInv'
<1> SUFFICES ASSUME ~unsettled' PROVE Settlement'
    BY DEF SettledInv
<1>1. CASE Connect
      <2>1. ~unsettled
            BY <1>1 DEF Connect, Start
      <2> QED BY <1>1, <2>1, ConnectSettled DEF SettledInv
<1>2. CASE Disconnect
      <2>1. ~unsettled
            BY <1>2 DEF Disconnect, Start
      <2> QED BY <1>2, <2>1, DisconnectSettled DEF SettledInv
<1>3. CASE HttpCall \/ StreamCall
      <2>1. ~unsettled
            BY <1>3 DEF HttpCall, StreamCall, Call, Start
      <2> QED BY <1>3, <2>1, CallSettled DEF SettledInv
<1>4. CASE Expire
      <2>1. ~unsettled
            BY <1>4 DEF Expire
      <2> QED BY <1>4, <2>1, ExpireSettled DEF SettledInv
<1>5. ASSUME NEW t \in Threads, Step(t) PROVE Settlement'
      <2>1. ~unsettled
            BY <1>5 DEF Step
      <2>2. Settlement
            BY <2>1 DEF SettledInv
      <2>3. CASE t = "http"
            <3>1. \/ Request(program["http"], uxplay, playing)
                  \/ uxplay.open_connections = 0 /\ Closing(program["http"])
                  \/ Playing(program["http"], uxplay)
                  BY <2>2 DEF Settlement, Places
            <3> QED BY <1>5, <2>2, <2>3, <3>1, RequestSettled, ClosingSettled, PlaySettled
      <2>4. CASE t = "stream"
            <3>1. Request(program["stream"], uxplay, playing)
                  BY <2>2 DEF Settlement, Places
            <3> QED BY <1>5, <2>2, <2>4, <3>1, RequestSettled, HarmlessSettled
      <2> QED BY <1>5, <2>2, <2>3, <2>4, ClearSettled, CallbackSettled, ThreadsApart
<1>6. ASSUME NEW r \in Resetters, ResetStep(r) PROVE Settlement'
      <2>1. ~unsettled
            BY <1>6 DEF ResetStep
      <2> QED BY <1>6, <2>1, ResetSettled DEF SettledInv
<1>7. CASE DecodeStep
      <2>1. ~unsettled
            BY <1>7 DEF DecodeStep
      <2> QED BY <1>7, <2>1, DecodeSettled DEF SettledInv
<1>8. CASE \/ \E key \in BOOLEAN : VideoProcess(key)
           \/ MediaFrame \/ StopHttpd \/ StopStep \/ Released \/ UNCHANGED vars
      <2>1. ~unsettled
            BY <1>8 DEF VideoProcess, MediaFrame, StopHttpd, StopStep, JoinHttpd, JoinClear,
               StopPlayer, DestroyRaop, StopServer, Release, Released, Stage, vars
      <2> QED BY <1>8, <2>1, OutsideSettled DEF SettledInv
<1> QED BY <1>1, <1>2, <1>3, <1>4, <1>5, <1>6, <1>7, <1>8 DEF Next

LEMMA AlwaysSettled == Spec => []SettledInv
<1>1. /\ ProgramTyped /\ MembersTyped /\ StopInv /\ Server!TypeOK /\ SettledInv /\ [Next]_vars
      => SettledInv'
      BY MembersNext, SettledNext
<1> QED BY <1>1, SettlementInit, AlwaysTyped, MembersAlwaysTyped, ServerAlwaysTyped, StopInit,
           StopNext, PTL DEF Spec

(* However many connections, payloads and callbacks came before: when the  *)
(* last connection has closed and the deferred clear has run, the source   *)
(* is empty and nothing plays, unless a call came unsettled.               *)
THEOREM CleanAfterLastAlways == Spec => []CleanAfterLast
<1>1. SettledInv => CleanAfterLast
      <2> SUFFICES ASSUME SettledInv, Quiescent, uxplay.open_connections = 0, ~unsettled
                   PROVE  screen = "empty" /\ ~playing /\ ~uxplay.media_active
          BY DEF CleanAfterLast
      <2>1. Coming /\ ~uxplay.clear_pending /\ \A t \in Resetters : ~Busy(t)
            BY ThreadsApart DEF SettledInv, Settlement, Quiescent
      <2>2. ~Closing(program["http"])
            BY <2>1, ThreadsApart DEF Busy, Closing
      <2>3. \A t \in {"http", "stream"} : ~Emptying(t)
            <3> SUFFICES ASSUME NEW t \in {"http", "stream"} PROVE ~Emptying(t)
                OBVIOUS
            <3>1. program[t] = <<>> /\ reset[t].pc = "idle"
                  BY <2>1, ThreadsApart DEF Busy
            <3> QED BY <3>1, Rests DEF Emptying
      <2>4. ~Busy("clear")
            BY <2>1, ThreadsApart
      <2> QED BY <2>1, <2>2, <2>3, <2>4 DEF Coming
<1> QED BY <1>1, AlwaysSettled, PTL

(* Only a reset that clears empties the screen, and while calls come       *)
(* settled none is under way with an item active: the item's picture is    *)
(* not taken away by the mirror stream's teardown, by a reset, nor by a    *)
(* clear that an earlier item scheduled.                                   *)
THEOREM ActiveItemAlwaysStays == Spec => ActiveItemStays
<1>1. ASSUME SettledInv, [Next]_vars, uxplay.media_active, screen = "item", screen' = "empty"
      PROVE  unsettled
      <2>1. ASSUME NEW t \in Threads, Step(t) PROVE screen' = screen
            BY <2>1 DEF Step, CallReset, Server!CallReset, serverVars
      <2>2. ASSUME NEW r \in Resetters, ResetStep(r), screen' # screen
            PROVE  reset[r].pc # "idle" /\ reset[r].clear
            BY <2>2 DEF ResetStep, Server!ResetStep, Server!DropQueue, Server!ResetOutput
      <2>3. DecodeStep \/ MediaFrame => screen' # "empty" \/ screen' = screen
            BY DEF DecodeStep, MediaFrame, Server!DecodeThread, Server!Take, Server!Decode,
               Server!FrameOutput, Server!Exit, Server!ItemFrame
      <2>4. Connect \/ Disconnect \/ HttpCall \/ StreamCall \/ Expire => screen' = screen
            BY DEF Connect, Disconnect, HttpCall, StreamCall, Call, Start, Expire, serverVars
      <2>5. ASSUME \/ \E key \in BOOLEAN : VideoProcess(key)
                   \/ StopHttpd \/ StopStep \/ Released \/ UNCHANGED vars
            PROVE  screen' = screen
            BY <2>5 DEF VideoProcess, Server!Ingest, StopHttpd, StopStep, JoinHttpd, JoinClear,
               StopPlayer, DestroyRaop, StopServer, Server!Quit, Release, Released, vars,
               serverVars
      <2>6. PICK r \in Resetters : ResetStep(r)
            BY <1>1, <2>1, <2>3, <2>4, <2>5 DEF Next
      <2> QED BY <1>1, <2>2, <2>6 DEF SettledInv, Settlement, Resets
<1>2. SettledInv /\ [Next]_vars =>
        [uxplay.media_active /\ screen = "item" /\ screen' = "empty" => unsettled]_vars
      BY <1>1
<1> QED BY <1>2, AlwaysSettled, PTL DEF Spec, ActiveItemStays
=============================================================================
