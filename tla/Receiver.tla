------------------------------ MODULE Receiver ------------------------------
(***************************************************************************)
(* UxPlayIntegration (src/uxplay-integration.cpp) composed with the mirror *)
(* path of AirPlayServer (module MirrorServer): UxPlay's callbacks on its  *)
(* HTTP thread and on its stream threads, the deferred-clear thread, the   *)
(* decode thread's callback for every picture, and the OBS main thread     *)
(* that shuts all of them down (obs_module_unload in src/plugin-main.cpp). *)
(*                                                                         *)
(* A handler is the sequence of atomic steps it takes: a read or write of  *)
(* an atomic, a section under one lock, a call into the player or into     *)
(* resetDecoders().  A step that decides puts what follows in front of the *)
(* rest.  The 450 ms grace period of a clear is any delay.                 *)
(***************************************************************************)
EXTENDS Integers, Sequences

CONSTANTS
    MaxQueued,      \* kMaxQueuedVideo
    MaxArrivals,    \* bound: mirror payloads that arrive
    MaxCalls,       \* bound: callbacks UxPlay makes
    MaxConnections, \* bound: connections open at once
    HttpCalls,      \* the callbacks UxPlay's HTTP thread makes
    StreamCalls     \* the callbacks its stream threads make

Resetters == {"http", "stream", "clear"}
Threads == Resetters \cup {"decode"}

ASSUME ReceiverAssumption ==
    /\ MaxQueued \in Nat \ {0} /\ MaxArrivals \in Nat
    /\ MaxCalls \in Nat /\ MaxConnections \in Nat
    /\ HttpCalls \subseteq {"conn_init", "conn_destroy", "conn_teardown", "on_video_play",
                            "on_video_stop", "video_reset", "video_shutdown"}
    /\ StreamCalls \subseteq {"conn_reset", "video_reset", "video_shutdown", "video_set_codec"}

VARIABLES queue, waiting, quit, arrived, dpc, hand, decoder, screen, reset, ended

VARIABLES
    uxplay,   \* the members of UxPlayIntegration
    playing,  \* the media player has an item (it outputs frames)
    program,  \* per thread, the steps its current handler has left
    stage,    \* how far obs_module_unload() has got
    calls,    \* callbacks made so far
    unsettled \* ghost: a call came before what earlier ones began was over
              \* (Settled says which cases are counted)

serverVars == <<queue, waiting, quit, arrived, dpc, hand, decoder, screen, reset, ended>>
vars == <<serverVars, uxplay, playing, program, stage, calls, unsettled>>

Server == INSTANCE MirrorServer

-----------------------------------------------------------------------------
(* connectionState(), as it would be computed now. *)
ConnectionState ==
    IF uxplay.media_active THEN "video"
    ELSE IF uxplay.open_connections > 0
         THEN IF uxplay.frame_shown THEN "mirroring" ELSE "connected"
         ELSE "waiting"

(* The handlers, as sequences of steps. *)
Reset(clear, flush) == <<"reset", clear, flush>>
Notify == <<"read_state">>

ConnInit == <<Notify>>

(* Mutant: the clear is scheduled for every connection but the last. *)
ConnDestroyNotLast(last) ==
    (IF last THEN <<>> ELSE <<<<"schedule_if_shown">>>>) \o <<Notify>>

ConnDestroy(last) == (IF last THEN <<<<"schedule_if_shown">>>> ELSE <<>>) \o <<Notify>>

ConnTeardown == <<Reset(FALSE, TRUE), <<"schedule_if_mirroring">>>>

OnVideoPlay ==
    <<<<"cancel">>, <<"stop_player">>, Reset(FALSE, FALSE), <<"set_media", TRUE>>, Notify,
      <<"set_shown", TRUE>>, <<"play">>>>

OnVideoStop ==
    <<<<"stop_player">>, <<"set_media", FALSE>>, Notify, Reset(FALSE, FALSE), <<"schedule">>>>

(* A reset that ends the item (HLS shutdown, end of stream, no hold).      *)
EndItem == <<<<"stop_player">>, <<"set_media", FALSE>>, Notify, <<"cancel">>>>

(* Mutant: a reset clears the output whatever is on it. *)
VideoResetClears(ends) == (IF ends THEN EndItem ELSE <<>>) \o <<Reset(TRUE, TRUE)>>

VideoReset(ends) == (IF ends THEN EndItem ELSE <<>>) \o <<<<"reset_unless_media">>>>

ConnReset == <<<<"reset_unless_media">>>>

VideoSetCodec == <<Reset(FALSE, TRUE)>>

OnMirrorFrameOutput == <<<<"exchange_shown">>, <<"cancel_if_pending">>>>

DeferredClear == <<<<"set_shown", FALSE>>, <<"clear_by_connections">>>>

(* What the handlers of thread t are made of: the decode thread resets     *)
(* nothing, and only UxPlay's HTTP thread starts an item.                  *)
States == {"waiting", "connected", "mirroring", "video"}

PlainSteps ==
    {<<name>> : name \in {"cancel", "schedule", "stop_player", "read_state",
        "schedule_if_shown", "schedule_if_mirroring", "exchange_shown", "exchange_media",
        "cancel_if_pending"}}
    \cup {<<name, value>> : name \in {"set_media", "set_shown"}, value \in BOOLEAN}
    \cup {<<"store_state", state>> : state \in States}

ResettingSteps ==
    {Reset(clear, flush) : clear, flush \in BOOLEAN}
    \cup {<<"reset_unless_media">>, <<"clear_by_connections">>}

StepsOf(t) ==
    PlainSteps
    \cup (IF t = "decode" THEN {} ELSE ResettingSteps)
    \cup (IF t = "http" THEN {<<"play">>} ELSE {})

-----------------------------------------------------------------------------
(* The steps.  A thread inside resetDecoders() takes no step of its own.   *)
Busy(t) == program[t] # <<>> \/ (t \in Resetters /\ reset[t].pc # "idle")

Then(t, steps) == program' = [program EXCEPT ![t] = steps \o Tail(program[t])]

Set(field, value) == uxplay' = [uxplay EXCEPT ![field] = value]

(* Members only. *)
MemberStep(t, op) ==
    \/ op[1] = "cancel" /\ Set("clear_pending", FALSE) /\ Then(t, <<>>)
    \/ op[1] = "schedule" /\ Set("clear_pending", TRUE) /\ Then(t, <<>>)
    \/ op[1] = "set_media" /\ Set("media_active", op[2]) /\ Then(t, <<>>)
    \/ op[1] = "set_shown" /\ Set("frame_shown", op[2]) /\ Then(t, <<>>)
    \/ /\ op[1] = "exchange_shown" /\ Set("frame_shown", TRUE)
       /\ Then(t, IF uxplay.frame_shown THEN <<>> ELSE <<Notify>>)
    \/ /\ op[1] = "exchange_media" /\ Set("media_active", FALSE)
       /\ Then(t, IF uxplay.media_active THEN <<<<"stop_player">>>> ELSE <<>>)
    \/ op[1] = "store_state" /\ Set("last_state", op[2]) /\ Then(t, <<>>)

(* Reads that decide what follows. *)
ReadStep(t, op) ==
    /\ \/ op[1] = "read_state" /\ Then(t, <<<<"store_state", ConnectionState>>>>)
       \/ /\ op[1] = "schedule_if_shown"
          /\ Then(t, IF uxplay.frame_shown THEN <<<<"schedule">>>> ELSE <<>>)
       \/ /\ op[1] = "schedule_if_mirroring"
          /\ Then(t, IF ~uxplay.media_active /\ uxplay.frame_shown
                     THEN <<<<"schedule">>>> ELSE <<>>)
       \/ /\ op[1] = "cancel_if_pending"
          /\ Then(t, IF uxplay.clear_pending THEN <<<<"cancel">>>> ELSE <<>>)
       \/ op[1] = "reset_unless_media" /\ Then(t, <<Reset(~uxplay.media_active, TRUE)>>)
       \/ /\ op[1] = "clear_by_connections"
          /\ Then(t, IF uxplay.open_connections <= 0
                     THEN <<<<"exchange_media">>, Notify, Reset(TRUE, TRUE)>>
                     ELSE <<Reset(TRUE, FALSE)>>)
    /\ UNCHANGED uxplay

(* MediaPlayer::stop() returns once the worker and presenter have ended.   *)
PlayerStep(t, op) ==
    /\ \/ op[1] = "stop_player" /\ playing' = FALSE
       \/ op[1] = "play" /\ playing' = TRUE
    /\ Then(t, <<>>)
    /\ UNCHANGED uxplay

CallReset(t, op) ==
    /\ op[1] = "reset"
    /\ Server!CallReset(t, op[2], op[3])
    /\ Then(t, <<>>)
    /\ UNCHANGED <<uxplay, playing>>

Step(t) ==
    /\ program[t] # <<>>
    /\ t \in Resetters => reset[t].pc = "idle"
    /\ LET op == Head(program[t])
       IN  \/ (MemberStep(t, op) \/ ReadStep(t, op)) /\ UNCHANGED <<serverVars, playing>>
           \/ PlayerStep(t, op) /\ UNCHANGED serverVars
           \/ CallReset(t, op)
    /\ UNCHANGED <<stage, calls, unsettled>>

ResetStep(t) ==
    /\ Server!ResetStep(t)
    /\ UNCHANGED <<uxplay, playing, program, stage, calls, unsettled>>

-----------------------------------------------------------------------------
(* UxPlay calls.  A connection has to be open for a request or a stream;   *)
(* httpd closes the open ones while it stops.                              *)
LastCloses(name) == name = "conn_destroy" /\ uxplay.open_connections <= 1

Handler(name) ==
    CASE name = "conn_init"       -> ConnInit
      [] name = "conn_destroy"    -> ConnDestroy(LastCloses(name))
      [] name = "conn_teardown"   -> ConnTeardown
      [] name = "on_video_play"   -> OnVideoPlay
      [] name = "on_video_stop"   -> OnVideoStop
      [] name = "video_reset"     -> VideoReset(FALSE)
      [] name = "video_shutdown"  -> VideoReset(TRUE)
      [] name = "conn_reset"      -> ConnReset
      [] name = "video_set_codec" -> VideoSetCodec

(* on_video_play is under way: its last step starts the player. *)
Starting ==
    program["http"] # <<>> /\ program["http"][Len(program["http"])] = <<"play">>

(* An item starts while no stream handler and no clear runs, and none      *)
(* begins until it has started (a codec announcement resets no output); no *)
(* mirror payload is in the server when the last connection closes; and no *)
(* device connects between that and the end of the clear it scheduled.     *)
Settled(t, name) ==
    /\ name = "on_video_play" => ~Busy("stream") /\ ~Busy("clear")
    /\ t = "stream" /\ name # "video_set_codec" => ~Starting
    /\ LastCloses(name) => queue = <<>> /\ dpc = "idle"
    /\ name = "conn_init" /\ uxplay.open_connections = 0 =>
          ~uxplay.clear_pending /\ ~Busy("clear")

Start(t, name) ==
    /\ ~Busy(t)
    /\ program' = [program EXCEPT ![t] = Handler(name)]
    /\ unsettled' = (unsettled \/ ~Settled(t, name))
    /\ UNCHANGED <<serverVars, playing, stage>>

Connect ==
    /\ "conn_init" \in HttpCalls
    /\ stage = "up" /\ uxplay.open_connections < MaxConnections
    /\ calls < MaxCalls /\ calls' = calls + 1
    /\ Start("http", "conn_init")
    /\ Set("open_connections", uxplay.open_connections + 1)

Disconnect ==
    /\ stage \in {"up", "stopping"} /\ uxplay.open_connections > 0
    /\ Start("http", "conn_destroy")
    /\ Set("open_connections", uxplay.open_connections - 1)
    /\ UNCHANGED calls

Streaming == uxplay.open_connections > 0 /\ stage \notin {"raop_destroyed", "server_stopping", "released"}

Call(t, name) ==
    /\ calls < MaxCalls /\ calls' = calls + 1
    /\ uxplay.open_connections > 0
    /\ Start(t, name)
    /\ UNCHANGED uxplay

HttpCall == \E name \in HttpCalls \ {"conn_init", "conn_destroy"} :
    stage = "up" /\ Call("http", name)

StreamCall == \E name \in StreamCalls : Streaming /\ Call("stream", name)

(* A mirror payload, on the stream's thread. *)
VideoProcess(key) ==
    /\ Streaming /\ ~Busy("stream")
    /\ Server!Ingest(key)
    /\ UNCHANGED <<uxplay, playing, program, stage, calls, unsettled>>

-----------------------------------------------------------------------------
(* Mutant: a clear waits for the item that plays. *)
ExpireAfterItem ==
    /\ uxplay.clear_pending /\ ~Busy("clear") /\ stage \in {"up", "stopping"}
    /\ ~uxplay.media_active
    /\ Set("clear_pending", FALSE)
    /\ program' = [program EXCEPT !["clear"] = DeferredClear]
    /\ unsettled' = (unsettled \/ Starting)
    /\ UNCHANGED <<serverVars, playing, stage, calls>>

(* deferredClearLoop(): the deadline of a pending clear has passed.  (One   *)
(* that passes after the HTTP thread is joined and before the loop is told  *)
(* to exit is one that passed just before the join: they commute.)          *)
Expire ==
    /\ uxplay.clear_pending /\ ~Busy("clear") /\ stage \in {"up", "stopping"}
    /\ Set("clear_pending", FALSE)
    /\ program' = [program EXCEPT !["clear"] = DeferredClear]
    /\ unsettled' = (unsettled \/ Starting)
    /\ UNCHANGED <<serverVars, playing, stage, calls>>

(* The decode thread.  The callback for a picture goes to the integration  *)
(* through an atomic load: no lock that a stopping main thread holds.      *)
DecodeStep ==
    /\ program["decode"] = <<>>
    /\ Server!DecodeThread
    /\ program' = IF dpc = "taken" /\ dpc' = "output"
                  THEN [program EXCEPT !["decode"] = OnMirrorFrameOutput] ELSE program
    /\ UNCHANGED <<uxplay, playing, stage, calls, unsettled>>

(* Mutant: an item's frame flushes the mirror decoder. *)
MediaFrameFlushes ==
    /\ playing
    /\ screen' = "item" /\ decoder' = Server!Flushed
    /\ UNCHANGED <<queue, waiting, quit, arrived, dpc, hand, reset, ended,
                   uxplay, playing, program, stage, calls, unsettled>>

(* outputMediaVideoFrame(): the player's presenter shows a frame. *)
MediaFrame ==
    /\ playing
    /\ Server!ItemFrame
    /\ UNCHANGED <<uxplay, playing, program, stage, calls, unsettled>>

-----------------------------------------------------------------------------
(* obs_module_unload() on the main thread: UxPlayIntegration::stop(), then *)
(* AirPlayServer::stop(), then both are released.                          *)
Stage(from, to) == stage = from /\ stage' = to /\ UNCHANGED <<uxplay, program, calls, unsettled>>

StopHttpd == Stage("up", "stopping") /\ UNCHANGED <<serverVars, playing>>

(* Mutant: the HTTP thread is not waited for. *)
JoinHttpdAtOnce == Stage("stopping", "httpd_joined") /\ UNCHANGED <<serverVars, playing>>

JoinHttpd ==
    /\ Stage("stopping", "httpd_joined") /\ ~Busy("http")
    /\ UNCHANGED <<serverVars, playing>>

(* Mutant: the clear thread is left to finish a clear that is scheduled. *)
JoinClearWhenCleared ==
    /\ Stage("httpd_joined", "clear_joined") /\ ~Busy("clear") /\ ~uxplay.clear_pending
    /\ UNCHANGED <<serverVars, playing>>

JoinClear ==
    /\ Stage("httpd_joined", "clear_joined") /\ ~Busy("clear")
    /\ UNCHANGED <<serverVars, playing>>

StopPlayer ==
    /\ Stage("clear_joined", "player_stopped") /\ playing' = FALSE
    /\ UNCHANGED serverVars

DestroyRaop ==
    /\ Stage("player_stopped", "raop_destroyed") /\ ~Busy("stream")
    /\ UNCHANGED <<serverVars, playing>>

StopServer == Stage("raop_destroyed", "server_stopping") /\ Server!Quit /\ UNCHANGED playing

Release ==
    /\ Stage("server_stopping", "released") /\ dpc = "stopped"
    /\ UNCHANGED <<serverVars, playing>>

(* What stop() does once it has been called. *)
StopStep == JoinHttpd \/ JoinClear \/ StopPlayer \/ DestroyRaop \/ StopServer \/ Release

Released == stage = "released" /\ UNCHANGED vars

-----------------------------------------------------------------------------
Init ==
    /\ Server!Init
    /\ uxplay = [open_connections |-> 0, media_active |-> FALSE, frame_shown |-> FALSE,
                 clear_pending |-> FALSE, last_state |-> ""]
    /\ playing = FALSE
    /\ program = [t \in Threads |-> <<>>]
    /\ stage = "up" /\ calls = 0 /\ unsettled = FALSE

Next ==
    \/ Connect \/ Disconnect \/ HttpCall \/ StreamCall
    \/ \E key \in BOOLEAN : VideoProcess(key)
    \/ \E t \in Threads : Step(t)
    \/ \E t \in Resetters : ResetStep(t)
    \/ Expire \/ DecodeStep \/ MediaFrame
    \/ StopHttpd \/ StopStep \/ Released

Spec == Init /\ [][Next]_vars

(* Threads inside a handler go on, and so does a stop that has begun; what *)
(* UxPlay calls, what arrives and whether OBS unloads is open.             *)
Fairness ==
    /\ \A t \in Threads : WF_vars(Step(t))
    /\ \A t \in Resetters : WF_vars(ResetStep(t))
    /\ WF_vars(Expire) /\ WF_vars(DecodeStep) /\ WF_vars(StopStep)

FairSpec == Spec /\ Fairness

-----------------------------------------------------------------------------
TypeOK ==
    /\ Server!TypeOK
    /\ uxplay \in [open_connections : 0..MaxConnections, media_active : BOOLEAN,
                   frame_shown : BOOLEAN, clear_pending : BOOLEAN,
                   last_state : States \cup {""}]
    /\ playing \in BOOLEAN /\ unsettled \in BOOLEAN
    /\ DOMAIN program = Threads
    /\ \A t \in Threads : program[t] \in Seq(StepsOf(t))
    /\ calls \in 0..MaxCalls
    /\ stage \in {"up", "stopping", "httpd_joined", "clear_joined", "player_stopped",
                  "raop_destroyed", "server_stopping", "released"}

(* Nothing is going on and nothing is scheduled. *)
Quiescent ==
    /\ \A t \in Threads : ~Busy(t)
    /\ queue = <<>> /\ dpc = "idle" /\ ~uxplay.clear_pending /\ stage = "up"

(* The order of stop(): once it has stopped the player nobody starts it    *)
(* again, and when plugin globals are released no thread can still run a   *)
(* callback into them.                                                     *)
StopOrder ==
    /\ stage \in {"player_stopped", "raop_destroyed", "server_stopping", "released"} => ~playing
    /\ stage = "released" => dpc = "stopped" /\ \A t \in Threads : ~Busy(t)

(* While an AirPlay video item is active, its picture is never taken away  *)
(* by a clear, not by the mirror stream's teardown or reset nor by a clear *)
(* an earlier item scheduled, unless a call came unsettled.                *)
ActiveItemStays ==
    [][uxplay.media_active /\ screen = "item" /\ screen' = "empty" => unsettled]_vars

(* When the last connection has closed and the grace period is over, the   *)
(* source is empty and nothing plays, provided every call came settled.    *)
CleanAfterLast ==
    Quiescent /\ uxplay.open_connections = 0 /\ ~unsettled
        => screen = "empty" /\ ~playing /\ ~uxplay.media_active

(* The integration uses the server as module MirrorServer describes it, so *)
(* that what holds of every behaviour of MirrorServer holds here.          *)
ServerUsed == Server!Spec

(* A clear that was scheduled is done or cancelled. *)
ClearResolves == uxplay.clear_pending ~> (~uxplay.clear_pending \/ stage # "up")

(* obs_module_unload() returns: no join waits for a thread that waits for  *)
(* it, whatever handlers and payloads are in flight.                       *)
StopCompletes == stage = "stopping" ~> stage = "released"

-----------------------------------------------------------------------------
(* What comments in the source say, and the code does not always do.       *)

(* The deferred clear: "AirPlay video or the last connection ended: the    *)
(* frame it left behind must not stay on screen".                          *)
NoFrameLeftBehind ==
    Quiescent /\ uxplay.open_connections = 0 => screen # "mirror"
=============================================================================
