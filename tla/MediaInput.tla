------------------------------ MODULE MediaInput ------------------------------
(***************************************************************************)
(* ResilientHttpIo (src/media-player.cpp): the byte-exact input of an      *)
(* AirPlay video, on top of media_fetch::Session::open (src/media-fetch.cpp), *)
(* which follows redirects.  The demuxer's AVIOContext calls read() and    *)
(* seek(); a response may end early, and a request may fail, be redirected *)
(* or be refused by the URL policy.                                        *)
(*                                                                         *)
(* A byte stands for a piece of the file.  Which URL is asked, the names   *)
(* looked up and the reason of a refusal are left out: each request of a   *)
(* hop has one of the outcomes its caller tells apart.                     *)
(***************************************************************************)
EXTENDS Integers

CONSTANTS
    Size,         \* the length of the file, which the server reports
    ForwardSkip,  \* kForwardSkipBytes
    MaxAttempts,  \* kMaxAttempts
    MaxRedirects  \* kMaxRedirects

ASSUME InputAssumption ==
    /\ Size \in Nat \ {0} /\ ForwardSkip \in Nat
    /\ MaxAttempts \in Nat \ {0} /\ MaxRedirects \in Nat

VARIABLES
    input,        \* what open() came to: "new", "used", "refused", "unused"
    inner,        \* m_inner: the next byte of the response, NoResponse without one
    position,     \* m_position
    call,         \* the call in progress
    stands,       \* the byte the demuxer's AVIOContext reads next
    told,         \* what the last call returned to it
    interrupted,  \* m_interrupt: the item is being stopped
    late,         \* ghost: requests begun since the stop, 2 for more
    lost          \* ghost: a seek that failed has moved the input off the demuxer

vars == <<input, inner, position, call, stands, told, interrupted, late, lost>>

NoResponse == -1
Places == 0..(Size + 1)
Smaller(a, b) == IF a < b THEN a ELSE b

(* A call: the loop it is in, and, for a reopen(), the hop it has reached. *)
Begin(kind, pc, target) ==
    [kind |-> kind, pc |-> pc, target |-> target, attempt |-> 0, hop |-> 0]

Idle == Begin("none", "idle", 0)

Init ==
    /\ input = "new" /\ inner = NoResponse /\ position = 0
    /\ call = Idle /\ stands = 0 /\ told = "nothing"
    /\ interrupted = FALSE /\ late = 0 /\ lost = FALSE

-----------------------------------------------------------------------------
demuxer == <<stands, told, lost>>

Moved == lost \/ (call.kind \in {"seek", "skip"} /\ position # stands)

(* A call that fails: AVIOContext stands where it stood. *)
Fail == call' = Idle /\ told' = "error" /\ lost' = Moved /\ UNCHANGED stands

(* A seek that succeeds. *)
Land(target) == call' = Idle /\ told' = "place" /\ stands' = target /\ lost' = FALSE

(* Mutant: the skip is taken to have arrived. *)
AfterSkipLands ==
    /\ call.pc = "skipped" /\ Land(call.target)
    /\ UNCHANGED <<input, inner, position, interrupted, late>>

(* seek() after its short skip forward, and the loop of requests it ends   *)
(* in unless it goes to the end of the file, which needs no request.       *)
AfterSkip ==
    /\ call.pc = "skipped"
    /\ \/ /\ call.kind = "skip" /\ position = call.target /\ Land(call.target)
          /\ UNCHANGED <<inner, position>>
       \/ /\ call.kind = "seek" \/ position # call.target
          /\ call.target >= Size
          /\ inner' = NoResponse /\ position' = call.target /\ Land(call.target)
       \/ /\ call.kind = "seek" \/ position # call.target
          /\ call.target < Size
          /\ call' = Begin("seek", "attempt", call.target)
          /\ UNCHANGED <<inner, position, demuxer>>
    /\ UNCHANGED <<input, interrupted, late>>

-----------------------------------------------------------------------------
(* The demuxer's calls, one at a time, once the layer is in use. *)
Open ==
    /\ input = "new" /\ call = Idle
    /\ call' = Begin("open", "request", 0)
    /\ UNCHANGED <<input, inner, position, demuxer, interrupted, late>>

(* read() reports the end only at the known size. *)
ReadEnd ==
    /\ input = "used" /\ call = Idle /\ position >= Size
    /\ told' = "end"
    /\ UNCHANGED <<input, inner, position, call, stands, interrupted, late, lost>>

Read ==
    /\ input = "used" /\ call = Idle /\ position < Size
    /\ call' = Begin("read", "attempt", position)
    /\ UNCHANGED <<input, inner, position, demuxer, interrupted, late>>

Seek(target) ==
    /\ input = "used" /\ call = Idle
    /\ IF inner # NoResponse /\ target = position
       THEN Land(target)
       ELSE /\ IF inner # NoResponse /\ target > position /\ target - position <= ForwardSkip
               THEN call' = Begin("skip", IF position < Size THEN "attempt" ELSE "skipped", target)
               ELSE call' = Begin("seek", "skipped", target)
            /\ UNCHANGED demuxer
    /\ UNCHANGED <<input, inner, position, interrupted, late>>

(* The item is stopped: from now on its interrupt callback says so. *)
Interrupt ==
    /\ ~interrupted /\ interrupted' = TRUE
    /\ UNCHANGED <<input, inner, position, call, demuxer, late>>

-----------------------------------------------------------------------------
(* The loops of read() and seek(). *)
Reading == call.kind \in {"read", "skip"}

(* A read that is part of a seek goes back to it. *)
GiveUp == IF call.kind = "skip"
          THEN call' = [call EXCEPT !.pc = "skipped"] /\ UNCHANGED demuxer
          ELSE Fail

(* Mutant: a stop does not end the loop. *)
NeverStopped == FALSE

StopSeen == interrupted

NextAttempt ==
    IF call.attempt + 1 < MaxAttempts
    THEN call' = [call EXCEPT !.pc = "attempt", !.attempt = @ + 1, !.hop = 0]
         /\ UNCHANGED demuxer
    ELSE GiveUp

Attempt ==
    /\ call.pc = "attempt"
    /\ IF StopSeen THEN GiveUp
       ELSE /\ call' = [call EXCEPT !.pc = IF Reading /\ inner # NoResponse
                                           THEN "receive" ELSE "request"]
            /\ UNCHANGED demuxer
    /\ UNCHANGED <<input, inner, position, interrupted, late>>

(* Some of the bytes asked for arrive: the demuxer's, or those it skips.   *)
Received(most) == \E got \in 1..most : inner' = inner + got /\ position' = position + got

Deliver ==
    /\ call.pc = "receive" /\ call.kind = "read" /\ Received(Size - inner)
    /\ call' = Idle /\ told' = "bytes" /\ stands' = stands + (position' - position)
    /\ UNCHANGED <<input, interrupted, late, lost>>

Skip ==
    /\ call.pc = "receive" /\ call.kind = "skip"
    /\ Received(Smaller(Size, call.target) - inner)
    /\ call' = Begin("skip", IF position' < call.target /\ position' < Size
                             THEN "attempt" ELSE "skipped", call.target)
    /\ UNCHANGED <<input, demuxer, interrupted, late>>

(* The response ended or failed short of the size: a new one is requested. *)
Ended ==
    /\ call.pc = "receive"
    /\ call' = [call EXCEPT !.pc = "request"]
    /\ UNCHANGED <<input, inner, position, demuxer, interrupted, late>>

-----------------------------------------------------------------------------
(* reopen(): closes the response and requests one from an offset. *)
Offset == IF call.kind = "seek" THEN call.target ELSE position

Asked == late' = IF interrupted THEN Smaller(2, late + 1) ELSE late

Request ==
    /\ call.pc = "request"
    /\ inner' = NoResponse /\ call' = [call EXCEPT !.pc = "hop"]
    /\ Asked
    /\ UNCHANGED <<input, position, demuxer, interrupted>>

(* Session::open(): the policy accepted the hop and its server answers.    *)
Answered ==
    /\ call.pc = "hop" /\ inner' = Offset /\ position' = Offset

Opened ==
    /\ Answered
    /\ \/ call.kind = "open" /\ input' \in {"used", "unused"} /\ call' = Idle
          /\ UNCHANGED demuxer
       \/ call.kind = "seek" /\ Land(call.target) /\ UNCHANGED input
       \/ Reading /\ NextAttempt /\ UNCHANGED input
    /\ UNCHANGED <<interrupted, late>>

(* The failure of a request that a redirect has: its location is asked for *)
(* by hand, unless the item is stopped or MaxRedirects were followed.      *)
Probe ==
    /\ call.pc = "hop" /\ ~interrupted /\ call.hop < MaxRedirects
    /\ call' = [call EXCEPT !.pc = "probe"]
    /\ UNCHANGED <<input, inner, position, demuxer, interrupted, late>>

(* Mutant: each redirect starts the count again. *)
FollowUncounted ==
    /\ call.pc = "probe" /\ Asked
    /\ call' = [call EXCEPT !.pc = "hop", !.hop = 0]
    /\ UNCHANGED <<input, inner, position, demuxer, interrupted>>

Follow ==
    /\ call.pc = "probe" /\ Asked
    /\ call' = [call EXCEPT !.pc = "hop", !.hop = @ + 1]
    /\ UNCHANGED <<input, inner, position, demuxer, interrupted>>

Refused ==
    /\ call.pc = "hop"
    /\ IF call.kind = "open" THEN input' = "refused" /\ call' = Idle /\ UNCHANGED demuxer
       ELSE UNCHANGED input /\ GiveUp
    /\ UNCHANGED <<inner, position, interrupted, late>>

(* Any other failure: a wait, which a stop ends, and the next attempt.     *)
Failed ==
    /\ call.pc \in {"hop", "probe"}
    /\ IF call.kind = "open" THEN input' = "unused" /\ call' = Idle /\ UNCHANGED demuxer
       ELSE /\ UNCHANGED input
            /\ call' = [call EXCEPT !.pc = "back_off"] /\ UNCHANGED demuxer
    /\ UNCHANGED <<inner, position, interrupted, late>>

BackOff ==
    /\ call.pc = "back_off"
    /\ IF StopSeen THEN GiveUp ELSE NextAttempt
    /\ UNCHANGED <<input, inner, position, interrupted, late>>

-----------------------------------------------------------------------------
Fetch == Request \/ Opened \/ Probe \/ Follow \/ Refused \/ Failed \/ BackOff
Work == Attempt \/ Deliver \/ Skip \/ Ended \/ AfterSkip \/ Fetch

Next ==
    \/ Open \/ Read \/ ReadEnd \/ Interrupt \/ Work
    \/ \E target \in Places : Seek(target)

Spec == Init /\ [][Next]_vars

(* Requests end: with an answer, or by the time-outs the code gives them.  *)
FairSpec == Spec /\ WF_vars(Work)

-----------------------------------------------------------------------------
TypeOK ==
    /\ input \in {"new", "used", "unused", "refused"}
    /\ inner \in 0..Size \cup {NoResponse} /\ position \in Places /\ stands \in Places
    /\ call \in [kind : {"none", "open", "read", "seek", "skip"},
                 pc : {"idle", "attempt", "receive", "skipped", "request", "hop", "probe",
                       "back_off"},
                 target : Places, attempt : 0..(MaxAttempts - 1), hop : 0..MaxRedirects]
    /\ told \in {"nothing", "bytes", "place", "end", "error"}
    /\ interrupted \in BOOLEAN /\ lost \in BOOLEAN /\ late \in 0..2

(* The response that is open always goes on at the tracked position,       *)
(* through every early end, skip, seek and failed request ("tracks the     *)
(* exact byte position").                                                  *)
Aligned == inner # NoResponse => inner = position

(* The demuxer gets the bytes at the place it reads from ("only ever sees  *)
(* complete data"), unless a seek failed after it had skipped some: the    *)
(* input has moved on then, and AVIOContext, told of a failure, has not.   *)
Exact == [][Deliver => inner = stands \/ lost]_vars

(* The end is reported at the size the server named, never where a         *)
(* response happened to end.                                               *)
EndIsEnd == told = "end" => stands >= Size \/ lost

(* Once the item is stopped at most one more request is begun, wherever    *)
(* the stop fell in the nested loops of attempts, skips and redirects.     *)
StopsAsking == late <= 1

(* Every read and seek returns, whatever the servers answer: redirects and *)
(* attempts are bounded together.                                          *)
CallReturns == call # Idle ~> call = Idle
================================================================================
