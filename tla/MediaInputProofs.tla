--------------------------- MODULE MediaInputProofs ---------------------------
(***************************************************************************)
(* What the resilient input of an AirPlay video keeps, for every size of   *)
(* file and every limit on skips, attempts and redirects.                  *)
(***************************************************************************)
EXTENDS MediaInput, TLAPS

Kinds == {"none", "open", "read", "seek", "skip"}
Stages == {"idle", "attempt", "receive", "skipped", "request", "hop", "probe", "back_off"}

Calls ==
    [kind : Kinds, pc : Stages, target : Places, attempt : 0..(MaxAttempts - 1),
     hop : 0..MaxRedirects]

(* The types, apart from those of the flags. *)
Fields ==
    /\ input \in {"new", "used", "unused", "refused"}
    /\ inner \in 0..Size \cup {NoResponse} /\ position \in Places /\ stands \in Places
    /\ call \in Calls
    /\ told \in {"nothing", "bytes", "place", "end", "error"}
    /\ late \in 0..2

Flags == interrupted \in BOOLEAN /\ lost \in BOOLEAN

(* Where each loop can be: which call it belongs to, and when a response   *)
(* is open.                                                                *)
Control ==
    /\ call.pc = "idle" <=> call.kind = "none"
    /\ call.kind = "open" => call.pc \in {"request", "hop", "probe"}
    /\ call.kind = "open" <=> input = "new" /\ call.kind # "none"
    /\ call.kind = "read" => call.pc # "skipped"
    /\ call.kind = "seek" => call.pc # "receive"
    /\ call.pc = "probe" => call.hop < MaxRedirects
    /\ call.pc = "receive" => inner # NoResponse
    /\ call.pc \in {"hop", "probe"} => inner = NoResponse

(* Only bytes of the file are asked for.                                    *)
InFile ==
    /\ call.kind = "none" \/ call.pc = "skipped" \/ Offset < Size
    /\ input = "new" => position = 0

(* The input is where the demuxer stands, or a skip has taken it ahead.    *)
Place ==
    /\ stands <= position
    /\ lost \/ call.kind \in {"seek", "skip"} \/ position = stands

(* A request begun after the stop is the last: the places from which       *)
(* another one would follow are reached only by a look at the stop.        *)
LastRequest ==
    /\ late # 0 => interrupted /\ call.pc \notin {"request", "probe", "receive"}
    /\ late # 0 /\ input = "new" => call.kind = "open"
    /\ late <= 1

Sound == Aligned /\ Control /\ InFile /\ Place /\ LastRequest /\ EndIsEnd

IInv == Fields /\ Sound

-----------------------------------------------------------------------------
LEMMA InitHolds == Init => IInv /\ Flags
<1> SUFFICES ASSUME Init PROVE IInv /\ Flags
  OBVIOUS
<1>1. Fields
  BY InputAssumption DEF Init, Fields, Idle, Begin, Places, Calls, Kinds, Stages
<1>2. Sound
  BY InputAssumption
  DEF Init, Sound, Aligned, Control, InFile, Offset, Place, LastRequest, EndIsEnd, Idle,
      Begin, NoResponse
<1>3. Flags
  BY DEF Init, Flags
<1> QED BY <1>1, <1>2, <1>3 DEF IInv

USE InputAssumption DEF Places, NoResponse

-----------------------------------------------------------------------------
(* The fields of the calls that the actions build.                         *)
LEMMA BegunCall ==
  ASSUME NEW k \in Kinds, NEW p \in Stages, NEW t \in Places
  PROVE  /\ Begin(k, p, t) \in Calls /\ Begin(k, p, t).kind = k /\ Begin(k, p, t).pc = p
         /\ Begin(k, p, t).target = t
<1>1. 0 \in 0..(MaxAttempts - 1) /\ 0 \in 0..MaxRedirects
  OBVIOUS
<1> QED BY <1>1 DEF Begin, Calls

LEMMA IdleCall == Idle \in Calls /\ Idle.kind = "none" /\ Idle.pc = "idle"
  BY BegunCall DEF Idle, Kinds, Stages

(* A call that is to go on elsewhere, and one that ends in a failure.      *)
GoesTo(pc) == /\ call'.pc = pc /\ call'.kind = call.kind /\ call'.target = call.target
              /\ UNCHANGED demuxer

LEMMA StepsTo ==
  ASSUME call \in Calls, NEW p \in Stages, call' = [call EXCEPT !.pc = p], UNCHANGED demuxer
  PROVE  call' \in Calls /\ GoesTo(p) /\ call'.hop = call.hop
  BY DEF Calls, GoesTo

Ends == call' = Idle /\ told' = "error" /\ (lost' <=> Moved) /\ stands' = stands

LEMMA GivesUp ==
  ASSUME IInv, GiveUp
  PROVE  call' \in Calls /\ (Ends \/ (call.kind = "skip" /\ GoesTo("skipped")))
<1> USE DEF IInv, Fields, GiveUp, Ends
<1>1. CASE call.kind = "skip"
  <2>1. call' = [call EXCEPT !.pc = "skipped"] /\ UNCHANGED demuxer
    BY <1>1
  <2> QED BY <1>1, <2>1, StepsTo DEF Stages
<1>2. CASE call.kind # "skip"
  BY <1>2, IdleCall DEF Fail
<1> QED BY <1>1, <1>2

LEMMA TriesAgain ==
  ASSUME IInv, NextAttempt
  PROVE  /\ call' \in Calls
         /\ Ends \/ (call.kind = "skip" /\ GoesTo("skipped")) \/ GoesTo("attempt")
<1>1. CASE call.attempt + 1 < MaxAttempts
  <2>1. call' = [call EXCEPT !.pc = "attempt", !.attempt = call.attempt + 1, !.hop = 0]
        /\ UNCHANGED demuxer
    BY <1>1 DEF NextAttempt
  <2>2. "attempt" \in Stages /\ 0 \in 0..MaxRedirects
        /\ call.attempt + 1 \in 0..(MaxAttempts - 1) /\ call \in Calls
    BY <1>1 DEF IInv, Fields, Calls, Stages
  <2> QED BY <2>1, <2>2 DEF GoesTo, Calls
<1>2. CASE ~(call.attempt + 1 < MaxAttempts)
  BY <1>2, GivesUp DEF NextAttempt
<1> QED BY <1>1, <1>2

LEMMA CallsHold ==
  ASSUME IInv, Open \/ Read \/ ReadEnd \/ Interrupt \/ \E target \in Places : Seek(target)
  PROVE  IInv'
<1> USE DEF IInv, demuxer
<1>0. /\ call.kind \in Kinds /\ call.pc \in Stages /\ call.target \in Places
      /\ call.hop \in 0..MaxRedirects /\ call.attempt \in 0..(MaxAttempts - 1)
  BY DEF Fields, Calls
<1>1. CASE Open
  <2>1. call' \in Calls /\ call'.kind = "open" /\ call'.pc = "request"
    BY <1>1, BegunCall DEF Open, Kinds, Stages
  <2>2. Fields'
    BY <1>0, <1>1, <2>1 DEF Open, Fields, Sound, Aligned, Control, InFile, Offset, Place
  <2>3. Sound'
    BY <1>0, <1>1, <2>1, IdleCall
    DEF Open, Fields, Sound, Aligned, Control, InFile, Offset, Place, LastRequest, EndIsEnd
  <2> QED BY <2>2, <2>3
<1>2. CASE Read
  <2>1. call' \in Calls /\ call'.kind = "read" /\ call'.pc = "attempt"
    BY <1>2, BegunCall DEF Read, Kinds, Stages, Fields
  <2>2. Fields'
    BY <1>0, <1>2, <2>1 DEF Read, Fields, Sound, Aligned, Control, InFile, Offset, Place
  <2>3. Sound'
    BY <1>0, <1>2, <2>1, IdleCall
    DEF Read, Fields, Sound, Aligned, Control, InFile, Offset, Place, LastRequest, EndIsEnd
  <2> QED BY <2>2, <2>3
<1>3. CASE ReadEnd
  <2>1. UNCHANGED call
    BY <1>3 DEF ReadEnd
  <2>2. Fields'
    BY <1>0, <1>3, <2>1 DEF ReadEnd, Fields, Sound, Aligned, Control, InFile, Offset, Place
  <2>3. Sound'
    BY <1>0, <1>3, <2>1, IdleCall
    DEF ReadEnd, Fields, Sound, Aligned, Control, InFile, Offset, Place, LastRequest,
        EndIsEnd
  <2> QED BY <2>2, <2>3
<1>4. CASE Interrupt
  <2>1. UNCHANGED call
    BY <1>4 DEF Interrupt
  <2>2. Fields'
    BY <1>0, <1>4, <2>1 DEF Interrupt, Fields, Sound, Aligned, Control, InFile, Offset,
        Place
  <2>3. Sound'
    BY <1>0, <1>4, <2>1, IdleCall
    DEF Interrupt, Fields, Sound, Aligned, Control, InFile, Offset, Place, LastRequest,
        EndIsEnd
  <2> QED BY <2>2, <2>3
<1>5. ASSUME NEW target \in Places, Seek(target)
      PROVE  IInv'
  <2>1. /\ call' \in Calls
        /\ \/ call' = Idle /\ Land(target) /\ inner # NoResponse /\ target = position
           \/ /\ call'.kind = "skip" /\ UNCHANGED demuxer
              /\ call'.pc = "skipped" \/ (call'.pc = "attempt" /\ position < Size)
           \/ call'.kind = "seek" /\ call'.pc = "skipped" /\ UNCHANGED demuxer
    BY <1>5, BegunCall, IdleCall DEF Seek, Land, Kinds, Stages
  <2>2. Fields'
    BY <1>0, <1>5, <2>1 DEF Seek, Land, Fields, Sound, Aligned, Control, InFile, Offset,
        Place
  <2>3. Sound'
    BY <1>0, <1>5, <2>1, IdleCall
    DEF Seek, Land, Fields, Sound, Aligned, Control, InFile, Offset, Place, LastRequest,
        EndIsEnd
  <2> QED BY <2>2, <2>3
<1> QED BY <1>1, <1>2, <1>3, <1>4, <1>5

LEMMA LoopsHold ==
  ASSUME IInv, Attempt \/ Deliver \/ Skip \/ Ended \/ AfterSkip
  PROVE  IInv'
<1> USE DEF IInv, demuxer
<1>0. /\ call.kind \in Kinds /\ call.pc \in Stages /\ call.target \in Places
      /\ call.hop \in 0..MaxRedirects /\ call.attempt \in 0..(MaxAttempts - 1)
  BY DEF Fields, Calls
<1>1. CASE Attempt
  <2>1. /\ call' \in Calls
        /\ \/ interrupted /\ (Ends \/ (call.kind = "skip" /\ GoesTo("skipped")))
           \/ ~interrupted /\ Reading /\ inner # NoResponse /\ GoesTo("receive")
           \/ ~interrupted /\ GoesTo("request")
    BY <1>1, GivesUp, StepsTo DEF Attempt, StopSeen, GoesTo, Fields, Stages
  <2>2. Fields'
    BY <1>0, <1>1, <2>1 DEF Attempt, Ends, GoesTo, Reading, Moved, Fields, Sound,
        Aligned, Control, InFile, Offset, Place
  <2>3. Sound'
    BY <1>0, <1>1, <2>1, IdleCall
    DEF Attempt, Ends, GoesTo, Reading, Moved, Fields, Sound, Aligned, Control, InFile,
        Offset, Place, LastRequest, EndIsEnd
  <2> QED BY <2>2, <2>3
<1>2. CASE Deliver
  <2>0. PICK got \in 1..(Size - inner) : inner' = inner + got /\ position' = position + got
    BY <1>2 DEF Deliver, Received
  <2>1. call' = Idle /\ stands' = stands + got /\ UNCHANGED lost
    BY <1>2, <2>0 DEF Deliver, Fields
  <2>2. Fields'
    BY <1>0, <1>2, <2>0, <2>1, IdleCall DEF Deliver, Fields, Sound, Aligned, Control,
        InFile, Offset, Place
  <2>3. Sound'
    BY <1>0, <1>2, <2>0, <2>1, IdleCall
    DEF Deliver, Fields, Sound, Aligned, Control, InFile, Offset, Place, LastRequest,
        EndIsEnd
  <2> QED BY <2>2, <2>3
<1>3. CASE Skip
  <2>0. PICK got \in 1..(Smaller(Size, call.target) - inner) :
               inner' = inner + got /\ position' = position + got
    BY <1>3 DEF Skip, Received
  <2>1. /\ call' \in Calls /\ call'.kind = "skip"
        /\ call'.pc = "skipped" \/ (call'.pc = "attempt" /\ position' < Size)
    BY <1>0, <1>3, BegunCall DEF Skip, Kinds, Stages
  <2>2. Fields'
    BY <1>0, <1>3, <2>0, <2>1 DEF Skip, Smaller, Fields, Sound, Aligned, Control, InFile,
        Offset, Place
  <2>3. Sound'
    BY <1>0, <1>3, <2>0, <2>1, IdleCall
    DEF Skip, Smaller, Fields, Sound, Aligned, Control, InFile, Offset, Place,
        LastRequest, EndIsEnd
  <2> QED BY <2>2, <2>3
<1>4. CASE Ended
  <2>1. call' \in Calls /\ GoesTo("request")
    BY <1>4, StepsTo DEF Ended, GoesTo, Fields, Stages
  <2>2. Fields'
    BY <1>0, <1>4, <2>1 DEF Ended, GoesTo, Fields, Sound, Aligned, Control, InFile,
        Offset, Place
  <2>3. Sound'
    BY <1>0, <1>4, <2>1, IdleCall
    DEF Ended, GoesTo, Fields, Sound, Aligned, Control, InFile, Offset, Place,
        LastRequest, EndIsEnd
  <2> QED BY <2>2, <2>3
<1>5. CASE AfterSkip
  <2>1. CASE call' = Idle
    <3>1. /\ told' = "place" /\ stands' = call.target /\ lost' = FALSE
          /\ position' = call.target /\ (inner' = NoResponse \/ inner' = inner)
          /\ (inner' = NoResponse \/ position' = position)
          /\ UNCHANGED <<input, interrupted, late>>
      BY <1>5, <2>1, BegunCall, IdleCall, <1>0 DEF AfterSkip, Land, Kinds, Stages
    <3>2. Fields'
      BY <1>0, <2>1, <3>1, IdleCall DEF Fields
    <3>3. Sound'
      BY <1>0, <1>5, <2>1, <3>1, IdleCall
      DEF AfterSkip, Fields, Sound, Aligned, Control, InFile, Offset, Place, LastRequest,
          EndIsEnd
    <3> QED BY <3>2, <3>3
  <2>2. CASE call' # Idle
    <3>1. call' = Begin("seek", "attempt", call.target) /\ call.target < Size
          /\ UNCHANGED <<input, inner, position, stands, told, lost, interrupted, late>>
      BY <1>5, <2>2 DEF AfterSkip, Land
    <3>2. /\ call' \in Calls /\ call'.kind = "seek" /\ call'.pc = "attempt"
          /\ call'.target = call.target
      BY <1>0, <3>1, BegunCall DEF Kinds, Stages
    <3>3. Fields'
      BY <3>1, <3>2 DEF Fields
    <3>4. Sound'
      BY <1>5, <3>1, <3>2
      DEF AfterSkip, Fields, Sound, Aligned, Control, InFile, Offset, Place, LastRequest,
          EndIsEnd
    <3> QED BY <3>3, <3>4
  <2> QED BY <2>1, <2>2
<1> QED BY <1>1, <1>2, <1>3, <1>4, <1>5

LEMMA FetchesHold ==
  ASSUME IInv, Fetch
  PROVE  IInv'
<1> USE DEF IInv, demuxer
<1>0. /\ call.kind \in Kinds /\ call.pc \in Stages /\ call.target \in Places
      /\ call.hop \in 0..MaxRedirects /\ call.attempt \in 0..(MaxAttempts - 1)
  BY DEF Fields, Calls
<1>1. CASE Request
  <2>1. call' \in Calls /\ GoesTo("hop")
    BY <1>1, StepsTo DEF Request, GoesTo, Fields, Stages
  <2>2. Fields'
    BY <1>0, <1>1, <2>1 DEF Request, Asked, Smaller, GoesTo, Fields, Sound, Aligned,
        Control, InFile, Offset, Place
  <2>3. Sound'
    BY <1>0, <1>1, <2>1, IdleCall
    DEF Request, Asked, Smaller, GoesTo, Fields, Sound, Aligned, Control, InFile, Offset,
        Place, LastRequest, EndIsEnd
  <2> QED BY <2>2, <2>3
<1>2. CASE Opened
  <2>1. /\ call' \in Calls
        /\ \/ call.kind = "open" /\ call' = Idle /\ UNCHANGED demuxer
           \/ /\ call.kind = "seek" /\ call' = Idle /\ told' = "place"
              /\ stands' = call.target /\ lost' = FALSE
           \/ Reading /\ (\/ Ends \/ (call.kind = "skip" /\ GoesTo("skipped"))
                          \/ GoesTo("attempt"))
    BY <1>2, TriesAgain, IdleCall DEF Opened, Land
  <2>2. /\ inner' = Offset /\ position' = Offset /\ Offset \in 0..(Size - 1)
        /\ UNCHANGED <<interrupted, late>>
        /\ input' \in {"new", "used", "unused"} \/ UNCHANGED input
    BY <1>0, <1>2 DEF Opened, Answered, Fields, Sound, Control, InFile, Offset
  <2>3. Fields'
    BY <1>0, <1>2, <2>1, <2>2 DEF Opened, Land, Ends, GoesTo, Fields
  <2>4. Sound'
    BY <1>0, <1>2, <2>1, <2>2, IdleCall
    DEF Opened, Land, Ends, GoesTo, Reading, Moved, Fields, Sound, Aligned, Control, InFile,
        Offset, Place, LastRequest, EndIsEnd
  <2> QED BY <2>3, <2>4
<1>3. CASE Probe
  <2>1. call' \in Calls /\ GoesTo("probe") /\ call'.hop < MaxRedirects
    BY <1>3, StepsTo DEF Probe, GoesTo, Fields, Stages
  <2>2. Fields'
    BY <1>0, <1>3, <2>1 DEF Probe, GoesTo, Fields, Sound, Aligned, Control, InFile,
        Offset, Place
  <2>3. Sound'
    BY <1>0, <1>3, <2>1, IdleCall
    DEF Probe, GoesTo, Fields, Sound, Aligned, Control, InFile, Offset, Place,
        LastRequest, EndIsEnd
  <2> QED BY <2>2, <2>3
<1>4. CASE Follow
  <2>1. call' \in Calls /\ GoesTo("hop")
    <3>1. call' = [call EXCEPT !.pc = "hop", !.hop = call.hop + 1] /\ UNCHANGED demuxer
      BY <1>4 DEF Follow
    <3>2. call.hop + 1 \in 0..MaxRedirects /\ "hop" \in Stages /\ call \in Calls
      BY <1>0, <1>4 DEF Follow, Fields, Sound, Control, Stages
    <3> QED BY <3>1, <3>2 DEF Calls, GoesTo
  <2>2. Fields'
    BY <1>0, <1>4, <2>1 DEF Follow, Asked, Smaller, GoesTo, Fields, Sound, Aligned,
        Control, InFile, Offset, Place
  <2>3. Sound'
    BY <1>0, <1>4, <2>1, IdleCall
    DEF Follow, Asked, Smaller, GoesTo, Fields, Sound, Aligned, Control, InFile, Offset,
        Place, LastRequest, EndIsEnd
  <2> QED BY <2>2, <2>3
<1>5. CASE Refused
  <2>1. /\ call' \in Calls
        /\ \/ call.kind = "open" /\ call' = Idle /\ UNCHANGED demuxer
           \/ call.kind # "open" /\ (Ends \/ (call.kind = "skip" /\ GoesTo("skipped")))
    BY <1>5, GivesUp, IdleCall DEF Refused
  <2>2. Fields'
    BY <1>0, <1>5, <2>1 DEF Refused, Ends, GoesTo, Moved, Fields, Sound, Aligned,
        Control, InFile, Offset, Place
  <2>3. Sound'
    BY <1>0, <1>5, <2>1, IdleCall
    DEF Refused, Ends, GoesTo, Moved, Fields, Sound, Aligned, Control, InFile, Offset,
        Place, LastRequest, EndIsEnd
  <2> QED BY <2>2, <2>3
<1>6. CASE Failed
  <2>1. /\ call' \in Calls
        /\ \/ call.kind = "open" /\ call' = Idle /\ UNCHANGED demuxer
           \/ call.kind # "open" /\ GoesTo("back_off")
    BY <1>6, StepsTo, IdleCall DEF Failed, GoesTo, Fields, Stages
  <2>2. Fields'
    BY <1>0, <1>6, <2>1 DEF Failed, GoesTo, Fields, Sound, Aligned, Control, InFile,
        Offset, Place
  <2>3. Sound'
    BY <1>0, <1>6, <2>1, IdleCall
    DEF Failed, GoesTo, Fields, Sound, Aligned, Control, InFile, Offset, Place,
        LastRequest, EndIsEnd
  <2> QED BY <2>2, <2>3
<1>7. CASE BackOff
  <2>1. /\ call' \in Calls
        /\ \/ Ends \/ (call.kind = "skip" /\ GoesTo("skipped"))
           \/ ~interrupted /\ GoesTo("attempt")
    BY <1>7, GivesUp, TriesAgain DEF BackOff, StopSeen
  <2>2. Fields'
    BY <1>0, <1>7, <2>1 DEF BackOff, Ends, GoesTo, Moved, Fields, Sound, Aligned,
        Control, InFile, Offset, Place
  <2>3. Sound'
    BY <1>0, <1>7, <2>1, IdleCall
    DEF BackOff, Ends, GoesTo, Moved, Fields, Sound, Aligned, Control, InFile, Offset,
        Place, LastRequest, EndIsEnd
  <2> QED BY <2>2, <2>3
<1> QED BY <1>1, <1>2, <1>3, <1>4, <1>5, <1>6, <1>7 DEF Fetch

LEMMA Invariance == Spec => []IInv
<1>1. ASSUME IInv, [Next]_vars
      PROVE  IInv'
  <2>1. CASE UNCHANGED vars
    BY <1>1, <2>1 DEF vars, IInv, Fields, Sound, Aligned, Control, InFile, Offset, Place,
        LastRequest, EndIsEnd, Idle
  <2>2. CASE Next
    BY <1>1, <2>2, CallsHold, LoopsHold, FetchesHold DEF Next, Work
  <2> QED BY <1>1, <2>1, <2>2
<1> QED BY InitHolds, <1>1, PTL DEF Spec

-----------------------------------------------------------------------------
LEMMA FlagsHold ==
  ASSUME Flags, [Next]_vars
  PROVE  Flags'
<1> USE DEF Flags
<1>1. CASE UNCHANGED vars
  BY <1>1 DEF vars
<1>2. interrupted' \in BOOLEAN
  <2>1. Next => UNCHANGED interrupted \/ interrupted' = TRUE
    BY DEF Next, Open, Read, ReadEnd, Interrupt, Seek, Work, Attempt, Deliver, Skip, Ended,
           AfterSkip, Fetch, Request, Opened, Probe, Follow, Refused, Failed, BackOff
  <2> QED BY <2>1, <1>1
<1>3. lost' \in BOOLEAN
  <2>1. Moved \in BOOLEAN
    BY DEF Moved
  <2>2. GiveUp => UNCHANGED lost \/ lost' = Moved
    BY DEF GiveUp, Fail, demuxer
  <2>3. NextAttempt => UNCHANGED lost \/ lost' = Moved
    BY <2>2 DEF NextAttempt, demuxer
  <2>4. \A t : Land(t) => lost' = FALSE
    BY DEF Land
  <2>5. Next => UNCHANGED lost \/ lost' = FALSE \/ lost' = Moved
    <3>1. Open \/ Read \/ ReadEnd \/ Interrupt => UNCHANGED lost
      BY DEF Open, Read, ReadEnd, Interrupt, demuxer
    <3>2. \A t \in Places : Seek(t) => UNCHANGED lost \/ lost' = FALSE
      BY <2>4 DEF Seek, demuxer
    <3>3. Attempt => UNCHANGED lost \/ lost' = Moved
      BY <2>2 DEF Attempt, demuxer
    <3>4. Deliver \/ Skip \/ Ended => UNCHANGED lost
      BY DEF Deliver, Skip, Ended, demuxer
    <3>5. AfterSkip => UNCHANGED lost \/ lost' = FALSE
      BY <2>4 DEF AfterSkip, demuxer
    <3>6. Request \/ Probe \/ Follow => UNCHANGED lost
      BY DEF Request, Probe, Follow, demuxer
    <3>7. Opened => UNCHANGED lost \/ lost' = FALSE \/ lost' = Moved
      BY <2>3, <2>4 DEF Opened, demuxer
    <3>8. Refused \/ Failed \/ BackOff => UNCHANGED lost \/ lost' = Moved
      BY <2>2, <2>3 DEF Refused, Failed, BackOff, demuxer
    <3> QED BY <3>1, <3>2, <3>3, <3>4, <3>5, <3>6, <3>7, <3>8 DEF Next, Work, Fetch
  <2> QED BY <2>1, <2>5, <1>1
<1> QED BY <1>2, <1>3

-----------------------------------------------------------------------------
(* The types, for every size and every limit: among them that no loop goes *)
(* over its attempts or redirects and that the input stays in the file or  *)
(* just past its end.                                                      *)
THEOREM InputTypeCorrect == Spec => []TypeOK
<1>1. IInv /\ Flags => TypeOK
  BY DEF IInv, Fields, Flags, TypeOK, Calls, Kinds, Stages
<1>2. Spec => []Flags
  BY InitHolds, FlagsHold, PTL DEF Spec
<1> QED BY Invariance, <1>1, <1>2, PTL

(* The open response always goes on at the tracked position.               *)
THEOREM InputAligned == Spec => []Aligned
<1>1. IInv => Aligned
  BY DEF IInv, Sound
<1> QED BY Invariance, <1>1, PTL

(* The end is reported at the end of the file only.                        *)
THEOREM EndIsReal == Spec => []EndIsEnd
<1>1. IInv => EndIsEnd
  BY DEF IInv, Sound
<1> QED BY Invariance, <1>1, PTL

(* A stop is the end of asking, but for the one request it may have met.   *)
THEOREM StopEndsAsking == Spec => []StopsAsking
<1>1. IInv => StopsAsking
  BY DEF IInv, Sound, LastRequest, StopsAsking
<1> QED BY Invariance, <1>1, PTL

(* The demuxer gets the bytes of the place it reads from, whatever ended   *)
(* early, failed or was redirected before, unless a seek failed half-way.  *)
THEOREM BytesAreExact == Spec => Exact
<1>1. IInv /\ [Next]_vars => [Deliver => inner = stands \/ lost]_vars
  BY DEF IInv, Sound, Control, Place, Aligned, Deliver, NoResponse
<1> QED BY Invariance, <1>1, PTL DEF Spec, Exact
==============================================================================
