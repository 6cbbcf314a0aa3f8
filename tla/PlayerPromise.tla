---------------------------- MODULE PlayerPromise ----------------------------
(***************************************************************************)
(* What the AirPlay video player promises to those who see only its        *)
(* callbacks and what it reports (MediaPlayer in src/media-player.hpp):    *)
(* one item at a time, pictures of that item only, a reported position     *)
(* that only the sender moves back, an end after which nothing comes, and  *)
(* silence once stop() has returned.  Module MediaPlayer implements it     *)
(* with the caller's thread, a worker and a presenter.                     *)
(***************************************************************************)
EXTENDS Integers

CONSTANTS
    Items,     \* the locations that can be played
    NoItem,    \* nothing is played
    Duration,  \* of every item
    Positions  \* the positions that can be reported

VARIABLES
    item,      \* the item that plays or is paused
    position,  \* the position reported to the sender
    ended,     \* whether its end has been reported
    shown      \* the item a picture is being shown of

promised == <<item, position, ended, shown>>

Init == item = NoItem /\ position = 0 /\ ended = FALSE /\ shown = NoItem

(* An item starts, or cannot be started and is reported as over. *)
Play(i) ==
    /\ item = NoItem
    /\ item' \in {i, NoItem} /\ ended' = (item' = NoItem)
    /\ position' \in Positions
    /\ UNCHANGED shown

(* Nothing is being shown any more when stop() returns. *)
Stop ==
    /\ shown = NoItem
    /\ item' = NoItem
    /\ UNCHANGED <<position, ended, shown>>

Scrub ==
    /\ ~ended
    /\ position' \in Positions
    /\ UNCHANGED <<item, ended, shown>>

(* The output moves on; a position past the end of the item is corrected   *)
(* once its length is known.                                               *)
MovesOn ==
    /\ position' \in Positions
    /\ position' >= (IF position < Duration THEN position ELSE Duration)

Advance == item # NoItem /\ ~ended /\ MovesOn /\ UNCHANGED <<item, ended, shown>>

Show ==
    /\ item # NoItem /\ ~ended /\ shown = NoItem
    /\ shown' = item /\ MovesOn
    /\ UNCHANGED <<item, ended>>

Shown ==
    /\ shown # NoItem /\ shown' = NoItem
    /\ UNCHANGED <<item, position, ended>>

End ==
    /\ item # NoItem /\ shown = NoItem
    /\ ended' = TRUE
    /\ UNCHANGED <<item, position, shown>>

Next == (\E i \in Items : Play(i)) \/ Stop \/ Scrub \/ Advance \/ Show \/ Shown \/ End

Spec == Init /\ [][Next]_promised
==============================================================================
