------------------------- MODULE MirrorServerProofs -------------------------
(***************************************************************************)
(* Theorems about MirrorServer for every queue length, number of resetting *)
(* threads and number of payloads.                                         *)
(***************************************************************************)
EXTENDS MirrorServer, TLAPS

-----------------------------------------------------------------------------
(* The inductive invariant. *)

(* No reset, done or under way, emptied the queue after payload id arrived. *)
Fresh(id) == id > ended /\ \A r \in Resetters : id > reset[r].upto

(* The payload after id in the queue (or the next to arrive) follows it.   *)
Follows(id) ==
    /\ queue # <<>> => queue[1].key \/ queue[1].id = id + 1
    /\ queue = <<>> /\ ~waiting => id = arrived

WaitingEmpty == waiting => queue = <<>>

QueueFresh == \A i \in 1..Len(queue) : Fresh(queue[i].id) /\ queue[i].id <= arrived

QueueEnd == queue # <<>> => queue[Len(queue)].id = arrived

QueueLinked == \A i \in 1..(Len(queue) - 1) :
                  queue[i + 1].key \/ queue[i + 1].id = queue[i].id + 1

ResetNumbers ==
    /\ ended <= arrived
    /\ \A r \in Resetters :
          /\ reset[r].upto <= arrived
          /\ reset[r].upto # 0 => reset[r].pc = "decoder" /\ reset[r].flush
          /\ reset[r].pc = "queue" => reset[r].flush

HandLinked ==
    /\ hand.id <= arrived
    /\ dpc = "taken" /\ Fresh(hand.id) => Follows(hand.id)

DecoderLinked ==
    /\ decoder.last <= arrived
    /\ dpc = "taken" /\ Fresh(decoder.last) => hand.key \/ hand.id = decoder.last + 1
    /\ dpc # "taken" /\ Fresh(decoder.last) => Follows(decoder.last)

Inv == /\ TypeOK
       /\ WaitingEmpty /\ QueueBounded /\ QueueFresh /\ QueueEnd /\ QueueLinked
       /\ ResetNumbers /\ HandLinked /\ DecoderLinked

-----------------------------------------------------------------------------
LEMMA InitInv == Init => Inv
<1> SUFFICES ASSUME Init PROVE Inv
    OBVIOUS
<1> USE DEF Init, Idle, NoPayload, Flushed
<1>1. TypeOK
      <2>1. reset \in [Resetters -> [pc : {"idle", "queue", "decoder"},
                                     clear : BOOLEAN, flush : BOOLEAN, upto : Nat]]
            OBVIOUS
      <2>2. queue \in Seq(Payload) /\ hand \in Payload
            BY DEF Payload
      <2>3. decoder \in [last : Nat, whole : BOOLEAN]
            OBVIOUS
      <2> QED BY <2>1, <2>2, <2>3 DEF TypeOK
<1>2. Len(queue) = 0 /\ \A r \in Resetters : reset[r].upto = 0
      OBVIOUS
<1>3. /\ WaitingEmpty /\ QueueBounded /\ QueueFresh /\ QueueEnd /\ QueueLinked
      /\ ResetNumbers
      BY <1>2, ServerAssumption
      DEF WaitingEmpty, QueueBounded, QueueFresh, QueueEnd, QueueLinked, ResetNumbers
<1>4. HandLinked /\ DecoderLinked
      BY <1>2 DEF HandLinked, DecoderLinked, Fresh, Follows
<1> QED BY <1>1, <1>3, <1>4 DEF Inv

(* What an arrival does to the queue when the payload is queued behind     *)
(* others: the queue stays numbered and linked.                            *)
LEMMA AppendInv ==
    ASSUME Inv, NEW p \in Payload, p.id = arrived + 1, p.key \/ ~waiting, ~Behind,
           queue' = Append(queue, p), arrived' = arrived + 1, waiting' = FALSE,
           UNCHANGED <<quit, dpc, hand, decoder, screen, reset, ended>>
    PROVE  Inv'
<1>1. /\ arrived \in Nat /\ ended \in Nat /\ queue \in Seq(Payload) /\ hand \in Payload
      /\ decoder \in [last : Nat, whole : BOOLEAN] /\ waiting \in BOOLEAN
      BY DEF Inv, TypeOK
<1>2. queue' \in Seq(Payload) /\ arrived' \in Nat
      BY <1>1
<1>3. TypeOK'
      BY <1>2 DEF Inv, TypeOK
<1>4. /\ queue' # <<>> /\ Len(queue') = Len(queue) + 1
      /\ queue'[Len(queue) + 1] = p
      /\ \A i \in 1..Len(queue) : queue'[i] = queue[i]
      /\ \A i \in 1..Len(queue) : queue[i] \in Payload
      /\ Len(queue) \in Nat
      BY <1>1
<1>5. \A id \in Nat : Fresh(id)' <=> Fresh(id)
      BY DEF Fresh
<1>6. \A id \in Nat : id > arrived => Fresh(id)
      BY <1>1 DEF Inv, TypeOK, Fresh, ResetNumbers
<1>7. WaitingEmpty'
      BY DEF WaitingEmpty
<1>8. QueueBounded'
      <2>1. CASE waiting
            BY <1>4, <2>1, ServerAssumption DEF Inv, QueueBounded, WaitingEmpty
      <2>2. CASE ~waiting
            BY <1>4, <2>2, ServerAssumption DEF QueueBounded, Behind
      <2> QED BY <2>1, <2>2
<1>9. QueueFresh'
      <2> SUFFICES ASSUME NEW i \in 1..Len(queue')
                   PROVE  Fresh(queue[i].id)' /\ queue'[i].id <= arrived'
          BY DEF QueueFresh
      <2>1. CASE i \in 1..Len(queue)
            <3>1. Fresh(queue[i].id) /\ queue[i].id <= arrived /\ queue[i].id \in Nat
                  BY <1>4, <2>1 DEF Inv, QueueFresh, Payload
            <3>2. queue'[i] = queue[i]
                  BY <1>4, <2>1
            <3>3. queue'[i].id > ended' /\ \A r \in Resetters : queue'[i].id > reset'[r].upto
                  BY <3>1, <3>2 DEF Fresh
            <3> QED BY <1>1, <3>1, <3>2, <3>3 DEF Fresh
      <2>2. CASE i = Len(queue) + 1
            <3>1. queue'[i].id = arrived + 1 /\ Fresh(arrived + 1)
                  BY <1>1, <1>4, <1>6, <2>2
            <3>2. queue'[i].id > ended' /\ \A r \in Resetters : queue'[i].id > reset'[r].upto
                  BY <3>1 DEF Fresh
            <3> QED BY <1>1, <3>1, <3>2 DEF Fresh
      <2> QED BY <1>4, <2>1, <2>2
<1>10. QueueEnd'
      BY <1>4 DEF QueueEnd
<1>11. QueueLinked'
      <2> SUFFICES ASSUME NEW i \in 1..(Len(queue') - 1)
                   PROVE  queue'[i + 1].key \/ queue'[i + 1].id = queue'[i].id + 1
          BY DEF QueueLinked
      <2>1. CASE i < Len(queue)
            <3>1. queue'[i] = queue[i] /\ queue'[i + 1] = queue[i + 1] /\ i \in 1..(Len(queue) - 1)
                  BY <1>4, <2>1
            <3> QED BY <3>1 DEF Inv, QueueLinked
      <2>2. CASE i = Len(queue)
            <3>1. queue'[i] = queue[i] /\ queue'[i + 1] = p /\ queue # <<>>
                  BY <1>4, <2>2
            <3>2. queue[i].id = arrived
                  BY <2>2, <3>1 DEF Inv, QueueEnd
            <3> QED BY <3>1, <3>2
      <2> QED BY <1>4, <2>1, <2>2
<1>12. ASSUME NEW id \in Nat, Follows(id) PROVE Follows(id)'
      <2>1. CASE queue = <<>>
            <3>1. Len(queue) = 0 /\ queue'[1] = p
                  BY <1>4, <2>1
            <3>2. p.key \/ p.id = id + 1
                  BY <1>12, <2>1 DEF Follows
            <3> QED BY <1>4, <3>1, <3>2 DEF Follows
      <2>2. CASE queue # <<>>
            <3>1. queue'[1] = queue[1]
                  BY <1>1, <1>4, <2>2
            <3> QED BY <1>4, <1>12, <2>2, <3>1 DEF Follows
      <2> QED BY <2>1, <2>2
<1>13. ResetNumbers'
      BY <1>1 DEF Inv, TypeOK, ResetNumbers
<1>14. hand.id \in Nat /\ decoder.last \in Nat
      BY <1>1 DEF Payload
<1>15. hand'.id <= arrived' /\ decoder'.last <= arrived'
      BY <1>1, <1>14 DEF Inv, HandLinked, DecoderLinked
<1>16. /\ (Fresh(hand.id)' <=> Fresh(hand.id)) /\ (Follows(hand.id) => Follows(hand.id)')
       /\ (Fresh(decoder.last)' <=> Fresh(decoder.last))
       /\ (Follows(decoder.last) => Follows(decoder.last)')
      <2>1. PICK h \in Nat : h = hand.id
            BY <1>14
      <2>2. PICK d \in Nat : d = decoder.last
            BY <1>14
      <2>3. h = hand'.id /\ d = decoder'.last
            BY <2>1, <2>2
      <2>4. /\ (Fresh(h)' <=> Fresh(h)) /\ (Follows(h) => Follows(h)')
            /\ (Fresh(d)' <=> Fresh(d)) /\ (Follows(d) => Follows(d)')
            BY <1>5, <1>12
      <2> QED BY <2>1, <2>2, <2>3, <2>4 DEF Fresh, Follows
<1>17. HandLinked'
      BY <1>15, <1>16 DEF Inv, HandLinked
<1>18. DecoderLinked'
      BY <1>15, <1>16 DEF Inv, DecoderLinked
<1> QED BY <1>3, <1>7, <1>8, <1>9, <1>10, <1>11, <1>13, <1>17, <1>18 DEF Inv

(* The backlog is dropped and the keyframe that arrives is queued alone.   *)
LEMMA RestartInv ==
    ASSUME Inv, NEW p \in Payload, p.id = arrived + 1, p.key,
           queue' = <<p>>, arrived' = arrived + 1, waiting' = FALSE,
           UNCHANGED <<quit, dpc, hand, decoder, screen, reset, ended>>
    PROVE  Inv'
<1>1. /\ arrived \in Nat /\ ended \in Nat /\ hand \in Payload
      /\ decoder \in [last : Nat, whole : BOOLEAN]
      BY DEF Inv, TypeOK
<1>2. queue' \in Seq(Payload) /\ arrived' \in Nat /\ Len(queue') = 1 /\ queue'[1] = p
      BY <1>1
<1>3. TypeOK'
      BY <1>2 DEF Inv, TypeOK
<1>4. WaitingEmpty' /\ QueueBounded' /\ QueueEnd' /\ QueueLinked'
      BY <1>1, <1>2, ServerAssumption DEF WaitingEmpty, QueueBounded, QueueEnd, QueueLinked
<1>5. p.id > ended' /\ \A r \in Resetters : p.id > reset'[r].upto
      BY <1>1 DEF Inv, TypeOK, ResetNumbers
<1>6. QueueFresh'
      BY <1>1, <1>2, <1>5 DEF QueueFresh, Fresh
<1>7. ResetNumbers'
      BY <1>1 DEF Inv, TypeOK, ResetNumbers
<1>8. hand'.id <= arrived' /\ decoder'.last <= arrived'
      BY <1>1 DEF Inv, HandLinked, DecoderLinked, Payload
<1>9. Follows(hand.id)' /\ Follows(decoder.last)'
      BY <1>2 DEF Follows
<1>10. HandLinked'
      BY <1>8, <1>9 DEF HandLinked
<1>11. DecoderLinked'
      BY <1>8, <1>9 DEF Inv, DecoderLinked, Fresh
<1> QED BY <1>3, <1>4, <1>6, <1>7, <1>10, <1>11 DEF Inv

(* The backlog is dropped, or was, and the payload is refused.             *)
LEMMA RefuseInv ==
    ASSUME Inv, queue' = <<>>, arrived' = arrived + 1, waiting' = TRUE,
           UNCHANGED <<quit, dpc, hand, decoder, screen, reset, ended>>
    PROVE  Inv'
<1>1. /\ arrived \in Nat /\ ended \in Nat /\ hand \in Payload
      /\ decoder \in [last : Nat, whole : BOOLEAN]
      BY DEF Inv, TypeOK
<1>2. queue' \in Seq(Payload) /\ arrived' \in Nat /\ Len(queue') = 0
      BY <1>1
<1>3. TypeOK'
      BY <1>2 DEF Inv, TypeOK
<1>4. WaitingEmpty' /\ QueueBounded' /\ QueueFresh' /\ QueueEnd' /\ QueueLinked'
      BY <1>2, ServerAssumption
      DEF WaitingEmpty, QueueBounded, QueueFresh, QueueEnd, QueueLinked
<1>5. ResetNumbers'
      BY <1>1 DEF Inv, TypeOK, ResetNumbers
<1>6. hand'.id <= arrived' /\ decoder'.last <= arrived'
      BY <1>1 DEF Inv, HandLinked, DecoderLinked, Payload
<1>7. Follows(hand.id)' /\ Follows(decoder.last)'
      BY DEF Follows
<1>8. HandLinked'
      BY <1>6, <1>7 DEF HandLinked
<1>9. DecoderLinked'
      BY <1>6, <1>7 DEF Inv, DecoderLinked, Fresh
<1> QED BY <1>3, <1>4, <1>5, <1>8, <1>9 DEF Inv

LEMMA IngestInv ==
    ASSUME Inv, NEW key \in BOOLEAN, Ingest(key)
    PROVE  Inv'
<1>1. PICK p : p = [id |-> arrived + 1, key |-> key]
      OBVIOUS
<1>2. p \in Payload /\ p.id = arrived + 1 /\ p.key = key
      BY <1>1 DEF Inv, TypeOK, Payload
<1>3. arrived' = arrived + 1 /\ UNCHANGED <<quit, dpc, hand, decoder, screen, reset, ended>>
      BY DEF Ingest
<1>4. CASE (waiting \/ Behind) /\ ~key
      <2>1. waiting' = TRUE
            BY <1>4 DEF Ingest
      <2>2. queue' = <<>>
            BY <1>4 DEF Ingest, Inv, WaitingEmpty
      <2> QED BY <1>3, <2>1, <2>2, RefuseInv
<1>5. CASE Behind /\ key
      <2>1. waiting' = FALSE
            BY <1>5 DEF Ingest
      <2>2. queue' = Append(<<>>, p)
            BY <1>1, <1>5 DEF Ingest
      <2>3. queue' = <<p>>
            BY <2>2
      <2> QED BY <1>2, <1>3, <1>5, <2>1, <2>3, RestartInv
<1>6. CASE ~Behind /\ (key \/ ~waiting)
      <2>1. waiting' = FALSE
            BY <1>6 DEF Ingest
      <2>2. queue' = Append(queue, p)
            BY <1>1, <1>6 DEF Ingest
      <2> QED BY <1>2, <1>3, <1>6, <2>1, <2>2, AppendInv
<1> QED BY <1>4, <1>5, <1>6

(* The head of the queue moves to the decode thread's hand. *)
LEMMA TakeInv == ASSUME Inv, Take PROVE Inv'
<1>1. /\ arrived \in Nat /\ ended \in Nat /\ queue \in Seq(Payload)
      /\ decoder \in [last : Nat, whole : BOOLEAN]
      BY DEF Inv, TypeOK
<1>2. /\ hand' = queue[1] /\ dpc' = "taken" /\ dpc = "idle" /\ queue # <<>>
      /\ UNCHANGED <<waiting, quit, arrived, decoder, screen, reset, ended>>
      BY <1>1 DEF Take
<1>3. /\ queue' \in Seq(Payload) /\ Len(queue') = Len(queue) - 1 /\ queue[1] \in Payload
      /\ \A i \in 1..Len(queue') : queue'[i] = queue[i + 1]
      /\ Len(queue) \in Nat /\ Len(queue) >= 1
      BY <1>1, <1>2 DEF Take
<1>4. TypeOK'
      BY <1>2, <1>3 DEF Inv, TypeOK
<1>5. WaitingEmpty' /\ ~waiting
      BY <1>2 DEF Inv, WaitingEmpty
<1>6. QueueBounded'
      BY <1>3, ServerAssumption DEF Inv, QueueBounded
<1>7. \A i \in 1..Len(queue) : /\ queue[i].id <= arrived /\ queue[i].id > ended
                               /\ \A r \in Resetters : queue[i].id > reset[r].upto
      BY DEF Inv, QueueFresh, Fresh
<1>8. QueueFresh'
      <2> SUFFICES ASSUME NEW i \in 1..Len(queue')
                   PROVE  /\ queue'[i].id <= arrived' /\ queue'[i].id > ended'
                          /\ \A r \in Resetters : queue'[i].id > reset'[r].upto
          BY DEF QueueFresh, Fresh
      <2>1. i + 1 \in 1..Len(queue) /\ queue'[i] = queue[i + 1]
            BY <1>3
      <2> QED BY <1>2, <1>7, <2>1
<1>9. QueueEnd'
      <2> SUFFICES ASSUME queue' # <<>> PROVE queue'[Len(queue')].id = arrived'
          BY DEF QueueEnd
      <2>1. Len(queue') \in 1..Len(queue') /\ Len(queue') + 1 = Len(queue)
            BY <1>3
      <2>2. queue'[Len(queue')] = queue[Len(queue)]
            BY <1>3, <2>1
      <2> QED BY <1>2, <2>2 DEF Inv, QueueEnd
<1>10. QueueLinked'
      <2> SUFFICES ASSUME NEW i \in 1..(Len(queue') - 1)
                   PROVE  queue'[i + 1].key \/ queue'[i + 1].id = queue'[i].id + 1
          BY DEF QueueLinked
      <2>1. /\ i + 1 \in 1..(Len(queue) - 1)
            /\ queue'[i] = queue[i + 1] /\ queue'[i + 1] = queue[(i + 1) + 1]
            BY <1>3
      <2> QED BY <2>1 DEF Inv, QueueLinked
<1>11. ResetNumbers'
      BY <1>2 DEF Inv, ResetNumbers
<1>12. hand'.id <= arrived' /\ decoder'.last <= arrived'
      BY <1>2, <1>3, <1>7 DEF Inv, DecoderLinked
<1>13. Follows(hand.id)'
      <2>1. CASE queue' = <<>>
            <3>1. Len(queue) = 1
                  BY <1>3, <2>1
            <3>2. hand'.id = arrived'
                  BY <1>2, <3>1 DEF Inv, QueueEnd
            <3> QED BY <2>1, <3>2 DEF Follows
      <2>2. CASE queue' # <<>>
            <3>1. 1 \in 1..(Len(queue) - 1) /\ queue'[1] = queue[1 + 1]
                  BY <1>3, <2>2
            <3>2. queue'[1].key \/ queue'[1].id = hand'.id + 1
                  BY <1>2, <3>1 DEF Inv, QueueLinked
            <3> QED BY <2>2, <3>2 DEF Follows
      <2> QED BY <2>1, <2>2
<1>14. HandLinked'
      BY <1>12, <1>13 DEF HandLinked
<1>15. DecoderLinked'
      <2>1. Fresh(decoder.last)' => Fresh(decoder.last)
            BY <1>2 DEF Fresh
      <2>2. Fresh(decoder.last) => hand'.key \/ hand'.id = decoder.last + 1
            BY <1>2 DEF Inv, DecoderLinked, Follows
      <2> QED BY <1>2, <1>12, <2>1, <2>2 DEF DecoderLinked
<1> QED BY <1>4, <1>5, <1>6, <1>8, <1>9, <1>10, <1>11, <1>14, <1>15 DEF Inv

(* The decoder moves on to the payload in hand, or has nothing to refer to. *)
LEMMA DecodeInv == ASSUME Inv, Decode PROVE Inv'
<1>1. /\ dpc = "taken" /\ dpc' \in {"idle", "output"} /\ screen' \in {screen, "mirror"}
      /\ UNCHANGED <<queue, waiting, quit, arrived, hand, reset, ended>>
      BY DEF Decode
<1>2. /\ decoder' \in [last : Nat, whole : BOOLEAN]
      /\ decoder' = Flushed \/ decoder'.last = hand.id
      <2>1. decoder' = Decoded(hand) /\ hand \in Payload
            /\ decoder \in [last : Nat, whole : BOOLEAN]
            BY DEF Decode, Inv, TypeOK
      <2>2. CASE hand.key
            BY <2>1, <2>2 DEF Decoded, Payload
      <2>3. CASE ~hand.key /\ decoder.last = 0
            BY <2>1, <2>3 DEF Decoded, Flushed
      <2>4. CASE ~hand.key /\ decoder.last # 0
            <3>1. PICK w : w = (decoder.whole /\ decoder.last + 1 = hand.id)
                  OBVIOUS
            <3>2. w \in BOOLEAN
                  BY <3>1
            <3>3. decoder' = [last |-> hand.id, whole |-> w]
                  BY <2>1, <2>4, <3>1 DEF Decoded
            <3> QED BY <2>1, <3>2, <3>3 DEF Payload
      <2> QED BY <2>2, <2>3, <2>4
<1>3. TypeOK'
      BY <1>1, <1>2 DEF Inv, TypeOK
<1>4. /\ WaitingEmpty' /\ QueueBounded' /\ QueueEnd' /\ QueueLinked' /\ ResetNumbers'
      BY <1>1 DEF Inv, WaitingEmpty, QueueBounded, QueueEnd, QueueLinked, ResetNumbers
<1>5. QueueFresh'
      BY <1>1 DEF Inv, QueueFresh, Fresh
<1>6. HandLinked'
      BY <1>1 DEF Inv, HandLinked
<1>7. CASE decoder' = Flushed
      <2>1. decoder'.last = 0 /\ ended' \in Nat /\ arrived' \in Nat
            BY <1>1, <1>7 DEF Flushed, Inv, TypeOK
      <2>2. ~Fresh(decoder.last)'
            BY <2>1 DEF Fresh
      <2>3. DecoderLinked'
            BY <2>1, <2>2 DEF DecoderLinked
      <2> QED BY <1>3, <1>4, <1>5, <1>6, <2>3 DEF Inv
<1>8. CASE decoder'.last = hand.id
      <2>1. Fresh(decoder.last)' => Fresh(hand.id)
            BY <1>1, <1>8 DEF Fresh
      <2>2. Fresh(hand.id) => Follows(hand.id)
            BY <1>1 DEF Inv, HandLinked
      <2>3. Follows(hand.id) => Follows(decoder.last)'
            BY <1>1, <1>8 DEF Follows
      <2>4. decoder'.last <= arrived'
            BY <1>1, <1>8 DEF Inv, HandLinked
      <2>5. DecoderLinked'
            BY <1>1, <2>1, <2>2, <2>3, <2>4 DEF DecoderLinked
      <2> QED BY <1>3, <1>4, <1>5, <1>6, <2>5 DEF Inv
<1> QED BY <1>2, <1>7, <1>8

(* Steps that leave the queue, the decoder and the resets alone. *)
LEMMA QuietInv == ASSUME Inv, FrameOutput \/ Exit \/ ItemFrame \/ Quit PROVE Inv'
<1>1. /\ UNCHANGED <<queue, waiting, arrived, hand, decoder, reset, ended>>
      /\ screen' \in {screen, "item"}
      /\ dpc' = dpc \/ (dpc # "taken" /\ dpc' \in {"idle", "stopped"})
      /\ quit' \in {quit, TRUE}
      BY DEF FrameOutput, Exit, ItemFrame, Quit
<1>2. TypeOK'
      BY <1>1 DEF Inv, TypeOK
<1>3. /\ WaitingEmpty' /\ QueueBounded' /\ QueueEnd' /\ QueueLinked' /\ ResetNumbers'
      BY <1>1 DEF Inv, WaitingEmpty, QueueBounded, QueueEnd, QueueLinked, ResetNumbers
<1>4. QueueFresh'
      BY <1>1 DEF Inv, QueueFresh, Fresh
<1>5. /\ (Fresh(hand.id)' <=> Fresh(hand.id)) /\ (Follows(hand.id)' <=> Follows(hand.id))
      /\ (Fresh(decoder.last)' <=> Fresh(decoder.last))
      /\ (Follows(decoder.last)' <=> Follows(decoder.last))
      BY <1>1 DEF Fresh, Follows
<1>6. HandLinked' /\ DecoderLinked'
      BY <1>1, <1>5 DEF Inv, HandLinked, DecoderLinked
<1> QED BY <1>2, <1>3, <1>4, <1>6 DEF Inv

(* A step on thread r that changes only reset[r], and not its number.      *)
LEMMA CallResetInv ==
    ASSUME Inv, NEW r \in Resetters, NEW clear \in BOOLEAN, NEW flush \in BOOLEAN,
           CallReset(r, clear, flush)
    PROVE  Inv'
<1>1. /\ UNCHANGED <<queue, waiting, quit, arrived, dpc, hand, decoder, screen, ended>>
      /\ reset[r].pc = "idle"
      BY DEF CallReset
<1>2. /\ reset' \in [Resetters -> [pc : {"idle", "queue", "decoder"},
                                   clear : BOOLEAN, flush : BOOLEAN, upto : Nat]]
      /\ reset'[r].upto = 0
      /\ \A s \in Resetters \ {r} : reset'[s] = reset[s]
      BY DEF CallReset, Inv, TypeOK
<1>3. reset[r].upto = 0
      BY <1>1 DEF Inv, ResetNumbers
<1>4. \A s \in Resetters : reset'[s].upto = reset[s].upto
      BY <1>2, <1>3
<1>5. TypeOK'
      BY <1>1, <1>2 DEF Inv, TypeOK
<1>6. /\ WaitingEmpty' /\ QueueBounded' /\ QueueEnd' /\ QueueLinked'
      BY <1>1 DEF Inv, WaitingEmpty, QueueBounded, QueueEnd, QueueLinked
<1>7. ResetNumbers'
      <2>1. /\ reset'[r].pc = "queue" => reset'[r].flush
            BY DEF CallReset, Inv, TypeOK
      <2>2. arrived' \in Nat /\ ended' <= arrived' /\ reset'[r].upto <= arrived'
            BY <1>1, <1>2 DEF Inv, TypeOK, ResetNumbers
      <2>3. ASSUME NEW s \in Resetters \ {r}
            PROVE  /\ reset'[s].upto <= arrived'
                   /\ reset'[s].upto # 0 => reset'[s].pc = "decoder" /\ reset'[s].flush
                   /\ reset'[s].pc = "queue" => reset'[s].flush
            BY <1>1, <1>2 DEF Inv, ResetNumbers
      <2> QED BY <1>2, <2>1, <2>2, <2>3 DEF ResetNumbers
<1>8. QueueFresh'
      BY <1>1, <1>4 DEF Inv, QueueFresh, Fresh
<1>9. /\ (Fresh(hand.id)' <=> Fresh(hand.id)) /\ (Follows(hand.id)' <=> Follows(hand.id))
      /\ (Fresh(decoder.last)' <=> Fresh(decoder.last))
      /\ (Follows(decoder.last)' <=> Follows(decoder.last))
      BY <1>1, <1>4 DEF Fresh, Follows
<1>10. HandLinked' /\ DecoderLinked'
      BY <1>1, <1>9 DEF Inv, HandLinked, DecoderLinked
<1> QED BY <1>5, <1>6, <1>7, <1>8, <1>10 DEF Inv

(* Everything that has arrived stops being fresh. *)
LEMMA DropQueueInv ==
    ASSUME Inv, NEW r \in Resetters, DropQueue(r)
    PROVE  Inv'
<1>1. /\ queue' = <<>> /\ waiting' = FALSE
      /\ UNCHANGED <<quit, arrived, dpc, hand, decoder, screen, ended>>
      BY DEF DropQueue
<1>2. /\ reset' \in [Resetters -> [pc : {"idle", "queue", "decoder"},
                                   clear : BOOLEAN, flush : BOOLEAN, upto : Nat]]
      /\ reset'[r].upto = arrived /\ reset'[r].pc = "decoder"
      /\ reset'[r].flush = reset[r].flush
      /\ \A s \in Resetters \ {r} : reset'[s] = reset[s]
      BY DEF DropQueue, Inv, TypeOK
<1>3. TypeOK'
      <2>1. queue' \in Seq(Payload)
            BY <1>1
      <2> QED BY <1>1, <1>2, <2>1 DEF Inv, TypeOK
<1>4. /\ WaitingEmpty' /\ QueueBounded' /\ QueueEnd' /\ QueueLinked' /\ QueueFresh'
      BY <1>1, ServerAssumption
      DEF WaitingEmpty, QueueBounded, QueueEnd, QueueLinked, QueueFresh
<1>5. /\ arrived \in Nat /\ hand'.id \in Nat /\ decoder'.last \in Nat
      /\ hand'.id <= arrived' /\ decoder'.last <= arrived'
      BY <1>1 DEF Inv, TypeOK, Payload, HandLinked, DecoderLinked
<1>6. ResetNumbers'
      <2>1. reset[r].flush
            BY DEF DropQueue, Inv, ResetNumbers
      <2>2. ended' <= arrived' /\ reset'[r].upto <= arrived' /\ reset'[r].flush
            BY <1>1, <1>2, <1>5, <2>1 DEF Inv, ResetNumbers
      <2> QED BY <1>1, <1>2, <2>2 DEF Inv, ResetNumbers
<1>7. ~Fresh(hand.id)' /\ ~Fresh(decoder.last)'
      BY <1>1, <1>2, <1>5 DEF Fresh
<1>8. HandLinked' /\ DecoderLinked'
      BY <1>5, <1>7 DEF HandLinked, DecoderLinked
<1> QED BY <1>3, <1>4, <1>6, <1>8 DEF Inv

(* The number the reset emptied the queue at moves from the thread's call  *)
(* to ended, so what is fresh stays fresh.                                 *)
LEMMA ResetOutputInv ==
    ASSUME Inv, NEW r \in Resetters, ResetOutput(r)
    PROVE  Inv'
<1>1. /\ UNCHANGED <<queue, waiting, quit, arrived, dpc, hand>>
      /\ decoder' \in {Flushed, decoder} /\ screen' \in {"empty", screen}
      /\ ended' = IF reset[r].upto > ended THEN reset[r].upto ELSE ended
      BY DEF ResetOutput
<1>2. /\ reset' \in [Resetters -> [pc : {"idle", "queue", "decoder"},
                                   clear : BOOLEAN, flush : BOOLEAN, upto : Nat]]
      /\ reset'[r] = Idle
      /\ \A s \in Resetters \ {r} : reset'[s] = reset[s]
      BY DEF ResetOutput, Inv, TypeOK, Idle
<1>3. /\ arrived \in Nat /\ ended \in Nat /\ \A s \in Resetters : reset[s].upto \in Nat
      BY DEF Inv, TypeOK
<1>4. /\ ended' \in Nat /\ ended' <= arrived /\ reset'[r].upto = 0
      /\ ended' >= ended /\ ended' >= reset[r].upto
      /\ ended' = ended \/ ended' = reset[r].upto
      BY <1>1, <1>2, <1>3 DEF Inv, ResetNumbers, Idle
<1>5. decoder' \in [last : Nat, whole : BOOLEAN]
      <2>1. Flushed \in [last : Nat, whole : BOOLEAN]
            BY DEF Flushed
      <2>2. decoder \in [last : Nat, whole : BOOLEAN]
            BY DEF Inv, TypeOK
      <2> QED BY <1>1, <2>1, <2>2
<1>6. TypeOK'
      BY <1>1, <1>2, <1>4, <1>5 DEF Inv, TypeOK
<1>7. ASSUME NEW id \in Nat
      PROVE  (id > ended' /\ \A s \in Resetters : id > reset'[s].upto) <=> Fresh(id)
      <2>1. ASSUME Fresh(id)
            PROVE  id > ended' /\ \A s \in Resetters : id > reset'[s].upto
            <3>1. id > ended /\ \A s \in Resetters : id > reset[s].upto
                  BY <2>1 DEF Fresh
            <3>2. id > 0
                  BY <1>3, <3>1
            <3> QED BY <1>2, <1>4, <3>1, <3>2
      <2>2. ASSUME id > ended', \A s \in Resetters : id > reset'[s].upto
            PROVE  Fresh(id)
            BY <1>2, <1>3, <1>4, <2>2 DEF Fresh
      <2> QED BY <2>1, <2>2
<1>8. /\ WaitingEmpty' /\ QueueBounded' /\ QueueEnd' /\ QueueLinked'
      BY <1>1 DEF Inv, WaitingEmpty, QueueBounded, QueueEnd, QueueLinked
<1>9. QueueFresh'
      <2> SUFFICES ASSUME NEW i \in 1..Len(queue)
                   PROVE  /\ queue[i].id <= arrived
                          /\ queue[i].id > ended' /\ \A s \in Resetters : queue[i].id > reset'[s].upto
          BY <1>1 DEF QueueFresh, Fresh
      <2>1. queue[i].id \in Nat
            <3>1. queue \in Seq(Payload)
                  BY DEF Inv, TypeOK
            <3>2. queue[i] \in Payload
                  BY <3>1
            <3> QED BY <3>2 DEF Payload
      <2>2. Fresh(queue[i].id) /\ queue[i].id <= arrived
            BY DEF Inv, QueueFresh
      <2> QED BY <1>7, <2>1, <2>2
<1>10. ResetNumbers'
      <2>1. /\ reset'[r].upto <= arrived' /\ reset'[r].upto = 0
            /\ reset'[r].pc # "queue"
            BY <1>1, <1>2, <1>3, <1>4 DEF Idle
      <2>2. ended' <= arrived'
            BY <1>1, <1>4
      <2>3. ASSUME NEW s \in Resetters \ {r}
            PROVE  /\ reset'[s].upto <= arrived'
                   /\ reset'[s].upto # 0 => reset'[s].pc = "decoder" /\ reset'[s].flush
                   /\ reset'[s].pc = "queue" => reset'[s].flush
            BY <1>1, <1>2 DEF Inv, ResetNumbers
      <2> QED BY <2>1, <2>2, <2>3 DEF ResetNumbers
<1>11. hand.id \in Nat /\ (Fresh(hand.id)' => Fresh(hand.id))
      <2>1. hand.id \in Nat
            BY DEF Inv, TypeOK, Payload
      <2> QED BY <1>1, <1>7, <2>1 DEF Fresh
<1>12. HandLinked'
      <2>1. Follows(hand.id)' <=> Follows(hand.id)
            BY <1>1 DEF Follows
      <2> QED BY <1>1, <1>11, <2>1 DEF Inv, HandLinked
<1>13. DecoderLinked'
      <2>1. CASE decoder' = Flushed
            <3>1. decoder'.last = 0
                  BY <2>1 DEF Flushed
            <3>2. ~Fresh(decoder.last)'
                  BY <1>4, <3>1 DEF Fresh
            <3> QED BY <1>1, <1>3, <3>1, <3>2 DEF DecoderLinked
      <2>2. CASE decoder' = decoder
            <3>1. decoder.last \in Nat
                  BY DEF Inv, TypeOK
            <3>2. Fresh(decoder.last)' => Fresh(decoder.last)
                  BY <1>7, <2>2, <3>1 DEF Fresh
            <3>3. Follows(decoder.last)' <=> Follows(decoder.last)
                  BY <1>1, <2>2 DEF Follows
            <3> QED BY <1>1, <2>2, <3>2, <3>3 DEF Inv, DecoderLinked
      <2> QED BY <1>1, <2>1, <2>2
<1> QED BY <1>6, <1>8, <1>9, <1>10, <1>12, <1>13 DEF Inv

LEMMA NextInv == Inv /\ [Next]_serverVars => Inv'
<1> SUFFICES ASSUME Inv, [Next]_serverVars PROVE Inv'
    OBVIOUS
<1>1. ASSUME NEW key \in BOOLEAN, Ingest(key) PROVE Inv'
      BY <1>1, IngestInv
<1>2. CASE DecodeThread
      BY <1>2, TakeInv, DecodeInv, QuietInv DEF DecodeThread
<1>3. ASSUME NEW r \in Resetters, NEW clear \in BOOLEAN, NEW flush \in BOOLEAN,
             CallReset(r, clear, flush)
      PROVE  Inv'
      BY <1>3, CallResetInv
<1>4. ASSUME NEW r \in Resetters, ResetStep(r) PROVE Inv'
      BY <1>4, DropQueueInv, ResetOutputInv DEF ResetStep
<1>5. CASE ItemFrame \/ Quit
      BY <1>5, QuietInv
<1>6. CASE UNCHANGED serverVars
      BY <1>6 DEF serverVars, Inv, TypeOK, WaitingEmpty, QueueBounded, QueueFresh, QueueEnd,
         QueueLinked, ResetNumbers, HandLinked, DecoderLinked, Fresh, Follows
<1> QED BY <1>1, <1>2, <1>3, <1>4, <1>5, <1>6 DEF Next

(* The inductive invariant holds in every behaviour of the specification.  *)
THEOREM Invariance == Spec => []Inv
<1> QED BY InitInv, NextInv, PTL DEF Spec

-----------------------------------------------------------------------------
(* Every variable keeps its type. *)
THEOREM ServerTypeCorrect == Spec => []TypeOK
<1>1. Inv => TypeOK
      BY DEF Inv
<1> QED BY <1>1, Invariance, PTL

(* The queue of compressed payloads never outgrows kMaxQueuedVideo, for    *)
(* any limit of at least one.                                              *)
THEOREM QueueStaysBounded == Spec => []QueueBounded
<1>1. Inv => QueueBounded
      BY DEF Inv
<1> QED BY <1>1, Invariance, PTL

(* After a reset the decode thread never takes a payload from before it.   *)
THEOREM NoEndedPayloadTaken == Spec => EndedNeverTaken
<1>1. Inv /\ [Next]_serverVars => [hand' # hand => hand'.id > ended]_serverVars
      <2> SUFFICES ASSUME Inv, Next, hand' # hand PROVE hand'.id > ended
          OBVIOUS
      <2>1. Take
            BY DEF Next, Ingest, DecodeThread, Decode, FrameOutput, Exit, CallReset, ResetStep,
               DropQueue, ResetOutput, ItemFrame, Quit
      <2>2. queue \in Seq(Payload) /\ queue # <<>> /\ hand' = queue[1]
            BY <2>1 DEF Take, Inv, TypeOK
      <2>3. 1 \in 1..Len(queue)
            BY <2>2
      <2> QED BY <2>2, <2>3 DEF Inv, QueueFresh, Fresh
<1> QED BY <1>1, Invariance, PTL DEF Spec, EndedNeverTaken

(* A picture loses its references only across a reset: dropping a backlog, *)
(* or decoding behind the sender, never damages it.                        *)
THEOREM BacklogNeverDamages == Spec => PictureWhole
<1> DEFINE Damaged == decoder.whole /\ ~decoder'.whole /\ decoder'.last # 0
           Across == \/ decoder.last <= ended
                     \/ \E r \in Resetters : reset[r].pc = "decoder" /\ reset[r].flush
<1>1. Inv /\ [Next]_serverVars => [Damaged => Across]_serverVars
      <2> SUFFICES ASSUME Inv, Next, Damaged PROVE Across
          OBVIOUS
      <2>1. decoder' # decoder /\ decoder' # Flushed
            BY DEF Flushed
      <2>2. Decode
            BY <2>1 DEF Next, Ingest, DecodeThread, Take, FrameOutput, Exit, CallReset,
               ResetStep, DropQueue, ResetOutput, ItemFrame, Quit
      <2>3. /\ dpc = "taken" /\ ~hand.key /\ decoder.last # 0
            /\ decoder.last + 1 # hand.id
            BY <2>1, <2>2 DEF Decode, Decoded
      <2>4. ~Fresh(decoder.last)
            BY <2>3 DEF Inv, DecoderLinked
      <2>5. /\ decoder.last \in Nat /\ ended \in Nat
            /\ \A r \in Resetters : reset[r].upto \in Nat
            BY DEF Inv, TypeOK
      <2>6. decoder.last <= ended \/ \E r \in Resetters : reset[r].upto # 0
            BY <2>3, <2>4, <2>5 DEF Fresh
      <2> QED BY <2>6 DEF Inv, ResetNumbers
<1> QED BY <1>1, Invariance, PTL DEF Spec, PictureWhole
=============================================================================
