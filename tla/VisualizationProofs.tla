------------------------- MODULE VisualizationProofs -------------------------
(***************************************************************************)
(* Proofs about the visualizer service and the planner's own visualizer.   *)
(*                                                                         *)
(* StreamSlot, for any number of streaming clients.  The properties are    *)
(* inductive together: who streams holds the slot, so an epilogue that     *)
(* clears the slot clears its own, and the push times it forgets are its   *)
(* own too.                                                                *)
(*                                                                         *)
(* DracoVisualizer, for any items, any size of the queue and any number of *)
(* items added: the newest items are never lost, and what the window shows *)
(* was drawn under the options whose scope it holds, which is never taken  *)
(* over another one.  Labels are handed out in order, so a queue is known  *)
(* by its last label and its length.  The list ends where the queue        *)
(* begins, unless the queue is full: only then may labels between the two  *)
(* have been dropped.                                                      *)
(*                                                                         *)
(* VisualObjects, for any threads, objects, frames and any number of       *)
(* requests: once all is run, the browser shows what is on record.  The    *)
(* last task in the queue that places an object, or the one thread about   *)
(* to queue such a task, carries the record, and so do the tasks behind it *)
(* that move the object; what the queue of tasks makes of the browser is   *)
(* found by induction over the queue.  Two requests for one object at a    *)
(* time break this argument, and only for that object.                     *)
(***************************************************************************)
EXTENDS StreamSlot, DracoVisualizer, VisualObjects, FiniteSetTheorems,
        SequenceTheorems, WellFoundedInduction, TLAPS

(* Whoever is in the slot got there by taking it: it streams, or it left    *)
(* by an exception.  Every other way out clears the slot.                   *)
SlotWasTaken ==
    slot # Nobody => Streaming(slot) \/ streamAt[slot] = "Thrown"

Inv ==
    /\ SlotTypeOK
    /\ StreamerOwnsSlot
    /\ SlotWasTaken
    /\ NoStaleActivity

LEMMA InitInv == SlotInit => Inv
BY NobodyAssumption DEF SlotInit, Inv, SlotTypeOK, Points, StreamerOwnsSlot,
   SlotWasTaken, NoStaleActivity, Streaming

(* Every variable keeps its type; that only a handler that got the slot is  *)
(* ever cancelled needs to know who can be in the slot.                     *)
LEMMA TypeStep == Inv /\ [SlotNext]_slotVars => SlotTypeOK'
<1> SUFFICES ASSUME Inv, [SlotNext]_slotVars PROVE SlotTypeOK'
  OBVIOUS
<1> USE NobodyAssumption DEF Inv, SlotTypeOK, Points, Enter, SlotWasTaken, Streaming
<1>1. CASE UNCHANGED slotVars
  BY <1>1 DEF slotVars
<1>2. ASSUME NEW s \in Streams, Step(s) PROVE SlotTypeOK'
  <2>1. CASE Evict(s)            BY <2>1 DEF Evict
  <2>2. CASE Take(s)             BY <2>2 DEF Take
  <2>3. CASE TakeByForce(s)      BY <2>3 DEF TakeByForce
  <2>4. CASE Packet(s)           BY <2>4 DEF Packet
  <2>5. CASE SetAccepted(s)      BY <2>5 DEF SetAccepted
  <2>6. CASE SetRejected(s)      BY <2>6 DEF SetRejected
  <2>7. CASE SetThrows(s)        BY <2>7 DEF SetThrows
  <2>8. CASE ReadEnds(s)         BY <2>8 DEF ReadEnds
  <2>9. CASE Epilogue(s)         BY <2>9 DEF Epilogue
  <2> QED
    BY <1>2, <2>1, <2>2, <2>3, <2>4, <2>5, <2>6, <2>7, <2>8, <2>9 DEF Step
<1> QED
  BY <1>1, <1>2 DEF SlotNext

(* The three properties carry one another over every step. *)
LEMMA InvStep == Inv /\ [SlotNext]_slotVars => Inv'
<1> SUFFICES ASSUME Inv, [SlotNext]_slotVars PROVE Inv'
  OBVIOUS
<1> USE DEF Inv
<1>0. SlotTypeOK'
  BY TypeStep
<1>1. CASE UNCHANGED slotVars
  BY <1>0, <1>1 DEF slotVars, StreamerOwnsSlot, SlotWasTaken,
     NoStaleActivity, Streaming
<1>2. ASSUME NEW s \in Streams, Step(s)
      PROVE  (StreamerOwnsSlot /\ SlotWasTaken /\ NoStaleActivity)'
  <2> USE NobodyAssumption DEF SlotTypeOK, Points, Enter, StreamerOwnsSlot,
          SlotWasTaken, NoStaleActivity, Streaming
  <2>1. CASE Evict(s)            BY <2>1 DEF Evict
  <2>2. CASE Take(s)             BY <2>2 DEF Take
  <2>3. CASE TakeByForce(s)      BY <2>3 DEF TakeByForce
  <2>4. CASE Packet(s)           BY <2>4 DEF Packet
  <2>5. CASE SetAccepted(s)      BY <2>5 DEF SetAccepted
  <2>6. CASE SetRejected(s)      BY <2>6 DEF SetRejected
  <2>7. CASE SetThrows(s)        BY <2>7 DEF SetThrows
  <2>8. CASE ReadEnds(s)         BY <2>8 DEF ReadEnds
  <2>9. CASE Epilogue(s)         BY <2>9 DEF Epilogue
  <2> QED
    BY <1>2, <2>1, <2>2, <2>3, <2>4, <2>5, <2>6, <2>7, <2>8, <2>9 DEF Step
<1> QED
  BY <1>0, <1>1, <1>2 DEF SlotNext

(* Types; one streamer unless a takeover was forced; and then the push      *)
(* times are those of the stream in the slot, even where a handler left by  *)
(* an exception.                                                            *)
THEOREM SlotSafety ==
    SlotSpec => []SlotTypeOK /\ []StreamerOwnsSlot /\ []NoStaleActivity
<1>1. Inv => SlotTypeOK /\ StreamerOwnsSlot /\ NoStaleActivity
  BY DEF Inv
<1> QED
  BY InitInv, InvStep, <1>1, PTL DEF SlotSpec

(* Mutual exclusion, said of pairs: as long as no takeover was forced, two  *)
(* handlers that stream are the same handler.                               *)
THEOREM OneStreamAtATime ==
    SlotSpec => [](~forced => \A s, t \in Streams :
                              Streaming(s) /\ Streaming(t) => s = t)
<1>1. Inv => (~forced => \A s, t \in Streams :
                             Streaming(s) /\ Streaming(t) => s = t)
  BY DEF Inv, StreamerOwnsSlot
<1> QED
  BY InitInv, InvStep, <1>1, PTL DEF SlotSpec

-----------------------------------------------------------------------------
(* DracoVisualizer. *)

\* The labels up to e, as many as s is long.
Recent(s, e) ==
  /\ s \in Seq(Nat) /\ Len(s) <= e
  /\ \A i \in 1 .. Len(s) : s[i] = (e - Len(s)) + i

ListedUpTo(e) ==
  /\ e + Len(incoming) <= counter
  /\ Recent(order, e)
  /\ Len(order) = IF e < MaxQueueSize THEN e ELSE MaxQueueSize
  /\ Len(incoming) < MaxQueueSize => e + Len(incoming) = counter

Queues ==
  /\ counter \in Nat
  /\ Recent(incoming, counter) /\ Len(incoming) <= MaxQueueSize
  /\ \E e \in Nat : ListedUpTo(e)
  /\ listed = {order[i] : i \in DOMAIN order}

Buttons ==
  /\ buttons \subseteq listed
  /\ window \in {"wait", "look", "clear", "redraw"} => buttons = listed

Labels == {NoItem} \cup 1 .. counter

\* Where the scope stands while an item is dealt with ...
Scoped ==
  /\ window \in {"wait", "look"} => clickedLabel = NoItem
  /\ window \in {"release", "apply", "display", "play", "restore"} =>
       clickedLabel # NoItem
  /\ window \in {"apply", "redraw"} => scope = NoItem
  /\ window \in {"display", "play", "restore"} => scope = clickedLabel
  /\ inEffect = OptionsOf(scope)

\* ... and what has been drawn under it.
Drawn ==
  /\ \/ window = "play"
     \/ window = "restore" /\ added[clickedLabel].kind = "configuration"
     => onShow = scope /\ drawnUnder = inEffect
  /\ ShownUnderItsOptions

Shown ==
  /\ DOMAIN added = 1 .. counter
  /\ onShow \in Labels /\ scope \in Labels /\ clickedLabel \in Labels
  /\ Scoped /\ Drawn

DisplayInv == Queues /\ Buttons /\ Shown

-----------------------------------------------------------------------------
LEMMA ListedAreLabels ==
    ASSUME Queues
    PROVE  listed \subseteq 1 .. counter
<1> SUFFICES ASSUME NEW i \in DOMAIN order
             PROVE  order[i] \in 1 .. counter
  BY DEF Queues
<1>1. PICK e \in Nat : ListedUpTo(e)
  BY DEF Queues
<1>2. /\ i \in 1 .. Len(order) /\ Len(order) <= e /\ Len(order) \in Nat
      /\ order[i] = (e - Len(order)) + i
  <2>1. /\ order \in Seq(Nat) /\ Len(order) <= e
        /\ \A j \in 1 .. Len(order) : order[j] = (e - Len(order)) + j
    BY <1>1 DEF ListedUpTo, Recent
  <2>2. Len(order) \in Nat /\ DOMAIN order = 1 .. Len(order)
    BY <2>1
  <2> QED
    BY <2>1, <2>2
<1>3. e <= counter /\ counter \in Nat
  BY <1>1 DEF ListedUpTo, Queues, Recent
<1> QED
  BY <1>2, <1>3

LEMMA AddKeepsQueues ==
    ASSUME Queues, NEW item, Add(item)
    PROVE  Queues'
<1>0. MaxQueueSize \in Nat \ {0}
  BY ItemsAssumption DEF ItemsAssumption
<1> USE <1>0
<1> DEFINE kept == IF Len(incoming) >= MaxQueueSize THEN Tail(incoming) ELSE incoming
<1>1. /\ counter \in Nat /\ counter' = counter + 1
      /\ incoming' = Append(kept, counter') /\ UNCHANGED <<order, listed>>
  BY DEF Queues, Add
<1>2. /\ incoming \in Seq(Nat) /\ Len(incoming) \in Nat /\ Len(incoming) <= counter
      /\ \A i \in 1 .. Len(incoming) : incoming[i] = (counter - Len(incoming)) + i
      /\ Len(incoming) <= MaxQueueSize
  BY DEF Queues, Recent
<1>3. /\ kept \in Seq(Nat) /\ Len(kept) \in Nat /\ Len(kept) < MaxQueueSize
      /\ Len(kept) <= counter
      /\ \A i \in 1 .. Len(kept) : kept[i] = (counter - Len(kept)) + i
  <2>1. CASE Len(incoming) >= MaxQueueSize
    <3>1. /\ incoming # <<>> /\ kept = Tail(incoming)
          /\ Len(kept) = Len(incoming) - 1 /\ kept \in Seq(Nat)
          /\ \A i \in 1 .. Len(kept) : kept[i] = incoming[i + 1]
      BY <1>2, <2>1
    <3> QED
      BY <1>1, <1>2, <2>1, <3>1
  <2>2. CASE ~(Len(incoming) >= MaxQueueSize)
    BY <1>2, <2>2
  <2> QED
    BY <2>1, <2>2
<1>4. /\ incoming' \in Seq(Nat) /\ Len(incoming') = Len(kept) + 1
      /\ \A i \in 1 .. Len(kept) : incoming'[i] = kept[i]
      /\ incoming'[Len(kept) + 1] = counter + 1
  <2> HIDE DEF kept
  <2> QED
    BY <1>1, <1>3
<1>5. Recent(incoming, counter)' /\ Len(incoming') <= MaxQueueSize
  <2> HIDE DEF kept
  <2>1. ASSUME NEW i \in 1 .. Len(incoming')
        PROVE  incoming'[i] = (counter' - Len(incoming')) + i
    <3>1. CASE i = Len(kept) + 1
      BY <1>1, <1>3, <1>4, <3>1
    <3>2. CASE i # Len(kept) + 1
      <4>1. i \in 1 .. Len(kept)
        BY <1>3, <1>4, <3>2
      <4> QED
        BY <1>1, <1>3, <1>4, <4>1
    <3> QED
      BY <3>1, <3>2
  <2> QED
    BY <1>1, <1>3, <1>4, <2>1 DEF Recent
<1>6. PICK e \in Nat : ListedUpTo(e)
  BY DEF Queues
<1>7. ListedUpTo(e)'
  <2>1. e + Len(incoming') <= counter'
        /\ (Len(incoming') < MaxQueueSize => e + Len(incoming') = counter')
    <3>1. CASE Len(incoming) >= MaxQueueSize
      <4>1. Len(kept) = Len(incoming) - 1 /\ Len(incoming) = MaxQueueSize
        BY <1>2, <3>1
      <4> QED
        BY <1>1, <1>2, <1>4, <1>6, <4>1 DEF ListedUpTo
    <3>2. CASE ~(Len(incoming) >= MaxQueueSize)
      BY <1>1, <1>2, <1>4, <1>6, <3>2 DEF ListedUpTo
    <3> QED
      BY <3>1, <3>2
  <2> QED
    BY <1>1, <1>6, <2>1 DEF ListedUpTo, Recent
<1>8. counter' \in Nat /\ listed' = {order'[i] : i \in DOMAIN order'}
  BY <1>1 DEF Queues
<1> QED
  BY <1>5, <1>6, <1>7, <1>8, Zenon DEF Queues

LEMMA DrainKeepsQueues ==
    ASSUME Queues, Buttons, Drain
    PROVE  Queues' /\ Buttons'
<1>0. MaxQueueSize \in Nat \ {0}
  BY ItemsAssumption DEF ItemsAssumption
<1> USE <1>0
<1> DEFINE all == order \o incoming
           drop == IF Len(all) > MaxQueueSize THEN Len(all) - MaxQueueSize ELSE 0
           gone == {all[i] : i \in 1 .. drop}
           fresh == {incoming[i] : i \in DOMAIN incoming}
<1>1. /\ order' = SubSeq(all, drop + 1, Len(all))
      /\ listed' = (listed \cup fresh) \ gone
      /\ buttons' = (buttons \cup fresh) \ gone
      /\ incoming' = <<>> /\ counter' = counter /\ window = "wait"
  BY DEF Drain
<1>2. PICK e \in Nat : ListedUpTo(e)
  BY DEF Queues
<1>3. /\ order \in Seq(Nat) /\ Len(order) \in Nat /\ Len(order) <= e
      /\ DOMAIN order = 1 .. Len(order)
      /\ \A i \in 1 .. Len(order) : order[i] = (e - Len(order)) + i
      /\ Len(order) = IF e < MaxQueueSize THEN e ELSE MaxQueueSize
  BY <1>2 DEF ListedUpTo, Recent
<1>4. /\ incoming \in Seq(Nat) /\ Len(incoming) \in Nat /\ Len(incoming) <= counter
      /\ DOMAIN incoming = 1 .. Len(incoming)
      /\ \A i \in 1 .. Len(incoming) : incoming[i] = (counter - Len(incoming)) + i
      /\ Len(incoming) <= MaxQueueSize /\ counter \in Nat
  BY DEF Queues, Recent
<1>5. /\ e + Len(incoming) <= counter
      /\ Len(incoming) < MaxQueueSize => e + Len(incoming) = counter
  BY <1>2 DEF ListedUpTo
<1>5a. /\ Len(incoming) \in Nat /\ Len(incoming) <= MaxQueueSize
       /\ MaxQueueSize \in Nat /\ counter \in Nat
  BY <1>4
<1>6. /\ all \in Seq(Nat) /\ Len(all) = Len(order) + Len(incoming)
      /\ \A i \in 1 .. Len(order) : all[i] = (e - Len(order)) + i
      /\ \A i \in 1 .. Len(incoming) :
           all[Len(order) + i] = (counter - Len(incoming)) + i
  <2>1. /\ all \in Seq(Nat) /\ Len(all) = Len(order) + Len(incoming)
        /\ \A i \in 1 .. Len(order) : all[i] = order[i]
        /\ \A i \in 1 .. Len(incoming) : all[Len(order) + i] = incoming[i]
    <3>1. all \in Seq(Nat) /\ Len(all) = Len(order) + Len(incoming)
      BY <1>3, <1>4, ConcatProperties
    <3>2. \A i \in 1 .. Len(all) :
            all[i] = IF i <= Len(order) THEN order[i] ELSE incoming[i - Len(order)]
      BY <1>3, <1>4, <3>1, ConcatProperties
    <3>3. ASSUME NEW i \in 1 .. Len(order) PROVE all[i] = order[i]
      <4>1. i \in 1 .. Len(all) /\ i <= Len(order)
        BY <1>3, <1>4, <3>1
      <4> QED
        BY <3>2, <4>1
    <3>4. ASSUME NEW i \in 1 .. Len(incoming)
          PROVE  all[Len(order) + i] = incoming[i]
      <4>1. /\ Len(order) + i \in 1 .. Len(all) /\ ~(Len(order) + i <= Len(order))
            /\ (Len(order) + i) - Len(order) = i
        BY <1>3, <1>4, <3>1
      <4> QED
        BY <3>2, <4>1
    <3> QED
      BY <3>1, <3>3, <3>4
  <2> HIDE DEF all
  <2> QED
    BY <1>3, <1>4, <2>1
<1>7. Len(all) \in Nat
  BY <1>3, <1>4, <1>6
<1> HIDE DEF all
<1>8. drop \in Nat /\ drop <= Len(all) /\ Len(all) <= drop + MaxQueueSize
      /\ (drop > 0 => Len(all) = drop + MaxQueueSize)
  BY <1>7
<1> HIDE DEF drop
(* What stays: the newest up to the counter. *)
<1>9. ASSUME NEW i \in 1 .. Len(all), i > drop
      PROVE  all[i] = (counter - Len(all)) + i
  <2>1. CASE i > Len(order)
    <3>1. i - Len(order) \in 1 .. Len(incoming)
      BY <1>3, <1>4, <1>6, <2>1
    <3>2. all[Len(order) + (i - Len(order))]
            = (counter - Len(incoming)) + (i - Len(order))
      BY <1>6, <3>1
    <3>3. Len(order) + (i - Len(order)) = i
      BY <1>3
    <3> QED
      BY <1>3, <1>4, <1>6, <3>2, <3>3
  <2>2. CASE ~(i > Len(order))
    <3>1. i \in 1 .. Len(order)
      BY <1>3, <2>2
    <3>2. Len(incoming) < MaxQueueSize
      BY <1>3, <1>4, <1>6, <1>8, <1>9, <3>1
    <3>3. all[i] = (e - Len(order)) + i /\ e + Len(incoming) = counter
      BY <1>5, <1>6, <3>1, <3>2
    <3>4. Len(all) = Len(order) + Len(incoming)
      BY <1>6
    <3>5. e \in Nat /\ i \in Nat /\ Len(order) \in Nat
      BY <1>3, <3>1
    <3> QED
      BY <1>5a, <3>3, <3>4, <3>5
  <2> QED
    BY <2>1, <2>2
(* What goes is older. *)
<1>10. ASSUME NEW i \in 1 .. drop
       PROVE  all[i] < (counter - Len(all)) + drop + 1
  <2>1. i \in 1 .. Len(order)
    BY <1>3, <1>4, <1>6, <1>8
  <2>2. all[i] = (e - Len(order)) + i
    BY <1>6, <2>1
  <2> QED
    BY <1>3, <1>4, <1>5, <1>6, <1>8, <2>1, <2>2
<1>11. /\ order' \in Seq(Nat) /\ Len(order') = Len(all) - drop
       /\ \A i \in 1 .. Len(order') : order'[i] = all[i + drop]
  <2>1. order' \in Seq(Nat)
    BY <1>1, <1>6, <1>7, <1>8
  <2>2. Len(order') = Len(all) - drop
    BY <1>1, <1>6, <1>7, <1>8
  <2>3. ASSUME NEW i \in 1 .. Len(order')
        PROVE  order'[i] = all[i + drop]
    BY <1>1, <1>6, <1>7, <1>8, <2>2, <2>3
  <2> QED
    BY <2>1, <2>2, <2>3
<1>12. \A i \in 1 .. Len(order') : order'[i] = (counter - Len(order')) + i
  <2> SUFFICES ASSUME NEW i \in 1 .. Len(order')
               PROVE  order'[i] = (counter - Len(order')) + i
    OBVIOUS
  <2>1. i + drop \in 1 .. Len(all) /\ i + drop > drop
    BY <1>7, <1>8, <1>11
  <2>2. all[i + drop] = (counter - Len(all)) + (i + drop)
    BY <1>9, <2>1
  <2> QED
    BY <1>4, <1>7, <1>8, <1>11, <2>2
<1>13. Len(order') = IF counter < MaxQueueSize THEN counter ELSE MaxQueueSize
  <2>1. Len(order') = Len(all) - drop /\ Len(all) = Len(order) + Len(incoming)
    BY <1>6, <1>11
  <2>2. CASE Len(incoming) = MaxQueueSize
    <3>1. Len(all) = drop + MaxQueueSize
      BY <1>3, <1>4, <1>8, <2>1, <2>2
    <3>2. Len(order') = MaxQueueSize
      BY <1>8, <2>1, <3>1
    <3> QED
      BY <1>4, <2>2, <3>2
  <2>3. CASE Len(incoming) # MaxQueueSize
    <3>1. e + Len(incoming) = counter
      <4>1. Len(incoming) < MaxQueueSize
        BY <1>5a, <2>3
      <4> QED
        BY <1>5, <4>1
    <3>2. CASE drop > 0
      BY <1>3, <1>4, <1>8, <2>1, <3>1, <3>2
    <3>3. CASE ~(drop > 0)
      <4>1. drop = 0 /\ Len(order') = Len(order) + Len(incoming)
            /\ Len(order) + Len(incoming) <= MaxQueueSize
        BY <1>3, <1>5a, <1>8, <2>1, <3>3
      <4>2. CASE e < MaxQueueSize
        BY <1>3, <1>5a, <3>1, <4>1, <4>2
      <4>3. CASE ~(e < MaxQueueSize)
        <5>1. Len(order) = MaxQueueSize /\ Len(incoming) = 0
          BY <1>3, <1>5a, <4>1, <4>3
        <5> QED
          BY <1>5a, <3>1, <4>1, <4>3, <5>1
      <4> QED
        BY <4>2, <4>3
    <3> QED
      BY <3>2, <3>3
  <2> QED
    BY <2>2, <2>3
<1>14. Recent(order', counter')
  <2>1. Len(order') <= counter
    BY <1>4, <1>13
  <2> QED
    BY <1>1, <1>11, <1>12, <2>1 DEF Recent
<1>15. ListedUpTo(counter)'
  BY <1>1, <1>4, <1>13, <1>14 DEF ListedUpTo, Recent
<1>16. listed \cup fresh = {all[i] : i \in 1 .. Len(all)}
  <2>1. listed = {order[i] : i \in 1 .. Len(order)}
    BY <1>3 DEF Queues
  <2>2. \A i \in 1 .. Len(order) : all[i] = order[i]
    BY <1>3, <1>6
  <2>3. \A i \in 1 .. Len(incoming) : all[Len(order) + i] = incoming[i]
    BY <1>4, <1>6
  <2>4. ASSUME NEW i \in 1 .. Len(all) PROVE all[i] \in listed \cup fresh
    <3>1. CASE i \in 1 .. Len(order)
      BY <2>1, <2>2, <3>1
    <3>2. CASE i \notin 1 .. Len(order)
      <4>1. i - Len(order) \in 1 .. Len(incoming)
            /\ Len(order) + (i - Len(order)) = i
        BY <1>3, <1>4, <1>6, <3>2
      <4>2. all[i] = incoming[i - Len(order)]
        BY <2>3, <4>1
      <4> QED
        BY <1>4, <4>1, <4>2
    <3> QED
      BY <3>1, <3>2
  <2>5. listed \subseteq {all[i] : i \in 1 .. Len(all)}
    <3>1. \A i \in 1 .. Len(order) : i \in 1 .. Len(all)
      BY <1>3, <1>4, <1>6
    <3> QED
      BY <2>1, <2>2, <3>1
  <2>6. fresh \subseteq {all[i] : i \in 1 .. Len(all)}
    <3>1. \A i \in 1 .. Len(incoming) : Len(order) + i \in 1 .. Len(all)
      BY <1>3, <1>4, <1>6
    <3> QED
      BY <1>4, <2>3, <3>1
  <2> QED
    BY <2>4, <2>5, <2>6
<1>17. {all[i] : i \in 1 .. Len(all)} \ gone = {order'[i] : i \in 1 .. Len(order')}
  <2>1. ASSUME NEW i \in 1 .. Len(all), all[i] \notin gone
        PROVE  all[i] \in {order'[j] : j \in 1 .. Len(order')}
    <3>1. i \notin 1 .. drop
      BY <2>1
    <3>2. i - drop \in 1 .. Len(order') /\ (i - drop) + drop = i
      BY <1>7, <1>8, <1>11, <3>1
    <3>3. order'[i - drop] = all[i]
      BY <1>11, <3>2
    <3> QED
      BY <3>2, <3>3
  <2>2. ASSUME NEW i \in 1 .. Len(order')
        PROVE  order'[i] \in {all[j] : j \in 1 .. Len(all)} \ gone
    <3>1. i + drop \in 1 .. Len(all) /\ i + drop > drop
      BY <1>7, <1>8, <1>11
    <3>2. order'[i] = all[i + drop] /\ order'[i] = (counter - Len(all)) + (i + drop)
      BY <1>9, <1>11, <3>1
    <3>3. ASSUME NEW j \in 1 .. drop
          PROVE  all[j] # order'[i]
      <4>1. j \in 1 .. Len(all) /\ all[j] \in Nat
        BY <1>6, <1>7, <1>8
      <4> QED
        BY <1>4, <1>7, <1>8, <1>10, <3>2, <4>1
    <3> QED
      BY <3>1, <3>2, <3>3
  <2> QED
    BY <2>1, <2>2
<1>18. listed' = {order'[i] : i \in 1 .. Len(order')}
  BY <1>1, <1>16, <1>17
<1>19. DOMAIN order' = 1 .. Len(order')
  BY <1>11
<1>20. Recent(incoming, counter)' /\ Len(incoming') <= MaxQueueSize
  BY <1>1, <1>4 DEF Recent
<1>21. Queues'
  BY <1>1, <1>4, <1>15, <1>18, <1>19, <1>20 DEF Queues
<1>22. Buttons'
  <2>1. buttons = listed
    BY <1>1 DEF Buttons
  <2> QED
    BY <1>1, <2>1 DEF Buttons
<1> QED
  BY <1>21, <1>22

(* The steps of the thread that touch neither the queue nor the list. *)
LEMMA QueuesUnchanged ==
    ASSUME Queues, UNCHANGED <<counter, incoming, order, listed>>
    PROVE  Queues'
<1>1. PICK e \in Nat : ListedUpTo(e)
  BY DEF Queues
<1>2. ListedUpTo(e)'
  BY <1>1 DEF ListedUpTo, Recent
<1> QED
  BY <1>1, <1>2 DEF Queues, Recent

LEMMA InitEstablishes ==
    ASSUME DisplayInit
    PROVE  DisplayInv
<1>0. MaxQueueSize \in Nat \ {0}
  BY ItemsAssumption DEF ItemsAssumption
<1> USE <1>0
<1> USE DEF DisplayInit
<1>1. Recent(<<>>, 0)
  BY DEF Recent
<1>2. ListedUpTo(0)
  BY <1>1 DEF ListedUpTo
<1>3. Queues
  BY <1>1, <1>2 DEF Queues
<1>4. Buttons /\ Shown
  BY DEF Buttons, Shown, Scoped, Drawn, Labels, ShownUnderItsOptions, OptionsOf,
     NoItem
<1> QED
  BY <1>3, <1>4 DEF DisplayInv

(* A new label is none of those in use. *)
LEMMA AddKeepsShown ==
    ASSUME Shown, counter \in Nat, NEW item, Add(item)
    PROVE  Shown'
<1>1. /\ counter' = counter + 1
      /\ UNCHANGED <<scope, inEffect, clickedLabel, onShow, drawnUnder, window,
                     hasDefault>>
      /\ added' = [l \in DOMAIN added \cup {counter'} |->
                     IF l = counter' THEN item ELSE added[l]]
  BY DEF Add, optionVars, drawVars
<1>2. /\ DOMAIN added' = 1 .. counter'
      /\ \A l \in 1 .. counter : added'[l] = added[l]
  <2>1. 1 .. counter \cup {counter'} = 1 .. counter'
    BY <1>1
  <2>2. \A l \in 1 .. counter : l # counter'
    BY <1>1
  <2> QED
    BY <1>1, <2>1, <2>2 DEF Shown
<1>3. \A l \in Labels : l \in Labels' /\ OptionsOf(l)' = OptionsOf(l)
  BY <1>1, <1>2 DEF Labels, OptionsOf, NoItem
<1>4. Scoped'
  <2>1. OptionsOf(scope)' = OptionsOf(scope)
    BY <1>1, <1>3 DEF Shown, OptionsOf
  <2> QED
    BY <1>1, <2>1 DEF Shown, Scoped
<1>5. Drawn'
  <2>1. OptionsOf(scope)' = OptionsOf(scope)
    BY <1>1, <1>3 DEF Shown, OptionsOf
  <2>2. window = "restore" => added'[clickedLabel] = added[clickedLabel]
    BY <1>2 DEF Shown, Scoped, Labels
  <2> QED
    BY <1>1, <2>1, <2>2 DEF Shown, Drawn, ShownUnderItsOptions
<1> QED
  BY <1>1, <1>2, <1>3, <1>4, <1>5 DEF Shown

(* What is chosen is listed, and so has a label. *)
LEMMA ShowKeepsShown ==
    ASSUME Shown, counter \in Nat, listed \subseteq 1 .. counter, NEW l, Show(l)
    PROVE  Shown'
<1>1. l \in Labels /\ l # NoItem
  <2>1. l \in 1 .. counter
    BY DEF Show
  <2> QED
    BY <2>1 DEF Labels, NoItem
<1> QED
  BY <1>1 DEF Show, Shown, Scoped, Drawn, Labels, ShownUnderItsOptions,
     OptionsOf, queueVars, optionVars, drawVars

LEMMA StepPreserves ==
    ASSUME DisplayInv, [DisplayNext]_windowVars
    PROVE  DisplayInv'
<1> USE DEF DisplayInv, queueVars, optionVars, drawVars
<1>0. counter \in Nat /\ listed \subseteq 1 .. counter
  BY ListedAreLabels DEF Queues
<1>1. ASSUME NEW item \in Items, Add(item)
      PROVE  DisplayInv'
  <2>1. Queues'
    BY <1>1, AddKeepsQueues
  <2>2. Buttons'
    BY <1>1 DEF Add, Buttons
  <2> QED
    BY <1>0, <1>1, <2>1, <2>2, AddKeepsShown
<1>2. CASE Drain
  <2>1. Shown'
    BY <1>2 DEF Drain, Shown, Scoped, Drawn, Labels, ShownUnderItsOptions,
       OptionsOf
  <2> QED
    BY <1>2, <2>1, DrainKeepsQueues
<1>3. ASSUME NEW l \in 1 .. MaxItems, Show(l)
      PROVE  DisplayInv'
  <2>1. Queues' /\ Buttons'
    BY <1>3, QueuesUnchanged DEF Show, Buttons
  <2> QED
    BY <1>0, <1>3, <2>1, ShowKeepsShown
(* The other steps leave the queue alone, and all but one the buttons. *)
<1>4. ASSUME NEW l \in 1 .. MaxItems, Click(l)
      PROVE  DisplayInv'
  <2>1. Queues' /\ Buttons'
    BY <1>4, QueuesUnchanged DEF Click, Buttons
  <2>2. Shown'
    BY <1>4 DEF Click, Shown, Scoped, Drawn, Labels, ShownUnderItsOptions,
       OptionsOf
  <2> QED
    BY <2>1, <2>2
<1>5. CASE ResetByButton
  <2>1. Queues' /\ Buttons'
    BY <1>5, QueuesUnchanged DEF ResetByButton, Buttons
  <2>2. Shown'
    BY <1>5 DEF ResetByButton, Shown, Scoped, Drawn, Labels, ShownUnderItsOptions,
       OptionsOf
  <2> QED
    BY <2>1, <2>2
<1>6. CASE NothingClicked
  <2>1. Queues' /\ Buttons'
    BY <1>6, QueuesUnchanged DEF NothingClicked, Buttons
  <2>2. Shown'
    BY <1>6 DEF NothingClicked, Shown, Scoped, Drawn, Labels, ShownUnderItsOptions,
       OptionsOf
  <2> QED
    BY <2>1, <2>2
<1>7. CASE ReleaseLast
  <2>1. Queues' /\ Buttons'
    BY <1>7, QueuesUnchanged DEF ReleaseLast, Buttons
  <2>2. Shown'
    BY <1>7 DEF ReleaseLast, Shown, Scoped, Drawn, Labels, ShownUnderItsOptions,
       OptionsOf
  <2> QED
    BY <2>1, <2>2
<1>8. CASE ApplySnapshot
  <2>1. Queues' /\ Buttons'
    BY <1>8, QueuesUnchanged DEF ApplySnapshot, Buttons
  <2>2. Shown'
    BY <1>8 DEF ApplySnapshot, Shown, Scoped, Drawn, Labels, ShownUnderItsOptions,
       OptionsOf
  <2> QED
    BY <2>1, <2>2
<1>9. CASE Display
  <2>1. Queues' /\ Buttons'
    BY <1>9, QueuesUnchanged DEF Display, Buttons
  <2>2. Shown'
    BY <1>9 DEF Display, Shown, Scoped, Drawn, Labels, ShownUnderItsOptions,
       OptionsOf
  <2> QED
    BY <2>1, <2>2
<1>10. CASE EndOfPlay
  <2>1. Queues' /\ Buttons'
    BY <1>10, QueuesUnchanged DEF EndOfPlay, Buttons
  <2>2. Shown'
    BY <1>10 DEF EndOfPlay, Shown, Scoped, Drawn, Labels, ShownUnderItsOptions,
       OptionsOf
  <2> QED
    BY <2>1, <2>2
<1>11. CASE Restore
  <2>1. Queues' /\ Buttons'
    BY <1>11, QueuesUnchanged DEF Restore, Buttons
  <2>2. Shown'
    BY <1>11 DEF Restore, Shown, Scoped, Drawn, Labels, ShownUnderItsOptions,
       OptionsOf
  <2> QED
    BY <2>1, <2>2
<1>12. CASE Clear
  <2>1. Queues' /\ Buttons'
    BY <1>12, QueuesUnchanged DEF Clear, Buttons
  <2>2. Shown'
    BY <1>12 DEF Clear, Shown, Scoped, Drawn, Labels, ShownUnderItsOptions,
       OptionsOf
  <2> QED
    BY <2>1, <2>2
<1>13. CASE Redraw
  <2>1. Queues' /\ Buttons'
    BY <1>13, QueuesUnchanged DEF Redraw, Buttons
  <2>2. Shown'
    BY <1>13 DEF Redraw, Shown, Scoped, Drawn, Labels, ShownUnderItsOptions,
       OptionsOf
  <2> QED
    BY <2>1, <2>2
<1>14. CASE Kill
  <2>1. Queues' /\ Buttons'
    BY <1>14, QueuesUnchanged DEF Kill, Buttons
  <2>2. Shown'
    BY <1>14 DEF Kill, Shown, Scoped, Drawn, Labels, ShownUnderItsOptions,
       OptionsOf
  <2> QED
    BY <2>1, <2>2
<1>15. CASE DisplayEnds
  <2>1. Queues' /\ Buttons'
    BY <1>15, QueuesUnchanged DEF DisplayEnds, Buttons
  <2>2. Shown'
    BY <1>15 DEF DisplayEnds, Shown, Scoped, Drawn, Labels, ShownUnderItsOptions,
       OptionsOf
  <2> QED
    BY <2>1, <2>2
<1>16. CASE UNCHANGED windowVars
  <2>1. Queues' /\ Buttons'
    BY <1>16, QueuesUnchanged DEF windowVars, Buttons
  <2>2. Shown'
    BY <1>16 DEF windowVars, Shown, Scoped, Drawn, Labels, ShownUnderItsOptions,
       OptionsOf
  <2> QED
    BY <2>1, <2>2
<1> QED
  BY <1>1, <1>2, <1>3, <1>4, <1>5, <1>6, <1>7, <1>8, <1>9, <1>10, <1>11, <1>12,
     <1>13, <1>14, <1>15, <1>16
     DEF DisplayNext

THEOREM DisplayInvariant == DisplaySpec => []DisplayInv
<1>1. DisplayInit => DisplayInv
  BY InitEstablishes
<1>2. DisplayInv /\ [DisplayNext]_windowVars => DisplayInv'
  BY StepPreserves
<1> QED
  BY <1>1, <1>2, PTL DEF DisplaySpec

-----------------------------------------------------------------------------
LEMMA NothingNewIsLost ==
    ASSUME DisplayInv
    PROVE  NewestItemsStay
<1>0. MaxQueueSize \in Nat \ {0}
  BY ItemsAssumption DEF ItemsAssumption
<1> USE <1>0
<1>1. PICK e \in Nat : ListedUpTo(e)
  BY DEF DisplayInv, Queues
<1>2. /\ order \in Seq(Nat) /\ Len(order) \in Nat /\ Len(order) <= e
      /\ DOMAIN order = 1 .. Len(order)
      /\ \A i \in 1 .. Len(order) : order[i] = (e - Len(order)) + i
      /\ Len(order) = IF e < MaxQueueSize THEN e ELSE MaxQueueSize
  BY <1>1 DEF ListedUpTo, Recent
<1>3. /\ Len(incoming) \in Nat /\ Len(incoming) <= counter
      /\ DOMAIN incoming = 1 .. Len(incoming)
      /\ \A i \in 1 .. Len(incoming) : incoming[i] = (counter - Len(incoming)) + i
      /\ Len(incoming) <= MaxQueueSize /\ counter \in Nat
  BY DEF DisplayInv, Queues, Recent
<1>4. listed = {order[i] : i \in 1 .. Len(order)}
  BY <1>2 DEF DisplayInv, Queues
<1>5. ASSUME NEW l \in 1 .. counter, l + MaxQueueSize > counter
      PROVE  l \in listed \/ \E i \in DOMAIN incoming : incoming[i] = l
  <2>1. CASE l > counter - Len(incoming)
    <3> DEFINE i == l - (counter - Len(incoming))
    <3>1. i \in 1 .. Len(incoming) /\ (counter - Len(incoming)) + i = l
      BY <1>3, <2>1
    <3> QED
      BY <1>3, <3>1
  <2>2. CASE ~(l > counter - Len(incoming))
    <3> DEFINE i == l - (e - Len(order))
    <3>1. Len(incoming) < MaxQueueSize
      BY <1>3, <1>5, <2>2
    <3>2. e + Len(incoming) = counter
      BY <1>1, <3>1 DEF ListedUpTo
    <3>3. i \in 1 .. Len(order) /\ (e - Len(order)) + i = l
      BY <1>2, <1>3, <1>5, <2>2, <3>2
    <3>4. order[i] = l
      BY <1>2, <3>3
    <3> QED
      BY <1>4, <3>3, <3>4
  <2> QED
    BY <2>1, <2>2
<1>6. Cardinality(listed) = Len(order)
  <2> DEFINE f == [i \in 1 .. Len(order) |-> order[i]]
  <2>1. f \in Bijection(1 .. Len(order), listed)
    <3>1. f \in [1 .. Len(order) -> listed]
      BY <1>4
    <3>2. \A i, j \in 1 .. Len(order) : f[i] = f[j] => i = j
      BY <1>2
    <3>3. \A l \in listed : \E i \in 1 .. Len(order) : f[i] = l
      BY <1>4
    <3> QED
      BY <3>1, <3>2, <3>3 DEF Bijection, Injection, Surjection, IsInjective
  <2>2. ExistsBijection(1 .. Len(order), listed)
    BY <2>1 DEF ExistsBijection
  <2> QED
    BY <1>2, <2>2, FS_CountingElements
<1>7. window \in {"wait", "look"} => buttons = listed
  BY DEF DisplayInv, Buttons
<1>8. listed = {order[i] : i \in DOMAIN order}
  BY DEF DisplayInv, Queues
<1> QED
  BY <1>5, <1>6, <1>7, <1>8 DEF NewestItemsStay

\* The newest items, as many as the queue may hold, are never lost, whatever the
\* order in which planning threads add and the window lists and evicts; the list
\* and its buttons agree whenever the thread waits for a click
\* (draco_visualizer.cc, AddItem and Main).
THEOREM NewestItemsAreKept == DisplaySpec => []NewestItemsStay
<1>1. DisplayInv => NewestItemsStay
  BY NothingNewIsLost
<1> QED
  BY <1>1, DisplayInvariant, PTL

\* What the window shows was drawn under the options in effect, which are the
\* standard ones or those of the item on show; taking the options of an item never
\* meets settings that the scope before still owns (draco_visualizer.cc, Main).
THEOREM OptionsEndWithTheirItem == DisplaySpec => []ShownUnderItsOptions
<1>1. DisplayInv => ShownUnderItsOptions
  BY DEF DisplayInv, Shown, Drawn
<1> QED
  BY <1>1, DisplayInvariant, PTL

-----------------------------------------------------------------------------
(***************************************************************************)
(* VisualObjects: the browser and the record of the objects and axes.      *)
(***************************************************************************)
(* Every set of numbers has a least one; a set that holds 0 and the        *)
(* successors of its elements holds all numbers.                           *)
LEMMA LeastNat ==
    ASSUME NEW T \in SUBSET Nat, T # {}
    PROVE  \E x \in T : \A y \in T : x <= y
<1>1. IsWellFoundedOn(OpToRel(<, Nat), Nat)
  BY NatLessThanWellFounded
<1>2. PICK x \in T : \A y \in T : ~(<<y, x>> \in OpToRel(<, Nat))
  BY <1>1, WFMin
<1>3. \A y \in T : ~(y < x)
  BY <1>2 DEF OpToRel
<1>4. \A y \in T : y \in Nat /\ x \in Nat
  OBVIOUS
<1> QED
  BY <1>3, <1>4

LEMMA SetInduction ==
    ASSUME NEW S, 0 \in S, \A n \in Nat : n \in S => n + 1 \in S
    PROVE  Nat \subseteq S
<1> SUFFICES ASSUME ~(Nat \subseteq S) PROVE FALSE
  OBVIOUS
<1> DEFINE T == Nat \ S
<1>1. PICK x \in T : \A y \in T : x <= y
  <2>1. T \in SUBSET Nat /\ T # {}
    OBVIOUS
  <2> HIDE DEF T
  <2> QED
    BY <2>1, LeastNat
<1>2. x # 0 /\ x \in Nat
  OBVIOUS
<1>3. x - 1 \in Nat /\ x - 1 \notin T
  BY <1>1, <1>2
<1> QED
  BY <1>1, <1>2, <1>3

(* A sequence of steps has its results, one after each step.               *)
Results(S, a, n, step) ==
    {f \in [0 .. n -> S] : f[0] = a /\ \A i \in 1 .. n : f[i] = step[<<i, f[i - 1]>>]}

LEMMA ResultsExist ==
    ASSUME NEW S, NEW a \in S, NEW n \in Nat, NEW step \in [(1 .. n) \X S -> S]
    PROVE  Results(S, a, n, step) # {}
<1> DEFINE P(k) == \E f \in [0 .. k -> S] :
              f[0] = a /\ \A i \in 1 .. k : f[i] = step[<<i, f[i - 1]>>]
           K == {k \in Nat : k <= n => P(k)}
<1>1. 0 \in K
  <2>1. [i \in 0 .. 0 |-> a] \in [0 .. 0 -> S]
    OBVIOUS
  <2>2. 1 .. 0 = {}
    OBVIOUS
  <2> QED
    <3> DEFINE f == [i \in 0 .. 0 |-> a]
    <3>1. f \in [0 .. 0 -> S] /\ f[0] = a
      OBVIOUS
    <3>2. \A i \in 1 .. 0 : f[i] = step[<<i, f[i - 1]>>]
      OBVIOUS
    <3> HIDE DEF f
    <3>3. P(0)
      BY <3>1, <3>2
    <3> QED
      BY <3>3
<1>2. ASSUME NEW k \in Nat, k \in K PROVE k + 1 \in K
  <2> SUFFICES ASSUME k + 1 <= n PROVE P(k + 1)
    OBVIOUS
  <2>1. PICK f \in [0 .. k -> S] :
              f[0] = a /\ \A i \in 1 .. k : f[i] = step[<<i, f[i - 1]>>]
    BY <1>2
  <2> DEFINE g == [i \in 0 .. (k + 1) |-> IF i = k + 1 THEN step[<<k + 1, f[k]>>] ELSE f[i]]
  <2>2. step[<<k + 1, f[k]>>] \in S
    OBVIOUS
  <2>3. g \in [0 .. (k + 1) -> S]
    BY <2>2
  <2>4. g[0] = a
    BY <2>1
  <2>5. ASSUME NEW i \in 1 .. (k + 1) PROVE g[i] = step[<<i, g[i - 1]>>]
    <3>1. CASE i = k + 1
      <4>1. k \in 0 .. (k + 1) /\ k # k + 1 /\ (k + 1) - 1 = k
        OBVIOUS
      <4>2. g[k] = f[k] /\ g[k + 1] = step[<<k + 1, f[k]>>]
        BY <4>1
      <4> HIDE DEF g
      <4> QED
        BY <3>1, <4>1, <4>2
    <3>2. CASE i # k + 1
      <4>1. i \in 1 .. k /\ i - 1 \in 0 .. k
        BY <3>2
      <4> QED
        BY <2>1, <3>2, <4>1
    <3> QED
      BY <3>1, <3>2
  <2> HIDE DEF g
  <2> QED
    BY <2>3, <2>4, <2>5
<1> HIDE DEF K
<1>3. Nat \subseteq K
  BY <1>1, <1>2, SetInduction
<1>4. P(n)
  BY <1>3 DEF K
<1> QED
  BY <1>4 DEF Results

(* The tasks a request may queue, and what the browser may show.           *)
ObjectTasks == [kind : {"set", "move"}, what : Paths, where : Nat]
                  \cup [kind : {"delete"}, what : Paths, where : {Nowhere}]
ModelTasks == [kind : {"model"}, what : Models, where : Nat]
FrameTasks == UNION {[kind : {"frames"}, what : {S}, where : [S -> Nat]] : S \in SUBSET Frames}
Tasks == ObjectTasks \cup ModelTasks \cup FrameTasks
Views == [object : [Paths -> Nat], frame : [Frames -> Nat], model : [Models -> Nat]]

(* The fields of a task by its kind.                                       *)
LEMMA TaskFacts ==
    /\ \A t \in Tasks : t # NoRequest
    /\ \A t \in Tasks : t.kind \in {"set", "delete", "move"} =>
          t.what \in Paths /\ t.where \in Nat
    /\ \A t \in Tasks : t.kind = "delete" => t.where = Nowhere
    /\ \A t \in Tasks : t.kind = "model" => t.what \in Models /\ t.where \in Nat
    /\ \A t \in Tasks : t.kind = "frames" =>
          t.what \in SUBSET Frames /\ t.where \in [t.what -> Nat]
    /\ \A t \in Tasks : t.kind \in {"set", "delete", "move", "model", "frames"}
<1>1. \A t \in Tasks : t # NoRequest
  <2> SUFFICES ASSUME NEW t \in Tasks PROVE t # <<>>
    BY DEF NoRequest
  <2>1. "kind" \in DOMAIN t
    BY DEF Tasks, ObjectTasks, ModelTasks, FrameTasks
  <2>2. DOMAIN <<>> = {}
    OBVIOUS
  <2> QED
    BY <2>1, <2>2
<1> QED
  BY <1>1 DEF Tasks, ObjectTasks, ModelTasks, FrameTasks, Nowhere

(* What one task changes.                                                  *)
LEMMA ApplyFacts ==
    ASSUME NEW v \in Views, NEW t \in Tasks
    PROVE  /\ Apply(v, t) \in Views
           /\ \A p \in Paths : Apply(v, t).object[p] =
                 IF t.kind = "set" /\ t.what = p THEN t.where
                 ELSE IF t.kind = "delete" /\ t.what = p THEN Nowhere
                 ELSE IF t.kind = "move" /\ t.what = p /\ v.object[p] # Nowhere
                      THEN t.where ELSE v.object[p]
           /\ \A f \in Frames : Apply(v, t).frame[f] =
                 IF t.kind = "frames" /\ f \in t.what THEN t.where[f] ELSE v.frame[f]
<1>0. v.object \in [Paths -> Nat] /\ v.frame \in [Frames -> Nat] /\ v.model \in [Models -> Nat]
      /\ v = [object |-> v.object, frame |-> v.frame, model |-> v.model] /\ Nowhere \in Nat
  BY DEF Views, Nowhere
<1> DEFINE O(p, x) == [v EXCEPT !.object[p] = x]
           M(m, x) == [v EXCEPT !.model[m] = x]
           F(g) == [v EXCEPT !.frame = g]
<1>1. \A p \in Paths, x \in Nat :
         /\ O(p, x) \in Views
         /\ \A q \in Paths : O(p, x).object[q] = IF q = p THEN x ELSE v.object[q]
         /\ O(p, x).frame = v.frame
  BY <1>0 DEF Views
<1>2. \A m \in Models, x \in Nat :
         M(m, x) \in Views /\ M(m, x).object = v.object /\ M(m, x).frame = v.frame
  BY <1>0 DEF Views
<1>3. \A g \in [Frames -> Nat] :
         F(g) \in Views /\ F(g).object = v.object /\ F(g).frame = g
  BY <1>0 DEF Views
<1> HIDE DEF O, M, F
<1>4. CASE t.kind = "set"
  <2>1. Apply(v, t) = O(t.what, t.where)
    BY <1>4 DEF Apply, O
  <2>2. t.what \in Paths /\ t.where \in Nat
    BY <1>4, TaskFacts
  <2> QED
    BY <1>1, <1>4, <2>1, <2>2
<1>5. CASE t.kind = "delete"
  <2>1. Apply(v, t) = O(t.what, Nowhere)
    BY <1>5 DEF Apply, O
  <2>2. t.what \in Paths
    BY <1>5, TaskFacts
  <2> QED
    BY <1>0, <1>1, <1>5, <2>1, <2>2
<1>6. CASE t.kind = "move"
  <2>1. Apply(v, t) = IF v.object[t.what] = Nowhere THEN v ELSE O(t.what, t.where)
    BY <1>6 DEF Apply, O
  <2>2. t.what \in Paths /\ t.where \in Nat
    BY <1>6, TaskFacts
  <2> QED
    BY <1>1, <1>6, <2>1, <2>2
<1>7. CASE t.kind = "model"
  <2>1. Apply(v, t) = M(t.what, t.where)
    BY <1>7 DEF Apply, M
  <2>2. t.what \in Models /\ t.where \in Nat
    BY <1>7, TaskFacts
  <2> QED
    BY <1>2, <1>7, <2>1, <2>2
<1>8. CASE t.kind = "frames"
  <2> DEFINE g == [f \in Frames |-> IF f \in t.what THEN t.where[f] ELSE v.frame[f]]
  <2>1. Apply(v, t) = F(g)
    BY <1>8 DEF Apply, F
  <2>2. g \in [Frames -> Nat]
    BY <1>0, <1>8, TaskFacts
  <2>3. F(g) \in Views /\ F(g).object = v.object /\ F(g).frame = g
    BY <1>3, <2>2
  <2> QED
    BY <1>8, <2>1, <2>3
<1> QED
  BY <1>4, <1>5, <1>6, <1>7, <1>8, TaskFacts

(* What the browser shows after each task.                                 *)
LEMMA ViewAfterFacts ==
    ASSUME taskQueue \in Seq(Tasks), Browser \in Views
    PROVE  \E view \in [0 .. Len(taskQueue) -> Views] :
              /\ view[0] = Browser
              /\ \A i \in 1 .. Len(taskQueue) : view[i] = Apply(view[i - 1], taskQueue[i])
              /\ ViewAfter = view[Len(taskQueue)]
<1> DEFINE n == Len(taskQueue)
           step == [z \in (1 .. n) \X Views |-> Apply(z[2], taskQueue[z[1]])]
           Steps(view) == view = [i \in 0 .. n |->
                             IF i = 0 THEN Browser ELSE Apply(view[i - 1], taskQueue[i])]
           after == CHOOSE view : Steps(view)
<1>1. n \in Nat /\ \A i \in 1 .. n : taskQueue[i] \in Tasks
  OBVIOUS
<1>2. step \in [(1 .. n) \X Views -> Views]
  <2> SUFFICES ASSUME NEW z \in (1 .. n) \X Views PROVE Apply(z[2], taskQueue[z[1]]) \in Views
    OBVIOUS
  <2> QED
    BY <1>1, ApplyFacts
<1>3. \A i \in 1 .. n : \A v \in Views : step[<<i, v>>] = Apply(v, taskQueue[i])
  OBVIOUS
<1> HIDE DEF step
<1>4. PICK f \in [0 .. n -> Views] :
              f[0] = Browser /\ \A i \in 1 .. n : f[i] = step[<<i, f[i - 1]>>]
  <2>1. Results(Views, Browser, n, step) # {}
    BY <1>1, <1>2, ResultsExist
  <2> QED
    BY <2>1 DEF Results
<1>5. \A i \in 1 .. n : f[i] = Apply(f[i - 1], taskQueue[i])
  <2> SUFFICES ASSUME NEW i \in 1 .. n PROVE f[i] = Apply(f[i - 1], taskQueue[i])
    OBVIOUS
  <2>1. i - 1 \in 0 .. n
    BY <1>1
  <2> QED
    BY <1>3, <1>4, <2>1
<1>6. Steps(f)
  <2>1. \A i \in 0 .. n : i # 0 => i \in 1 .. n
    BY <1>1
  <2> QED
    BY <1>4, <1>5, <2>1
<1>7. Steps(after)
  <2> HIDE DEF Steps
  <2> QED
    BY <1>6
<1>8. ViewAfter = after[n]
  BY DEF ViewAfter
<1> HIDE DEF after
<1>9. after[0] = Browser /\ \A i \in 1 .. n : after[i] = Apply(after[i - 1], taskQueue[i])
  BY <1>1, <1>7
<1> DEFINE K == {k \in Nat : k <= n => after[k] \in Views}
<1>10. Nat \subseteq K
  <2>1. 0 \in K
    BY <1>9
  <2>2. ASSUME NEW k \in Nat, k \in K PROVE k + 1 \in K
    <3> SUFFICES ASSUME k + 1 <= n PROVE after[k + 1] \in Views
      OBVIOUS
    <3>1. k + 1 \in 1 .. n /\ (k + 1) - 1 = k /\ after[k] \in Views
      BY <1>1, <2>2
    <3>2. after[k + 1] = Apply(after[k], taskQueue[k + 1])
      BY <1>9, <3>1
    <3> QED
      BY <1>1, <3>1, <3>2, ApplyFacts
  <2> HIDE DEF K
  <2> QED
    BY <2>1, <2>2, SetInduction
<1>11. after \in [0 .. n -> Views]
  <2>1. \A k \in 0 .. n : after[k] \in Views
    BY <1>1, <1>10
  <2> QED
    BY <1>7, <2>1
<1> QED
  BY <1>8, <1>9, <1>11

-----------------------------------------------------------------------------
(* The inductive invariant.                                                *)

ViewTypeInv ==
    /\ up \in BOOLEAN /\ web \in BOOLEAN
    /\ turn \in {"begin", "tasks", "axes"} /\ (turn # "begin" => up)
    /\ before \in ShownConfs /\ shown \in ShownConfs
    /\ recorded \in [Paths -> Nat] /\ hidden \in [Frames -> BOOLEAN]
    /\ taskQueue \in Seq(Tasks)
    /\ objectAt \in [Paths -> Nat] /\ frameAt \in [Frames -> Nat]
    /\ modelAt \in [Models -> Nat]
    /\ asking \in [Askers -> Tasks \cup {NoRequest}]
    /\ \A a \in Askers : asking[a] # NoRequest => asking[a].kind # "move"

(* The tasks that place an object, and the threads about to queue one.     *)
Sets(p) == {i \in 1 .. Len(taskQueue) :
              taskQueue[i].kind \in {"set", "delete"} /\ taskQueue[i].what = p}
Placing(p) == {a \in Askers : asking[a] # NoRequest /\ asking[a].what = p
                              /\ asking[a].kind \in {"set", "delete"}}
OnRecord(p, x) == x = Nowhere \/ (recorded[p] # Nowhere /\ x \in {Away, recorded[p]})

(* The last placing is that of the record; what moves the object later, or *)
(* all that does when nothing places it, fits the record.                  *)
ObjectInv(p) ==
    /\ \A a, b \in Placing(p) : a = b
    /\ \A a \in Placing(p) : asking[a].where = recorded[p]
    /\ Placing(p) = {} =>
         /\ Sets(p) = {} => OnRecord(p, objectAt[p])
         /\ \A i \in Sets(p) : (\A j \in Sets(p) : j <= i) =>
                 taskQueue[i].where = recorded[p]
         /\ \A i \in 1 .. Len(taskQueue) :
               /\ taskQueue[i].kind = "move" /\ taskQueue[i].what = p
               /\ \A j \in Sets(p) : j < i
               => taskQueue[i].where \in {Away, recorded[p]}

(* The same for the axes of a frame.                                       *)
Turns(f) == {i \in 1 .. Len(taskQueue) :
               taskQueue[i].kind = "frames" /\ f \in taskQueue[i].what}
Turning(f) == {a \in Askers : asking[a] # NoRequest /\ asking[a].kind = "frames"
                              /\ f \in asking[a].what}
Due(f) == Place(f, shown, ~hidden[f])

(* Between a movement and the update of the axes, those that nothing is    *)
(* about to change may be where the robot was.                             *)
FrameInv(f) ==
    /\ \A a, b \in Turning(f) : a = b
    /\ \A a \in Turning(f) : asking[a].where[f] = Due(f)
    /\ ~up => Turning(f) = {} /\ Turns(f) = {}
    /\ Turning(f) = {} =>
         /\ up /\ Turns(f) = {} =>
               \/ frameAt[f] = Due(f)
               \/ turn # "begin" /\ frameAt[f] = Place(f, before, ~hidden[f])
         /\ \A i \in Turns(f) : (\A j \in Turns(f) : j <= i) =>
                 taskQueue[i].where[f] = Due(f)

ObjectsInv == \A p \in Paths \ muddled : ObjectInv(p)
FramesInv == \A f \in Frames \ muddled : FrameInv(f)
ViewInv == ViewTypeInv /\ ObjectsInv /\ FramesInv

LEMMA PlaceFacts ==
    \A f \in Frames, q \in ShownConfs, visible \in BOOLEAN :
        /\ Place(f, q, visible) \in Nat
        /\ f.static => Place(f, q, visible) = IF visible THEN 1 ELSE Away
<1>1. \A q \in ShownConfs : q \in Nat
  BY PlacesAssumption DEF Away
<1> QED
  BY <1>1, PlacesAssumption DEF Place, PoseOf, Away

LEMMA BrowserType == ViewTypeInv => Browser \in Views
BY DEF ViewTypeInv, Browser, Views

LEMMA ViewInitInv == ViewInit => ViewInv
<1> SUFFICES ASSUME ViewInit PROVE ViewInv
  OBVIOUS
<1>1. ViewTypeInv
  <2>1. <<>> \in Seq(Tasks) /\ Nowhere \in Nat
    BY DEF Nowhere
  <2> QED
    BY <2>1 DEF ViewInit, ViewTypeInv
<1>2. 1 .. Len(taskQueue) = {} /\ \A a \in Askers : asking[a] = NoRequest
  BY DEF ViewInit
<1>3. ASSUME NEW p PROVE Placing(p) = {} /\ Sets(p) = {}
  BY <1>2 DEF Placing, Sets
<1>4. ASSUME NEW f PROVE Turning(f) = {} /\ Turns(f) = {}
  BY <1>2 DEF Turning, Turns
<1>5. ObjectsInv
  <2> SUFFICES ASSUME NEW p \in Paths PROVE ObjectInv(p)
    BY DEF ObjectsInv
  <2>1. objectAt[p] = Nowhere
    BY DEF ViewInit
  <2> QED
    BY <1>2, <1>3, <2>1 DEF ObjectInv, OnRecord
<1>6. FramesInv
  <2> SUFFICES ASSUME NEW f \in Frames PROVE FrameInv(f)
    BY DEF FramesInv
  <2> QED
    BY <1>4 DEF FrameInv, ViewInit
<1> QED
  BY <1>1, <1>5, <1>6 DEF ViewInv

-----------------------------------------------------------------------------
(* Running the queue.                                                      *)

(* With no thread about to place it, an object ends up as recorded: from   *)
(* the last placing on, every task keeps it there or puts it away.         *)
LEMMA ObjectAfter ==
    ASSUME ViewTypeInv, NEW p \in Paths, ObjectInv(p), Placing(p) = {}
    PROVE  OnRecord(p, ViewAfter.object[p])
<1> DEFINE n == Len(taskQueue)
<1>0. n \in Nat /\ \A i \in 1 .. n : taskQueue[i] \in Tasks
  BY DEF ViewTypeInv
<1>1. PICK view \in [0 .. n -> Views] :
              /\ view[0] = Browser
              /\ \A i \in 1 .. n : view[i] = Apply(view[i - 1], taskQueue[i])
              /\ ViewAfter = view[n]
  BY ViewAfterFacts, BrowserType DEF ViewTypeInv
<1> DEFINE Fits(k) == (\A j \in Sets(p) : j <= k) => OnRecord(p, view[k].object[p])
           K == {k \in Nat : k <= n => Fits(k)}
<1>2. Fits(0)
  <2> SUFFICES ASSUME \A j \in Sets(p) : j <= 0 PROVE OnRecord(p, view[0].object[p])
    OBVIOUS
  <2>1. Sets(p) = {}
    BY DEF Sets
  <2> QED
    BY <1>1, <2>1 DEF ObjectInv, Browser
<1>3. ASSUME NEW k \in Nat, k + 1 <= n, Fits(k) PROVE Fits(k + 1)
  <2> SUFFICES ASSUME \A j \in Sets(p) : j <= k + 1 PROVE OnRecord(p, view[k + 1].object[p])
    OBVIOUS
  <2> DEFINE t == taskQueue[k + 1]
             x == view[k].object[p]
  <2>1. k + 1 \in 1 .. n /\ (k + 1) - 1 = k /\ k \in 0 .. n
    BY <1>0, <1>3
  <2>2. /\ t \in Tasks /\ view[k] \in Views
        /\ view[k + 1] = Apply(view[k], t)
    BY <1>0, <1>1, <2>1
  <2>3. view[k + 1].object[p] =
                 IF t.kind = "set" /\ t.what = p THEN t.where
                 ELSE IF t.kind = "delete" /\ t.what = p THEN Nowhere
                 ELSE IF t.kind = "move" /\ t.what = p /\ x # Nowhere
                      THEN t.where ELSE x
    BY <2>2, ApplyFacts
  <2> HIDE DEF t, x
  <2>4. CASE k + 1 \in Sets(p)
    <3>1. t.kind \in {"set", "delete"} /\ t.what = p /\ t.where = recorded[p]
      BY <2>4 DEF Sets, ObjectInv, t
    <3> QED
      BY <2>2, <2>3, <3>1, TaskFacts DEF OnRecord
  <2>5. CASE k + 1 \notin Sets(p)
    <3>1. \A j \in Sets(p) : j \in Nat /\ j <= k + 1 /\ j # k + 1
      BY <2>5 DEF Sets
    <3>2. \A j \in Sets(p) : j <= k /\ j < k + 1
      BY <3>1
    <3>3. OnRecord(p, x)
      BY <1>3, <3>2 DEF x
    <3>4. t.kind = "move" /\ t.what = p => t.where \in {Away, recorded[p]}
      BY <2>1, <3>2 DEF ObjectInv, t
    <3>5. ~(t.kind \in {"set", "delete"} /\ t.what = p)
      BY <2>1, <2>5 DEF Sets, t
    <3> QED
      BY <2>3, <3>3, <3>4, <3>5 DEF OnRecord
  <2> QED
    BY <2>4, <2>5
<1>4. Nat \subseteq K
  <2>1. 0 \in K
    BY <1>2
  <2>2. ASSUME NEW k \in Nat, k \in K PROVE k + 1 \in K
    <3> HIDE DEF Fits
    <3>1. k + 1 <= n => Fits(k)
      BY <1>0, <2>2
    <3> QED
      BY <1>3, <3>1
  <2> HIDE DEF K
  <2> QED
    BY <2>1, <2>2, SetInduction
<1>5. Fits(n)
  BY <1>0, <1>4
<1>6. \A j \in Sets(p) : j <= n
  BY DEF Sets
<1> QED
  BY <1>1, <1>5, <1>6

(* The axes end up where the last task on them puts them.                  *)
LEMMA FrameAfter ==
    ASSUME ViewTypeInv, NEW f \in Frames
    PROVE  \/ Turns(f) = {} /\ ViewAfter.frame[f] = frameAt[f]
           \/ \E i \in Turns(f) : /\ \A j \in Turns(f) : j <= i
                                  /\ ViewAfter.frame[f] = taskQueue[i].where[f]
<1> DEFINE n == Len(taskQueue)
<1>0. n \in Nat /\ \A i \in 1 .. n : taskQueue[i] \in Tasks
  BY DEF ViewTypeInv
<1>1. PICK view \in [0 .. n -> Views] :
              /\ view[0] = Browser
              /\ \A i \in 1 .. n : view[i] = Apply(view[i - 1], taskQueue[i])
              /\ ViewAfter = view[n]
  BY ViewAfterFacts, BrowserType DEF ViewTypeInv
<1> DEFINE First(k) == {j \in Turns(f) : j <= k}
           Last(k) == \/ First(k) = {} /\ view[k].frame[f] = frameAt[f]
                      \/ \E i \in First(k) : /\ \A j \in First(k) : j <= i
                                             /\ view[k].frame[f] = taskQueue[i].where[f]
           K == {k \in Nat : k <= n => Last(k)}
<1>2. Last(0)
  <2>1. First(0) = {}
    BY DEF Turns
  <2> QED
    BY <1>1, <2>1 DEF Browser
<1>3. ASSUME NEW k \in Nat, k + 1 <= n, Last(k) PROVE Last(k + 1)
  <2> DEFINE t == taskQueue[k + 1]
             x == view[k].frame[f]
  <2>1. k + 1 \in 1 .. n /\ (k + 1) - 1 = k /\ k \in 0 .. n
    BY <1>0, <1>3
  <2>2. /\ t \in Tasks /\ view[k] \in Views
        /\ view[k + 1] = Apply(view[k], t)
    BY <1>0, <1>1, <2>1
  <2>3. view[k + 1].frame[f] = IF t.kind = "frames" /\ f \in t.what THEN t.where[f] ELSE x
    BY <2>2, ApplyFacts
  <2>4. CASE k + 1 \in Turns(f)
    <3>1. t.kind = "frames" /\ f \in t.what
      BY <2>4 DEF Turns
    <3>2. k + 1 \in First(k + 1) /\ \A j \in First(k + 1) : j <= k + 1
      BY <2>4
    <3> QED
      BY <2>3, <3>1, <3>2
  <2>5. CASE k + 1 \notin Turns(f)
    <3>1. ~(t.kind = "frames" /\ f \in t.what)
      BY <2>1, <2>5 DEF Turns
    <3>2. First(k + 1) = First(k)
      <4>1. \A j \in Turns(f) : j \in Nat /\ j # k + 1
        BY <2>5 DEF Turns
      <4>2. \A j \in Turns(f) : j <= k + 1 <=> j <= k
        BY <4>1
      <4> QED
        BY <4>2
    <3>3. view[k + 1].frame[f] = view[k].frame[f]
      BY <2>3, <3>1
    <3> HIDE DEF First
    <3> QED
      BY <1>3, <3>2, <3>3
  <2> QED
    BY <2>4, <2>5
<1>4. Nat \subseteq K
  <2>1. 0 \in K
    BY <1>2
  <2>2. ASSUME NEW k \in Nat, k \in K PROVE k + 1 \in K
    <3> HIDE DEF Last
    <3>1. k + 1 <= n => Last(k)
      BY <1>0, <2>2
    <3> QED
      BY <1>3, <3>1
  <2> HIDE DEF K
  <2> QED
    BY <2>1, <2>2, SetInduction
<1>5. Last(n)
  BY <1>0, <1>4
<1>6. First(n) = Turns(f)
  BY DEF Turns
<1> HIDE DEF First
<1> QED
  BY <1>1, <1>5, <1>6

-----------------------------------------------------------------------------
(* What leaves an object or a frame in order.                              *)

LEMMA QueueGrows ==
    ASSUME ViewTypeInv, NEW t \in Tasks, Queued(t)
    PROVE  /\ taskQueue' \in Seq(Tasks) /\ Len(taskQueue) \in Nat
           /\ Len(taskQueue') = Len(taskQueue) + 1
           /\ \A i \in 1 .. Len(taskQueue) : taskQueue'[i] = taskQueue[i]
           /\ taskQueue'[Len(taskQueue) + 1] = t
BY DEF ViewTypeInv, Queued

LEMMA ObjectSame ==
    ASSUME NEW p \in Paths, ObjectInv(p), recorded'[p] = recorded[p],
           taskQueue' = taskQueue, Placing(p)' = Placing(p),
           \A a \in Placing(p) : asking'[a] = asking[a],
           objectAt'[p] \in {Nowhere, objectAt[p]}
    PROVE  ObjectInv(p)'
<1>1. Sets(p)' = Sets(p)
  BY DEF Sets
<1>2. OnRecord(p, objectAt[p]) => OnRecord(p, objectAt[p])'
  BY DEF OnRecord
<1> QED
  BY <1>1, <1>2 DEF ObjectInv

LEMMA ObjectGrows ==
    ASSUME ViewTypeInv, NEW p \in Paths, ObjectInv(p), recorded'[p] = recorded[p],
           NEW t \in Tasks, Queued(t), Placing(p)' = Placing(p),
           \A a \in Placing(p) : asking'[a] = asking[a],
           objectAt'[p] = objectAt[p],
           ~(t.kind \in {"set", "delete"} /\ t.what = p),
           t.kind = "move" /\ t.what = p => t.where \in {Away, recorded[p]}
    PROVE  ObjectInv(p)'
<1> DEFINE n == Len(taskQueue)
<1>1. /\ n \in Nat /\ Len(taskQueue') = n + 1
      /\ \A i \in 1 .. n : taskQueue'[i] = taskQueue[i]
      /\ taskQueue'[n + 1] = t
  BY QueueGrows
<1>2. \A i \in 1 .. Len(taskQueue') : i \in 1 .. n \/ i = n + 1
  BY <1>1
<1>3. \A i \in 1 .. n : i \in 1 .. Len(taskQueue')
  BY <1>1
<1>4. Sets(p)' = Sets(p)
  BY <1>1, <1>2, <1>3 DEF Sets
<1>5. OnRecord(p, objectAt[p]) => OnRecord(p, objectAt[p])'
  BY DEF OnRecord
<1>6. \A i \in Sets(p) : taskQueue'[i] = taskQueue[i]
  BY <1>1 DEF Sets
<1>7. /\ \A a, b \in Placing(p)' : a = b
      /\ \A a \in Placing(p)' : asking'[a].where = recorded'[p]
  BY DEF ObjectInv
<1> SUFFICES ASSUME Placing(p)' = {}
             PROVE  /\ Sets(p)' = {} => OnRecord(p, objectAt[p])'
                    /\ \A i \in Sets(p)' : (\A j \in Sets(p)' : j <= i) =>
                          taskQueue'[i].where = recorded'[p]
                    /\ \A i \in 1 .. Len(taskQueue') :
                          /\ taskQueue'[i].kind = "move" /\ taskQueue'[i].what = p
                          /\ \A j \in Sets(p)' : j < i
                          => taskQueue'[i].where \in {Away, recorded'[p]}
  BY <1>7 DEF ObjectInv
<1>8. Sets(p)' = {} => OnRecord(p, objectAt[p])'
  BY <1>4, <1>5 DEF ObjectInv
<1>9. \A i \in Sets(p)' : (\A j \in Sets(p)' : j <= i) =>
                          taskQueue'[i].where = recorded'[p]
  BY <1>4, <1>6 DEF ObjectInv
<1>10. ASSUME NEW i \in 1 .. Len(taskQueue'),
              taskQueue'[i].kind = "move", taskQueue'[i].what = p,
              \A j \in Sets(p)' : j < i
       PROVE  taskQueue'[i].where \in {Away, recorded'[p]}
  <2>1. CASE i \in 1 .. n
    BY <1>1, <1>4, <1>10, <2>1 DEF ObjectInv
  <2>2. CASE i = n + 1
    BY <1>1, <1>10, <2>2
  <2> QED
    BY <1>2, <2>1, <2>2
<1> QED
  BY <1>8, <1>9, <1>10

LEMMA FrameSame ==
    ASSUME NEW f \in Frames, FrameInv(f), hidden'[f] = hidden[f],
           UNCHANGED <<up, turn, before, shown, taskQueue>>, frameAt'[f] = frameAt[f],
           Turning(f)' = Turning(f), \A a \in Turning(f) : asking'[a] = asking[a]
    PROVE  FrameInv(f)'
<1>1. Turns(f)' = Turns(f)
  BY DEF Turns
<1>2. Due(f)' = Due(f) /\ Place(f, before, ~hidden[f])' = Place(f, before, ~hidden[f])
  BY DEF Due, Place
<1> QED
  BY <1>1, <1>2 DEF FrameInv

LEMMA FrameGrows ==
    ASSUME ViewTypeInv, NEW f \in Frames, FrameInv(f), hidden'[f] = hidden[f],
           UNCHANGED <<up, turn, before, shown>>, frameAt'[f] = frameAt[f],
           NEW t \in Tasks, Queued(t), ~(t.kind = "frames" /\ f \in t.what),
           Turning(f)' = Turning(f), \A a \in Turning(f) : asking'[a] = asking[a]
    PROVE  FrameInv(f)'
<1> DEFINE n == Len(taskQueue)
<1>1. /\ n \in Nat /\ Len(taskQueue') = n + 1
      /\ \A i \in 1 .. n : taskQueue'[i] = taskQueue[i]
      /\ taskQueue'[n + 1] = t
  BY QueueGrows
<1>2. \A i \in 1 .. Len(taskQueue') : i \in 1 .. n \/ i = n + 1
  BY <1>1
<1>3. \A i \in 1 .. n : i \in 1 .. Len(taskQueue')
  BY <1>1
<1>4. Turns(f)' = Turns(f)
  BY <1>1, <1>2, <1>3 DEF Turns
<1>5. \A i \in Turns(f) : taskQueue'[i] = taskQueue[i]
  BY <1>1 DEF Turns
<1>6. Due(f)' = Due(f) /\ Place(f, before, ~hidden[f])' = Place(f, before, ~hidden[f])
  BY DEF Due, Place
<1> QED
  BY <1>4, <1>5, <1>6 DEF FrameInv

(* A frame that a thread is about to turn, and nobody else.                *)
LEMMA FrameAsked ==
    ASSUME NEW f \in Frames, NEW a, Turning(f)' = {a},
           asking'[a].where[f] = Due(f)', up'
    PROVE  FrameInv(f)'
BY DEF FrameInv

LEMMA ObjectAsked ==
    ASSUME NEW p \in Paths, NEW a, Placing(p)' = {a},
           asking'[a].where = recorded'[p]
    PROVE  ObjectInv(p)'
BY DEF ObjectInv

LEMMA ViewAfterType == ViewTypeInv => ViewAfter \in Views
<1> SUFFICES ASSUME ViewTypeInv PROVE ViewAfter \in Views
  OBVIOUS
<1>1. PICK view \in [0 .. Len(taskQueue) -> Views] : ViewAfter = view[Len(taskQueue)]
  BY ViewAfterFacts, BrowserType DEF ViewTypeInv
<1>2. Len(taskQueue) \in 0 .. Len(taskQueue)
  BY DEF ViewTypeInv
<1> QED
  BY <1>1, <1>2

LEMMA TurnTask ==
    ASSUME ViewTypeInv, NEW frames \in SUBSET Frames, NEW visible \in BOOLEAN
    PROVE  Task("frames", frames, [f \in frames |-> Place(f, shown, visible)]) \in Tasks
<1>1. [f \in frames |-> Place(f, shown, visible)] \in [frames -> Nat]
  BY PlaceFacts DEF ViewTypeInv
<1> QED
  BY <1>1 DEF Tasks, FrameTasks, Task

LEMMA PlaceTasks ==
    /\ \A p \in Paths, x \in Nat : Task("set", p, x) \in Tasks /\ Task("move", p, x) \in Tasks
    /\ \A p \in Paths : Task("delete", p, Nowhere) \in Tasks
    /\ \A m \in Models, x \in Nat : Task("model", m, x) \in Tasks
BY DEF Tasks, ObjectTasks, ModelTasks, Task

LEMMA PosesAreNat == Poses \cup ShownConfs \subseteq Nat /\ Away \in Nat /\ Nowhere \in Nat /\ 1 \in Nat
                     /\ \A x \in Poses : x # Nowhere
BY PlacesAssumption DEF Away, Nowhere

-----------------------------------------------------------------------------
(* One action at a time.                                                   *)

LEMMA StartStep == ViewInv /\ ViewStart => ViewInv'
<1> SUFFICES ASSUME ViewInv, ViewStart PROVE ViewInv'
  OBVIOUS
<1> USE DEF ViewInv
<1>1. ViewTypeInv'
  <2>1. frameAt' \in [Frames -> Nat]
    BY PlaceFacts DEF ViewStart, ViewTypeInv
  <2> QED
    BY <2>1 DEF ViewStart, ViewTypeInv
<1>2. ObjectsInv'
  <2> SUFFICES ASSUME NEW p \in Paths \ muddled' PROVE ObjectInv(p)'
    BY DEF ObjectsInv
  <2>1. ObjectInv(p)
    BY DEF ObjectsInv, ViewStart
  <2>2. Placing(p)' = Placing(p)
    BY DEF Placing, ViewStart
  <2> QED
    BY <2>1, <2>2, ObjectSame DEF ViewStart
<1>3. FramesInv'
  <2> SUFFICES ASSUME NEW f \in Frames \ muddled' PROVE FrameInv(f)'
    BY DEF FramesInv
  <2>1. Turning(f) = {} /\ Turns(f) = {}
    BY DEF FramesInv, FrameInv, ViewStart
  <2>2. Turning(f)' = {} /\ Turns(f)' = {}
    BY <2>1 DEF Turning, Turns, ViewStart
  <2>3. frameAt'[f] = Due(f)'
    <3>1. frameAt'[f] = Place(f, shown, web) /\ hidden'[f] = ~web /\ shown' = shown
      BY DEF ViewStart
    <3>2. web \in BOOLEAN
      BY DEF ViewTypeInv
    <3> QED
      BY <3>1, <3>2 DEF Due, Place
  <2> QED
    BY <2>2, <2>3 DEF FrameInv, ViewStart
<1> QED
  BY <1>1, <1>2, <1>3

LEMMA StopStep == ViewInv /\ ViewStop => ViewInv'
<1> SUFFICES ASSUME ViewInv, ViewStop PROVE ViewInv'
  OBVIOUS
<1> USE DEF ViewInv
<1>1. ViewTypeInv'
  BY PosesAreNat DEF ViewStop, ViewTypeInv
<1>2. ObjectsInv'
  <2> SUFFICES ASSUME NEW p \in Paths \ muddled' PROVE ObjectInv(p)'
    BY DEF ObjectsInv
  <2>0. p \notin muddled
    BY DEF ViewStop
  <2>1. ObjectInv(p)
    BY <2>0 DEF ObjectsInv
  <2>2. Placing(p)' = Placing(p)
    BY DEF Placing, ViewStop
  <2>3. objectAt'[p] = Nowhere
    BY DEF ViewStop
  <2> QED
    BY <2>1, <2>2, <2>3, ObjectSame DEF ViewStop
<1>3. FramesInv'
  <2> SUFFICES ASSUME NEW f \in Frames \ muddled' PROVE FrameInv(f)'
    BY DEF FramesInv
  <2>1. ~Pending(f)
    BY DEF ViewStop
  <2>2. Turning(f)' = {} /\ Turns(f)' = {}
    <3>1. DOMAIN taskQueue = 1 .. Len(taskQueue)
      BY DEF ViewTypeInv
    <3>2. Turning(f) = {} /\ Turns(f) = {}
      BY <2>1, <3>1 DEF Pending, Turning, Turns
    <3> QED
      BY <3>2 DEF Turning, Turns, ViewStop
  <2> QED
    BY <2>2 DEF FrameInv, ViewStop
<1> QED
  BY <1>1, <1>2, <1>3

LEMMA MoveStep == \A q \in ShownConfs : ViewInv /\ Move(q) => ViewInv'
<1> SUFFICES ASSUME NEW q \in ShownConfs, ViewInv, Move(q) PROVE ViewInv'
  OBVIOUS
<1> USE DEF ViewInv
<1>1. ViewTypeInv'
  BY DEF Move, ViewTypeInv, browserVars
<1>2. ObjectsInv'
  <2> SUFFICES ASSUME NEW p \in Paths \ muddled' PROVE ObjectInv(p)'
    BY DEF ObjectsInv
  <2>0. p \notin muddled
    BY DEF Move
  <2>1. ObjectInv(p)
    BY <2>0 DEF ObjectsInv
  <2>2. Placing(p)' = Placing(p)
    BY DEF Placing, Move
  <2> QED
    BY <2>1, <2>2, ObjectSame DEF Move, browserVars
<1>3. FramesInv'
  <2> SUFFICES ASSUME NEW f \in Frames \ muddled' PROVE FrameInv(f)'
    BY DEF FramesInv
  <2>0. f \notin muddled /\ (q = shown \/ f.static \/ ~Pending(f))
    BY DEF Move
  <2>1. FrameInv(f)
    BY <2>0 DEF FramesInv
  <2>2. Turning(f)' = Turning(f) /\ Turns(f)' = Turns(f)
    BY DEF Turning, Turns, Move
  <2>3. /\ up /\ up' = up /\ turn = "begin" /\ turn' = "tasks" /\ before' = shown
        /\ shown' = q /\ hidden' = hidden /\ frameAt' = frameAt /\ taskQueue' = taskQueue
        /\ asking' = asking
    BY DEF Move, browserVars
  <2>4. (~hidden[f]) \in BOOLEAN /\ shown \in ShownConfs
    <3>1. hidden \in [Frames -> BOOLEAN] /\ shown \in ShownConfs
      BY DEF ViewTypeInv
    <3> QED
      BY <3>1
  <2>5. Place(f, before, ~hidden[f])' = Due(f)
    BY <2>3 DEF Due, Place
  <2>6. q = shown \/ f.static => Due(f)' = Due(f)
    <3>1. Due(f)' = Place(f, q, ~hidden[f])
      BY <2>3 DEF Due, Place
    <3> QED
      BY <3>1, <2>4, PlaceFacts DEF Due
  <2>7. CASE q = shown \/ f.static
    BY <2>1, <2>2, <2>3, <2>6, <2>7 DEF FrameInv
  <2>8. CASE ~Pending(f)
    <3>1. DOMAIN taskQueue = 1 .. Len(taskQueue)
      BY DEF ViewTypeInv
    <3>2. Turning(f) = {} /\ Turns(f) = {}
      BY <2>8, <3>1 DEF Pending, Turning, Turns
    <3> QED
      BY <2>1, <2>2, <2>3, <2>5, <3>2 DEF FrameInv
  <2> QED
    BY <2>0, <2>7, <2>8
<1> QED
  BY <1>1, <1>2, <1>3

LEMMA RunStep == ViewInv /\ RunTasks => ViewInv'
<1> SUFFICES ASSUME ViewInv, RunTasks PROVE ViewInv'
  OBVIOUS
<1> USE DEF ViewInv
<1>0. 1 .. Len(taskQueue') = {}
  BY DEF RunTasks
<1>1. ViewTypeInv'
  <2>1. ViewAfter \in Views
    BY ViewAfterType
  <2>2. objectAt' \in [Paths -> Nat] /\ frameAt' \in [Frames -> Nat] /\ modelAt' \in [Models -> Nat]
    BY <2>1 DEF Views, RunTasks
  <2>3. <<>> \in Seq(Tasks)
    OBVIOUS
  <2> QED
    BY <2>2, <2>3 DEF RunTasks, ViewTypeInv
<1>2. ObjectsInv'
  <2> SUFFICES ASSUME NEW p \in Paths \ muddled' PROVE ObjectInv(p)'
    BY DEF ObjectsInv
  <2>0. p \notin muddled
    BY DEF RunTasks
  <2>1. ObjectInv(p)
    BY <2>0 DEF ObjectsInv
  <2>2. Placing(p)' = Placing(p) /\ Sets(p)' = {}
    BY <1>0 DEF Placing, Sets, RunTasks
  <2>3. asking' = asking /\ recorded' = recorded
    BY DEF RunTasks
  <2>4. Placing(p) = {} => OnRecord(p, objectAt[p])'
    <3>1. objectAt'[p] = ViewAfter.object[p]
      BY DEF RunTasks
    <3>2. Placing(p) = {} => OnRecord(p, ViewAfter.object[p])
      BY <2>1, ObjectAfter
    <3> QED
      BY <2>3, <3>1, <3>2 DEF OnRecord
  <2> QED
    BY <1>0, <2>1, <2>2, <2>3, <2>4 DEF ObjectInv
<1>3. FramesInv'
  <2> SUFFICES ASSUME NEW f \in Frames \ muddled' PROVE FrameInv(f)'
    BY DEF FramesInv
  <2>0. f \notin muddled
    BY DEF RunTasks
  <2>1. FrameInv(f)
    BY <2>0 DEF FramesInv
  <2>2. Turning(f)' = Turning(f) /\ Turns(f)' = {}
    BY <1>0 DEF Turning, Turns, RunTasks
  <2>3. /\ up /\ up' = up /\ turn = "tasks" /\ turn' = (IF before = shown THEN "begin" ELSE "axes")
        /\ before' = before /\ shown' = shown /\ hidden' = hidden /\ asking' = asking
        /\ frameAt'[f] = ViewAfter.frame[f]
    BY DEF RunTasks
  <2>4. Due(f)' = Due(f) /\ Place(f, before, ~hidden[f])' = Place(f, before, ~hidden[f])
    BY <2>3 DEF Due, Place
  <2>5. Turning(f) = {} =>
               \/ ViewAfter.frame[f] = Due(f)
               \/ ViewAfter.frame[f] = Place(f, before, ~hidden[f])
    <3>1. CASE Turns(f) = {} /\ ViewAfter.frame[f] = frameAt[f]
      BY <2>1, <2>3, <3>1 DEF FrameInv
    <3>2. CASE \E i \in Turns(f) : /\ \A j \in Turns(f) : j <= i
                                   /\ ViewAfter.frame[f] = taskQueue[i].where[f]
      BY <2>1, <3>2 DEF FrameInv
    <3> QED
      BY <3>1, <3>2, FrameAfter
  <2>6. before = shown => Place(f, before, ~hidden[f]) = Due(f)
    BY DEF Due
  <2>7. Turning(f)' = {} =>
               \/ frameAt'[f] = Due(f)'
               \/ turn' # "begin" /\ frameAt'[f] = Place(f, before, ~hidden[f])'
    BY <2>2, <2>3, <2>4, <2>5, <2>6
  <2> QED
    BY <2>1, <2>2, <2>3, <2>4, <2>7 DEF FrameInv
<1> QED
  BY <1>1, <1>2, <1>3

LEMMA AxesStep == ViewInv /\ UpdateFrameAxes => ViewInv'
<1> SUFFICES ASSUME ViewInv, UpdateFrameAxes PROVE ViewInv'
  OBVIOUS
<1> USE DEF ViewInv
<1>0. \A f \in Frames : /\ Place(f, shown, TRUE) = PoseOf(f, shown) /\ PoseOf(f, shown) \in Nat
                        /\ f.static => PoseOf(f, shown) = PoseOf(f, before)
  BY PlaceFacts DEF Place, PoseOf, ViewTypeInv
<1>1. ViewTypeInv'
  <2>1. frameAt' \in [Frames -> Nat]
    BY <1>0 DEF UpdateFrameAxes, ViewTypeInv
  <2> QED
    BY <2>1 DEF UpdateFrameAxes, ViewTypeInv
<1>2. ObjectsInv'
  <2> SUFFICES ASSUME NEW p \in Paths \ muddled' PROVE ObjectInv(p)'
    BY DEF ObjectsInv
  <2>0. p \notin muddled
    BY DEF UpdateFrameAxes
  <2>1. ObjectInv(p)
    BY <2>0 DEF ObjectsInv
  <2>2. Placing(p)' = Placing(p)
    BY DEF Placing, UpdateFrameAxes
  <2> QED
    BY <2>1, <2>2, ObjectSame DEF UpdateFrameAxes
<1>3. FramesInv'
  <2> SUFFICES ASSUME NEW f \in Frames \ muddled' PROVE FrameInv(f)'
    BY DEF FramesInv
  <2>0. f \notin muddled
    BY DEF UpdateFrameAxes
  <2>1. FrameInv(f)
    BY <2>0 DEF FramesInv
  <2>2. Turning(f)' = Turning(f) /\ Turns(f)' = Turns(f)
    BY DEF Turning, Turns, UpdateFrameAxes
  <2>3. /\ up /\ up' = up /\ before' = before /\ shown' = shown /\ hidden' = hidden
        /\ asking' = asking /\ taskQueue' = taskQueue
        /\ frameAt'[f] = IF f.static \/ hidden[f] THEN frameAt[f] ELSE PoseOf(f, shown)
    BY DEF UpdateFrameAxes
  <2>4. Due(f)' = Due(f)
    BY <2>3 DEF Due, Place
  <2>5. \/ frameAt[f] = Due(f)
        \/ frameAt[f] = Place(f, before, ~hidden[f])
        => frameAt'[f] = Due(f)
    BY <1>0, <2>3 DEF Due, Place
  <2> QED
    BY <2>1, <2>2, <2>3, <2>4, <2>5 DEF FrameInv
<1> QED
  BY <1>1, <1>2, <1>3

-----------------------------------------------------------------------------
(* The threads.                                                            *)

LEMMA AskerFacts ==
    ASSUME ViewTypeInv, NEW a \in Askers
    PROVE  /\ asking[a] # NoRequest => asking[a] \in Tasks
           /\ \A t : ([asking EXCEPT ![a] = t])[a] = t
           /\ \A t : \A b \in Askers \ {a} : ([asking EXCEPT ![a] = t])[b] = asking[b]
           /\ \A t \in Tasks \cup {NoRequest} :
                 [asking EXCEPT ![a] = t] \in [Askers -> Tasks \cup {NoRequest}]
BY DEF ViewTypeInv

(* A request to place an object.                                           *)
LEMMA PlacerStep ==
    ASSUME ViewInv, NEW a \in Askers, asking[a] = NoRequest,
           NEW p \in Paths, NEW kind \in {"set", "delete"}, NEW x \in Nat,
           Task(kind, p, x) \in Tasks,
           recorded' = [recorded EXCEPT ![p] = x],
           asking' = [asking EXCEPT ![a] = Task(kind, p, x)],
           muddled' = muddled \cup IF Midway({"set", "delete"}, p) THEN {p} ELSE {},
           UNCHANGED <<up, web, turn, before, shown, hidden, taskQueue, browserVars>>
    PROVE  ViewInv'
<1> USE DEF ViewInv
<1> DEFINE t == Task(kind, p, x)
<1>0. /\ asking'[a] = t /\ t # NoRequest /\ t.kind = kind /\ t.what = p /\ t.where = x
      /\ \A b \in Askers \ {a} : asking'[b] = asking[b]
  BY AskerFacts, TaskFacts DEF Task
<1>1. ViewTypeInv'
  <2>1. asking' \in [Askers -> Tasks \cup {NoRequest}]
    BY AskerFacts
  <2>2. recorded' \in [Paths -> Nat]
    BY DEF ViewTypeInv
  <2>3. \A b \in Askers : asking'[b] # NoRequest => asking'[b].kind # "move"
    BY <1>0 DEF ViewTypeInv
  <2> QED
    BY <2>1, <2>2, <2>3 DEF ViewTypeInv, browserVars
<1> HIDE DEF t
<1>2. ObjectsInv'
  <2> SUFFICES ASSUME NEW r \in Paths \ muddled' PROVE ObjectInv(r)'
    BY DEF ObjectsInv
  <2>0. r \notin muddled
    OBVIOUS
  <2>1. ObjectInv(r)
    BY <2>0 DEF ObjectsInv
  <2>2. CASE r # p
    <3>1. Placing(r)' = Placing(r) /\ a \notin Placing(r)
      BY <1>0, <2>2 DEF Placing
    <3>2. \A b \in Placing(r) : asking'[b] = asking[b]
      BY <1>0, <3>1 DEF Placing
    <3>3. recorded'[r] = recorded[r]
      BY <2>2 DEF ViewTypeInv
    <3> QED
      BY <2>1, <3>1, <3>2, <3>3, ObjectSame DEF browserVars
  <2>3. CASE r = p
    <3>1. ~Midway({"set", "delete"}, p)
      BY <2>3
    <3>2. Placing(p) = {}
      BY <3>1 DEF Midway, Placing
    <3>3. Placing(p)' = {a}
      BY <1>0, <3>2 DEF Placing
    <3>4. recorded'[p] = x
      BY DEF ViewTypeInv
    <3> QED
      BY <1>0, <2>3, <3>3, <3>4, ObjectAsked
  <2> QED
    BY <2>2, <2>3
<1>3. FramesInv'
  <2> SUFFICES ASSUME NEW f \in Frames \ muddled' PROVE FrameInv(f)'
    BY DEF FramesInv
  <2>0. f \notin muddled
    OBVIOUS
  <2>1. FrameInv(f)
    BY <2>0 DEF FramesInv
  <2>2. Turning(f)' = Turning(f) /\ a \notin Turning(f)
    BY <1>0 DEF Turning
  <2>3. \A b \in Turning(f) : asking'[b] = asking[b]
    BY <1>0, <2>2 DEF Turning
  <2> QED
    BY <2>1, <2>2, <2>3, FrameSame DEF browserVars
<1> QED
  BY <1>1, <1>2, <1>3

LEMMA SetStep ==
    \A a \in Askers, p \in Paths, x \in Poses : ViewInv /\ SetObject(a, p, x) => ViewInv'
<1> SUFFICES ASSUME NEW a \in Askers, NEW p \in Paths, NEW x \in Poses,
                    ViewInv, SetObject(a, p, x)
             PROVE  ViewInv'
  OBVIOUS
<1>1. x \in Nat /\ Task("set", p, x) \in Tasks
  BY PosesAreNat, PlaceTasks
<1>2. /\ asking[a] = NoRequest
      /\ recorded' = [recorded EXCEPT ![p] = x]
      /\ asking' = [asking EXCEPT ![a] = Task("set", p, x)]
      /\ muddled' = muddled \cup IF Midway({"set", "delete"}, p) THEN {p} ELSE {}
      /\ UNCHANGED <<up, web, turn, before, shown, hidden, taskQueue, browserVars>>
  BY DEF SetObject, Asks
<1> QED
  BY <1>1, <1>2, PlacerStep

LEMMA DeleteStep ==
    \A a \in Askers, p \in Paths : ViewInv /\ DeleteObject(a, p) => ViewInv'
<1> SUFFICES ASSUME NEW a \in Askers, NEW p \in Paths, ViewInv, DeleteObject(a, p)
             PROVE  ViewInv'
  OBVIOUS
<1>1. Nowhere \in Nat /\ Task("delete", p, Nowhere) \in Tasks
  BY PosesAreNat, PlaceTasks
<1>2. /\ asking[a] = NoRequest
      /\ recorded' = [recorded EXCEPT ![p] = Nowhere]
      /\ asking' = [asking EXCEPT ![a] = Task("delete", p, Nowhere)]
      /\ muddled' = muddled \cup IF Midway({"set", "delete"}, p) THEN {p} ELSE {}
      /\ UNCHANGED <<up, web, turn, before, shown, hidden, taskQueue, browserVars>>
  BY DEF DeleteObject, Asks
<1> QED
  BY <1>1, <1>2, PlacerStep

(* A task that places nothing, with no change of who asks for what.        *)
LEMMA ToggleObjectStep ==
    \A a \in Askers, p \in Paths, visible \in BOOLEAN :
        ViewInv /\ ToggleObject(a, p, visible) => ViewInv'
<1> SUFFICES ASSUME NEW a \in Askers, NEW p \in Paths, NEW visible \in BOOLEAN,
                    ViewInv, ToggleObject(a, p, visible)
             PROVE  ViewInv'
  OBVIOUS
<1> USE DEF ViewInv
<1> DEFINE x == IF visible THEN recorded[p] ELSE Away
           t == Task("move", p, x)
<1>1. x \in Nat /\ t \in Tasks /\ x \in {Away, recorded[p]}
  <2>1. x \in Nat
    BY PosesAreNat DEF ViewTypeInv
  <2> HIDE DEF x
  <2> QED
    BY <2>1, PlaceTasks DEF x
<1>2. UNCHANGED taskQueue \/ Queued(t)
  BY DEF ToggleObject
<1>3. UNCHANGED <<up, web, turn, before, shown, recorded, hidden, browserVars, asking, muddled>>
  BY DEF ToggleObject
<1>4. t.kind = "move" /\ t.what = p /\ t.where = x
  BY DEF Task
<1> HIDE DEF t, x
<1>5. ViewTypeInv'
  <2>1. taskQueue' \in Seq(Tasks)
    BY <1>1, <1>2, QueueGrows DEF ViewTypeInv
  <2> QED
    BY <1>3, <2>1 DEF ViewTypeInv, browserVars
<1>6. ObjectsInv'
  <2> SUFFICES ASSUME NEW r \in Paths \ muddled' PROVE ObjectInv(r)'
    BY DEF ObjectsInv
  <2>1. ObjectInv(r)
    BY <1>3 DEF ObjectsInv
  <2>2. Placing(r)' = Placing(r) /\ asking' = asking /\ recorded' = recorded /\ objectAt' = objectAt
    BY <1>3 DEF Placing, browserVars
  <2>3. CASE UNCHANGED taskQueue
    BY <2>1, <2>2, <2>3, ObjectSame
  <2>4. CASE Queued(t)
    <3>1. ~(t.kind \in {"set", "delete"} /\ t.what = r)
      BY <1>4
    <3>2. t.kind = "move" /\ t.what = r => t.where \in {Away, recorded[r]}
      BY <1>1, <1>4
    <3> QED
      BY <1>1, <2>1, <2>2, <2>4, <3>1, <3>2, ObjectGrows
  <2> QED
    BY <1>2, <2>3, <2>4
<1>7. FramesInv'
  <2> SUFFICES ASSUME NEW f \in Frames \ muddled' PROVE FrameInv(f)'
    BY DEF FramesInv
  <2>1. FrameInv(f)
    BY <1>3 DEF FramesInv
  <2>2. Turning(f)' = Turning(f) /\ asking' = asking /\ hidden' = hidden /\ frameAt' = frameAt
    BY <1>3 DEF Turning, browserVars
  <2>3. CASE UNCHANGED taskQueue
    BY <1>3, <2>1, <2>2, <2>3, FrameSame
  <2>4. CASE Queued(t)
    <3>1. ~(t.kind = "frames" /\ f \in t.what)
      BY <1>4
    <3> QED
      BY <1>1, <1>3, <2>1, <2>2, <2>4, <3>1, FrameGrows
  <2> QED
    BY <1>2, <2>3, <2>4
<1> QED
  BY <1>5, <1>6, <1>7

(* A toggle of axes, with or without a task for the model's geometry.      *)
LEMMA TurnStep ==
    ASSUME ViewInv, NEW a \in Askers, asking[a] = NoRequest, up,
           NEW frames \in SUBSET Frames, NEW visible \in BOOLEAN,
           Toggle(a, frames, visible),
           UNCHANGED <<up, web, turn, before, shown, recorded, browserVars>>,
           NEW t \in Tasks, t.kind = "model",
           UNCHANGED taskQueue \/ Queued(t)
    PROVE  ViewInv'
<1> USE DEF ViewInv
<1> DEFINE d == Task("frames", frames, [f \in frames |-> Place(f, shown, visible)])
<1>0. /\ d \in Tasks /\ d # NoRequest /\ d.kind = "frames" /\ d.what = frames
      /\ \A f \in frames : d.where[f] = Place(f, shown, visible)
  BY TurnTask, TaskFacts DEF Task
<1>1. asking' = [asking EXCEPT ![a] = d]
  BY DEF Toggle
<1> HIDE DEF d
<1>2. asking'[a] = d /\ \A b \in Askers \ {a} : asking'[b] = asking[b]
  BY <1>1, AskerFacts
<1>3. ViewTypeInv'
  <2>1. asking' \in [Askers -> Tasks \cup {NoRequest}]
    BY <1>0, <1>1, AskerFacts
  <2>2. taskQueue' \in Seq(Tasks)
    BY QueueGrows DEF ViewTypeInv
  <2>3. hidden' \in [Frames -> BOOLEAN]
    <3>1. (~visible) \in BOOLEAN
      OBVIOUS
    <3>3. hidden \in [Frames -> BOOLEAN]
      BY DEF ViewTypeInv
    <3>2. \A f \in Frames : (IF f \in frames THEN ~visible ELSE hidden[f]) \in BOOLEAN
      BY <3>1, <3>3
    <3> QED
      BY <3>2 DEF Toggle
  <2>4. \A b \in Askers : asking'[b] # NoRequest => asking'[b].kind # "move"
    BY <1>0, <1>2 DEF ViewTypeInv
  <2> QED
    BY <2>1, <2>2, <2>3, <2>4 DEF ViewTypeInv, browserVars
<1>4. muddled \subseteq muddled'
  BY DEF Toggle
<1>5. ObjectsInv'
  <2> SUFFICES ASSUME NEW r \in Paths \ muddled' PROVE ObjectInv(r)'
    BY DEF ObjectsInv
  <2>1. ObjectInv(r)
    BY <1>4 DEF ObjectsInv
  <2>2. Placing(r)' = Placing(r) /\ a \notin Placing(r)
    BY <1>0, <1>2 DEF Placing
  <2>3. \A b \in Placing(r) : asking'[b] = asking[b]
    BY <1>2, <2>2 DEF Placing
  <2>4. CASE UNCHANGED taskQueue
    BY <2>1, <2>2, <2>3, <2>4, ObjectSame DEF browserVars
  <2>5. CASE Queued(t)
    BY <2>1, <2>2, <2>3, <2>5, ObjectGrows DEF browserVars
  <2> QED
    BY <2>4, <2>5
<1>6. FramesInv'
  <2> SUFFICES ASSUME NEW f \in Frames \ muddled' PROVE FrameInv(f)'
    BY DEF FramesInv
  <2>1. FrameInv(f)
    BY <1>4 DEF FramesInv
  <2>2. CASE f \in frames
    <3>1. Turning(f) = {}
      BY <2>2 DEF Toggle, Turning
    <3>2. Turning(f)' = {a}
      BY <1>0, <1>2, <2>2, <3>1 DEF Turning
    <3>3. Due(f)' = Place(f, shown, visible)
      <4>1. hidden'[f] = ~visible /\ shown' = shown
        BY <2>2 DEF Toggle
      <4> QED
        BY <4>1 DEF Due, Place
    <3> QED
      BY <1>0, <1>2, <2>2, <3>2, <3>3, FrameAsked
  <2>3. CASE f \notin frames
    <3>1. Turning(f)' = Turning(f) /\ a \notin Turning(f)
      BY <1>0, <1>2, <2>3 DEF Turning
    <3>2. \A b \in Turning(f) : asking'[b] = asking[b]
      BY <1>2, <3>1 DEF Turning
    <3>3. hidden'[f] = hidden[f]
      BY <2>3 DEF Toggle
    <3>4. CASE UNCHANGED taskQueue
      BY <2>1, <3>1, <3>2, <3>3, <3>4, FrameSame DEF browserVars
    <3>5. CASE Queued(t)
      BY <2>1, <3>1, <3>2, <3>3, <3>5, FrameGrows DEF browserVars
    <3> QED
      BY <3>4, <3>5
  <2> QED
    BY <2>2, <2>3
<1> QED
  BY <1>3, <1>5, <1>6

LEMMA ToggleModelStep ==
    \A a \in Askers, m \in Models, visible \in BOOLEAN :
        ViewInv /\ ToggleModel(a, m, visible) => ViewInv'
<1> SUFFICES ASSUME NEW a \in Askers, NEW m \in Models, NEW visible \in BOOLEAN,
                    ViewInv, ToggleModel(a, m, visible)
             PROVE  ViewInv'
  OBVIOUS
<1> DEFINE frames == {f \in Frames : f.model \in Matches[m]}
           x == IF visible THEN 1 ELSE Away
           t == Task("model", m, x)
<1>1. t \in Tasks /\ t.kind = "model"
  <2>1. x \in Nat
    BY PosesAreNat
  <2> HIDE DEF x
  <2> QED
    BY <2>1, PlaceTasks DEF Task
<1>2. /\ asking[a] = NoRequest /\ Queued(t)
      /\ UNCHANGED <<up, web, turn, before, shown, recorded, browserVars>>
      /\ \/ up /\ Toggle(a, frames, visible)
         \/ UNCHANGED <<hidden, asking, muddled>>
  BY DEF ToggleModel, Asks
<1> HIDE DEF t
<1>3. CASE up /\ Toggle(a, frames, visible)
  <2>1. frames \in SUBSET Frames
    OBVIOUS
  <2> HIDE DEF frames
  <2> QED
    BY <1>1, <1>2, <1>3, <2>1, TurnStep
<1>4. CASE UNCHANGED <<hidden, asking, muddled>>
  <2> USE DEF ViewInv
  <2>1. ViewTypeInv'
    <3>1. taskQueue' \in Seq(Tasks)
      BY <1>1, <1>2, QueueGrows
    <3> QED
      BY <1>2, <1>4, <3>1 DEF ViewTypeInv, browserVars
  <2>2. ObjectsInv'
    <3> SUFFICES ASSUME NEW r \in Paths \ muddled' PROVE ObjectInv(r)'
      BY DEF ObjectsInv
    <3>1. ObjectInv(r)
      BY <1>4 DEF ObjectsInv
    <3>2. Placing(r)' = Placing(r)
      BY <1>4 DEF Placing
    <3> QED
      BY <1>1, <1>2, <1>4, <3>1, <3>2, ObjectGrows DEF browserVars
  <2>3. FramesInv'
    <3> SUFFICES ASSUME NEW f \in Frames \ muddled' PROVE FrameInv(f)'
      BY DEF FramesInv
    <3>1. FrameInv(f)
      BY <1>4 DEF FramesInv
    <3>2. Turning(f)' = Turning(f)
      BY <1>4 DEF Turning
    <3> QED
      BY <1>1, <1>2, <1>4, <3>1, <3>2, FrameGrows DEF browserVars
  <2> QED
    BY <2>1, <2>2, <2>3
<1> QED
  BY <1>2, <1>3, <1>4

LEMMA ToggleFrameStep ==
    \A a \in Askers, f \in Frames, visible \in BOOLEAN :
        ViewInv /\ ToggleFrame(a, f, visible) => ViewInv'
<1> SUFFICES ASSUME NEW a \in Askers, NEW f \in Frames, NEW visible \in BOOLEAN,
                    ViewInv, ToggleFrame(a, f, visible)
             PROVE  ViewInv'
  OBVIOUS
<1>1. /\ asking[a] = NoRequest /\ up /\ Toggle(a, {f}, visible)
      /\ UNCHANGED <<up, web, turn, before, shown, recorded, taskQueue, browserVars>>
  BY DEF ToggleFrame, Asks
<1>2. {f} \in SUBSET Frames
  OBVIOUS
<1>3. CASE Models = {}
  BY <1>3, PlacesAssumption
<1>4. CASE Models # {}
  <2>1. PICK m \in Models : TRUE
    BY <1>4
  <2>2. Task("model", m, 1) \in Tasks /\ Task("model", m, 1).kind = "model"
    BY PlaceTasks DEF Task
  <2> QED
    BY <1>1, <1>2, <2>2, TurnStep
<1> QED
  BY <1>3, <1>4

(* What was about to be queued becomes the last task.                      *)
LEMMA QueueStep ==
    \A a \in Askers : ViewInv /\ QueueMeshcatTask(a) => ViewInv'
<1> SUFFICES ASSUME NEW a \in Askers, ViewInv, QueueMeshcatTask(a) PROVE ViewInv'
  OBVIOUS
<1> USE DEF ViewInv
<1> DEFINE t == asking[a]
           n == Len(taskQueue)
<1>1. /\ t # NoRequest /\ Queued(t) /\ asking' = [asking EXCEPT ![a] = NoRequest]
      /\ UNCHANGED <<up, web, turn, before, shown, recorded, hidden, browserVars, muddled>>
  BY DEF QueueMeshcatTask
<1>2. t \in Tasks /\ asking'[a] = NoRequest /\ \A b \in Askers \ {a} : asking'[b] = asking[b]
  BY <1>1, AskerFacts
<1> HIDE DEF t
<1>3. /\ taskQueue' \in Seq(Tasks) /\ n \in Nat /\ Len(taskQueue') = n + 1
      /\ taskQueue'[n + 1] = t
      /\ \A i \in 1 .. n : taskQueue'[i] = taskQueue[i]
  BY <1>1, <1>2, QueueGrows
<1> HIDE DEF n
<1>4. n + 1 \in 1 .. Len(taskQueue') /\ \A i \in 1 .. Len(taskQueue') : i \in Nat /\ i <= n + 1
  BY <1>3
<1>5. ViewTypeInv'
  <2>1. asking' \in [Askers -> Tasks \cup {NoRequest}]
    BY <1>1, AskerFacts
  <2> QED
    BY <1>1, <1>3, <2>1 DEF ViewTypeInv, browserVars
<1>6. ObjectsInv'
  <2> SUFFICES ASSUME NEW r \in Paths \ muddled' PROVE ObjectInv(r)'
    BY DEF ObjectsInv
  <2>1. ObjectInv(r)
    BY <1>1 DEF ObjectsInv
  <2>2. recorded' = recorded /\ objectAt' = objectAt
    BY <1>1 DEF browserVars
  <2>3. CASE a \in Placing(r)
    <3>1. t.kind \in {"set", "delete"} /\ t.what = r /\ t.where = recorded[r]
      BY <2>1, <2>3 DEF Placing, ObjectInv, t
    <3>2. Placing(r) = {a}
      BY <2>1, <2>3 DEF ObjectInv
    <3>3. Placing(r)' = {}
      BY <1>2, <3>2 DEF Placing
    <3>4. n + 1 \in Sets(r)' /\ \A i \in Sets(r)' : i \in Nat /\ i <= n + 1
      BY <1>3, <1>4, <3>1 DEF Sets
    <3>5. ASSUME NEW i \in Sets(r)', \A j \in Sets(r)' : j <= i
          PROVE  taskQueue'[i].where = recorded'[r]
      <4>1. n + 1 <= i /\ i <= n + 1 /\ i \in Nat
        BY <3>4, <3>5
      <4>2. i = n + 1
        BY <1>3, <4>1
      <4> QED
        BY <1>3, <2>2, <3>1, <4>2
    <3>6. ASSUME NEW i \in 1 .. Len(taskQueue'), \A j \in Sets(r)' : j < i
          PROVE  FALSE
      <4>1. i \in Nat /\ i <= n + 1 /\ n + 1 < i
        BY <1>4, <3>4, <3>6
      <4> QED
        BY <1>3, <4>1
    <3>7. Sets(r)' # {}
      BY <3>4
    <3> QED
      BY <3>3, <3>5, <3>6, <3>7 DEF ObjectInv
  <2>4. CASE a \notin Placing(r)
    <3>1. Placing(r)' = Placing(r) /\ \A b \in Placing(r) : asking'[b] = asking[b]
      BY <1>2, <2>4 DEF Placing
    <3>2. ~(t.kind \in {"set", "delete"} /\ t.what = r)
      BY <1>1, <2>4 DEF Placing, t
    <3>3. ~(t.kind = "move")
      BY <1>1 DEF ViewTypeInv, t
    <3> QED
      BY <1>1, <1>2, <2>1, <2>2, <3>1, <3>2, <3>3, ObjectGrows
  <2> QED
    BY <2>3, <2>4
<1>7. FramesInv'
  <2> SUFFICES ASSUME NEW f \in Frames \ muddled' PROVE FrameInv(f)'
    BY DEF FramesInv
  <2>1. FrameInv(f)
    BY <1>1 DEF FramesInv
  <2>2. UNCHANGED <<up, turn, before, shown, hidden, frameAt>>
    BY <1>1 DEF browserVars
  <2>3. CASE a \in Turning(f)
    <3>1. t.kind = "frames" /\ f \in t.what /\ t.where[f] = Due(f) /\ up
      BY <2>1, <2>3 DEF Turning, FrameInv, t
    <3>2. Turning(f) = {a}
      BY <2>1, <2>3 DEF FrameInv
    <3>3. Turning(f)' = {}
      BY <1>2, <3>2 DEF Turning
    <3>4. n + 1 \in Turns(f)' /\ \A i \in Turns(f)' : i \in Nat /\ i <= n + 1
      BY <1>3, <1>4, <3>1 DEF Turns
    <3>5. Due(f)' = Due(f)
      BY <2>2 DEF Due, Place
    <3>6. ASSUME NEW i \in Turns(f)', \A j \in Turns(f)' : j <= i
          PROVE  taskQueue'[i].where[f] = Due(f)'
      <4>1. n + 1 <= i /\ i <= n + 1 /\ i \in Nat
        BY <3>4, <3>6
      <4>2. i = n + 1
        BY <1>3, <4>1
      <4> QED
        BY <1>3, <3>1, <3>5, <4>2
    <3>7. Turns(f)' # {}
      BY <3>4
    <3> QED
      BY <2>2, <3>1, <3>3, <3>6, <3>7 DEF FrameInv
  <2>4. CASE a \notin Turning(f)
    <3>1. Turning(f)' = Turning(f) /\ \A b \in Turning(f) : asking'[b] = asking[b]
      BY <1>2, <2>4 DEF Turning
    <3>2. ~(t.kind = "frames" /\ f \in t.what)
      BY <1>1, <2>4 DEF Turning, t
    <3> QED
      BY <1>1, <1>2, <2>1, <2>2, <3>1, <3>2, FrameGrows
  <2> QED
    BY <2>3, <2>4
<1> QED
  BY <1>5, <1>6, <1>7

(* Every step keeps the record and what is under way to the browser in     *)
(* agreement.                                                              *)
LEMMA ViewStep == ViewInv /\ [ViewNext]_viewVars => ViewInv'
<1> SUFFICES ASSUME ViewInv, [ViewNext]_viewVars PROVE ViewInv'
  OBVIOUS
<1>1. CASE UNCHANGED viewVars
  <2> USE DEF ViewInv
  <2>0. UNCHANGED <<up, web, turn, before, shown, recorded, hidden, taskQueue,
                    objectAt, frameAt, modelAt, asking, muddled>>
    BY <1>1 DEF viewVars, browserVars
  <2>1. ViewTypeInv'
    BY <2>0 DEF ViewTypeInv
  <2>2. ObjectsInv'
    <3>1. \A p : Placing(p)' = Placing(p)
      BY <2>0 DEF Placing
    <3> QED
      BY <2>0, <3>1, ObjectSame DEF ObjectsInv
  <2>3. FramesInv'
    <3>1. \A f : Turning(f)' = Turning(f)
      BY <2>0 DEF Turning
    <3> QED
      BY <2>0, <3>1, FrameSame DEF FramesInv
  <2> QED
    BY <2>1, <2>2, <2>3
<1>2. CASE ViewNext
  BY <1>2, StartStep, StopStep, RunStep, AxesStep, MoveStep, QueueStep, DeleteStep,
     SetStep, ToggleObjectStep, ToggleModelStep, ToggleFrameStep DEF ViewNext
<1> QED
  BY <1>1, <1>2

(* Once everything asked for has reached the browser (QueueMeshcatTask,    *)
(* RunMeshcatTasks), objects and axes are where SetObject, DeleteObject,   *)
(* ToggleObject, ToggleFrame and the robot's movement left them on record. *)
THEOREM BrowserShowsRecord == ViewSpec => []BrowserAgrees
<1>1. ViewInv => BrowserAgrees
  <2> SUFFICES ASSUME ViewInv, up, Settled PROVE BrowserAgrees
    BY DEF BrowserAgrees
  <2> USE DEF ViewInv
  <2>1. turn = "begin" /\ 1 .. Len(taskQueue) = {} /\ \A a \in Askers : asking[a] = NoRequest
    BY DEF Settled
  <2>2. ASSUME NEW p \in Paths \ muddled, objectAt[p] # Nowhere
        PROVE  recorded[p] # Nowhere /\ objectAt[p] \in {Away, recorded[p]}
    <3>1. Placing(p) = {} /\ Sets(p) = {}
      BY <2>1 DEF Placing, Sets
    <3> QED
      BY <2>2, <3>1 DEF ObjectsInv, ObjectInv, OnRecord
  <2>3. ASSUME NEW f \in Frames \ muddled PROVE frameAt[f] = Place(f, shown, ~hidden[f])
    <3>1. Turning(f) = {} /\ Turns(f) = {}
      BY <2>1 DEF Turning, Turns
    <3> QED
      BY <2>1, <3>1 DEF FramesInv, FrameInv, Due
  <2> QED
    BY <2>2, <2>3 DEF BrowserAgrees
<1> QED
  BY <1>1, ViewInitInv, ViewStep, PTL DEF ViewSpec
=============================================================================
