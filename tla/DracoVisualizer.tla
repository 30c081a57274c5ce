---------------------------- MODULE DracoVisualizer ----------------------------
(***************************************************************************)
(* The planner's own visualizer (draco/visualizer): planning threads add   *)
(* items, a thread with a browser window lists them as buttons and plays   *)
(* the one that is clicked, under the collision options the planner had    *)
(* when the item was added.  The thread holds those options as a scope     *)
(* (CollisionOptionsScope, common/override.h): the next item's cannot be   *)
(* taken before it is released, and its release puts the standard options  *)
(* back.  Taking, releasing and drawing are steps of their own.            *)
(*                                                                         *)
(* The label of an item is its number.  An item that does not fit the      *)
(* model ends the process with an exception, and has no place here.        *)
(***************************************************************************)
EXTENDS Naturals, Sequences, FiniteSets

CONSTANTS
  Items,        \* records [kind, options]; options may be Standard
  Standard,     \* the collision options of the visualizer's own constraints
  MaxQueueSize, \* max_queue_size_
  MaxItems      \* bound on the items added

ASSUME ItemsAssumption ==
  /\ \A i \in Items : i.kind \in {"configuration", "trajectory", "failed", "long"}
  /\ MaxQueueSize \in Nat \ {0} /\ MaxItems \in Nat

VARIABLES
  incoming,     \* incoming_queue_: labels
  counter,      \* queue_counter_
  added,        \* the item behind each label
  listed,       \* DOMAIN of label_viz_map
  order,        \* label_order
  buttons,      \* the labels that have a button in the browser
  clicked,      \* ... and those among them that were clicked
  scope,        \* current_display_scope: the label whose options it holds
  inEffect,     \* the collision options of robot_constraints
  clickedLabel, \* clicked_label
  onShow,       \* the item of which the browser shows a configuration
  drawnUnder,   \* the options in effect when the browser was last drawn
  window,       \* where the thread is
  hasDefault,   \* default_q has a value
  stopped       \* stop_

queueVars == <<incoming, counter, added, listed, order>>
optionVars == <<scope, inEffect>>
drawVars == <<onShow, drawnUnder>>
windowVars == <<queueVars, buttons, clicked, optionVars, clickedLabel, drawVars,
                window, hasDefault, stopped>>
NoItem == 0

DisplayInit ==
  /\ incoming = <<>> /\ counter = 0 /\ added = [l \in {} |-> NoItem]
  /\ listed = {} /\ order = <<>> /\ buttons = {} /\ clicked = {}
  /\ scope = NoItem /\ inEffect = Standard
  /\ clickedLabel = NoItem /\ onShow = NoItem /\ drawnUnder = Standard
  /\ window = "wait" /\ hasDefault \in BOOLEAN /\ stopped = FALSE

\* Add: the oldest that still waits makes room.
Add(item) ==
  /\ counter < MaxItems /\ ~stopped
  /\ counter' = counter + 1
  /\ added' = [l \in DOMAIN added \cup {counter'} |->
                 IF l = counter' THEN item ELSE added[l]]
  /\ incoming' = Append(IF Len(incoming) >= MaxQueueSize
                          THEN Tail(incoming) ELSE incoming, counter')
  /\ UNCHANGED <<listed, order, buttons, clicked, optionVars, clickedLabel,
                 drawVars, window, hasDefault, stopped>>

\* The thread wakes up, at the latest when its interval is over: what waits
\* is listed, and the oldest leave the list.
Drain ==
  /\ window = "wait" /\ ~stopped
  /\ LET all == order \o incoming
         drop == IF Len(all) > MaxQueueSize THEN Len(all) - MaxQueueSize ELSE 0
         gone == {all[i] : i \in 1 .. drop}
     IN /\ order' = SubSeq(all, drop + 1, Len(all))
        /\ listed' = (listed \cup {incoming[i] : i \in DOMAIN incoming}) \ gone
        /\ buttons' = (buttons \cup {incoming[i] : i \in DOMAIN incoming}) \ gone
        /\ clicked' = clicked \ gone
  /\ incoming' = <<>>
  /\ window' = "look"
  /\ UNCHANGED <<counter, added, optionVars, clickedLabel, drawVars, hasDefault,
                 stopped>>

\* Main returns, and what it holds with it.
DisplayEnds ==
  /\ window = "wait" /\ stopped
  /\ window' = "end" /\ scope' = NoItem /\ inEffect' = Standard
  /\ UNCHANGED <<queueVars, buttons, clicked, clickedLabel, drawVars, hasDefault,
                 stopped>>

Click(l) ==
  /\ l \in buttons
  /\ clicked' = clicked \cup {l}
  /\ UNCHANGED <<queueVars, buttons, optionVars, clickedLabel, drawVars, window,
                 hasDefault, stopped>>

\* The ID button shows the default configuration again, if there is one.
ResetByButton ==
  /\ window = "look" /\ hasDefault
  /\ window' = "clear"
  /\ UNCHANGED <<queueVars, buttons, clicked, optionVars, clickedLabel, drawVars,
                 hasDefault, stopped>>

NothingClicked ==
  /\ window = "look" /\ clicked \cap listed = {}
  /\ window' = "wait"
  /\ UNCHANGED <<queueVars, buttons, clicked, optionVars, clickedLabel, drawVars,
                 hasDefault, stopped>>

-----------------------------------------------------------------------------
\* One item, from the click to the next wait.

\* One of the clicked items is chosen, the buttons of all are taken away.
Show(l) ==
  /\ window = "look" /\ l \in clicked \cap listed
  /\ buttons' = buttons \ listed /\ clicked' = {}
  /\ clickedLabel' = l
  /\ window' = "release"
  /\ UNCHANGED <<queueVars, optionVars, drawVars, hasDefault, stopped>>

\* Mutated: the scope of the item before is left to be overwritten.
ReleaseLastLater ==
  /\ window = "release"
  /\ window' = "apply"
  /\ UNCHANGED <<queueVars, buttons, clicked, optionVars, clickedLabel, drawVars,
                 hasDefault, stopped>>

\* The scope of the item before goes: its destructor restores.
ReleaseLast ==
  /\ window = "release"
  /\ scope' = NoItem /\ inEffect' = Standard
  /\ window' = "apply"
  /\ UNCHANGED <<queueVars, buttons, clicked, clickedLabel, drawVars, hasDefault,
                 stopped>>

\* ApplySnapshotScoped.  Settings that still have an owner are waited for
\* until the time is out; the exception leaves the thread, and ends the
\* process.
ApplySnapshot ==
  /\ window = "apply"
  /\ IF scope # NoItem
       THEN window' = "dead" /\ UNCHANGED optionVars
       ELSE /\ scope' = clickedLabel /\ inEffect' = added[clickedLabel].options
            /\ window' = "display"
  /\ UNCHANGED <<queueVars, buttons, clicked, clickedLabel, drawVars, hasDefault,
                 stopped>>

\* A configuration is drawn and that is all; a trajectory or a failed inverse
\* kinematics is drawn over and over until its end is double-clicked; a
\* trajectory that is too long is not drawn.
Display ==
  /\ window = "display"
  /\ IF added[clickedLabel].kind = "long"
       THEN UNCHANGED drawVars
       ELSE onShow' = clickedLabel /\ drawnUnder' = inEffect
  /\ window' = IF added[clickedLabel].kind \in {"configuration", "long"}
                 THEN "restore" ELSE "play"
  /\ UNCHANGED <<queueVars, buttons, clicked, optionVars, clickedLabel, hasDefault,
                 stopped>>

\* The loop looks at the user's clicks and at nothing else, not at stop_.
EndOfPlay ==
  /\ window = "play"
  /\ window' = "restore"
  /\ UNCHANGED <<queueVars, buttons, clicked, optionVars, clickedLabel, drawVars,
                 hasDefault, stopped>>

\* The buttons come back.  After a configuration that is all: its scope
\* stays, as long as it is on show.
Restore ==
  /\ window = "restore"
  /\ buttons' = buttons \cup listed
  /\ IF added[clickedLabel].kind = "configuration"
       THEN window' = "wait" /\ clickedLabel' = NoItem
       ELSE window' = "clear" /\ UNCHANGED clickedLabel
  /\ UNCHANGED <<queueVars, clicked, optionVars, drawVars, hasDefault,
                 stopped>>

\* current_display_scope.reset(), after any other item or for the ID button.
Clear ==
  /\ window = "clear"
  /\ scope' = NoItem /\ inEffect' = Standard
  /\ window' = "redraw"
  /\ UNCHANGED <<queueVars, buttons, clicked, clickedLabel, drawVars, hasDefault,
                 stopped>>

\* Update with the default configuration.  Without one the browser keeps
\* what it shows, and draws it anew.
Redraw ==
  /\ window = "redraw"
  /\ onShow' = IF hasDefault THEN NoItem ELSE onShow
  /\ drawnUnder' = inEffect
  /\ window' = IF clickedLabel = NoItem THEN "look" ELSE "wait"
  /\ clickedLabel' = NoItem
  /\ UNCHANGED <<queueVars, buttons, clicked, optionVars, hasDefault, stopped>>

\* Kill, or the destructor before it joins the thread.
Kill ==
  /\ ~stopped /\ stopped' = TRUE
  /\ UNCHANGED <<queueVars, buttons, clicked, optionVars, clickedLabel, drawVars,
                 window, hasDefault>>

DisplayNext ==
  \/ \E item \in Items : Add(item)
  \/ \E l \in 1 .. MaxItems : Click(l) \/ Show(l)
  \/ Drain \/ ResetByButton \/ NothingClicked
  \/ ReleaseLast \/ ApplySnapshot \/ Display \/ EndOfPlay
  \/ Restore \/ Clear \/ Redraw
  \/ Kill \/ DisplayEnds

DisplaySpec == DisplayInit /\ [][DisplayNext]_windowVars

-----------------------------------------------------------------------------
\* The newest items never get lost, however adding, listing and evicting
\* interleave: each waits or is listed, and once the thread is idle each one
\* listed has its button, as the eviction demands (draco_visualizer.cc:441,
\* :492; draco_visualizer.h:92).
NewestItemsStay ==
  /\ \A l \in 1 .. counter :
       l + MaxQueueSize > counter =>
         l \in listed \/ \E i \in DOMAIN incoming : incoming[i] = l
  /\ listed = {order[i] : i \in DOMAIN order}
  /\ Cardinality(listed) = Len(order)
  /\ window \in {"wait", "look"} => buttons = listed

OptionsOf(l) == IF l = NoItem THEN Standard ELSE added[l].options

\* Whenever the user looks at the window, what he sees was drawn under the
\* options that are in effect, and these are the standard ones or those of
\* the item on show, as what is drawn says of collisions; if there is a
\* default configuration to go back to, they are those of the item on show.
\* The thread never meets settings that the scope before still owns
\* (draco_visualizer.cc:496, :527).
ShownUnderItsOptions ==
  /\ window # "dead"
  /\ window \in {"wait", "look", "play"} =>
       /\ drawnUnder = inEffect /\ inEffect = OptionsOf(scope)
       /\ scope \in {NoItem, onShow}
       /\ hasDefault \/ window = "play" => scope = onShow
=============================================================================
