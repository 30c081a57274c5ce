---------------------------- MODULE StreamSlot ----------------------------
(***************************************************************************)
(* VisualizerService::DoStreamConfigurations: of the gRPC threads that     *)
(* stream robot configurations one at a time holds the slot                *)
(* (active_streamer_ and active_streamer_ctx_, under                       *)
(* active_streamer_mutex_).  A newcomer cancels the incumbent and waits at *)
(* most five seconds for it to leave, then takes the slot by force.  Each  *)
(* stretch between the taking and the releasing of the mutex is one step.  *)
(* A stream is one invocation of the handler, with a ServerContext of its  *)
(* own that lives exactly as long as the invocation.                       *)
(***************************************************************************)
EXTENDS Naturals

CONSTANTS
    Streams,        \* invocations of the handler
    Nobody          \* the empty slot: nullptr, and the empty peer name

ASSUME NobodyAssumption == Nobody \notin Streams

VARIABLES
    slot,           \* active_streamer_ctx_
    streamAt,       \* where each invocation is
    cancelled,      \* the contexts on which TryCancel was called
    pushing,        \* streams with an entry in the hub's robot_last_push_time_
    forced          \* history: some newcomer ran out of patience

slotVars == <<slot, streamAt, cancelled, pushing, forced>>

(* "New" has not been called yet.  "Read" is in reader->Read, "Set" between *)
(* the test of the hub's status and DoSetConfiguration.  "Thrown" has ended *)
(* by an exception, past the epilogue, and gRPC has answered in its place.  *)
Points == {"New", "Evict", "Read", "Set", "Epilogue", "Done", "Thrown"}

Streaming(s) == streamAt[s] \in {"Read", "Set", "Epilogue"}

SlotTypeOK ==
    /\ slot \in Streams \cup {Nobody}
    /\ streamAt \in [Streams -> Points]
    /\ cancelled \subseteq Streams
    /\ pushing \subseteq Streams
    /\ forced \in BOOLEAN
    /\ \A s \in cancelled \cup pushing : streamAt[s] \notin {"New", "Evict"}

SlotInit ==
    /\ slot = Nobody
    /\ streamAt = [s \in Streams |-> "New"]
    /\ cancelled = {}
    /\ pushing = {}
    /\ forced = FALSE

Enter(s, point) == streamAt' = [streamAt EXCEPT ![s] = point]

-----------------------------------------------------------------------------
(* Taking the slot.                                                         *)

(* Mutated: the newcomer does not wait for the incumbent to leave. *)
EvictAtOnce(s) ==
    /\ streamAt[s] = "New"
    /\ slot # Nobody
    /\ cancelled' = cancelled \cup {slot}
    /\ slot' = s
    /\ Enter(s, "Read")
    /\ UNCHANGED <<pushing, forced>>

Evict(s) ==
    /\ streamAt[s] = "New"
    /\ slot # Nobody
    /\ cancelled' = cancelled \cup {slot}
    /\ Enter(s, "Evict")
    /\ UNCHANGED <<slot, pushing, forced>>

(* The slot was free on arrival, or the wait's predicate came true.  Several *)
(* newcomers may wait at once: any of them may be first to the mutex.        *)
Take(s) ==
    /\ streamAt[s] \in {"New", "Evict"}
    /\ slot = Nobody
    /\ slot' = s
    /\ Enter(s, "Read")
    /\ UNCHANGED <<cancelled, pushing, forced>>

(* Mutated: whom it did not cancel itself, a newcomer leaves alone. *)
TakeByForceIfCancelled(s) ==
    /\ streamAt[s] = "Evict"
    /\ slot \in cancelled
    /\ slot' = s
    /\ forced' = TRUE
    /\ Enter(s, "Read")
    /\ UNCHANGED <<cancelled, pushing>>

(* The wait timed out.  Whoever holds the slot by now loses it: another      *)
(* newcomer may have taken it meanwhile, and nobody has cancelled that one.  *)
TakeByForce(s) ==
    /\ streamAt[s] = "Evict"
    /\ slot # Nobody
    /\ slot' = s
    /\ forced' = TRUE
    /\ Enter(s, "Read")
    /\ UNCHANGED <<cancelled, pushing>>

-----------------------------------------------------------------------------
(* Reading and leaving.                                                     *)

(* A packet for an active hub; one for a hub that is not active is dropped  *)
(* with no change of state.  What had arrived before TryCancel may still be *)
(* read after it.                                                           *)
Packet(s) ==
    /\ streamAt[s] = "Read"
    /\ Enter(s, "Set")
    /\ UNCHANGED <<slot, cancelled, pushing, forced>>

(* DoSetConfiguration records the push and, where it rejects the packet,    *)
(* ends the loop.                                                           *)
SetAccepted(s) ==
    /\ streamAt[s] = "Set"
    /\ pushing' = pushing \cup {s}
    /\ Enter(s, "Read")
    /\ UNCHANGED <<slot, cancelled, forced>>

SetRejected(s) ==
    /\ streamAt[s] = "Set"
    /\ Enter(s, "Epilogue")
    /\ UNCHANGED <<slot, cancelled, pushing, forced>>

(* The hub was stopped since its status was tested, or the packet does not  *)
(* convert: the exception leaves the handler, and nothing in it catches it. *)
SetThrows(s) ==
    /\ streamAt[s] = "Set"
    /\ Enter(s, "Thrown")
    /\ UNCHANGED <<slot, cancelled, pushing, forced>>

(* Read returns false: the client finished, was lost, or was cancelled.     *)
ReadEnds(s) ==
    /\ streamAt[s] = "Read"
    /\ Enter(s, "Epilogue")
    /\ UNCHANGED <<slot, cancelled, pushing, forced>>

(* The slot is cleared whoever holds it, and ClearStreamingState forgets    *)
(* the pushes of every stream.                                              *)
Epilogue(s) ==
    /\ streamAt[s] = "Epilogue"
    /\ slot' = Nobody
    /\ pushing' = {}
    /\ Enter(s, "Done")
    /\ UNCHANGED <<cancelled, forced>>

Step(s) ==
    \/ Evict(s)
    \/ Take(s)
    \/ TakeByForce(s)
    \/ Packet(s)
    \/ SetAccepted(s)
    \/ SetRejected(s)
    \/ SetThrows(s)
    \/ ReadEnds(s)
    \/ Epilogue(s)

SlotNext == \E s \in Streams : Step(s)

SlotSpec == SlotInit /\ [][SlotNext]_slotVars

(* wait_for returns, at the latest when it times out, and a handler's own   *)
(* code does not block outside Read.  Nothing makes a Read return: the       *)
(* incumbent may be stuck in it for ever.                                    *)
SlotFairness ==
    \A s \in Streams :
        /\ WF_slotVars(streamAt[s] = "Evict" /\ (Take(s) \/ TakeByForce(s)))
        /\ WF_slotVars(SetAccepted(s) \/ SetRejected(s) \/ SetThrows(s))
        /\ WF_slotVars(Epilogue(s))

FairSlotSpec == SlotSpec /\ SlotFairness

-----------------------------------------------------------------------------
(* Properties.                                                              *)

(* Unless a newcomer ran out of patience, no two handlers feed the hub at   *)
(* once, and the one that does holds the slot: what the test                *)
(* StreamConfigurations_NewClientDropsIncumbent relies on.                  *)
StreamerOwnsSlot ==
    ~forced => \A s \in Streams : Streaming(s) => slot = s

(* TryCancel is called on the context of a handler that is still running:   *)
(* "the incumbent handler's ServerContext remains valid" (viz_service.cc    *)
(* 165).  An exception of DoSetConfiguration leaves past the epilogue with  *)
(* the pointer still in the slot, and refutes it.                           *)
SlotContextAlive ==
    [][\A s \in Streams : Evict(s) => Streaming(slot)]_slotVars

(* The push times behind the "Position Stream" button are those of the      *)
(* stream that holds the slot: a stream that is gone never looks active,    *)
(* unless a takeover was forced.                                            *)
NoStaleActivity == ~forced => pushing \subseteq {slot}

(* A newcomer gets to stream, however stuck the incumbent is and however    *)
(* many others wait.                                                        *)
NewcomerAdmitted ==
    \A s \in Streams : streamAt[s] = "Evict" ~> Streaming(s)
=============================================================================
