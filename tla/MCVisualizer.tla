---------------------------- MODULE MCVisualizer ----------------------------
(***************************************************************************)
(* The two protocols that the gRPC threads of VisualizerService follow,    *)
(* each on a small instance of its own: a behaviour belongs to one of      *)
(* them, and in the other nobody has come yet.                             *)
(***************************************************************************)
EXTENDS VisualizerHub, StreamSlot

VARIABLE protocol

(* Two models of different length. *)
CONSTANTS m1, m2
MCModels == {m1, m2}
MCNumPositions == [m \in Loaded |-> IF m = m2 THEN 2 ELSE 1]

HubOff ==
    /\ status = "Idle" /\ adapter = None /\ draco = None
    /\ defaultInit = FALSE /\ pending = None /\ tasks = FALSE
    /\ hubAt = "Wait" /\ hubStatus = "Idle" /\ overlapped = FALSE
    /\ at = [c \in Clients |-> "Idle"] /\ model = [c \in Clients |-> None]

VisualizerInit ==
    \/ protocol = "hub" /\ Init /\ SlotInit
    \/ protocol = "slot" /\ HubOff /\ SlotInit

VisualizerNext ==
    \/ protocol = "hub" /\ Next /\ UNCHANGED <<protocol, slotVars>>
    \/ protocol = "slot" /\ SlotNext /\ UNCHANGED <<protocol, vars>>

(* Neither of the other protocol's actions is enabled, so that its fairness *)
(* asks for nothing.                                                        *)
VisualizerSpec ==
    /\ VisualizerInit
    /\ [][VisualizerNext]_<<protocol, vars, slotVars>>
    /\ Fairness
    /\ SlotFairness
=============================================================================
