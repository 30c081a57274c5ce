--------------------------- MODULE MCSharedState ---------------------------
(***************************************************************************)
(* The two parts of the state that the planning and the registry requests  *)
(* of all gRPC threads share, each explored from its own initial states:   *)
(* the settings that a request overrides, and the registry of contexts.    *)
(* No step of one touches the other.                                       *)
(***************************************************************************)
EXTENDS ScopedOverride, ResourceRegistry, TLC

VARIABLE part

Overriding == /\ part = "settings" /\ UNCHANGED <<part, registryVars>>
              /\ Next

Registering == /\ part = "registry" /\ UNCHANGED <<part, vars>>
               /\ RegistryNext

\* The part that is not explored stays in one of its initial states.
MCInit ==
    /\ part \in {"settings", "registry"}
    /\ Init
    /\ RegistryInit
    /\ part = "settings" => disk = {}
    /\ part = "registry" =>
          ask = [r \in Requests |-> [kind |-> "check", collision |-> FALSE, limits |-> "none"]]

MCSpec == MCInit /\ [][Overriding \/ Registering]_<<part, vars, registryVars>>

AllOps == DOMAIN Accesses
Symmetry == Permutations(Requests) \cup Permutations(Threads)
=============================================================================
