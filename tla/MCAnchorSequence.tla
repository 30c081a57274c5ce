-------------------------- MODULE MCAnchorSequence --------------------------
(* Two arms; anchors that pose one arm, fix the other, or fix both.        *)
EXTENDS AnchorSequence

CONSTANTS left, right

MCArms == {left, right}
Posing(arms) == [conf |-> {}, poses |-> arms]
Fixing(arms) == [conf |-> arms, poses |-> {}]
MCAnchors == {Posing({left}), Fixing({right}), Fixing(MCArms)}
MCPlanners == {"straight", "gcs", "sample"}
=============================================================================
