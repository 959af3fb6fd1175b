-------------------------- MODULE MCResidentSystem --------------------------
(***************************************************************************)
(* Instances of ResidentSystem for TLC.                                    *)
(***************************************************************************)
EXTENDS ResidentSystem, TLC

Shape(p, m, e) == [prompt |-> p, max |-> m, eligible |-> e, grammar |-> FALSE]

\* Prompts of two and three tokens, the eligible ones within five positions.
PrefillShapes == {Shape(2, 4, TRUE), Shape(3, 2, TRUE), Shape(2, 2, FALSE)}

\* One-token prompts as well, which the Device starts without an import.
MixedShapes == {Shape(1, 3, TRUE), Shape(2, 3, TRUE), Shape(2, 2, FALSE)}

\* The same with one that outgrows the row after a few tokens.
AnyShapes == MixedShapes \cup {Shape(3, 4, TRUE)}

\* Without failures the two engines of the plugin do the same.
AllDeployments == {"plugin", "dedicated"} \X {"sidecar", "ctypes"}
SidecarDeployments == AllDeployments \ {<<"plugin", "ctypes">>}
PluginDeployment == {<<"plugin", "sidecar">>}

WholePrompt == {4}
Symmetry == Permutations(Req)
=============================================================================
