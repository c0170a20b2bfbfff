------------------------------ MODULE MCPlugins ------------------------------
(***************************************************************************)
(* What is at either end of the connector, checked in one run: the gate of *)
(* the archharness agent before it and the simulator plugins behind it.    *)
(* Each behaviour is one of one of them; the other stays where it began.   *)
(***************************************************************************)
EXTENDS PredictGate, SimulatorPlugins, TLC

VARIABLE end   \* the component that moves

endVars == <<end, vars, pluginVars>>

(* Submissions are alike, in both modules.                                 *)
Symmetry == Permutations(Subs) \cup Permutations(Jobs)

GateRests == advertised = {} /\ ipc = FALSE /\ Init
PluginRests == plugin = "mnsim" /\ layout = "inside" /\ PluginInit

EndsInit ==
    \/ end = "gate" /\ Init /\ PluginRests
    \/ end = "plugin" /\ PluginInit /\ GateRests

EndsNext ==
    \/ end = "gate" /\ Next /\ UNCHANGED <<end, pluginVars>>
    \/ end = "plugin" /\ PluginNext /\ UNCHANGED <<end, vars>>

EndsSpec == EndsInit /\ [][EndsNext]_endVars
=============================================================================
