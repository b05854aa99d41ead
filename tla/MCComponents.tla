---------------------------- MODULE MCComponents ----------------------------
(* Components that share no state, side by side: one of them runs in each   *)
(* behaviour, from every state it starts in, and the others stand still. One *)
(* world of the monitor is as good as another to begin with.                *)
EXTENDS RunControl, AssistantTurns, PolicyBridge, EpisodeMonitor, BenchmarkRun

VARIABLE part

partVars == <<control, turnVars, bridgeVars, monitorVars, benchVars, part>>

\* One or two tools in each run of the monitor.
MCToolsets ==
    {{"look"}, {"read", "page"}, {"page", "refused"},
     {CHOOSE o \in Operations : TRUE, "page"}, Operations}

PartsInit ==
    /\ part \in {"control", "turns", "bridge", "monitor", "bench"}
    /\ ControlInit /\ TurnsInit /\ BridgeInit /\ MonitorInit /\ BenchInit
    /\ part # "bridge" => run.at = "running"
    /\ walk.world = CHOOSE w \in PublicWorlds : TRUE
    /\ part # "monitor" => walk.tools = Operations

ControlPart ==
    /\ part = "control" /\ ControlNext
    /\ UNCHANGED <<turnVars, bridgeVars, monitorVars, benchVars, part>>
TurnsPart ==
    /\ part = "turns" /\ TurnsNext
    /\ UNCHANGED <<control, bridgeVars, monitorVars, benchVars, part>>
BridgePart ==
    /\ part = "bridge" /\ BridgeNext
    /\ UNCHANGED <<control, turnVars, monitorVars, benchVars, part>>
MonitorPart ==
    /\ part = "monitor" /\ MonitorNext
    /\ UNCHANGED <<control, turnVars, bridgeVars, benchVars, part>>
BenchPart ==
    /\ part = "bench" /\ BenchNext
    /\ UNCHANGED <<control, turnVars, bridgeVars, monitorVars, part>>

PartsNext == ControlPart \/ TurnsPart \/ BridgePart \/ MonitorPart \/ BenchPart

PartsSpec == PartsInit /\ [][PartsNext]_partVars /\ TurnsFairness /\ BenchFairness
=============================================================================
