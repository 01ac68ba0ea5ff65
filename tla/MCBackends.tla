----------------------------- MODULE MCBackends -----------------------------
(* Small instances of SandboxOrchestrator and of Machines in one run: part   *)
(* says which of the two moves, they share no state.                         *)
EXTENDS MCSandboxOrchestrator

CONSTANTS NumIds, HeadlessPorts, DesktopPorts, HostFaults

\* The ranges of ports are apart (config.py).
ASSUME HostAssumption ==
  /\ NumIds \in Nat
  /\ HeadlessPorts \in SUBSET (Nat \ {0}) /\ DesktopPorts \in SUBSET (Nat \ {0})
  /\ HeadlessPorts \cap DesktopPorts = {}

VARIABLES part, units, port, taken, used, container, volumes, disks, domain,
          rules, calls, orphans, cut, failed

Host == INSTANCE Machines WITH pool <- units, left <- orphans, faults <- failed, MaxFaults <- HostFaults

orchestratorVars == <<cache, agentMap, pod, services, job, drawn, faults, strays, resold>>
hostVars == <<units, port, taken, used, container, volumes, disks, domain, rules,
              calls, orphans, cut, failed>>

BothInit == part \in {"cluster", "host"} /\ Init /\ Host!Init

(* Machines ends where no unit is to be made any more.                       *)
BothNext ==
  /\ UNCHANGED part
  /\ \/ part = "cluster" /\ Next /\ UNCHANGED hostVars
     \/ part = "host" /\ Host!Next /\ UNCHANGED orchestratorVars
     \/ part = "host" /\ UNCHANGED <<orchestratorVars, hostVars>>

BothSpec == BothInit /\ [][BothNext]_<<part, orchestratorVars, hostVars>>

(* Machines: nothing is left on the host but what is known to be, and no     *)
(* unit's rules are missing.                                                 *)
HostInOrder == Host!HostInOrder
=============================================================================
