------------------------------- MODULE Machines -------------------------------
(***************************************************************************)
(* What the pool manager makes on its host for a unit, and takes away      *)
(* again: a container and its volume (docker_manager.py), or a VM with its *)
(* disk images, libvirt domain and the iptables rules of its port          *)
(* (vm_manager.py).  Each operation is several commands that run in a      *)
(* thread of their own, any of which may fail and be half done; operations *)
(* on the same unit overlap; the process may end between any two and       *)
(* begins with a comparison of its file with what runs.                    *)
(*                                                                         *)
(* PoolManager has the units' status, the budget and who may do what when; *)
(* here a unit is registered or not.                                       *)
(***************************************************************************)
EXTENDS Integers, FiniteSets

CONSTANTS
  NumIds,         \* bound on the units ever made
  HeadlessPorts, DesktopPorts,
  Calls,          \* operations at a time
  MaxFaults       \* bound on commands that fail, deaths of machines and ends of the process

Ids == 1 .. NumIds
NoPort == 0
Chains == {"PREROUTING", "OUTPUT", "DOCKER-USER"}

VARIABLES
  pool,        \* the units in the pool manager's file, by kind
  port,        \* the port of each unit, also after its end
  taken,       \* PortAllocator._used
  used,        \* ids given
  container,   \* the container sandbox-<id>
  volumes,     \* ids whose volume exists
  disks,       \* ids whose QCOW2 image or cloud-init ISO exists
  domain,      \* the libvirt domain aict-vm-<id>
  rules,       \* how often each chain has the rule of a port
  calls,       \* what each operation is in the middle of
  left,        \* history: what is known to be left on the host
  cut,         \* history: ports whose rules an overlapping destruction may have taken
  faults

host == <<container, volumes, disks, domain, rules>>
registry == <<pool, port, taken, used>>
vars == <<registry, host, calls, left, cut, faults>>

Idle == [at |-> "rest", op |-> "none", id |-> 0, old |-> 0]
Unregistered == {i \in Ids : pool[i] = "none"}
NoRules == [c \in Chains |-> 0]
Free(ports) == ports \ taken
Lowest(S) == CHOOSE p \in S : \A q \in S : p <= q

Init ==
  /\ pool = [i \in Ids |-> "none"] /\ port = [i \in Ids |-> NoPort]
  /\ taken = {} /\ used = 0
  /\ container = [i \in Ids |-> "none"] /\ domain = [i \in Ids |-> "none"]
  /\ volumes = {} /\ disks = {}
  /\ rules = [p \in DesktopPorts |-> NoRules]
  /\ calls = [c \in Calls |-> Idle]
  /\ left = {} /\ cut = {} /\ faults = 0

TypeOK ==
  /\ pool \in [Ids -> {"none", "headless", "desktop"}]
  /\ port \in [Ids -> HeadlessPorts \cup DesktopPorts \cup {NoPort}]
  /\ taken \subseteq HeadlessPorts \cup DesktopPorts /\ used \in 0 .. NumIds
  /\ container \in [Ids -> {"none", "made", "runs"}]
  /\ domain \in [Ids -> {"none", "off", "runs", "stopping"}]
  /\ volumes \subseteq Ids /\ disks \subseteq Ids
  /\ rules \in [DesktopPorts -> [Chains -> Nat]]
  /\ left \subseteq Ids \X {"container", "volume", "vm"} /\ cut \subseteq DesktopPorts

Goes(c, place) == calls' = [calls EXCEPT ![c].at = place]
Ends(c) == calls' = [calls EXCEPT ![c] = Idle]
Fault == faults < MaxFaults /\ faults' = faults + 1
Leaves(things) == left' = left \cup things

(***************************************************************************)
(* The requests                                                            *)
(***************************************************************************)
(* reserve and allocate; a promotion or demotion makes the new machine      *)
(* first.  Without a free port nothing happens.                             *)
Begin(c, op, kind, old) ==
  LET ports == Free(IF kind = "headless" THEN HeadlessPorts ELSE DesktopPorts)
  IN /\ calls[c] = Idle /\ used < NumIds /\ ports # {}
     /\ used' = used + 1
     /\ port' = [port EXCEPT ![used'] = Lowest(ports)]
     /\ taken' = taken \cup {Lowest(ports)}
     /\ calls' = [calls EXCEPT ![c] =
          [at |-> IF kind = "headless" THEN "volume" ELSE "disk", op |-> op, id |-> used', old |-> old]]
     /\ UNCHANGED <<pool, host, left, cut, faults>>

Create(c) == \E kind \in {"headless", "desktop"} : Begin(c, "create", kind, 0)
Promote(c) == \E i \in Ids : pool[i] = "headless" /\ Begin(c, "promote", "desktop", i)
Demote(c) == \E i \in Ids : pool[i] = "desktop" /\ Begin(c, "demote", "headless", i)

(* Destructions by DELETE, the end of a session and _evict; resets and      *)
(* restores of containers; restarts of VMs.                                 *)
On(c, kind, op, place) ==
  /\ calls[c] = Idle
  /\ \E i \in Ids :
       /\ pool[i] = kind
       /\ calls' = [calls EXCEPT ![c] = [at |-> place, op |-> op, id |-> i, old |-> i]]
  /\ UNCHANGED <<registry, host, left, cut, faults>>

Destroy(c) == On(c, "headless", "destroy", "stop") \/ On(c, "desktop", "destroy", "undefine")
Reset(c) == On(c, "headless", "reset", "clear")
Reboot(c) == On(c, "desktop", "reboot", "shutdown")

(* A creation fails: the port is free again, and of what was made remains    *)
(* what the failing step has not undone.                                    *)
CreationFails(c) ==
  /\ taken' = taken \ {port[calls[c].id]}
  /\ Ends(c) /\ UNCHANGED <<pool, port, used>>

(***************************************************************************)
(* Containers                                                              *)
(***************************************************************************)
EnsureVolume(c) ==
  /\ calls[c].at = "volume"
  /\ \/ /\ volumes' = volumes \cup {calls[c].id}
        /\ Goes(c, "run") /\ UNCHANGED <<registry, faults>>
     \/ Fault /\ CreationFails(c) /\ UNCHANGED volumes
  /\ UNCHANGED <<container, disks, domain, rules, left, cut>>

PortBound(i) == \E j \in Ids \ {i} : container[j] = "runs" /\ port[j] = port[i]

(* containers.run: creates the container, and its volume where it is gone,   *)
(* and starts it; it stays when only the start fails.                       *)
Run(i, started) ==
  /\ container[i] = "none"
  /\ started => ~PortBound(i)
  /\ container' = [container EXCEPT ![i] = IF started THEN "runs" ELSE "made"]
  /\ volumes' = volumes \cup {i}

CreateContainer(c) ==
  LET i == calls[c].id
  IN /\ calls[c].at = "run"
     /\ \/ /\ Run(i, TRUE)
           /\ Goes(c, IF calls[c].op = "demote" THEN "undefine" ELSE "enter")
           /\ UNCHANGED <<registry, left, faults>>
        \/ /\ Run(i, FALSE) \/ UNCHANGED <<container, volumes>>
           /\ IF PortBound(i) THEN UNCHANGED faults ELSE Fault
           /\ Leaves({i} \X {"container", "volume"}) /\ CreationFails(c)
     /\ UNCHANGED <<disks, domain, rules, cut>>

Leaving(i) == pool[i] = "none" \/ \E d \in Calls : calls[d].old = i /\ calls[d].op \notin {"reset", "reboot"}

(* reset_container and restore_from_snapshot: the container goes and another *)
(* is made in its place, whether or not the unit is registered by then.      *)
ClearContainer(c) ==
  /\ calls[c].at = "clear"
  /\ \/ /\ container' = [container EXCEPT ![calls[c].id] = "none"]
        /\ Goes(c, "recreate") /\ UNCHANGED faults
     \/ Fault /\ Ends(c) /\ UNCHANGED container
  /\ UNCHANGED <<registry, volumes, disks, domain, rules, left, cut>>

RecreateContainer(c) ==
  LET i == calls[c].id
  IN /\ calls[c].at = "recreate"
     /\ \/ Run(i, TRUE) /\ UNCHANGED faults
        \/ /\ Run(i, FALSE) \/ UNCHANGED <<container, volumes>>
           /\ IF PortBound(i) \/ container[i] # "none" THEN UNCHANGED faults ELSE Fault
     /\ Leaves(IF Leaving(i) THEN {i} \X {"container", "volume"} ELSE {})
     /\ Ends(c)
     /\ UNCHANGED <<registry, disks, domain, rules, cut>>

(* destroy_container is idempotent.  What follows its failure differs: a     *)
(* DELETE goes on with the volume, an eviction and a promotion do not.       *)
DestroyContainer(c) ==
  LET i == calls[c].old
  IN /\ calls[c].at = "stop"
     /\ \/ /\ container' = [container EXCEPT ![i] = "none"]
           /\ Goes(c, "wipe") /\ UNCHANGED <<left, faults>>
        \/ /\ Fault /\ UNCHANGED container
           /\ Leaves({i} \X {"container", "volume"})
           /\ \/ calls[c].op = "destroy" /\ Goes(c, "wipe")
              \/ Goes(c, "enter")
     /\ UNCHANGED <<registry, volumes, disks, domain, rules, cut>>

(* A mutant: a promotion leaves the volume to the container's removal.       *)
RemoveVolumeOfDestroyed(c) ==
  LET i == calls[c].old
  IN /\ calls[c].at = "wipe"
     /\ volumes' = IF calls[c].op = "destroy" THEN volumes \ {i} ELSE volumes
     /\ Goes(c, "enter")
     /\ UNCHANGED <<registry, container, disks, domain, rules, left, cut, faults>>

(* Docker refuses to remove a volume a container has.                        *)
RemoveVolume(c) ==
  LET i == calls[c].old
  IN /\ calls[c].at = "wipe"
     /\ \/ container[i] = "none" /\ volumes' = volumes \ {i} /\ UNCHANGED <<left, faults>>
        \/ /\ IF container[i] = "none" THEN Fault ELSE UNCHANGED faults
           /\ Leaves({<<i, "volume">>}) /\ UNCHANGED volumes
     /\ Goes(c, "enter")
     /\ UNCHANGED <<registry, container, disks, domain, rules, cut>>

(***************************************************************************)
(* VMs                                                                     *)
(***************************************************************************)
(* clone_base_image and create_cloudinit_iso: a failing ISO takes the image  *)
(* with it, a failing qemu-img may leave its file.                           *)
MakeDisk(c) ==
  LET i == calls[c].id
  IN /\ calls[c].at = "disk"
     /\ \/ disks' = disks \cup {i} /\ Goes(c, "forward") /\ UNCHANGED <<registry, left, faults>>
        \/ /\ Fault /\ CreationFails(c)
           /\ \/ UNCHANGED <<disks, left>>
              \/ disks' = disks \cup {i} /\ Leaves({<<i, "vm">>})
     /\ UNCHANGED <<container, volumes, domain, rules, cut>>

Added(p, chains) == [rules EXCEPT ![p] = [k \in Chains |-> IF k \in chains THEN @[k] + 1 ELSE @[k]]]
Removed(p) == [rules EXCEPT ![p] = [k \in Chains |-> IF @[k] > 0 THEN @[k] - 1 ELSE 0]]

(* setup_port_forward appends three rules; when one fails the disk is        *)
(* removed and the rules before it stay.                                     *)
SetupPortForward(c) ==
  LET i == calls[c].id
  IN /\ calls[c].at = "forward"
     /\ \/ rules' = Added(port[i], Chains) /\ Goes(c, "launch") /\ UNCHANGED <<registry, disks, faults>>
        \/ \E before \in {{}, {"PREROUTING"}, {"PREROUTING", "OUTPUT"}} :
             /\ Fault /\ CreationFails(c)
             /\ rules' = Added(port[i], before) /\ disks' = disks \ {i}
     /\ UNCHANGED <<container, volumes, domain, left, cut>>

(* Without a connection nothing is undone; when the definition or the start  *)
(* fails, rules and disk are, and a domain that was defined stays.           *)
Launch(c) ==
  LET i == calls[c].id
  IN /\ calls[c].at = "launch"
     /\ \/ /\ domain' = [domain EXCEPT ![i] = "runs"]
           /\ Goes(c, IF calls[c].op = "promote" THEN "stop" ELSE "enter")
           /\ UNCHANGED <<registry, disks, rules, left, faults>>
        \/ /\ Fault /\ CreationFails(c)
           /\ \/ Leaves({<<i, "vm">>}) /\ UNCHANGED <<domain, rules, disks>>
              \/ /\ rules' = Removed(port[i]) /\ disks' = disks \ {i}
                 /\ \/ UNCHANGED <<domain, left>>
                    \/ domain' = [domain EXCEPT ![i] = "off"] /\ Leaves({<<i, "vm">>})
     /\ UNCHANGED <<container, volumes, cut>>

(* destroy_vm: without a connection it raises and all stays, which its       *)
(* callers swallow; an error of the domain's removal it swallows itself.     *)
UndefineVM(c) ==
  LET i == calls[c].old
  IN /\ calls[c].at = "undefine"
     /\ \/ /\ domain' = [domain EXCEPT ![i] = "none"]
           /\ Goes(c, "clean") /\ UNCHANGED <<left, faults>>
        \/ /\ Fault /\ Leaves({<<i, "vm">>}) /\ UNCHANGED domain
           /\ Goes(c, "clean") \/ Goes(c, "enter")
     /\ UNCHANGED <<registry, container, volumes, disks, rules, cut>>

(* remove_port_forward takes one rule from each chain, whoever added it: of  *)
(* a unit that another destruction has unregistered, the next owner's.       *)
CleanVM(c) ==
  LET p == port[calls[c].old]
  IN /\ calls[c].at = "clean"
     /\ rules' = Removed(p) /\ disks' = disks \ {calls[c].old}
     /\ cut' = IF pool[calls[c].old] = "none" THEN cut \cup {p} ELSE cut
     /\ Goes(c, "enter")
     /\ UNCHANGED <<registry, container, volumes, domain, left, faults>>

(* stop_vm asks the guest to shut down and swallows every error; two seconds *)
(* later start_vm starts the domain unless it is (still) active.             *)
StopVM(c) ==
  LET i == calls[c].id
  IN /\ calls[c].at = "shutdown"
     /\ domain' = [domain EXCEPT ![i] = IF @ = "runs" THEN "stopping" ELSE @]
     /\ Goes(c, "startVM")
     /\ UNCHANGED <<registry, container, volumes, disks, rules, left, cut, faults>>

StartVM(c) ==
  LET i == calls[c].id
  IN /\ calls[c].at = "startVM"
     /\ domain' = [domain EXCEPT ![i] = IF @ = "off" THEN "runs" ELSE @]
     /\ Ends(c)
     /\ UNCHANGED <<registry, container, volumes, disks, rules, left, cut, faults>>

GuestOff ==
  /\ \E i \in Ids : domain[i] = "stopping" /\ domain' = [domain EXCEPT ![i] = "off"]
  /\ UNCHANGED <<registry, container, volumes, disks, rules, calls, left, cut, faults>>

(***************************************************************************)
(* The end of an operation: the old unit is taken out, the new one put in   *)
(***************************************************************************)
(* The port is released once more by a destruction that comes second,        *)
(* whoever has it by then.                                                   *)
Enter(c) ==
  LET j == calls[c]
      kind == IF port[j.id] \in HeadlessPorts THEN "headless" ELSE "desktop"
  IN /\ j.at = "enter"
     /\ pool' = [i \in Ids |-> CASE i = j.old -> "none"
                                 [] i = j.id /\ i # j.old -> kind
                                 [] OTHER -> pool[i]]
     /\ taken' = IF j.old = 0 THEN taken ELSE taken \ {port[j.old]}
     /\ cut' = IF j.old # 0 /\ pool[j.old] = "none" THEN cut \cup ({port[j.old]} \cap DesktopPorts) ELSE cut
     /\ Ends(c)
     /\ UNCHANGED <<port, used, host, left, faults>>

(***************************************************************************)
(* Deaths, and the process ends and starts again                           *)
(***************************************************************************)
Dies ==
  /\ Fault
  /\ \/ /\ \E i \in Ids : container[i] = "runs" /\ container' = [container EXCEPT ![i] = "made"]
        /\ UNCHANGED domain
     \/ /\ \E i \in Ids : domain[i] = "runs" /\ domain' = [domain EXCEPT ![i] = "off"]
        /\ UNCHANGED container
  /\ UNCHANGED <<registry, volumes, disks, rules, calls, left, cut>>

Stale == {i \in Ids : \/ pool[i] = "headless" /\ container[i] # "runs"
                      \/ pool[i] = "desktop" /\ domain[i] \notin {"runs", "stopping"}}
StaleVMs == {i \in Stale : pool[i] = "desktop"}
RulesAfter(S) == [p \in DesktopPorts |->
  [k \in Chains |-> LET n == Cardinality({i \in S : port[i] = p})
                    IN IF rules[p][k] > n THEN rules[p][k] - n ELSE 0]]

(* What operations under way had made is left as it is.                      *)
HalfMade == {calls[c].id : c \in {d \in Calls : calls[d] # Idle}} \cup
            {calls[c].old : c \in {d \in Calls : calls[d].at \in {"stop", "wipe", "undefine", "clean"}}}

(* Units that operations were about to take out, which may be cleared away.   *)
GoingOut == {calls[c].old : c \in {d \in Calls : calls[d].at = "enter"}} \cap Ids

(* lifespan: units that do not run are destroyed and taken out, though not   *)
(* their volumes; then containers of no unit are.  VMs, volumes and rules of *)
(* no unit are not looked for.  One destruction may fail.                    *)
Restart(swept) ==
  /\ Fault
  /\ \E failed \in SUBSET Ids :
       /\ Cardinality(failed) <= 1
       /\ LET gone == StaleVMs \ failed
          IN /\ container' = [i \in Ids |-> IF i \in (Stale \cup swept) \ failed THEN "none" ELSE container[i]]
             /\ domain' = [i \in Ids |-> IF i \in gone THEN "none" ELSE domain[i]]
             /\ rules' = RulesAfter(gone) /\ disks' = disks \ gone
       /\ left' = {l \in left : l[2] # "container"} \cup (failed \X {"container", "vm"})
                  \cup ((Stale \cup HalfMade) \X {"volume"}) \cup (HalfMade \X {"vm"})
  /\ pool' = [i \in Ids |-> IF i \in Stale THEN "none" ELSE pool[i]]
  /\ taken' = {port[i] : i \in {k \in Ids : pool'[k] # "none"}}
  /\ cut' = cut \cup ({port[i] : i \in HalfMade \cup GoingOut} \cap DesktopPorts)
  /\ calls' = [c \in Calls |-> Idle]
  /\ UNCHANGED <<port, used, volumes>>

ProcessRestarts == Restart(Unregistered)

Next ==
  \/ \E c \in Calls :
       \/ Create(c) \/ Promote(c) \/ Demote(c) \/ Destroy(c) \/ Reset(c) \/ Reboot(c)
       \/ EnsureVolume(c) \/ CreateContainer(c) \/ ClearContainer(c) \/ RecreateContainer(c)
       \/ DestroyContainer(c) \/ RemoveVolume(c)
       \/ MakeDisk(c) \/ SetupPortForward(c) \/ Launch(c) \/ UndefineVM(c) \/ CleanVM(c)
       \/ StopVM(c) \/ StartVM(c)
       \/ Enter(c)
  \/ GuestOff \/ Dies \/ ProcessRestarts

Spec == Init /\ [][Next]_vars

(***************************************************************************)
(* Properties                                                              *)
(***************************************************************************)
WorkedOn(i) == \E c \in Calls : calls[c] # Idle /\ i \in {calls[c].id, calls[c].old}

(* A machine of no unit is one whose removal or creation failed at a step    *)
(* nothing undoes, or one that a reset made again after its destruction; a   *)
(* container of no unit is gone with the next start of the process.          *)
NothingLeftBehind ==
  \A i \in Unregistered : ~WorkedOn(i) =>
    /\ container[i] # "none" => <<i, "container">> \in left
    /\ i \in volumes => <<i, "volume">> \in left
    /\ domain[i] # "none" \/ i \in disks => <<i, "vm">> \in left

(* The VM of a unit is reached at its port: its rules are there, unless a    *)
(* second destruction of an earlier owner of the port came late.             *)
PortsForwarded ==
  \A i \in Ids : pool[i] = "desktop" /\ ~WorkedOn(i) /\ port[i] \notin cut =>
    \A k \in Chains : rules[port[i]][k] > 0

(* What is on the host is what the pool manager's books say: machines and    *)
(* files of units only, and the rules of every one of them.                  *)
HostInOrder == NothingLeftBehind /\ PortsForwarded
=============================================================================
