--------------------------- MODULE LaunchPreflight ---------------------------
(***************************************************************************)
(* The preflight of a member of the pinned Qwen3.8 deployment (no other    *)
(* looks at the GPU) on one agent: a sequence of looks at a host that goes *)
(* on changing.  A GPU process and a listening port are in the way unless  *)
(* they belong to the one container that a rollback would bring back,      *)
(* which the request names by its name or its ID.                          *)
(*                                                                         *)
(* Holders are the containers, by ID, and the processes outside Docker;    *)
(* each computes and listens with one process.  One that has ended does    *)
(* not come back, but its process ID may be given to another process.      *)
(***************************************************************************)
EXTENDS Naturals, FiniteSets

CONSTANTS
    ContainerIds, Processes, \* what may run on the host
    HostNames,     \* names of containers
    Candidate,     \* the name of the container that shall be launched
    ServicePort, RendezvousPort,
    Vacant         \* no container

ASSUME PreflightAssumption ==
    /\ ContainerIds # {} /\ IsFiniteSet(ContainerIds)
    /\ ContainerIds \cap Processes = {} /\ ContainerIds \cap HostNames = {}
    /\ Candidate \in HostNames /\ ServicePort # RendezvousPort

VARIABLES
    host,      \* [ContainerIds -> [name, kind] \cup {Vacant}]
    ended,     \* holders that have ended
    tenants,   \* holders with a GPU compute process
    listener,  \* [Ports -> SUBSET Holders], the sockets in the way of the address
    preflight  \* the request and what it has seen

preflightVars == <<host, ended, tenants, listener, preflight>>
hostVars == <<host, ended, tenants, listener>>

-----------------------------------------------------------------------------
Ports == {ServicePort, RendezvousPort}
Holders == ContainerIds \cup Processes
\* A container of its own that Yokai manages, a deployment's member, or another.
HostContainer == [name: HostNames, kind: {"own", "member", "foreign"}]
OnHost == {c \in ContainerIds : host[c] # Vacant}
Running == OnHost \cup (Processes \ ended)
NotSeen == [p \in Ports |-> Vacant]
NoSockets == [p \in Ports |-> {}]

Stage(s) == preflight.stage = s
Sees(f) == preflight' = f /\ UNCHANGED hostVars
Refuse == Sees([preflight EXCEPT !.stage = "refused"])

-----------------------------------------------------------------------------
\* The host.

HostStarts(c, n, kind) ==
    /\ c \notin OnHost \cup ended /\ \A d \in OnHost : host[d].name # n
    /\ host' = [host EXCEPT ![c] = [name |-> n, kind |-> kind]]
    /\ UNCHANGED <<ended, tenants, listener, preflight>>

HolderEnds(h) ==
    /\ h \in Running /\ ended' = ended \cup {h} /\ tenants' = tenants \ {h}
    /\ host' = IF h \in OnHost THEN [host EXCEPT ![h] = Vacant] ELSE host
    /\ listener' = [p \in Ports |-> listener[p] \ {h}]
    /\ UNCHANGED preflight

HolderComputes(h) ==
    /\ h \in Running \ tenants /\ tenants' = tenants \cup {h}
    /\ UNCHANGED <<host, ended, listener, preflight>>

\* Sockets may share an address (SO_REUSEPORT), or one listens on all of them.
HolderListens(h, p) ==
    /\ h \in Running \ listener[p]
    /\ listener' = [listener EXCEPT ![p] = @ \cup {h}]
    /\ UNCHANGED <<host, ended, tenants, preflight>>

-----------------------------------------------------------------------------
\* validateDeploymentPreflight.

\* The containers, by name or ID.
Selects(selector, h) == {c \in ContainerIds : h[c] # Vacant /\ selector \in {c, h[c].name}}

\* The whole inventory, read once; the candidate must not exist.
ReadInventory ==
    /\ Stage("inventory") /\ \A c \in OnHost : host[c].name # Candidate
    /\ Sees([preflight EXCEPT !.stage = "tenants", !.inventory = host])

\* validateNoActiveComputeTenants: exactly one container, managed and no member.
Owner(selector, inventory) ==
    LET selected == Selects(selector, inventory) IN
    IF Cardinality(selected) = 1 THEN {c \in selected : inventory[c].kind = "own"} ELSE {}

\* inspectGPUComputeTenants: nvidia-smi lists the process IDs.
ListTenants ==
    Stage("tenants") /\ Sees([preflight EXCEPT !.stage = "cgroups", !.gpu = tenants])

\* The cgroup of a listed process ID: its holder's or, once that has ended, of
\* whoever has the ID by now.  Any but the owner's refuses the preflight.
ReadCgroup(h) ==
    /\ Stage("cgroups") /\ h \in preflight.gpu \ preflight.read
    /\ \E o \in IF h \in ended THEN Running ELSE {h} :
         o \in Owner(preflight.selector, preflight.inventory)
    /\ Sees([preflight EXCEPT !.read = @ \cup {h}])

CheckTenants ==
    /\ Stage("cgroups") /\ preflight.read = preflight.gpu
    /\ Sees([preflight EXCEPT !.stage = "port",
                              !.port = IF preflight.head THEN ServicePort ELSE RendezvousPort])

PortDone(f) ==
    IF f.port = ServicePort THEN [f EXCEPT !.stage = "port", !.port = RendezvousPort]
    ELSE [f EXCEPT !.stage = "ok"]

\* tcpPortAvailable, else the observed container is asked for.
CheckPort ==
    LET p == preflight.port IN
    /\ Stage("port")
    /\ IF listener[p] = {} THEN Sees(PortDone(preflight))
       ELSE Sees([preflight EXCEPT !.stage = "identify"])

\* Mutant of Identify: whoever holds the port is asked for.
IdentifyHolder ==
    /\ Stage("identify")
    /\ \E c \in OnHost \cap listener[preflight.port] :
         Sees([preflight EXCEPT !.stage = "sockets", !.exact[preflight.port] = c])

\* docker inspect yields the ID of what the selector denotes now.
Identify ==
    /\ Stage("identify")
    /\ \E c \in Selects(preflight.selector, host) :
         Sees([preflight EXCEPT !.stage = "sockets", !.exact[preflight.port] = c])

\* ss, with the cgroups of the sockets or with nothing but their processes.
ReadSockets ==
    LET p == preflight.port
        seen == [preflight EXCEPT !.holder[p] = listener[p]]
    IN /\ Stage("sockets")
       /\ \/ preflight.exact[p] \in listener[p] /\ Sees(PortDone(seen))
          \/ listener[p] # {} /\ Sees([seen EXCEPT !.stage = "processes"])

\* docker top: the process of a socket is one of the container, or the container
\* has its process ID by now.
ReadProcesses ==
    LET p == preflight.port
        holder == preflight.holder[p]
        exact == preflight.exact[p]
    IN /\ Stage("processes") /\ exact \in OnHost
       /\ exact \in holder \/ holder \cap ended # {}
       /\ Sees(PortDone(preflight))

PreflightRefuses == preflight.stage \notin {"ok", "refused"} /\ Refuse

PreflightInit ==
    /\ host = [c \in ContainerIds |-> Vacant] /\ ended = {} /\ tenants = {}
    /\ listener = NoSockets
    /\ \E selector \in ContainerIds \cup HostNames, head \in BOOLEAN :
         preflight = [stage |-> "inventory", selector |-> selector, head |-> head,
                      inventory |-> [c \in ContainerIds |-> Vacant], gpu |-> {}, read |-> {},
                      port |-> RendezvousPort, exact |-> NotSeen, holder |-> NoSockets]

HostNext ==
    \/ \E c \in ContainerIds, n \in HostNames, k \in {"own", "member", "foreign"} : HostStarts(c, n, k)
    \/ \E h \in Holders : HolderEnds(h) \/ HolderComputes(h)
    \/ \E h \in Holders, p \in Ports : HolderListens(h, p)

PreflightNext ==
    \/ HostNext
    \/ ReadInventory \/ ListTenants \/ (\E h \in Holders : ReadCgroup(h)) \/ CheckTenants
    \/ CheckPort \/ Identify \/ ReadSockets \/ ReadProcesses
    \/ PreflightRefuses

PreflightSpec == PreflightInit /\ [][PreflightNext]_preflightVars

-----------------------------------------------------------------------------
\* Properties.

PreflightTypeOK ==
    /\ host \in [ContainerIds -> HostContainer \cup {Vacant}]
    /\ ended \subseteq Holders /\ tenants \subseteq Running
    /\ listener \in [Ports -> SUBSET Running]
    /\ preflight.inventory \in [ContainerIds -> HostContainer \cup {Vacant}]
    /\ preflight.holder \in [Ports -> SUBSET Holders]

\* validateNoActiveComputeTenants: whatever nvidia-smi lists is the one container of
\* its own that a rollback brings back, although the inventory it compares with is
\* older, unless the process ended before its cgroup was read.
GpuBelongsToRollback ==
    Stage("ok") => \E c \in ContainerIds :
      /\ preflight.gpu \subseteq {c} \cup ended
      /\ preflight.gpu # {} => /\ preflight.selector \in {c, preflight.inventory[c].name}
                               /\ preflight.inventory[c].kind = "own"

\* An occupied port is passed only when one of the sockets found at it is of the
\* container that the request named, unless the process of one ended while the
\* preflight was looking.
PortBelongsToRollback ==
    Stage("ok") => \A p \in Ports :
      preflight.holder[p] # {} => preflight.holder[p] \cap ({preflight.exact[p]} \cup ended) # {}

\* With a container named by its ID, GPU and ports belong to the same container.
OneRollbackOwner ==
    Stage("ok") /\ preflight.selector \in ContainerIds =>
      /\ preflight.gpu \subseteq {preflight.selector} \cup ended
      /\ \A p \in Ports : preflight.exact[p] \in {Vacant, preflight.selector}

\* A GPU or port in use passes the preflight only on account of the one container
\* that a rollback brings back, or of a process that ended meanwhile, though inventory,
\* tenants, cgroups and sockets were read one after the other
\* (validateDeploymentPreflight).
PreflightSafety ==
    PreflightTypeOK /\ GpuBelongsToRollback /\ PortBelongsToRollback /\ OneRollbackOwner
=============================================================================
