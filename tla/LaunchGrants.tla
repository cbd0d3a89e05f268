---------------------------- MODULE LaunchGrants ----------------------------
(***************************************************************************)
(* The authorizations an agent demands for a coordinated launch.  The      *)
(* daemon signs a grant for one candidate on one device; the agent checks  *)
(* it against the request and its own clock, and reserves its ID in a      *)
(* directory of consumed grants before any work starts.  A reservation is  *)
(* pruned when it is long expired.  One agent is modelled, `Here`.         *)
(*                                                                         *)
(* The clock is read once per request, before the store's lock is taken.   *)
(* The agent's clock may be set back, and a request may be slow, by at     *)
(* most Lifetime altogether.                                               *)
(***************************************************************************)
EXTENDS Naturals

CONSTANTS
    Grants,
    Target,       \* [Grants -> Agents]: the device a grant is signed for
    Subject,      \* [Grants -> Candidates]: the request a grant is signed for
    Agents, Here,
    Candidates,
    Requests,     \* handlers that may run at the same time
    Nobody,       \* ReplayStore.mu is free
    Lifetime,     \* of a grant, in units of the clock
    Skew,         \* maxSkew
    MaxClock,     \* bound on the clock
    MaxFaults     \* bound on crashes, power losses and write errors

ASSUME GrantAssumption ==
    /\ Target \in [Grants -> Agents] /\ Here \in Agents
    /\ Subject \in [Grants -> Candidates]
    /\ Grants # {} /\ Candidates # {} /\ Nobody \notin Requests
    /\ Lifetime \in Nat /\ Skew \in Nat /\ MaxClock \in Nat /\ MaxFaults \in Nat

VARIABLES
    clock,     \* the agent's clock
    latest,    \* the largest value the clock has shown
    issued,    \* [Grants -> time | NotIssued], by the daemon's clock
    store,     \* the directory of reservations
    storeLock, \* holder of ReplayStore.mu
    request,   \* the launch requests in progress
    launches,  \* [Grants -> Nat]: launches begun under a grant
    mistaken,  \* a launch began that its grant was not signed for
    storeFaults

grantVars == <<clock, latest, issued, store, storeLock, request, launches, mistaken,
               storeFaults>>

-----------------------------------------------------------------------------
NotIssued == MaxClock + 1
Time == 0 .. MaxClock

\* A reservation: none, created and perhaps empty, written, and one that is
\* durable together with its directory entry.
Reservation == {"none", "created", "written", "kept"}
Stages == {"idle", "verified", "reserved", "persisted", "pruning", "authorized"}
LaunchRequest == [pc: Stages, grant: Grants, as: Candidates, at: Time]

Expires(g) == issued[g] + Lifetime
InStage(r, stage) == request[r].pc = stage
ToStage(r, stage) == request' = [request EXCEPT ![r].pc = stage]
Faulty == storeFaults < MaxFaults /\ storeFaults' = storeFaults + 1

\* The time has not run away from a request that has read the clock.
Punctual(now) == \A r \in Requests : InStage(r, "verified") => now <= request[r].at + Lifetime

-----------------------------------------------------------------------------
\* The daemon and the clocks.

\* signQwenLaunchAuthorization; the two clocks need not agree.
Issue(g, t) ==
    /\ issued[g] = NotIssued /\ issued' = [issued EXCEPT ![g] = t]
    /\ UNCHANGED <<clock, latest, store, storeLock, request, launches, mistaken, storeFaults>>

ClockRuns ==
    /\ clock < MaxClock /\ clock' = clock + 1
    /\ latest' = (IF clock' > latest THEN clock' ELSE latest) /\ Punctual(latest')
    /\ UNCHANGED <<issued, store, storeLock, request, launches, mistaken, storeFaults>>

ClockSetBack ==
    /\ clock > 0 /\ clock' = clock - 1 /\ latest <= clock' + Lifetime
    /\ UNCHANGED <<latest, issued, store, storeLock, request, launches, mistaken, storeFaults>>

-----------------------------------------------------------------------------
\* handleContainerDeploy up to the launch.

\* launchauth.Verify, and the comparison of the claims with the request.
Valid(g, c) ==
    /\ issued[g] # NotIssued
    /\ issued[g] <= clock + Skew /\ clock < Expires(g)
    /\ Target[g] = Here /\ Subject[g] = c

\* authorizeCoordinatedQwenLaunch; any copy of a grant may come with any request.
Authorize(r, g, c) ==
    /\ InStage(r, "idle") /\ Valid(g, c)
    /\ request' = [request EXCEPT ![r] = [pc |-> "verified", grant |-> g, as |-> c, at |-> clock]]
    /\ UNCHANGED <<clock, latest, issued, store, storeLock, launches, mistaken, storeFaults>>

\* Mutant of Reserve: the file is opened without O_EXCL.
ReserveAgain(r) ==
    /\ InStage(r, "verified") /\ storeLock = Nobody
    /\ store' = [store EXCEPT ![request[r].grant] = "created"] /\ storeLock' = r
    /\ ToStage(r, "reserved")
    /\ UNCHANGED <<clock, latest, issued, launches, mistaken, storeFaults>>

\* ReplayStore.Consume under its lock: O_CREATE|O_EXCL, ...
Reserve(r) ==
    LET g == request[r].grant IN
    /\ InStage(r, "verified") /\ storeLock = Nobody
    /\ \/ /\ store[g] = "none" /\ store' = [store EXCEPT ![g] = "created"]
          /\ storeLock' = r /\ ToStage(r, "reserved") /\ UNCHANGED storeFaults
       \/ /\ store[g] # "none" \* ErrReplay
          /\ ToStage(r, "idle") /\ UNCHANGED <<store, storeLock, storeFaults>>
       \/ /\ Faulty /\ ToStage(r, "idle") /\ UNCHANGED <<store, storeLock>>
    /\ UNCHANGED <<clock, latest, issued, launches, mistaken>>

\* Mutant of Persist: neither the file nor the directory is synced.
PersistUnsynced(r) ==
    /\ InStage(r, "reserved") /\ store' = [store EXCEPT ![request[r].grant] = "written"]
    /\ ToStage(r, "pruning")
    /\ UNCHANGED <<clock, latest, issued, storeLock, launches, mistaken, storeFaults>>

\* ... write the expiry, sync the file and the directory.  After an error the
\* request is refused and the file stays.
Persist(r) ==
    LET g == request[r].grant IN
    /\ \/ /\ InStage(r, "reserved") /\ store' = [store EXCEPT ![g] = "written"]
          /\ ToStage(r, "persisted") /\ UNCHANGED <<storeLock, storeFaults>>
       \/ /\ InStage(r, "persisted") /\ store' = [store EXCEPT ![g] = "kept"]
          /\ ToStage(r, "pruning") /\ UNCHANGED <<storeLock, storeFaults>>
       \/ /\ request[r].pc \in {"reserved", "persisted"} /\ Faulty
          /\ ToStage(r, "idle") /\ storeLock' = Nobody /\ UNCHANGED store
    /\ UNCHANGED <<clock, latest, issued, launches, mistaken>>

\* A reservation whose expiry cannot be read is kept.
Outlived(now, g) == now > Expires(g) + Lifetime

Prune(r) ==
    LET outlived == {g \in Grants : store[g] \in {"written", "kept"} /\ Outlived(request[r].at, g)}
    IN /\ InStage(r, "pruning")
       /\ store' = [g \in Grants |-> IF g \in outlived THEN "none" ELSE store[g]]
       /\ storeLock' = Nobody /\ ToStage(r, "authorized")
       /\ UNCHANGED <<clock, latest, issued, launches, mistaken, storeFaults>>

\* The work under the grant begins; a later failure does not give it back.
LaunchUnder(r) ==
    LET g == request[r].grant IN
    /\ InStage(r, "authorized") /\ ToStage(r, "idle")
    /\ launches' = [launches EXCEPT ![g] = @ + 1]
    /\ mistaken' = (mistaken \/ Subject[g] # request[r].as \/ Target[g] # Here)
    /\ UNCHANGED <<clock, latest, issued, store, storeLock, storeFaults>>

-----------------------------------------------------------------------------
\* The agent's process ends and is started again: files stay.
AgentRestarts ==
    /\ Faulty /\ storeLock' = Nobody
    /\ request' = [r \in Requests |-> [request[r] EXCEPT !.pc = "idle"]]
    /\ UNCHANGED <<clock, latest, issued, store, launches, mistaken>>

\* The machine loses power: what was not synced may be lost.
PowerLoss ==
    /\ Faulty /\ storeLock' = Nobody
    /\ request' = [r \in Requests |-> [request[r] EXCEPT !.pc = "idle"]]
    /\ \E lost \in SUBSET {g \in Grants : store[g] \in {"created", "written"}} :
         store' = [g \in Grants |-> IF g \in lost THEN "none" ELSE store[g]]
    /\ UNCHANGED <<clock, latest, issued, launches, mistaken>>

GrantInit ==
    /\ clock = 0 /\ latest = 0
    /\ issued = [g \in Grants |-> NotIssued]
    /\ store = [g \in Grants |-> "none"] /\ storeLock = Nobody
    /\ request = [r \in Requests |-> [pc |-> "idle", grant |-> CHOOSE g \in Grants : TRUE,
                                      as |-> CHOOSE c \in Candidates : TRUE, at |-> 0]]
    /\ launches = [g \in Grants |-> 0] /\ mistaken = FALSE /\ storeFaults = 0

RequestStep(r) ==
    \/ \E g \in Grants, c \in Candidates : Authorize(r, g, c)
    \/ Reserve(r) \/ Persist(r) \/ Prune(r) \/ LaunchUnder(r)

GrantNext ==
    \/ \E g \in Grants, t \in Time : Issue(g, t)
    \/ ClockRuns \/ ClockSetBack
    \/ \E r \in Requests : RequestStep(r)
    \/ AgentRestarts \/ PowerLoss

GrantSpec == GrantInit /\ [][GrantNext]_grantVars

-----------------------------------------------------------------------------
\* Properties.

GrantTypeOK ==
    /\ clock \in Time /\ latest \in Time
    /\ issued \in [Grants -> Time \cup {NotIssued}]
    /\ store \in [Grants -> Reservation]
    /\ storeLock \in Requests \cup {Nobody}
    /\ request \in [Requests -> LaunchRequest]
    /\ launches \in [Grants -> Nat] /\ mistaken \in BOOLEAN /\ storeFaults \in Nat

\* At most one launch begins under a grant, however often the grant is sent, across
\* restarts, power losses, failed writes and a clock that is set back, and only
\* under a grant signed for this device (handleContainerDeploy reserves it with
\* ReplayStore.Consume before any Docker command).
Uses == INSTANCE SingleUse
    WITH Tokens <- Grants, Usable <- {g \in Grants : Target[g] = Here}, used <- launches
GrantsAreSingleUse == Uses!Spec

\* A grant launches nothing but the candidate and device it was signed for.
LaunchedAsSigned == ~mistaken

\* A reservation that stands for a launch is durable as long as its grant could
\* pass the check again.
SpentIsDurable ==
    \A g \in Grants :
      launches[g] > 0 => store[g] = "kept" \/ latest > Expires(g) + Lifetime

\* A launch is one its grant was signed for, and the grant's reservation stays on
\* disk as long as the grant would still be accepted (Verify, ReplayStore.Consume).
GrantSafety ==
    GrantTypeOK /\ LaunchedAsSigned /\ SpentIsDurable
=============================================================================
