---------------------------- MODULE LaunchProofs ----------------------------
(***************************************************************************)
(* What has to be true before an agent launches: theorems about            *)
(* LaunchGrants, CoordinatorKey and LaunchPreflight, for any grants,       *)
(* processes, containers and bounds.                                       *)
(*                                                                         *)
(* Grants.  The agent's replay store implements SingleUse, a spent grant   *)
(* stays recorded as long as it could pass the check, and nothing is       *)
(* launched that was not signed.  A reservation is removed only when the   *)
(* clock has shown a time two lifetimes after its grant was issued (Late). *)
(* A request that has passed the check read a clock below the grant's      *)
(* expiry, and the clock has not run away from it by more than a lifetime: *)
(* while it waits for the store no grant it could reserve is late, so that *)
(* the file's presence decides.                                            *)
(*                                                                         *)
(* The key the grants are signed with: any number of processes that load or*)
(* create it agree on it.  O_EXCL makes the one that creates the file its  *)
(* only writer until it has written or died, and nobody holds a key        *)
(* meanwhile.                                                              *)
(*                                                                         *)
(* Preflight.  What it has seen stays true enough of a host that goes on   *)
(* changing.                                                               *)
(***************************************************************************)
EXTENDS LaunchGrants, CoordinatorKey, LaunchPreflight, FiniteSetTheorems, TLAPS

Late(g) == latest > Expires(g) + Lifetime
Recorded(g) == store[g] = "kept" \/ Late(g)

\* The stages of a request that owns its grant, and of one in ReplayStore.Consume.
Locked == {"reserved", "persisted", "pruning"}
Owning == Locked \cup {"authorized"}
Owns(r, g) == request[r].pc \in Owning /\ request[r].grant = g

ClockBounds ==
    /\ clock <= latest /\ latest <= clock + Lifetime
    /\ \A r \in Requests : request[r].at <= latest
    /\ \A r \in Requests : InStage(r, "verified") => latest <= request[r].at + Lifetime

Passed(r) ==
    /\ issued[request[r].grant] # NotIssued
    /\ request[r].at < issued[request[r].grant] + Lifetime
    /\ Target[request[r].grant] = Here
    /\ Subject[request[r].grant] = request[r].as

Checked == \A r \in Requests : ~InStage(r, "idle") => Passed(r)

LockHeld == \A r \in Requests : request[r].pc \in Locked => storeLock = r

OwnersRecorded ==
    \A r \in Requests :
      /\ InStage(r, "reserved") => store[request[r].grant] = "created"
      /\ InStage(r, "persisted") => store[request[r].grant] = "written"
      /\ InStage(r, "pruning") => store[request[r].grant] = "kept"
      /\ InStage(r, "authorized") => Recorded(request[r].grant)

SpentRecorded == \A g \in Grants : launches[g] > 0 => issued[g] # NotIssued /\ Recorded(g)

\* A grant has one owner, and none once it is spent.
OneOwner ==
    \A g \in Grants, r \in Requests :
      Owns(r, g) => launches[g] = 0 /\ \A q \in Requests : Owns(q, g) => q = r

GrantInv ==
    /\ GrantTypeOK
    /\ ClockBounds
    /\ Checked
    /\ LockHeld
    /\ OwnersRecorded
    /\ SpentRecorded
    /\ OneOwner
    /\ LaunchedAsSigned

-----------------------------------------------------------------------------
LEMMA GrantInvInit == GrantInit => GrantInv
<1> SUFFICES ASSUME GrantInit PROVE GrantInv
  OBVIOUS
<1> USE GrantAssumption
<1>1. (CHOOSE g \in Grants : TRUE) \in Grants /\ (CHOOSE c \in Candidates : TRUE) \in Candidates
  OBVIOUS
<1>2. /\ clock = 0 /\ latest = 0 /\ storeLock = Nobody /\ mistaken = FALSE /\ storeFaults = 0
      /\ issued = [g \in Grants |-> NotIssued] /\ store = [g \in Grants |-> "none"]
      /\ launches = [g \in Grants |-> 0]
  BY Zenon DEF GrantInit
<1>3. request \in [Requests -> LaunchRequest]
  BY <1>1 DEF GrantInit, LaunchRequest, Stages, Time
<1>4. \A r \in Requests : request[r].pc = "idle" /\ request[r].at = 0
  BY DEF GrantInit
<1>5. GrantTypeOK
  <2>1. /\ clock \in Time /\ latest \in Time /\ storeFaults \in Nat
        /\ issued \in [Grants -> Time \cup {NotIssued}]
    BY <1>2 DEF NotIssued, Time
  <2>2. /\ store \in [Grants -> Reservation] /\ launches \in [Grants -> Nat]
        /\ storeLock \in Requests \cup {Nobody}
    BY <1>2 DEF Reservation
  <2> QED BY <1>2, <1>3, <2>1, <2>2, Zenon DEF GrantTypeOK
<1>6. ClockBounds
  BY <1>2, <1>4 DEF ClockBounds, InStage
<1>7. Checked /\ LockHeld /\ OwnersRecorded /\ OneOwner
  BY <1>4 DEF Checked, LockHeld, OwnersRecorded, OneOwner, Owns, Owning, Locked, InStage
<1>8. SpentRecorded /\ LaunchedAsSigned
  BY <1>2 DEF SpentRecorded, LaunchedAsSigned
<1> QED BY <1>5, <1>6, <1>7, <1>8 DEF GrantInv

LEMMA TypeStep == GrantTypeOK /\ [GrantNext]_grantVars => GrantTypeOK'
<1> SUFFICES ASSUME GrantTypeOK, [GrantNext]_grantVars PROVE GrantTypeOK'
  OBVIOUS
<1> USE GrantAssumption DEF GrantTypeOK, NotIssued, Time
<1>1. ASSUME NEW g \in Grants, NEW t \in Time, Issue(g, t) PROVE GrantTypeOK'
  BY <1>1 DEF Issue
<1>2. CASE ClockRuns
  BY <1>2 DEF ClockRuns
<1>3. CASE ClockSetBack
  BY <1>3 DEF ClockSetBack
<1>4. ASSUME NEW r \in Requests, RequestStep(r) PROVE GrantTypeOK'
  <2> USE DEF InStage, ToStage, Faulty, Reservation, Stages, LaunchRequest
  <2>1. ASSUME NEW g \in Grants, NEW c \in Candidates, Authorize(r, g, c) PROVE GrantTypeOK'
    BY <2>1 DEF Authorize
  <2>2. CASE Reserve(r)
    BY <2>2 DEF Reserve
  <2>3. CASE Persist(r)
    BY <2>3 DEF Persist
  <2>4. CASE Prune(r)
    BY <2>4 DEF Prune
  <2>5. CASE LaunchUnder(r)
    BY <2>5 DEF LaunchUnder
  <2> QED BY <1>4, <2>1, <2>2, <2>3, <2>4, <2>5 DEF RequestStep
<1>5. CASE AgentRestarts
  BY <1>5 DEF AgentRestarts, Faulty, Stages, LaunchRequest
<1>6. CASE PowerLoss
  BY <1>6 DEF PowerLoss, Faulty, Stages, LaunchRequest, Reservation
<1>7. CASE UNCHANGED grantVars
  BY <1>7 DEF grantVars
<1> QED BY <1>1, <1>2, <1>3, <1>4, <1>5, <1>6, <1>7 DEF GrantNext

-----------------------------------------------------------------------------
\* What a step keeps of the clock and of the issued grants.

LEMMA ClockStep == GrantInv /\ [GrantNext]_grantVars => latest <= latest'
<1> SUFFICES ASSUME GrantInv, [GrantNext]_grantVars PROVE latest <= latest'
  OBVIOUS
<1> USE GrantAssumption DEF GrantInv, GrantTypeOK, Time
<1>1. CASE ClockRuns
  BY <1>1 DEF ClockRuns
<1>2. CASE ~ClockRuns
  <2>1. latest' = latest
    BY <1>2 DEF GrantNext, Issue, ClockSetBack, RequestStep, Authorize, Reserve, Persist, Prune,
                LaunchUnder, AgentRestarts, PowerLoss, grantVars
  <2> QED BY <2>1
<1> QED BY <1>1, <1>2

LEMMA IssuedStep ==
    ASSUME GrantInv, [GrantNext]_grantVars, NEW g \in Grants, issued[g] # NotIssued
    PROVE  issued'[g] = issued[g]
<1> USE DEF GrantInv, GrantTypeOK
<1>1. CASE \E h \in Grants, t \in Time : Issue(h, t)
  BY <1>1 DEF Issue
<1>2. CASE ~\E h \in Grants, t \in Time : Issue(h, t)
  BY <1>2 DEF GrantNext, ClockRuns, ClockSetBack, RequestStep, Authorize, Reserve, Persist, Prune,
              LaunchUnder, AgentRestarts, PowerLoss, grantVars
<1> QED BY <1>1, <1>2

\* Late grants stay late.
LEMMA LateStep ==
    ASSUME GrantInv, [GrantNext]_grantVars, NEW g \in Grants, issued[g] # NotIssued, Late(g)
    PROVE  Late(g)'
<1>1. issued'[g] = issued[g] /\ latest <= latest'
  BY ClockStep, IssuedStep
<1>2. latest \in Nat /\ latest' \in Nat /\ issued[g] \in Nat
  BY TypeStep, GrantAssumption DEF GrantInv, GrantTypeOK, Time, NotIssued
<1> QED BY <1>1, <1>2, GrantAssumption DEF Late, Expires

\* A request that has passed the check finds its grant not late.
LEMMA VerifiedNotLate ==
    ASSUME GrantInv, NEW r \in Requests, InStage(r, "verified")
    PROVE  ~Late(request[r].grant)
<1> DEFINE g == request[r].grant
<1>1. g \in Grants /\ request[r].at \in Nat /\ latest \in Nat /\ issued[g] \in Nat
  BY GrantAssumption DEF GrantInv, GrantTypeOK, LaunchRequest, Time, NotIssued
<1>2. latest <= request[r].at + Lifetime /\ request[r].at < issued[g] + Lifetime
  BY DEF GrantInv, ClockBounds, Checked, Passed, InStage
<1> QED BY <1>1, <1>2, GrantAssumption DEF Late, Expires

-----------------------------------------------------------------------------
\* The stages of a request: what each step does to them.

\* The requests of an agent that is started again, or loses power, are forgotten.
LEMMA ForgetStep ==
    ASSUME GrantInv, AgentRestarts \/ PowerLoss, NEW r \in Requests
    PROVE  /\ request'[r].pc = "idle" /\ request'[r].grant = request[r].grant
           /\ request'[r].at = request[r].at
<1>1. request' = [q \in Requests |-> [request[q] EXCEPT !.pc = "idle"]]
  BY DEF AgentRestarts, PowerLoss
<1>2. request[r] \in LaunchRequest
  BY DEF GrantInv, GrantTypeOK
<1> QED BY <1>1, <1>2 DEF LaunchRequest

\* A request moves to another stage and keeps what it read.
LEMMA StageFacts ==
    ASSUME GrantTypeOK, NEW r \in Requests, NEW stage \in Stages, ToStage(r, stage)
    PROVE  /\ \A q \in Requests : q # r => request'[q] = request[q]
           /\ request'[r].pc = stage /\ request'[r].grant = request[r].grant
           /\ request'[r].at = request[r].at /\ request'[r].as = request[r].as
<1>1. request[r] \in LaunchRequest
  BY DEF GrantTypeOK
<1> QED BY <1>1 DEF ToStage, GrantTypeOK, LaunchRequest

\* A step of a request other than the check goes to one stage, or back to idle.
LEMMA RequestFacts ==
    ASSUME GrantInv, NEW r \in Requests, Reserve(r) \/ Persist(r) \/ Prune(r) \/ LaunchUnder(r)
    PROVE  /\ \A q \in Requests : q # r => request'[q] = request[q]
           /\ request'[r].grant = request[r].grant /\ request'[r].at = request[r].at
           /\ request'[r].as = request[r].as
           /\ request[r].pc # "idle" /\ request'[r].pc # "verified"
           /\ clock' = clock /\ latest' = latest /\ issued' = issued
<1>1. PICK stage \in Stages \ {"verified"} : ToStage(r, stage)
  BY DEF Reserve, Persist, Prune, LaunchUnder, Stages
<1>2. request[r].pc # "idle"
  BY DEF Reserve, Persist, Prune, LaunchUnder, InStage
<1>3. clock' = clock /\ latest' = latest /\ issued' = issued
  BY DEF Reserve, Persist, Prune, LaunchUnder
<1> QED BY <1>1, <1>2, <1>3, StageFacts DEF GrantInv

LEMMA ClockBoundsStep == GrantInv /\ [GrantNext]_grantVars => ClockBounds'
<1> SUFFICES ASSUME GrantInv, [GrantNext]_grantVars PROVE ClockBounds'
  OBVIOUS
<1> USE GrantAssumption
<1>0. /\ clock \in Nat /\ latest \in Nat /\ request \in [Requests -> LaunchRequest]
      /\ \A r \in Requests : request[r].at \in Nat
      /\ ClockBounds
  BY DEF GrantInv, GrantTypeOK, Time, LaunchRequest
<1>1. CASE \E g \in Grants, t \in Time : Issue(g, t)
  BY <1>0, <1>1 DEF Issue, ClockBounds, InStage
<1>2. CASE ClockRuns
  BY <1>0, <1>2 DEF ClockRuns, Punctual, ClockBounds, InStage
<1>3. CASE ClockSetBack
  BY <1>0, <1>3 DEF ClockSetBack, ClockBounds, InStage
<1>4. ASSUME NEW r \in Requests, RequestStep(r) PROVE ClockBounds'
  <2>1. ASSUME NEW g \in Grants, NEW c \in Candidates, Authorize(r, g, c) PROVE ClockBounds'
    <3>1. /\ request'[r].at = clock /\ clock' = clock /\ latest' = latest
          /\ \A q \in Requests : q # r => request'[q] = request[q]
      BY <1>0, <2>1 DEF Authorize
    <3> QED BY <1>0, <3>1 DEF ClockBounds, InStage
  <2>2. CASE Reserve(r) \/ Persist(r) \/ Prune(r) \/ LaunchUnder(r)
    BY <1>0, <2>2, RequestFacts DEF ClockBounds, InStage
  <2> QED BY <1>4, <2>1, <2>2 DEF RequestStep
<1>5. CASE AgentRestarts \/ PowerLoss
  <2>1. clock' = clock /\ latest' = latest
    BY <1>5 DEF AgentRestarts, PowerLoss
  <2> QED BY <1>0, <1>5, <2>1, ForgetStep DEF ClockBounds, InStage
<1>6. CASE UNCHANGED grantVars
  BY <1>0, <1>6 DEF grantVars, ClockBounds, InStage
<1> QED BY <1>1, <1>2, <1>3, <1>4, <1>5, <1>6 DEF GrantNext

LEMMA CheckedStep == GrantInv /\ [GrantNext]_grantVars => Checked'
<1> SUFFICES ASSUME GrantInv, [GrantNext]_grantVars PROVE Checked'
  OBVIOUS
<1>1. ASSUME NEW r \in Requests, ~InStage(r, "idle")', request'[r] = request[r]
      PROVE  Passed(r)'
  <2>1. request[r].grant \in Grants
    BY DEF GrantInv, GrantTypeOK, LaunchRequest
  <2>2. Passed(r)
    BY <1>1 DEF GrantInv, Checked, InStage
  <2>3. issued'[request[r].grant] = issued[request[r].grant]
    BY <2>1, <2>2, IssuedStep DEF Passed
  <2> QED BY <1>1, <2>2, <2>3 DEF Passed
<1>2. CASE \E g \in Grants, t \in Time : Issue(g, t)
  BY <1>1, <1>2 DEF Issue, Checked, InStage
<1>3. CASE ClockRuns \/ ClockSetBack \/ UNCHANGED grantVars
  BY <1>1, <1>3 DEF ClockRuns, ClockSetBack, grantVars, Checked, InStage
<1>4. ASSUME NEW r \in Requests, RequestStep(r) PROVE Checked'
  <2>1. ASSUME NEW g \in Grants, NEW c \in Candidates, Authorize(r, g, c) PROVE Checked'
    <3>1. /\ request'[r].at = clock /\ request'[r].grant = g /\ request'[r].as = c
          /\ issued' = issued
          /\ \A q \in Requests : q # r => request'[q] = request[q]
      BY <2>1 DEF Authorize, GrantInv, GrantTypeOK
    <3>2. /\ issued[g] # NotIssued /\ clock < issued[g] + Lifetime
          /\ Target[g] = Here /\ Subject[g] = c
      BY <2>1 DEF Authorize, Valid, Expires
    <3>3. Passed(r)'
      BY <3>1, <3>2 DEF Passed
    <3> QED BY <1>1, <3>1, <3>3 DEF Checked
  <2>2. CASE Reserve(r) \/ Persist(r) \/ Prune(r) \/ LaunchUnder(r)
    <3>1. Passed(r)
      BY <2>2, RequestFacts DEF GrantInv, Checked, InStage
    <3>2. Passed(r)'
      BY <2>2, <3>1, RequestFacts DEF Passed
    <3> QED BY <1>1, <2>2, <3>2, RequestFacts DEF Checked
  <2> QED BY <1>4, <2>1, <2>2 DEF RequestStep
<1>5. CASE AgentRestarts \/ PowerLoss
  BY <1>5, ForgetStep DEF Checked, InStage
<1> QED BY <1>2, <1>3, <1>4, <1>5 DEF GrantNext

-----------------------------------------------------------------------------
\* The store and its lock.

LEMMA MutualExclusion ==
    ASSUME GrantInv, NEW q \in Requests, NEW r \in Requests,
           request[q].pc \in Locked, request[r].pc \in Locked
    PROVE  q = r
BY DEF GrantInv, LockHeld

LEMMA LockFree ==
    ASSUME GrantInv, NEW q \in Requests, storeLock = Nobody
    PROVE  request[q].pc \notin Locked
BY GrantAssumption DEF GrantInv, LockHeld

LEMMA LockHeldStep == GrantInv /\ [GrantNext]_grantVars => LockHeld'
<1> SUFFICES ASSUME GrantInv, [GrantNext]_grantVars, NEW q \in Requests, request'[q].pc \in Locked
             PROVE  storeLock' = q
  BY DEF LockHeld
<1>1. CASE request'[q] = request[q] /\ storeLock' = storeLock
  BY <1>1 DEF GrantInv, LockHeld
<1>2. ASSUME NEW r \in Requests, RequestStep(r) PROVE storeLock' = q
  <2>1. ASSUME NEW g \in Grants, NEW c \in Candidates, Authorize(r, g, c) PROVE storeLock' = q
    <3>1. request'[r].pc = "verified" /\ storeLock' = storeLock
          /\ \A p \in Requests : p # r => request'[p] = request[p]
      BY <2>1 DEF Authorize, GrantInv, GrantTypeOK
    <3> QED BY <1>1, <3>1 DEF Locked
  <2>2. CASE Reserve(r)
    <3>1. q # r => request[q].pc \notin Locked
      BY <2>2, LockFree DEF Reserve
    <3>2. q = r => storeLock' = q
      <4>1. ToStage(r, "idle") => request'[r].pc = "idle"
        BY StageFacts DEF Stages, GrantInv
      <4> QED BY <2>2, <4>1 DEF Reserve, Locked
    <3> QED BY <2>2, <3>1, <3>2, RequestFacts
  <2>3. CASE Persist(r)
    <3>1. request[r].pc \in Locked
      BY <2>3 DEF Persist, InStage, Locked
    <3>2. q = r
      BY <2>3, <3>1, MutualExclusion, RequestFacts
    <3>3. ToStage(r, "idle") => request'[r].pc = "idle"
      BY StageFacts DEF Stages, GrantInv
    <3> QED BY <2>3, <3>1, <3>2, <3>3 DEF Persist, Locked, GrantInv, LockHeld
  <2>4. CASE Prune(r)
    <3>1. request[r].pc \in Locked
      BY <2>4 DEF Prune, InStage, Locked
    <3>2. request'[r].pc = "authorized"
      BY <2>4, StageFacts DEF Prune, Stages, GrantInv
    <3> QED BY <2>4, <3>1, <3>2, MutualExclusion, RequestFacts DEF Locked
  <2>5. CASE LaunchUnder(r)
    <3>1. request'[r].pc = "idle" /\ storeLock' = storeLock
      BY <2>5, StageFacts DEF LaunchUnder, Stages, GrantInv
    <3> QED BY <1>1, <2>5, <3>1, RequestFacts DEF Locked
  <2> QED BY <1>2, <2>1, <2>2, <2>3, <2>4, <2>5 DEF RequestStep
<1>3. CASE AgentRestarts \/ PowerLoss
  BY <1>3, ForgetStep DEF Locked
<1>4. CASE \/ \E g \in Grants, t \in Time : Issue(g, t)
           \/ ClockRuns \/ ClockSetBack \/ UNCHANGED grantVars
  BY <1>1, <1>4 DEF Issue, ClockRuns, ClockSetBack, grantVars
<1> QED BY <1>2, <1>3, <1>4 DEF GrantNext

\* A durable reservation stays, or its grant is late when it is removed.
LEMMA RecordedStep ==
    ASSUME GrantInv, [GrantNext]_grantVars, NEW g \in Grants, issued[g] # NotIssued, Recorded(g)
    PROVE  Recorded(g)'
<1>1. CASE Late(g)
  BY <1>1, LateStep DEF Recorded
<1>2. CASE store[g] = "kept"
  <2>1. CASE store' = store
    BY <1>2, <2>1 DEF Recorded
  <2>2. ASSUME NEW r \in Requests, RequestStep(r) PROVE Recorded(g)'
    <3>1. CASE Reserve(r)
      BY <1>2, <3>1 DEF Reserve, Recorded, GrantInv, GrantTypeOK
    <3>2. CASE Persist(r)
      <4>1. request[r].pc = "reserved" => store[request[r].grant] = "created"
        BY DEF GrantInv, OwnersRecorded, InStage
      <4>2. store'[g] = "kept"
        BY <1>2, <3>2, <4>1 DEF Persist, InStage, GrantInv, GrantTypeOK
      <4> QED BY <4>2 DEF Recorded
    <3>3. CASE Prune(r)
      <4>1. store'[g] = "kept" \/ Outlived(request[r].at, g)
        BY <1>2, <3>3 DEF Prune
      <4>2. request[r].at <= latest /\ request[r].at \in Nat /\ latest \in Nat /\ issued[g] \in Nat
        BY GrantAssumption DEF GrantInv, GrantTypeOK, ClockBounds, LaunchRequest, Time, NotIssued
      <4>3. Outlived(request[r].at, g) => Late(g)
        BY <4>2, GrantAssumption DEF Outlived, Late, Expires
      <4>4. Late(g) => Late(g)'
        BY LateStep
      <4> QED BY <4>1, <4>3, <4>4 DEF Recorded
    <3>4. CASE ~Reserve(r) /\ ~Persist(r) /\ ~Prune(r)
      BY <2>1, <2>2, <3>4 DEF RequestStep, Authorize, LaunchUnder
    <3> QED BY <3>1, <3>2, <3>3, <3>4
  <2>3. CASE PowerLoss
    BY <1>2, <2>3 DEF PowerLoss, Recorded
  <2>4. CASE \/ \E h \in Grants, t \in Time : Issue(h, t)
             \/ ClockRuns \/ ClockSetBack \/ AgentRestarts \/ UNCHANGED grantVars
    BY <2>1, <2>4 DEF Issue, ClockRuns, ClockSetBack, AgentRestarts, grantVars
  <2> QED BY <2>2, <2>3, <2>4 DEF GrantNext
<1> QED BY <1>1, <1>2 DEF Recorded

\* A request that finds no reservation finds a grant nobody used or is using.
LEMMA UnreservedIsUnspent ==
    ASSUME GrantInv, NEW r \in Requests, InStage(r, "verified"), storeLock = Nobody,
           store[request[r].grant] = "none"
    PROVE  /\ launches[request[r].grant] = 0
           /\ \A q \in Requests : ~Owns(q, request[r].grant)
<1> DEFINE g == request[r].grant
<1>1. g \in Grants /\ launches[g] \in Nat
  BY DEF GrantInv, GrantTypeOK, LaunchRequest
<1>2. ~Recorded(g)
  BY VerifiedNotLate DEF Recorded
<1>3. launches[g] = 0
  BY <1>1, <1>2 DEF GrantInv, SpentRecorded
<1>4. ASSUME NEW q \in Requests, Owns(q, g) PROVE FALSE
  <2>1. InStage(q, "authorized")
    BY <1>4, LockFree DEF Owns, Owning, InStage
  <2> QED BY <1>2, <1>4, <2>1 DEF GrantInv, OwnersRecorded, Owns
<1> QED BY <1>3, <1>4

-----------------------------------------------------------------------------
\* The owners of grants.

OwnerRecorded(r) ==
    /\ InStage(r, "reserved") => store[request[r].grant] = "created"
    /\ InStage(r, "persisted") => store[request[r].grant] = "written"
    /\ InStage(r, "pruning") => store[request[r].grant] = "kept"
    /\ InStage(r, "authorized") => Recorded(request[r].grant)

\* A request that does not move: while it holds the lock nobody else writes the store.
LEMMA OwnerWaits ==
    ASSUME GrantInv, [GrantNext]_grantVars, NEW q \in Requests, request'[q] = request[q],
           \/ request[q].pc \notin Locked
           \/ store'[request[q].grant] = store[request[q].grant]
    PROVE  OwnerRecorded(q)'
<1>1. OwnerRecorded(q)
  BY DEF GrantInv, OwnersRecorded, OwnerRecorded
<1>2. InStage(q, "authorized") => Recorded(request[q].grant)'
  <2>1. request[q].grant \in Grants
    BY DEF GrantInv, GrantTypeOK, LaunchRequest
  <2>2. InStage(q, "authorized") => issued[request[q].grant] # NotIssued
    BY DEF GrantInv, Checked, Passed, InStage
  <2> QED BY <1>1, <2>1, <2>2, RecordedStep DEF OwnerRecorded
<1> QED BY <1>1, <1>2 DEF OwnerRecorded, InStage, Locked, Recorded

LEMMA OwnersRecordedStep == GrantInv /\ [GrantNext]_grantVars => OwnersRecorded'
<1> SUFFICES ASSUME GrantInv, [GrantNext]_grantVars, NEW q \in Requests
             PROVE  OwnerRecorded(q)'
  BY DEF OwnersRecorded, OwnerRecorded
<1>1. CASE request' = request /\ store' = store
  BY <1>1, OwnerWaits
<1>2. ASSUME NEW r \in Requests, RequestStep(r) PROVE OwnerRecorded(q)'
  <2>1. ASSUME NEW g \in Grants, NEW c \in Candidates, Authorize(r, g, c) PROVE OwnerRecorded(q)'
    <3>1. request'[r].pc = "verified" /\ store' = store
          /\ \A p \in Requests : p # r => request'[p] = request[p]
      BY <2>1 DEF Authorize, GrantInv, GrantTypeOK
    <3> QED BY <3>1, OwnerWaits DEF OwnerRecorded, InStage
  <2>2. CASE Reserve(r)
    <3>1. CASE q # r
      BY <2>2, <3>1, OwnerWaits, LockFree, RequestFacts DEF Reserve
    <3>2. CASE q = r
      <4>1. ToStage(r, "idle") => request'[r].pc = "idle"
        BY StageFacts DEF Stages, GrantInv
      <4>2. ToStage(r, "reserved") => request'[r].pc = "reserved"
        BY StageFacts DEF Stages, GrantInv
      <4>3. request[r].grant \in Grants
        BY DEF GrantInv, GrantTypeOK, LaunchRequest
      <4>4. request'[r].grant = request[r].grant
        BY <2>2, RequestFacts
      <4> QED BY <2>2, <3>2, <4>1, <4>2, <4>3, <4>4
              DEF Reserve, OwnerRecorded, InStage, GrantInv, GrantTypeOK
    <3> QED BY <3>1, <3>2
  <2>3. CASE Persist(r)
    <3>1. CASE q # r
      <4>1. request[r].pc \in Locked
        BY <2>3 DEF Persist, InStage, Locked
      <4> QED BY <2>3, <3>1, <4>1, OwnerWaits, MutualExclusion, RequestFacts
    <3>2. CASE q = r
      <4>1. /\ ToStage(r, "idle") => request'[r].pc = "idle"
            /\ ToStage(r, "persisted") => request'[r].pc = "persisted"
            /\ ToStage(r, "pruning") => request'[r].pc = "pruning"
        BY StageFacts DEF Stages, GrantInv
      <4>2. request[r].grant \in Grants /\ request'[r].grant = request[r].grant
        BY <2>3, RequestFacts DEF GrantInv, GrantTypeOK, LaunchRequest
      <4> QED BY <2>3, <3>2, <4>1, <4>2
              DEF Persist, OwnerRecorded, InStage, GrantInv, GrantTypeOK
    <3> QED BY <3>1, <3>2
  <2>4. CASE Prune(r)
    <3>1. request[r].pc \in Locked /\ InStage(r, "pruning")
      BY <2>4 DEF Prune, InStage, Locked
    <3>2. CASE q # r
      BY <2>4, <3>1, <3>2, OwnerWaits, MutualExclusion, RequestFacts
    <3>3. CASE q = r
      <4>1. request'[r].pc = "authorized"
        BY <2>4, StageFacts DEF Prune, Stages, GrantInv
      <4>2. request[r].grant \in Grants /\ request'[r].grant = request[r].grant
        BY <2>4, RequestFacts DEF GrantInv, GrantTypeOK, LaunchRequest
      <4>3. Recorded(request[r].grant) /\ issued[request[r].grant] # NotIssued
        BY <3>1 DEF GrantInv, OwnersRecorded, Recorded, Checked, Passed, InStage
      <4>4. Recorded(request[r].grant)'
        <5> DEFINE g == request[r].grant
        <5>1. g \in Grants /\ Recorded(g) /\ issued[g] # NotIssued
          BY <4>2, <4>3
        <5>2. store'[g] = "kept" \/ latest' > issued'[g] + Lifetime + Lifetime
          BY <5>1, RecordedStep DEF Recorded, Late, Expires
        <5> QED BY <4>2, <5>2 DEF Recorded, Late, Expires
      <4> QED BY <3>3, <4>1, <4>4 DEF OwnerRecorded, InStage
    <3> QED BY <3>2, <3>3
  <2>5. CASE LaunchUnder(r)
    <3>1. request'[r].pc = "idle" /\ store' = store
      BY <2>5, StageFacts DEF LaunchUnder, Stages, GrantInv
    <3> QED BY <2>5, <3>1, OwnerWaits, RequestFacts DEF OwnerRecorded, InStage
  <2> QED BY <1>2, <2>1, <2>2, <2>3, <2>4, <2>5 DEF RequestStep
<1>3. CASE AgentRestarts \/ PowerLoss
  BY <1>3, ForgetStep DEF OwnerRecorded, InStage
<1>4. CASE \/ \E g \in Grants, t \in Time : Issue(g, t)
           \/ ClockRuns \/ ClockSetBack \/ UNCHANGED grantVars
  BY <1>1, <1>4 DEF Issue, ClockRuns, ClockSetBack, grantVars
<1> QED BY <1>2, <1>3, <1>4 DEF GrantNext

\* Only a launch changes the count of launches.
LEMMA LaunchStep ==
    ASSUME GrantInv, [GrantNext]_grantVars
    PROVE  \/ launches' = launches /\ mistaken' = mistaken
           \/ \E r \in Requests : LaunchUnder(r)
BY DEF GrantNext, Issue, ClockRuns, ClockSetBack, RequestStep, Authorize, Reserve, Persist, Prune,
       AgentRestarts, PowerLoss, grantVars

\* The request of a launch owned its grant and had passed the check with it.
LEMMA LaunchFacts ==
    ASSUME GrantInv, NEW r \in Requests, LaunchUnder(r)
    PROVE  LET g == request[r].grant IN
           /\ g \in Grants /\ Owns(r, g) /\ Recorded(g) /\ issued[g] # NotIssued
           /\ launches[g] = 0 /\ launches' = [launches EXCEPT ![g] = 1]
           /\ Target[g] = Here /\ mistaken' = mistaken
<1> DEFINE g == request[r].grant
<1>1. g \in Grants /\ InStage(r, "authorized") /\ Owns(r, g)
  BY DEF GrantInv, GrantTypeOK, LaunchRequest, LaunchUnder, Owns, Owning, InStage
<1>2. /\ Recorded(g) /\ issued[g] # NotIssued /\ launches[g] = 0
      /\ Target[g] = Here /\ Subject[g] = request[r].as
  BY <1>1 DEF GrantInv, OwnersRecorded, Checked, Passed, OneOwner, InStage
<1>3. mistaken' = mistaken
  <2>1. mistaken' = (mistaken \/ Subject[g] # request[r].as \/ Target[g] # Here)
    BY DEF LaunchUnder
  <2>2. mistaken \in BOOLEAN
    BY DEF GrantInv, GrantTypeOK
  <2> QED BY <1>2, <2>1, <2>2, Zenon
<1>4. launches' = [launches EXCEPT ![g] = 1]
  BY <1>2 DEF LaunchUnder
<1> QED BY <1>1, <1>2, <1>3, <1>4

LEMMA SpentRecordedStep == GrantInv /\ [GrantNext]_grantVars => SpentRecorded'
<1> SUFFICES ASSUME GrantInv, [GrantNext]_grantVars, NEW g \in Grants, launches'[g] > 0
             PROVE  issued'[g] # NotIssued /\ Recorded(g)'
  BY DEF SpentRecorded
<1>1. issued[g] # NotIssued /\ Recorded(g)
  <2>1. CASE launches' = launches
    BY <2>1 DEF GrantInv, SpentRecorded
  <2>2. ASSUME NEW r \in Requests, LaunchUnder(r) PROVE issued[g] # NotIssued /\ Recorded(g)
    <3>1. CASE g = request[r].grant
      BY <2>2, <3>1, LaunchFacts
    <3>2. CASE g # request[r].grant
      BY <2>2, <3>2, LaunchFacts DEF GrantInv, GrantTypeOK, SpentRecorded
    <3> QED BY <3>1, <3>2
  <2> QED BY <2>1, <2>2, LaunchStep
<1> QED BY <1>1, IssuedStep, RecordedStep

\* The owners of a grant after a step are among those before it, unless a request
\* reserves the grant.
LEMMA OwnerStep ==
    ASSUME GrantInv, [GrantNext]_grantVars, NEW q \in Requests, NEW g \in Grants, Owns(q, g)'
    PROVE  \/ Owns(q, g)
           \/ /\ Reserve(q) /\ InStage(q, "verified") /\ request[q].grant = g
              /\ storeLock = Nobody /\ store[g] = "none" /\ launches' = launches
              /\ \A p \in Requests : p # q => request'[p] = request[p]
<1>1. ASSUME request'[q] = request[q] PROVE Owns(q, g)
  BY <1>1 DEF Owns
<1>2. ASSUME NEW r \in Requests, RequestStep(r) PROVE Owns(q, g) \/ (r = q /\ Reserve(q))
  <2>1. ASSUME NEW h \in Grants, NEW c \in Candidates, Authorize(r, h, c) PROVE Owns(q, g)
    <3>1. request'[r].pc = "verified" /\ \A p \in Requests : p # r => request'[p] = request[p]
      BY <2>1 DEF Authorize, GrantInv, GrantTypeOK
    <3> QED BY <1>1, <3>1 DEF Owns, Owning, Locked
  <2>2. CASE Reserve(r)
    BY <1>1, <2>2, RequestFacts
  <2>3. CASE Persist(r) \/ Prune(r) \/ LaunchUnder(r)
    <3>1. r # q => request'[q] = request[q]
      BY <2>3, RequestFacts
    <3>2. Persist(r) \/ Prune(r) => request[r].pc \in Owning
      BY DEF Persist, Prune, InStage, Owning, Locked
    <3>3. LaunchUnder(r) => request[r].pc \in Owning
      BY DEF LaunchUnder, InStage, Owning
    <3> QED BY <1>1, <2>3, <3>1, <3>2, <3>3, RequestFacts DEF Owns
  <2> QED BY <1>2, <2>1, <2>2, <2>3 DEF RequestStep
<1>3. CASE AgentRestarts \/ PowerLoss
  BY <1>3, ForgetStep DEF Owns, Owning, Locked
<1>4. CASE \/ \E h \in Grants, t \in Time : Issue(h, t)
           \/ ClockRuns \/ ClockSetBack \/ UNCHANGED grantVars
  BY <1>1, <1>4 DEF Issue, ClockRuns, ClockSetBack, grantVars
<1>5. Owns(q, g) \/ Reserve(q)
  BY <1>2, <1>3, <1>4 DEF GrantNext
<1>6. ASSUME Reserve(q)
      PROVE  /\ InStage(q, "verified") /\ request[q].grant = g /\ storeLock = Nobody
             /\ store[g] = "none" /\ launches' = launches
             /\ \A p \in Requests : p # q => request'[p] = request[p]
  <2>1. ToStage(q, "idle") => request'[q].pc = "idle"
    BY StageFacts DEF Stages, GrantInv
  <2>2. request[q].grant = g
    BY <1>6, RequestFacts DEF Owns
  <2>3. ~ToStage(q, "idle")
    BY <2>1 DEF Owns, Owning, Locked
  <2> QED BY <1>6, <2>2, <2>3, RequestFacts DEF Reserve
<1> QED BY <1>5, <1>6

LEMMA OneOwnerStep == GrantInv /\ [GrantNext]_grantVars => OneOwner'
<1> SUFFICES ASSUME GrantInv, [GrantNext]_grantVars, NEW g \in Grants, NEW r \in Requests,
                    Owns(r, g)'
             PROVE  launches'[g] = 0 /\ \A q \in Requests : Owns(q, g)' => q = r
  BY DEF OneOwner
<1>1. launches'[g] = 0
  <2>1. launches[g] = 0
    <3>1. CASE Owns(r, g)
      BY <3>1 DEF GrantInv, OneOwner
    <3>2. CASE ~Owns(r, g)
      BY <3>2, OwnerStep, UnreservedIsUnspent
    <3> QED BY <3>1, <3>2
  <2>2. ASSUME NEW p \in Requests, LaunchUnder(p) PROVE launches'[g] = 0
    <3>1. request'[p].pc = "idle"
      BY <2>2, StageFacts DEF LaunchUnder, Stages, GrantInv
    <3>2. p # r
      BY <3>1 DEF Owns, Owning, Locked
    <3>3. Owns(r, g)
      BY <2>2, <3>2, RequestFacts DEF Owns
    <3>4. g # request[p].grant
      BY <2>2, <3>2, <3>3, LaunchFacts DEF GrantInv, OneOwner
    <3> QED BY <2>1, <2>2, <3>4, LaunchFacts DEF GrantInv, GrantTypeOK
  <2> QED BY <2>1, <2>2, LaunchStep
<1>2. ASSUME NEW q \in Requests, Owns(q, g)', q # r PROVE FALSE
  <2>1. CASE Owns(q, g) /\ Owns(r, g)
    BY <1>2, <2>1 DEF GrantInv, OneOwner
  <2>2. ASSUME NEW p \in Requests, NEW o \in Requests, o # p, Owns(p, g)', Owns(o, g)', ~Owns(p, g)
        PROVE  FALSE
    <3>1. /\ InStage(p, "verified") /\ request[p].grant = g /\ storeLock = Nobody
          /\ store[g] = "none" /\ request'[o] = request[o]
      BY <2>2, OwnerStep
    <3>2. Owns(o, g)
      BY <2>2, <3>1 DEF Owns
    <3> QED BY <3>1, <3>2, UnreservedIsUnspent
  <2> QED BY <1>2, <2>1, <2>2
<1> QED BY <1>1, <1>2

LEMMA GrantInvStep == GrantInv /\ [GrantNext]_grantVars => GrantInv'
<1> SUFFICES ASSUME GrantInv, [GrantNext]_grantVars PROVE GrantInv'
  OBVIOUS
<1>1. GrantTypeOK'
  BY TypeStep DEF GrantInv
<1>2. LaunchedAsSigned'
  BY LaunchStep, LaunchFacts, Zenon DEF GrantInv, LaunchedAsSigned
<1> QED BY <1>1, <1>2, ClockBoundsStep, CheckedStep, LockHeldStep, OwnersRecordedStep,
           SpentRecordedStep, OneOwnerStep DEF GrantInv

LEMMA GrantInvHolds == GrantSpec => []GrantInv
BY GrantInvInit, GrantInvStep, PTL DEF GrantSpec

-----------------------------------------------------------------------------
\* The state of the replay store and of the requests is always well formed.
THEOREM GrantsTyped == GrantSpec => []GrantTypeOK
<1>1. GrantInv => GrantTypeOK
  BY DEF GrantInv
<1> QED BY <1>1, GrantInvHolds, PTL

\* ReplayStore.Consume keeps the reservation of a grant that launched as long as the
\* grant could pass launchauth.Verify again.
THEOREM SpentStaysRecorded == GrantSpec => []SpentIsDurable
<1>1. GrantInv => SpentIsDurable
  BY DEF GrantInv, SpentRecorded, Recorded, Late, SpentIsDurable
<1> QED BY <1>1, GrantInvHolds, PTL

\* handleContainerDeploy launches nothing but the candidate and device a grant was
\* signed for.
THEOREM SignedLaunches == GrantSpec => []LaunchedAsSigned
<1>1. GrantInv => LaunchedAsSigned
  BY DEF GrantInv
<1> QED BY <1>1, GrantInvHolds, PTL

\* Every step of the agent is a use of one grant that was signed for it and not used
\* before, or none at all: the replay store implements SingleUse.
THEOREM GrantsImplementSingleUse == GrantSpec => GrantsAreSingleUse
<1>1. GrantInit => Uses!Init
  BY Zenon DEF GrantInit, Uses!Init
<1>2. GrantInv /\ [GrantNext]_grantVars => [Uses!Next]_launches
  <2> SUFFICES ASSUME GrantInv, [GrantNext]_grantVars, launches' # launches PROVE Uses!Next
    OBVIOUS
  <2>1. PICK r \in Requests : LaunchUnder(r)
    BY LaunchStep
  <2> DEFINE g == request[r].grant
  <2>2. g \in Grants /\ Uses!Use(g)
    BY <2>1, LaunchFacts DEF Uses!Use
  <2> QED BY <2>2 DEF Uses!Next
<1> QED BY <1>1, <1>2, GrantInvHolds, PTL DEF GrantSpec, GrantsAreSingleUse, Uses!Spec

\* What the agent relies on when it launches under a grant: the three together.
THEOREM GrantsAreSafe == GrantSpec => []GrantSafety
<1>1. GrantTypeOK /\ LaunchedAsSigned /\ SpentIsDurable => GrantSafety
  BY DEF GrantSafety
<1> QED BY <1>1, GrantsTyped, SignedLaunches, SpentStaysRecorded, PTL

-----------------------------------------------------------------------------
\* The signing key.

\* Who writes the file owns it: it is there, in part, and nobody else writes.
Written ==
    \A p \in Loaders : Loads(p, "write") =>
        /\ keyFile = PartKeyFile
        /\ \A q \in Loaders : Loads(q, "write") => q = p

KeyInv == KeySafety /\ Written

\* Changing where a process stands leaves its key and the others alone.
LEMMA LoaderMoves ==
    ASSUME KeyTypeOK, NEW p \in Loaders,
           NEW label \in {"start", "create", "write", "again", "holds", "failed"},
           LoaderTo(p, label)
    PROVE  /\ loader' \in [Loaders -> Holder]
           /\ loader'[p].pc = label /\ loader'[p].key = loader[p].key
           /\ \A q \in Loaders \ {p} : loader'[q] = loader[q]
BY DEF LoaderTo, KeyTypeOK, Holder

\* Setting a process's state and key leaves the others alone.
LEMMA LoaderTakes ==
    ASSUME KeyTypeOK, NEW p \in Loaders, NEW k \in KeyPairs, NEW label \in {"write", "holds"},
           loader' = [loader EXCEPT ![p] = [pc |-> label, key |-> k]]
    PROVE  /\ loader' \in [Loaders -> Holder]
           /\ loader'[p].pc = label /\ loader'[p].key = k
           /\ \A q \in Loaders \ {p} : loader'[q] = loader[q]
BY DEF KeyTypeOK, Holder

LEMMA KeyInitially == KeyInit => KeyInv
BY KeyAssumption DEF KeyInit, KeyInv, KeySafety, KeyTypeOK, Holder, KeyIsShared, Written, Loads

LEMMA KeyStep == KeyInv /\ [KeyNext]_keyVars => KeyInv'
<1> SUFFICES ASSUME KeyInv, [KeyNext]_keyVars PROVE KeyInv'
  OBVIOUS
<1> USE KeyAssumption DEF KeyInv, KeySafety, KeyTypeOK, KeyIsShared, Written, Loads
<1>k. \A q \in Loaders : loader[q].key \in KeyPairs
  BY DEF Holder
<1>1. ASSUME NEW p \in Loaders, LoadKey(p) PROVE KeyInv'
  <2>1. CASE keyFile \in KeyPairs /\ loader' = [loader EXCEPT ![p] = [pc |-> "holds", key |-> keyFile]]
    BY <1>1, <2>1, LoaderTakes DEF LoadKey
  <2>2. ASSUME NEW label \in {"create", "failed"}, LoaderTo(p, label) PROVE KeyInv'
    BY <1>1, <2>2, LoaderMoves DEF LoadKey
  <2>3. CASE keyFile = NoKeyFile /\ LoaderTo(p, IF Loads(p, "start") THEN "create" ELSE "failed")
    BY <2>2, <2>3
  <2> QED BY <1>1, <2>1, <2>2, <2>3 DEF LoadKey
<1>2. ASSUME NEW p \in Loaders, CreateKey(p) PROVE KeyInv'
  <2>1. PICK k \in KeyPairs \ generated :
          /\ generated' = generated \cup {k}
          /\ \/ /\ keyFile = NoKeyFile /\ keyFile' = PartKeyFile
                /\ loader' = [loader EXCEPT ![p] = [pc |-> "write", key |-> k]]
             \/ keyFile # NoKeyFile /\ LoaderTo(p, "again") /\ UNCHANGED keyFile
    BY <1>2 DEF CreateKey
  <2>2. CASE keyFile = NoKeyFile /\ loader' = [loader EXCEPT ![p] = [pc |-> "write", key |-> k]]
    <3>1. keyFile' = PartKeyFile /\ generated' \subseteq KeyPairs
      BY <2>1, <2>2
    <3>2. /\ loader' \in [Loaders -> Holder] /\ loader'[p].pc = "write"
          /\ \A q \in Loaders \ {p} : loader'[q] = loader[q]
      BY <2>2, LoaderTakes
    <3>3. \A q \in Loaders : loader[q].pc # "write" /\ loader[q].pc # "holds"
      BY <2>2, <1>k
    <3> QED BY <3>1, <3>2, <3>3
  <2>3. CASE LoaderTo(p, "again") /\ UNCHANGED keyFile
    <3>1. generated' \subseteq KeyPairs
      BY <2>1
    <3>2. /\ loader' \in [Loaders -> Holder] /\ loader'[p].pc = "again"
          /\ \A q \in Loaders \ {p} : loader'[q] = loader[q]
      BY <2>3, LoaderMoves
    <3> QED BY <2>3, <3>1, <3>2
  <2> QED BY <2>1, <2>2, <2>3
<1>3. ASSUME NEW p \in Loaders, WriteKey(p) PROVE KeyInv'
  <2>1. loader[p].key \in KeyPairs /\ loader[p].pc = "write"
    BY <1>3 DEF WriteKey, Holder
  <2>0. \A q \in Loaders \ {p} : loader[q].pc # "write" /\ loader[q].pc # "holds"
    BY <2>1, <1>k
  <2>2. CASE keyFile' = loader[p].key /\ LoaderTo(p, "holds")
    BY <1>3, <2>0, <2>1, <2>2, LoaderMoves DEF WriteKey
  <2>3. CASE keyFile' \in {PartKeyFile, loader[p].key} /\ LoaderTo(p, "failed")
    BY <1>3, <2>0, <2>1, <2>3, LoaderMoves DEF WriteKey
  <2> QED BY <1>3, <2>2, <2>3 DEF WriteKey
<1>4. ASSUME NEW p \in Loaders, LoaderRestarts(p) PROVE KeyInv'
  BY <1>4, LoaderMoves DEF LoaderRestarts
<1>5. CASE UNCHANGED keyVars
  BY <1>5 DEF keyVars
<1> QED BY <1>1, <1>2, <1>3, <1>4, <1>5 DEF KeyNext

\* LoadOrCreateSigningKey: whoever holds a key holds the one in the file, for any
\* number of processes that create, read, fail to write it and are restarted.
THEOREM KeyIsOne == KeySpec => []KeySafety
<1>1. KeyInv => KeySafety
  BY DEF KeyInv
<1> QED BY <1>1, KeyInitially, KeyStep, PTL DEF KeySpec

-----------------------------------------------------------------------------
\* The preflight.

LookStages == {"inventory", "tenants", "cgroups", "port", "identify", "sockets", "processes", "ok", "refused"}
Look == [stage: LookStages, selector: ContainerIds \cup HostNames, head: BOOLEAN,
         inventory: [ContainerIds -> HostContainer \cup {Vacant}], gpu: SUBSET Holders,
         read: SUBSET Holders, port: Ports, exact: [Ports -> ContainerIds \cup {Vacant}],
         holder: [Ports -> SUBSET Holders]]

HostOK ==
    /\ host \in [ContainerIds -> HostContainer \cup {Vacant}]
    /\ ended \subseteq Holders /\ tenants \subseteq Running
    /\ listener \in [Ports -> SUBSET Running]

\* The cgroups that f has read are the owner's, but for the processes that ended.
ReadOwned(f, e) ==
    /\ f.read \subseteq Owner(f.selector, f.inventory) \cup e
    /\ f.read # {} => Owner(f.selector, f.inventory) # {}

\* One of the sockets at p is the identified container's, or its process has ended.
PortPassed(f, p, e) == f.holder[p] # {} => f.holder[p] \cap ({f.exact[p]} \cup e) # {}

\* What the preflight f has seen, when the holders in e have ended: the tenants whose
\* cgroups were read were the owner's, and every port that is done is passed.  The
\* sockets of the current port are not read before "processes".
Seen(f, e) ==
    /\ f \in Look
    /\ ReadOwned(f, e)
    /\ f.stage \in {"inventory", "tenants"} => f.read = {}
    /\ f.stage \notin {"inventory", "tenants", "cgroups", "refused"} => f.read = f.gpu
    /\ f.stage \in {"inventory", "tenants", "cgroups"} => f.holder = NoSockets
    /\ \A p \in Ports : \/ PortPassed(f, p, e)
                        \/ f.stage \in {"processes", "refused"} /\ p = f.port
    /\ f.stage \in {"port", "identify", "sockets"} => f.holder[f.port] = {}
    /\ f.stage \in {"port", "identify", "sockets", "processes"} /\ f.port = ServicePort =>
         f.holder[RendezvousPort] = {}
    /\ f.selector \in ContainerIds => \A p \in Ports : f.exact[p] \in {Vacant, f.selector}

PreflightInv == HostOK /\ Seen(preflight, ended)

-----------------------------------------------------------------------------
\* The host.

LEMMA HostStep == ASSUME HostOK, HostNext PROVE HostOK' /\ ended \subseteq ended' /\ preflight' = preflight
<1>1. ASSUME NEW c \in ContainerIds, NEW n \in HostNames, NEW k \in {"own", "member", "foreign"},
             HostStarts(c, n, k)
      PROVE  HostOK' /\ ended \subseteq ended' /\ preflight' = preflight
  <2>1. [name |-> n, kind |-> k] \in HostContainer
    BY DEF HostContainer
  <2>2. /\ host' \in [ContainerIds -> HostContainer \cup {Vacant}]
        /\ \A d \in ContainerIds \ {c} : host'[d] = host[d]
        /\ UNCHANGED <<ended, tenants, listener, preflight>> /\ c \notin OnHost
    BY <1>1, <2>1 DEF HostStarts, HostOK
  <2>3. Running \subseteq Running'
    BY <2>2 DEF Running, OnHost
  <2> QED BY <2>2, <2>3 DEF HostOK
<1>2. ASSUME NEW h \in Holders, HolderEnds(h)
      PROVE  HostOK' /\ ended \subseteq ended' /\ preflight' = preflight
  <2>1. /\ host' \in [ContainerIds -> HostContainer \cup {Vacant}]
        /\ \A d \in ContainerIds \ {h} : host'[d] = host[d]
    BY <1>2 DEF HolderEnds, HostOK
  <2>2. ended' = ended \cup {h} /\ ended' \subseteq Holders /\ preflight' = preflight
    BY <1>2 DEF HolderEnds, HostOK
  <2>3. Running \ {h} \subseteq Running'
    BY <2>1, <2>2 DEF Running, OnHost
  <2>4. tenants' \subseteq Running'
    BY <1>2, <2>3 DEF HolderEnds, HostOK
  <2>5. listener' \in [Ports -> SUBSET Running']
    BY <1>2, <2>3 DEF HolderEnds, HostOK
  <2> QED BY <2>1, <2>2, <2>4, <2>5 DEF HostOK
<1>3. ASSUME NEW h \in Holders, HolderComputes(h)
      PROVE  HostOK' /\ ended \subseteq ended' /\ preflight' = preflight
  BY <1>3 DEF HolderComputes, HostOK, Running, OnHost
<1>4. ASSUME NEW h \in Holders, NEW p \in Ports, HolderListens(h, p)
      PROVE  HostOK' /\ ended \subseteq ended' /\ preflight' = preflight
  <2>1. UNCHANGED <<host, ended, tenants, preflight>> /\ Running' = Running
    BY <1>4 DEF HolderListens, Running, OnHost
  <2>2. listener' \in [Ports -> SUBSET Running]
    BY <1>4 DEF HolderListens, HostOK
  <2> QED BY <2>1, <2>2 DEF HostOK
<1> QED BY <1>1, <1>2, <1>3, <1>4 DEF HostNext

LEMMA SeenLater ==
    ASSUME NEW f, NEW e, NEW e1, Seen(f, e), e \subseteq e1
    PROVE  Seen(f, e1)
<1>1. ReadOwned(f, e1)
  BY DEF Seen, ReadOwned
<1>2. ASSUME NEW p \in Ports, PortPassed(f, p, e) PROVE PortPassed(f, p, e1)
  BY <1>2 DEF PortPassed
<1> QED BY <1>1, <1>2 DEF Seen

-----------------------------------------------------------------------------
\* The looks.

LEMMA LookStageFacts ==
    ASSUME NEW f \in Look, NEW s \in LookStages
    PROVE  LET g == [f EXCEPT !.stage = s] IN
           /\ g \in Look /\ g.stage = s /\ g.selector = f.selector /\ g.inventory = f.inventory
           /\ g.gpu = f.gpu /\ g.read = f.read /\ g.port = f.port /\ g.exact = f.exact
           /\ g.holder = f.holder
BY DEF Look

\* What f has seen but for its stage and port, which g has on its own.
LEMMA SeenAlike ==
    ASSUME NEW f, NEW g \in Look, NEW e,
           g.selector = f.selector, g.inventory = f.inventory, g.read = f.read,
           g.exact = f.exact, g.holder = f.holder
    PROVE  /\ ReadOwned(g, e) <=> ReadOwned(f, e)
           /\ \A p \in Ports : PortPassed(g, p, e) <=> PortPassed(f, p, e)
BY DEF ReadOwned, PortPassed

\* The port is done, and what is known of the others as well.
LEMMA PortDoneSeen ==
    ASSUME NEW f, NEW e, f \in Look,
           ReadOwned(f, e), f.read = f.gpu,
           \A p \in Ports : PortPassed(f, p, e),
           f.port = ServicePort => f.holder[RendezvousPort] = {},
           f.selector \in ContainerIds => \A p \in Ports : f.exact[p] \in {Vacant, f.selector}
    PROVE  Seen(PortDone(f), e)
<1>1. CASE f.port = ServicePort
  <2> DEFINE g == [f EXCEPT !.stage = "port", !.port = RendezvousPort]
  <2>1. /\ g \in Look /\ g.stage = "port" /\ g.selector = f.selector /\ g.inventory = f.inventory
        /\ g.gpu = f.gpu /\ g.read = f.read /\ g.port = RendezvousPort /\ g.exact = f.exact
        /\ g.holder = f.holder
    BY DEF Look, LookStages, Ports
  <2>2. PortDone(f) = g
    BY <1>1 DEF PortDone
  <2> HIDE DEF g
  <2>3. ReadOwned(g, e) /\ \A p \in Ports : PortPassed(g, p, e)
    BY <2>1, SeenAlike
  <2>4. Seen(g, e)
    BY <1>1, <2>1, <2>3, PreflightAssumption DEF Seen
  <2> QED BY <2>2, <2>4
<1>2. CASE f.port # ServicePort
  <2> DEFINE g == [f EXCEPT !.stage = "ok"]
  <2>1. /\ g \in Look /\ g.stage = "ok" /\ g.selector = f.selector /\ g.inventory = f.inventory
        /\ g.gpu = f.gpu /\ g.read = f.read /\ g.exact = f.exact /\ g.holder = f.holder
    BY DEF Look, LookStages
  <2>2. PortDone(f) = g
    BY <1>2 DEF PortDone
  <2> HIDE DEF g
  <2>3. ReadOwned(g, e) /\ \A p \in Ports : PortPassed(g, p, e)
    BY <2>1, SeenAlike
  <2>4. Seen(g, e)
    BY <2>1, <2>3 DEF Seen
  <2> QED BY <2>2, <2>4
<1> QED BY <1>1, <1>2

\* A container that the selector selects: the selector itself where that is an ID.
LEMMA SelectsFacts ==
    ASSUME NEW s, NEW h \in [ContainerIds -> HostContainer \cup {Vacant}], NEW c \in Selects(s, h)
    PROVE  c \in ContainerIds /\ s \in {c, h[c].name} /\ (s \in ContainerIds => c = s)
<1>1. c \in ContainerIds /\ h[c] \in HostContainer /\ s \in {c, h[c].name}
  BY DEF Selects
<1>2. h[c].name \in HostNames
  BY <1>1 DEF HostContainer
<1> QED BY <1>1, <1>2, PreflightAssumption

LEMMA LookStep ==
    ASSUME HostOK, Seen(preflight, ended),
           \/ ReadInventory \/ ListTenants \/ (\E h \in Holders : ReadCgroup(h)) \/ CheckTenants
           \/ CheckPort \/ Identify \/ ReadSockets \/ ReadProcesses
           \/ PreflightRefuses
    PROVE  UNCHANGED hostVars /\ Seen(preflight', ended)
<1>0. PICK f \in Look : f = preflight
  BY DEF Seen
<1>h. UNCHANGED hostVars
  BY DEF ReadInventory, ListTenants, ReadCgroup, CheckTenants, CheckPort, Identify, ReadSockets,
         ReadProcesses, PreflightRefuses, Refuse, Sees
<1>s. f.port \in Ports /\ Ports = {ServicePort, RendezvousPort} /\ Seen(f, ended)
  BY <1>0 DEF Look, Ports
<1>1. CASE ReadInventory
  <2> DEFINE g == [f EXCEPT !.stage = "tenants", !.inventory = host]
  <2>1. /\ g \in Look /\ g.stage = "tenants" /\ g.selector = f.selector /\ g.read = f.read
        /\ g.exact = f.exact /\ g.holder = f.holder /\ g.port = f.port
    BY DEF Look, LookStages, HostOK
  <2>2. preflight' = g /\ f.stage = "inventory"
    BY <1>0, <1>1 DEF ReadInventory, Sees, Stage
  <2> HIDE DEF g
  <2>3. g.read = {} /\ ReadOwned(g, ended)
    BY <1>s, <2>1, <2>2 DEF Seen, ReadOwned
  <2>4. \A p \in Ports : PortPassed(g, p, ended)
    BY <1>s, <2>1, <2>2 DEF Seen, PortPassed
  <2> QED BY <1>h, <1>s, <2>1, <2>2, <2>3, <2>4 DEF Seen
<1>2. CASE ListTenants
  <2> DEFINE g == [f EXCEPT !.stage = "cgroups", !.gpu = tenants]
  <2>0. tenants \in SUBSET Holders
    BY DEF HostOK, Running, OnHost, Holders
  <2>1. preflight' = g /\ f.stage = "tenants"
    BY <1>0, <1>2 DEF ListTenants, Sees, Stage
  <2>2. /\ g \in Look /\ g.stage = "cgroups" /\ g.selector = f.selector /\ g.port = f.port
        /\ g.inventory = f.inventory /\ g.read = f.read /\ g.exact = f.exact /\ g.holder = f.holder
    BY <2>0 DEF Look, LookStages
  <2> HIDE DEF g
  <2>3. ReadOwned(g, ended) /\ \A p \in Ports : PortPassed(g, p, ended) <=> PortPassed(f, p, ended)
    BY <1>s, <2>2, SeenAlike DEF Seen
  <2> QED BY <1>h, <1>s, <2>1, <2>2, <2>3 DEF Seen
<1>3. ASSUME NEW h \in Holders, ReadCgroup(h) PROVE Seen(preflight', ended)
  <2> DEFINE g == [f EXCEPT !.read = f.read \cup {h}]
  <2>1. /\ preflight' = g /\ f.stage = "cgroups"
        /\ \E o \in IF h \in ended THEN Running ELSE {h} : o \in Owner(f.selector, f.inventory)
    BY <1>0, <1>3 DEF ReadCgroup, Sees, Stage
  <2>2. /\ g \in Look /\ g.stage = f.stage /\ g.selector = f.selector /\ g.port = f.port
        /\ g.inventory = f.inventory /\ g.read = f.read \cup {h} /\ g.exact = f.exact
        /\ g.holder = f.holder
    BY DEF Look
  <2> HIDE DEF g
  <2>3. ReadOwned(g, ended)
    BY <1>s, <2>1, <2>2 DEF Seen, ReadOwned
  <2>4. \A p \in Ports : PortPassed(g, p, ended) <=> PortPassed(f, p, ended)
    BY <2>2 DEF PortPassed
  <2> QED BY <1>s, <2>1, <2>2, <2>3, <2>4 DEF Seen
<1>4. CASE CheckTenants
  <2> DEFINE q == IF f.head THEN ServicePort ELSE RendezvousPort
             g == [f EXCEPT !.stage = "port", !.port = q]
  <2>0. q \in Ports
    BY DEF Ports
  <2>1. preflight' = g /\ f.stage = "cgroups" /\ f.read = f.gpu
    BY <1>0, <1>4 DEF CheckTenants, Sees, Stage
  <2> HIDE DEF q
  <2>2. /\ g \in Look /\ g.stage = "port" /\ g.selector = f.selector /\ g.port = q /\ g.gpu = f.gpu
        /\ g.inventory = f.inventory /\ g.read = f.read /\ g.exact = f.exact /\ g.holder = f.holder
    BY <2>0 DEF Look, LookStages
  <2>3. f.holder = NoSockets /\ NoSockets[q] = {} /\ NoSockets[RendezvousPort] = {}
    BY <1>s, <2>0, <2>1 DEF Seen, NoSockets, Ports
  <2> HIDE DEF g
  <2>4. ReadOwned(g, ended) /\ \A p \in Ports : PortPassed(g, p, ended) <=> PortPassed(f, p, ended)
    BY <1>s, <2>2, SeenAlike DEF Seen
  <2> QED BY <1>h, <1>s, <2>1, <2>2, <2>3, <2>4 DEF Seen
<1>5. CASE CheckPort
  <2>0. /\ f.stage = "port"
        /\ preflight' \in {PortDone(f), [f EXCEPT !.stage = "identify"]}
    BY <1>0, <1>5 DEF CheckPort, Sees, Stage
  <2>1. Seen(PortDone(f), ended)
    BY <1>s, <2>0, PortDoneSeen DEF Seen
  <2>2. Seen([f EXCEPT !.stage = "identify"], ended)
    <3> DEFINE g == [f EXCEPT !.stage = "identify"]
    <3>1. /\ g \in Look /\ g.stage = "identify" /\ g.selector = f.selector /\ g.inventory = f.inventory
          /\ g.gpu = f.gpu /\ g.read = f.read /\ g.port = f.port /\ g.exact = f.exact
          /\ g.holder = f.holder
      BY LookStageFacts DEF LookStages
    <3> HIDE DEF g
    <3>2. ReadOwned(g, ended) /\ \A p \in Ports : PortPassed(g, p, ended) <=> PortPassed(f, p, ended)
      BY <1>s, <3>1, SeenAlike DEF Seen
    <3>3. Seen(g, ended)
      BY <1>s, <2>0, <3>1, <3>2 DEF Seen
    <3> QED BY <3>3 DEF g
  <2> QED BY <1>h, <2>0, <2>1, <2>2
<1>6. CASE Identify
  <2>1. PICK c \in Selects(f.selector, host) :
          preflight' = [f EXCEPT !.stage = "sockets", !.exact[f.port] = c]
    BY <1>0, <1>6 DEF Identify, Sees
  <2>2. c \in ContainerIds /\ (f.selector \in ContainerIds => c = f.selector)
    BY <2>1, SelectsFacts DEF HostOK
  <2>3. f.stage = "identify"
    BY <1>0, <1>6 DEF Identify, Stage
  <2> DEFINE x == [f.exact EXCEPT ![f.port] = c]
             g == [f EXCEPT !.stage = "sockets", !.exact = x]
  <2>4. x \in [Ports -> ContainerIds \cup {Vacant}] /\ x[f.port] = c
        /\ \A p \in Ports \ {f.port} : x[p] = f.exact[p]
    BY <1>s, <2>2 DEF Look
  <2>5. preflight' = g
    BY <2>1
  <2> HIDE DEF x
  <2>6. /\ g \in Look /\ g.stage = "sockets" /\ g.selector = f.selector /\ g.inventory = f.inventory
        /\ g.gpu = f.gpu /\ g.read = f.read /\ g.port = f.port /\ g.exact = x /\ g.holder = f.holder
    BY <2>4 DEF Look, LookStages
  <2> HIDE DEF g
  <2>7. ReadOwned(g, ended)
    BY <1>s, <2>6 DEF Seen, ReadOwned
  <2>8. ASSUME NEW p \in Ports PROVE PortPassed(g, p, ended)
    <3>1. CASE p = f.port
      BY <1>s, <2>3, <2>6, <3>1 DEF Seen, PortPassed
    <3>2. CASE p # f.port
      <4>1. g.exact[p] = f.exact[p]
        BY <2>4, <2>6, <3>2
      <4> QED BY <1>s, <2>3, <2>6, <4>1 DEF Seen, PortPassed
    <3> QED BY <3>1, <3>2
  <2> QED BY <1>h, <1>s, <2>2, <2>3, <2>4, <2>5, <2>6, <2>7, <2>8 DEF Seen
<1>7. CASE ReadSockets
  <2> DEFINE y == [f.holder EXCEPT ![f.port] = listener[f.port]]
             g == [f EXCEPT !.holder = y]
  <2>1. /\ f.stage = "sockets"
        /\ \/ f.exact[f.port] \in listener[f.port] /\ preflight' = PortDone(g)
           \/ preflight' = [g EXCEPT !.stage = "processes"]
    BY <1>0, <1>7 DEF ReadSockets, Sees, Stage
  <2>2. /\ y \in [Ports -> SUBSET Holders] /\ y[f.port] = listener[f.port]
        /\ \A p \in Ports \ {f.port} : y[p] = f.holder[p]
    BY <1>s DEF Look, HostOK, Running, OnHost, Holders
  <2> HIDE DEF y
  <2>3. /\ g \in Look /\ g.stage = "sockets" /\ g.selector = f.selector /\ g.inventory = f.inventory
        /\ g.gpu = f.gpu /\ g.read = f.read /\ g.port = f.port /\ g.exact = f.exact /\ g.holder = y
    BY <2>1, <2>2 DEF Look
  <2> HIDE DEF g
  <2>4. f.port = ServicePort => y[RendezvousPort] = {}
    BY <1>s, <2>1, <2>2, PreflightAssumption DEF Seen
  <2>5. ReadOwned(g, ended)
    BY <1>s, <2>3 DEF Seen, ReadOwned
  <2>6. ASSUME NEW p \in Ports, p # f.port PROVE PortPassed(g, p, ended)
    <3>1. g.holder[p] = f.holder[p]
      BY <2>2, <2>3, <2>6
    <3> QED BY <1>s, <2>1, <2>3, <3>1 DEF Seen, PortPassed
  <2>7. CASE f.exact[f.port] \in listener[f.port] /\ preflight' = PortDone(g)
    <3>1. PortPassed(g, f.port, ended)
      BY <2>2, <2>3, <2>7 DEF PortPassed
    <3> QED BY <1>h, <1>s, <2>1, <2>3, <2>4, <2>5, <2>6, <2>7, <3>1, PortDoneSeen DEF Seen
  <2>8. CASE preflight' = [g EXCEPT !.stage = "processes"]
    <3> DEFINE k == [g EXCEPT !.stage = "processes"]
    <3>1. /\ k \in Look /\ k.stage = "processes" /\ k.selector = g.selector
          /\ k.inventory = g.inventory /\ k.gpu = g.gpu /\ k.read = g.read /\ k.port = g.port
          /\ k.exact = g.exact /\ k.holder = g.holder
      BY <2>3, LookStageFacts DEF LookStages
    <3> HIDE DEF k
    <3>2. ReadOwned(k, ended) /\ \A p \in Ports : PortPassed(k, p, ended) <=> PortPassed(g, p, ended)
      BY <2>5, <3>1, SeenAlike
    <3>3. Seen(k, ended)
      BY <1>s, <2>1, <2>3, <2>4, <2>6, <3>1, <3>2 DEF Seen
    <3> QED BY <1>h, <2>8, <3>3 DEF k
  <2> QED BY <2>1, <2>7, <2>8
<1>8. CASE ReadProcesses
  <2>1. /\ f.stage = "processes" /\ preflight' = PortDone(f)
        /\ f.exact[f.port] \in f.holder[f.port] \/ f.holder[f.port] \cap ended # {}
    BY <1>0, <1>8 DEF ReadProcesses, Sees, Stage
  <2>2. PortPassed(f, f.port, ended)
    BY <2>1 DEF PortPassed
  <2>3. \A p \in Ports : PortPassed(f, p, ended)
    BY <1>s, <2>1, <2>2 DEF Seen
  <2> QED BY <1>h, <1>s, <2>1, <2>3, PortDoneSeen DEF Seen
<1>9. CASE PreflightRefuses
  <2> DEFINE g == [f EXCEPT !.stage = "refused"]
  <2>1. preflight' = g
    BY <1>0, <1>9 DEF PreflightRefuses, Refuse, Sees
  <2>2. /\ g \in Look /\ g.stage = "refused" /\ g.selector = f.selector /\ g.inventory = f.inventory
        /\ g.gpu = f.gpu /\ g.read = f.read /\ g.port = f.port /\ g.exact = f.exact
        /\ g.holder = f.holder
    BY LookStageFacts DEF LookStages
  <2>3. f.stage # "refused"
    BY <1>0, <1>9 DEF PreflightRefuses
  <2> HIDE DEF g
  <2>4. ReadOwned(g, ended) /\ \A p \in Ports : PortPassed(g, p, ended) <=> PortPassed(f, p, ended)
    BY <1>s, <2>2, SeenAlike DEF Seen
  <2> QED BY <1>h, <1>s, <2>1, <2>2, <2>3, <2>4 DEF Seen
<1> QED BY <1>h, <1>1, <1>2, <1>3, <1>4, <1>5, <1>6, <1>7, <1>8, <1>9

-----------------------------------------------------------------------------
\* The owner of the GPU: one container of its own, which the selector selects.
LEMMA OwnerFacts ==
    ASSUME NEW s, NEW h \in [ContainerIds -> HostContainer \cup {Vacant}], Owner(s, h) # {}
    PROVE  \E c \in ContainerIds : Owner(s, h) = {c} /\ s \in {c, h[c].name} /\ h[c].kind = "own"
                                   /\ (s \in ContainerIds => c = s)
<1>1. Cardinality(Selects(s, h)) = 1 /\ Owner(s, h) = {c \in Selects(s, h) : h[c].kind = "own"}
  BY DEF Owner
<1>2. PICK c : Selects(s, h) = {c}
  <2>1. PICK c \in Selects(s, h) : TRUE
    BY <1>1
  <2>2. ASSUME NEW b \in Selects(s, h), b # c PROVE FALSE
    <3>0. IsFiniteSet(Selects(s, h))
      BY PreflightAssumption, FS_Subset DEF Selects
    <3>1. Cardinality({b, c}) <= 1
      BY <1>1, <2>1, <2>2, <3>0, FS_Subset
    <3>2. Cardinality({b, c}) = 2
      <4>1. IsFiniteSet({b}) /\ Cardinality({b}) = 1
        BY FS_Singleton
      <4>2. {b, c} = {b} \cup {c} /\ c \notin {b}
        BY <2>2
      <4>3. Cardinality({b} \cup {c}) = Cardinality({b}) + 1
        BY <4>1, <4>2, FS_AddElement
      <4> QED BY <4>1, <4>2, <4>3
    <3> QED BY <3>1, <3>2
  <2> QED BY <2>1, <2>2
<1>3. c \in Selects(s, h)
  BY <1>2
<1>4. c \in ContainerIds /\ s \in {c, h[c].name} /\ (s \in ContainerIds => c = s)
  BY <1>3, SelectsFacts
<1> QED BY <1>1, <1>2, <1>4

LEMMA SafeFromSeen == PreflightInv => PreflightSafety
<1> SUFFICES ASSUME PreflightInv PROVE PreflightSafety
  OBVIOUS
<1>1. PreflightTypeOK
  BY DEF PreflightInv, HostOK, Seen, Look, PreflightTypeOK
<1>2. PICK f \in Look : f = preflight /\ Seen(f, ended)
  BY DEF PreflightInv, Seen
<1>3. ASSUME f.stage = "ok", f.gpu # {}
      PROVE  \E c \in ContainerIds : /\ f.gpu \subseteq {c} \cup ended
                                     /\ f.selector \in {c, f.inventory[c].name}
                                     /\ f.inventory[c].kind = "own"
                                     /\ (f.selector \in ContainerIds => c = f.selector)
  <2>1. /\ f.gpu \subseteq Owner(f.selector, f.inventory) \cup ended
        /\ Owner(f.selector, f.inventory) # {}
    BY <1>2, <1>3 DEF Seen, ReadOwned
  <2>2. f.inventory \in [ContainerIds -> HostContainer \cup {Vacant}]
    BY DEF Look
  <2>3. PICK c \in ContainerIds :
          /\ Owner(f.selector, f.inventory) = {c} /\ f.selector \in {c, f.inventory[c].name}
          /\ f.inventory[c].kind = "own" /\ (f.selector \in ContainerIds => c = f.selector)
    BY <2>1, <2>2, OwnerFacts
  <2> QED BY <2>1, <2>3
<1>4. GpuBelongsToRollback
  <2>1. CASE f.gpu = {}
    BY <1>2, <2>1, PreflightAssumption DEF GpuBelongsToRollback
  <2> QED BY <1>2, <1>3, <2>1 DEF GpuBelongsToRollback, Stage
<1>5. PortBelongsToRollback
  BY <1>2 DEF PortBelongsToRollback, Stage, Seen, PortPassed
<1>6. OneRollbackOwner
  BY <1>2, <1>3 DEF OneRollbackOwner, Stage, Seen
<1> QED BY <1>1, <1>4, <1>5, <1>6 DEF PreflightSafety

LEMMA PreflightInvInitially == PreflightInit => PreflightInv
<1> SUFFICES ASSUME PreflightInit PROVE PreflightInv
  OBVIOUS
<1>1. HostOK
  BY DEF PreflightInit, HostOK, Running, OnHost, Holders, NoSockets
<1>2. PICK s \in ContainerIds \cup HostNames, b \in BOOLEAN :
        preflight = [stage |-> "inventory", selector |-> s, head |-> b,
                     inventory |-> [c \in ContainerIds |-> Vacant], gpu |-> {}, read |-> {},
                     port |-> RendezvousPort, exact |-> NotSeen, holder |-> NoSockets]
  BY DEF PreflightInit
<1>3. /\ preflight.stage = "inventory" /\ preflight.selector = s /\ preflight.port = RendezvousPort
      /\ preflight.exact = NotSeen /\ preflight.holder = NoSockets /\ preflight.read = {}
  BY <1>2
<1>4. NotSeen \in [Ports -> {Vacant}] /\ NoSockets \in [Ports -> {{}}]
  BY DEF NotSeen, NoSockets
<1>5. preflight \in Look
  BY <1>2, <1>4 DEF Look, LookStages, Ports
<1>6. Seen(preflight, ended)
  BY <1>3, <1>4, <1>5 DEF Seen, ReadOwned, PortPassed
<1> QED BY <1>1, <1>6 DEF PreflightInv

LEMMA PreflightInvStep == PreflightInv /\ [PreflightNext]_preflightVars => PreflightInv'
<1> SUFFICES ASSUME PreflightInv, [PreflightNext]_preflightVars PROVE PreflightInv'
  OBVIOUS
<1>1. CASE HostNext
  BY <1>1, HostStep, SeenLater DEF PreflightInv
<1>2. CASE \/ ReadInventory \/ ListTenants \/ (\E h \in Holders : ReadCgroup(h)) \/ CheckTenants
           \/ CheckPort \/ Identify \/ ReadSockets \/ ReadProcesses \/ PreflightRefuses
  <2>1. UNCHANGED hostVars /\ Seen(preflight', ended)
    BY <1>2, LookStep DEF PreflightInv
  <2> QED BY <2>1 DEF PreflightInv, hostVars, HostOK, Running, OnHost
<1>3. CASE UNCHANGED preflightVars
  BY <1>3 DEF preflightVars, PreflightInv, HostOK, Running, OnHost
<1> QED BY <1>1, <1>2, <1>3 DEF PreflightNext

\* A preflight passes a GPU or a port in use only on account of the one container
\* that a rollback brings back, whatever starts, ends, computes and listens between its
\* looks (validateDeploymentPreflight).
THEOREM PreflightIsSafe == PreflightSpec => []PreflightSafety
BY SafeFromSeen, PreflightInvInitially, PreflightInvStep, PTL DEF PreflightSpec
=============================================================================
