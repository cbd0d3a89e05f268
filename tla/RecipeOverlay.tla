---------------------------- MODULE RecipeOverlay ----------------------------
(***************************************************************************)
(* The recipes that software agents propose, try on hardware and swap into *)
(* service: the handlers of internal/daemon/agent_recipes.go,              *)
(* agent_verify.go and agent_swap.go over the store of internal/recipes.   *)
(*                                                                         *)
(* A handler reads a recipe, makes calls that may take minutes, and puts   *)
(* its copy back: `req[h].rec` is that copy.  Only the store's own lock is *)
(* shared.  A container is known by its device and its name, which Docker  *)
(* keeps unique.  Validation of the input, the self-host guard (a caller   *)
(* may override it), provenance, LastVerify and SwapHistory change nothing *)
(* that is modelled and are left out; so is removing a container by hand.  *)
(***************************************************************************)
EXTENDS Naturals, Sequences, FiniteSets

CONSTANTS
    Recipes,     \* ids
    Configs,     \* deployable contents; their fingerprints differ
    Name,        \* [Configs -> container names]
    Devices,
    Handlers,    \* requests that may be served at the same time
    Previous,    \* [Devices -> name of the service deployed before, or None]
    None,        \* no recipe, no service
    MaxRequests, \* bound on requests
    MaxFaults    \* bound on failed calls and writes and on crashes

ASSUME DevicesAssumption == IsFiniteSet(Devices)
ASSUME OverlayBoundAssumption == MaxRequests \in Nat /\ MaxFaults \in Nat

VARIABLES
    store,    \* recipes.json and its copy in memory
    svc,      \* Daemon.cfg.Services
    saved,    \* the services in config.json
    box,      \* containers on the devices
    late,     \* launches that the daemon saw fail and the agent goes on with
    req,      \* the requests in progress
    evidence, \* history: gates and trials that were passed
    adopted,  \* history: containers that were put into service
    stray,    \* history: containers whose removal failed or that nobody heard of
    requests, faults

vars == <<store, svc, saved, box, late, req, evidence, adopted, stray, requests, faults>>

-----------------------------------------------------------------------------
Names == {Name[c] : c \in Configs} \cup {Previous[d] : d \in Devices} \cup {None}
Keys == Devices \X Names
Recipe == [config: Configs, status: {"proposed", "validated"}, on: SUBSET Devices]
Service == [dev: Devices, name: Names]
Kinds == {"propose", "patch", "validate", "verify", "swap"}
Request == [kind: Kinds, pc: {"gate", "previous", "deploy", "test", "persist", "stop",
                              "put", "remove"},
            r: Recipes, d: Devices \cup {None}, rec: Recipe, prev: Names, made: BOOLEAN]
NoRequest == [kind |-> "none", pc |-> "idle", r |-> None, d |-> None, rec |-> None,
              prev |-> None, made |-> FALSE]

ASSUME NameAssumption ==
    /\ None \notin Recipe /\ \A c \in Configs : Name[c] # None
    /\ \A d \in Devices, c \in Configs : Previous[d] # Name[c]
    /\ \A d, e \in Devices : Previous[d] = Previous[e] => d = e \/ Previous[d] = None

Ready(h) == req[h].pc = "idle" /\ requests < MaxRequests
At(h, label) == req[h].pc = label
Goes(h, label) ==
    req' = [req EXCEPT ![h] = IF label = "idle" THEN NoRequest ELSE [@ EXCEPT !.pc = label]]
Becomes(h, r) == req' = [req EXCEPT ![h] = r]
Key(r) == <<r.d, Name[r.rec.config]>>
Fault == faults < MaxFaults /\ faults' = faults + 1
Exists(r) == store[r] # None

Begins(h, kind, r, d, rec, label) ==
    /\ requests' = requests + 1
    /\ Becomes(h, [kind |-> kind, pc |-> label, r |-> r, d |-> d, rec |-> rec,
                   prev |-> None, made |-> FALSE])
    /\ UNCHANGED <<store, svc, saved, box, late, evidence, adopted, stray, faults>>

-----------------------------------------------------------------------------
\* Requests.

\* A proposal may name an id that is in use.  Its configuration must be new
\* when it is looked up; it is put later.
Propose(h, r, c) ==
    /\ Ready(h) /\ \A q \in Recipes : Exists(q) => store[q].config # c
    /\ Begins(h, "propose", r, None, [config |-> c, status |-> "proposed", on |-> {}], "put")

Patch(h, r, c) ==
    /\ Ready(h) /\ Exists(r)
    /\ Begins(h, "patch", r, None, [store[r] EXCEPT !.config = c], "put")

\* validate and verify start with the hardware gate.
Examine(h, kind, r, d) ==
    Ready(h) /\ Exists(r) /\ Begins(h, kind, r, d, store[r], "gate")

Swap(h, r, d) ==
    /\ Ready(h) /\ Exists(r) /\ store[r].status = "validated" /\ d \in store[r].on
    /\ Begins(h, "swap", r, d, store[r], "previous")

-----------------------------------------------------------------------------
\* Evidence.

\* The copy is promoted and put next.
Promoted(r) ==
    [r EXCEPT !.pc = "put",
              !.rec = [config |-> @.config, status |-> "validated", on |-> @.on \cup {r.d}]]
Passed(r) == evidence' = evidence \cup {<<r.r, r.rec.config, r.d>>}

OnlyReq == UNCHANGED <<store, svc, saved, box, late, adopted, stray, requests, faults>>

\* Mutant of Gate: a device that could not be asked counts as a fit.
GateOffline(h) ==
    /\ At(h, "gate") /\ OnlyReq
    /\ LET r == req[h] IN
       IF r.kind = "validate"
       THEN /\ Becomes(h, Promoted(r))
            /\ Passed(r) \/ UNCHANGED evidence
       ELSE (Goes(h, "deploy") \/ Goes(h, "put")) /\ UNCHANGED evidence

\* The device's live metrics are compared with the configuration.  A failed
\* verification is recorded in the recipe, a failed validation is not.
Gate(h) ==
    /\ At(h, "gate") /\ OnlyReq
    /\ LET r == req[h] IN
       \/ /\ r.kind = "validate" /\ Passed(r)
          /\ Becomes(h, Promoted(r))
       \/ r.kind = "verify" /\ Goes(h, "deploy") /\ UNCHANGED evidence
       \/ Goes(h, IF r.kind = "verify" THEN "put" ELSE "idle") /\ UNCHANGED evidence

\* serviceOnDevice: the first service recorded for the device.
First(d, i) ==
    i \in DOMAIN svc /\ svc[i].dev = d /\ \A j \in 1..(i - 1) : svc[j].dev # d
ServiceOn(d, name) ==
    \/ \E i \in DOMAIN svc : First(d, i) /\ svc[i].name = name
    \/ (\A i \in DOMAIN svc : svc[i].dev # d) /\ name = None

\* Mutant of FindPrevious: the previous service makes room before the trial.
FindPreviousStopping(h) ==
    /\ At(h, "previous")
    /\ \E name \in Names :
         /\ ServiceOn(req[h].d, name)
         /\ Becomes(h, [req[h] EXCEPT !.prev = name, !.pc = "deploy"])
         /\ box' = [box EXCEPT ![<<req[h].d, name>>] = IF @ = "running" THEN "stopped" ELSE @]
    /\ UNCHANGED <<store, svc, saved, late, adopted, stray, requests, faults, evidence>>

FindPrevious(h) ==
    /\ At(h, "previous")
    /\ \E name \in Names :
         ServiceOn(req[h].d, name) /\ Becomes(h, [req[h] EXCEPT !.prev = name, !.pc = "deploy"])
    /\ OnlyReq /\ UNCHANGED evidence

\* Aggregator.Deploy: Docker refuses a name that is in use; a launch that takes
\* too long may go on.
Deploy(h) ==
    LET k == Key(req[h]) IN
    /\ At(h, "deploy")
    /\ \/ /\ box[k] = "none" /\ box' = [box EXCEPT ![k] = "running"]
          /\ Becomes(h, [req[h] EXCEPT !.made = TRUE, !.pc = "test"])
          /\ UNCHANGED <<late, faults>>
       \/ box[k] # "none" /\ Goes(h, "put") /\ UNCHANGED <<box, late, faults>>
       \/ Fault /\ late' \in {late, late \cup {k}} /\ Goes(h, "put") /\ UNCHANGED box
    /\ UNCHANGED <<store, svc, saved, evidence, adopted, stray, requests>>

Land(k) ==
    /\ k \in late /\ late' = late \ {k}
    /\ \/ box[k] = "none" /\ box' = [box EXCEPT ![k] = "running"] /\ stray' = stray \cup {k}
       \/ UNCHANGED <<box, stray>>
    /\ UNCHANGED <<store, svc, saved, req, evidence, adopted, requests, faults>>

\* The readiness probe.
Test(h) ==
    /\ At(h, "test") /\ OnlyReq
    /\ LET r == req[h] IN
       \/ /\ r.kind = "verify" /\ Passed(r)
          /\ Becomes(h, Promoted(r))
       \/ r.kind = "swap" /\ Goes(h, "persist") /\ UNCHANGED evidence
       \/ Goes(h, IF r.kind = "swap" THEN "remove" ELSE "put") /\ UNCHANGED evidence

-----------------------------------------------------------------------------
\* Cutover.

\* UpsertService: services are replaced by name, whatever their device.
Upsert(list, s) ==
    IF \E i \in DOMAIN list : list[i].name = s.name
    THEN [i \in DOMAIN list |-> IF list[i].name = s.name THEN s ELSE list[i]]
    ELSE Append(list, s)

\* persistSwappedService changes the configuration, then saves it.
Persist(h) ==
    LET r == req[h] IN
    /\ At(h, "persist")
    /\ svc' = Upsert(svc, [dev |-> r.d, name |-> Name[r.rec.config]])
    /\ \/ /\ saved' = svc' /\ UNCHANGED faults
          /\ Goes(h, IF r.prev \in {None, Name[r.rec.config]} THEN "put" ELSE "stop")
       \/ Fault /\ Goes(h, "put") /\ UNCHANGED saved
    /\ adopted' = adopted \cup {Key(r)}
    /\ UNCHANGED <<store, box, late, evidence, stray, requests>>

\* The previous container is stopped and kept; whether that works is ignored.
StopPrevious(h) ==
    LET k == <<req[h].d, req[h].prev>> IN
    /\ At(h, "stop") /\ Goes(h, "put")
    /\ \/ /\ box' = [box EXCEPT ![k] = IF @ = "running" THEN "stopped" ELSE @]
          /\ UNCHANGED faults
       \/ Fault /\ UNCHANGED box
    /\ UNCHANGED <<store, svc, saved, late, evidence, adopted, stray, requests>>

\* Store.Put replaces the recipe with the handler's copy, or fails.  A trial is
\* torn down in either case.
Put(h) ==
    LET r == req[h] IN
    /\ At(h, "put")
    /\ \/ store' = [store EXCEPT ![r.r] = r.rec] /\ UNCHANGED faults
       \/ Fault /\ UNCHANGED store
    /\ Goes(h, IF r.kind = "verify" /\ r.made THEN "remove" ELSE "idle")
    /\ UNCHANGED <<svc, saved, box, late, evidence, adopted, stray, requests>>

\* The end of a trial: of every verification, and of a swap that was not ready.
\* Whether the removal works is ignored.
Remove(h) ==
    LET k == Key(req[h]) IN
    /\ At(h, "remove") /\ Goes(h, IF req[h].kind = "swap" THEN "put" ELSE "idle")
    /\ \/ box' = [box EXCEPT ![k] = "none"] /\ UNCHANGED <<stray, faults>>
       \/ Fault /\ stray' = stray \cup {k} /\ UNCHANGED box
    /\ UNCHANGED <<store, svc, saved, late, evidence, adopted, requests>>

-----------------------------------------------------------------------------
\* The container a request has started and still answers for.
InHand(h) == IF req[h].pc \in {"test", "persist", "remove"}
                \/ (req[h].kind = "verify" /\ req[h].made /\ req[h].pc = "put")
             THEN {Key(req[h])} ELSE {}

\* The daemon crashes and runs again with what was saved.
Restart ==
    /\ Fault
    /\ req' = [h \in Handlers |-> NoRequest]
    /\ svc' = saved
    /\ late' \in {late, late \cup {Key(req[h]) : h \in {g \in Handlers : At(g, "deploy")}}}
    /\ stray' = stray \cup UNION {InHand(h) : h \in Handlers}
    /\ UNCHANGED <<store, saved, box, evidence, adopted, requests>>

Deployed == {[dev |-> d, name |-> Previous[d]] : d \in {e \in Devices : Previous[e] # None}}

\* A new store is seeded with proposed recipes; each device may run a service.
Init ==
    /\ store \in [Recipes -> {None} \cup
                   {[config |-> c, status |-> "proposed", on |-> {}] : c \in Configs}]
    /\ \A q, r \in Recipes : Exists(q) /\ store[q] = store[r] => q = r
    /\ svc \in {list \in [1..Cardinality(Deployed) -> Deployed] :
                  \A s \in Deployed : \E i \in DOMAIN list : list[i] = s}
    /\ saved = svc
    /\ adopted = {<<s.dev, s.name>> : s \in Deployed}
    /\ box = [k \in Keys |-> IF k \in adopted THEN "running" ELSE "none"]
    /\ late = {} /\ evidence = {} /\ stray = {}
    /\ req = [h \in Handlers |-> NoRequest]
    /\ requests = 0 /\ faults = 0

Requested(h) ==
    \E r \in Recipes :
        \/ \E c \in Configs : Propose(h, r, c) \/ Patch(h, r, c)
        \/ \E d \in Devices :
             Examine(h, "validate", r, d) \/ Examine(h, "verify", r, d) \/ Swap(h, r, d)

Served(h) ==
    \/ Gate(h) \/ FindPrevious(h) \/ Deploy(h) \/ Test(h)
    \/ Persist(h) \/ StopPrevious(h) \/ Put(h) \/ Remove(h)

Next ==
    \/ \E h \in Handlers : Requested(h) \/ Served(h)
    \/ \E k \in Keys : Land(k)
    \/ Restart

Spec == Init /\ [][Next]_vars

-----------------------------------------------------------------------------
\* Properties.

OverlayTypeOK ==
    /\ store \in [Recipes -> Recipe \cup {None}]
    /\ svc \in Seq(Service) /\ saved \in Seq(Service)
    /\ box \in [Keys -> {"none", "running", "stopped"}] /\ late \subseteq Keys
    /\ req \in [Handlers -> Request \cup {NoRequest}]
    /\ evidence \subseteq Recipes \X Configs \X Devices
    /\ adopted \subseteq Keys /\ stray \subseteq Keys
    /\ requests \in Nat /\ faults \in Nat

\* A recipe is validated, and on a device, only if some configuration of it has
\* passed the hardware gate or a trial there, whatever copies the handlers put
\* back over one another.
EvidenceBehindValidation ==
    \A r \in Recipes : Exists(r) =>
        /\ store[r].status = "validated" => store[r].on # {}
        /\ \A d \in store[r].on : \E c \in Configs : <<r, c, d>> \in evidence

\* No container of a trial outlives its request, but one whose removal failed,
\* that was launched late or whose request a crash ended.
TrialsTornDown ==
    \A k \in Keys : box[k] # "none" =>
        k \in adopted \cup stray \cup UNION {InHand(h) : h \in Handlers}

\* Whatever handlers put back over one another, no recipe is validated without
\* evidence, and no trial is left behind but by a failure or a crash
\* (handleAgentValidateRecipe, handleAgentVerifyRecipe).
RecipeSafety ==
    OverlayTypeOK /\ EvidenceBehindValidation /\ TrialsTornDown

Serving(d) == {k \in adopted : k[1] = d /\ box[k] = "running"}

\* A swap never leaves a device without a running service: the previous one is
\* stopped only after the next is in service, in whatever order swaps of the
\* same device overlap.
DeviceKeepsServing == [][\A d \in Devices : Serving(d) # {} => Serving(d)' # {}]_vars

\* Between requests a device runs one service: the cutover has stopped the one
\* the swap replaced.
OneServiceActive ==
    (\A h \in Handlers : At(h, "idle")) => \A d \in Devices : Cardinality(Serving(d)) <= 1
=============================================================================
