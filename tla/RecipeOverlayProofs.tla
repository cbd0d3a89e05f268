------------------------- MODULE RecipeOverlayProofs -------------------------
(***************************************************************************)
(* Theorems about RecipeOverlay, for any recipes, configurations, devices, *)
(* handlers and bounds: validation rests on evidence, trials are torn down *)
(* and a swap leaves no device without its service.                        *)
(***************************************************************************)
EXTENDS RecipeOverlay, FiniteSetTheorems, TLAPS

Labels == {"gate", "previous", "deploy", "test", "persist", "stop", "put", "remove"}

\* What the fields of a request say of one another.
Formed(r) ==
    \/ r = NoRequest
    \/ /\ r \in Request
       /\ r.kind \in {"propose", "patch"} => r.pc = "put"
       /\ r.kind \in {"validate", "verify", "swap"} => r.d \in Devices
       /\ r.pc \in {"previous", "persist", "stop"} => r.kind = "swap"
       /\ r.pc = "stop" => r.prev # None

\* Some configuration of the recipe has passed on every device it is validated on.
Backed(passed, r, rec) ==
    /\ rec.status = "validated" => rec.on # {}
    /\ \A d \in rec.on : \E c \in Configs : <<r, c, d>> \in passed

Busy(h) == req[h].pc # "idle"

\* The evidence stands behind the store and behind every copy a handler may put.
Copies ==
    /\ \A r \in Recipes : Exists(r) => Backed(evidence, r, store[r])
    /\ \A h \in Handlers : Busy(h) => Backed(evidence, req[h].r, req[h].rec)

\* An idle request is the blank one, a busy one a request.
LEMMA BusyFacts ==
    ASSUME NEW r, Formed(r)
    PROVE  /\ r.pc = "idle" => r = NoRequest
           /\ r.pc # "idle" => r \in Request /\ r.rec \in Recipe /\ r.pc \in Labels
BY DEF Formed, NoRequest, Request, Labels

\* Setting the label of a request.
LEMMA LabelFacts ==
    ASSUME NEW r \in Request, NEW label \in Labels
    PROVE  LET q == [r EXCEPT !.pc = label]
           IN /\ q \in Request /\ q.pc = label
              /\ q.kind = r.kind /\ q.r = r.r /\ q.d = r.d /\ q.rec = r.rec
              /\ q.prev = r.prev /\ q.made = r.made
BY DEF Request, Labels

\* Promoting the copy a request holds.
LEMMA PromotedFacts ==
    ASSUME NEW r \in Request, r.d \in Devices
    PROVE  /\ Promoted(r) \in Request /\ Promoted(r).pc = "put"
           /\ Promoted(r).kind = r.kind /\ Promoted(r).r = r.r /\ Promoted(r).d = r.d
           /\ Promoted(r).prev = r.prev /\ Promoted(r).made = r.made
           /\ Promoted(r).rec = [config |-> r.rec.config, status |-> "validated",
                                 on |-> r.rec.on \cup {r.d}]
<1>1. r.rec \in Recipe
  BY DEF Request
<1> DEFINE new == [config |-> r.rec.config, status |-> "validated", on |-> r.rec.on \cup {r.d}]
<1>2. new \in Recipe
  BY <1>1 DEF Recipe
<1>3. Promoted(r) = [r EXCEPT !.pc = "put", !.rec = new]
  BY DEF Promoted
<1> HIDE DEF new
<1> DEFINE q == [r EXCEPT !.pc = "put"]
<1>4. q \in Request /\ q.pc = "put" /\ q.kind = r.kind /\ q.r = r.r /\ q.d = r.d
      /\ q.prev = r.prev /\ q.made = r.made
  BY LabelFacts DEF Labels
<1>5. Promoted(r) = [q EXCEPT !.rec = new]
  BY <1>3
<1> HIDE DEF q
<1>6. /\ [q EXCEPT !.rec = new] \in Request
      /\ [q EXCEPT !.rec = new].pc = q.pc /\ [q EXCEPT !.rec = new].kind = q.kind
      /\ [q EXCEPT !.rec = new].r = q.r /\ [q EXCEPT !.rec = new].d = q.d
      /\ [q EXCEPT !.rec = new].prev = q.prev /\ [q EXCEPT !.rec = new].made = q.made
      /\ [q EXCEPT !.rec = new].rec = new
  BY <1>2, <1>4 DEF Request
<1> QED BY <1>4, <1>5, <1>6, Zenon DEF new

WellFormed == \A h \in Handlers : Formed(req[h])
Types == OverlayTypeOK /\ WellFormed

\* The request of one handler becomes r, the others stay.
LEMMA BecomesFacts ==
    ASSUME OverlayTypeOK, NEW h \in Handlers, NEW r, Becomes(h, r)
    PROVE  /\ req' = [g \in Handlers |-> IF g = h THEN r ELSE req[g]]
           /\ req'[h] = r /\ \A g \in Handlers : g # h => req'[g] = req[g]
BY DEF OverlayTypeOK, Becomes

\* The request of one handler goes on with another step, or ends.
Moved(h, label) ==
    /\ req'[h] \in Request /\ req'[h].pc = label
    /\ req'[h].kind = req[h].kind /\ req'[h].r = req[h].r /\ req'[h].d = req[h].d
    /\ req'[h].rec = req[h].rec /\ req'[h].prev = req[h].prev /\ req'[h].made = req[h].made
Others(h) == \A g \in Handlers : g # h => req'[g] = req[g]

LEMMA GoesFacts ==
    ASSUME OverlayTypeOK, NEW h \in Handlers, req[h] \in Request, NEW label, Goes(h, label)
    PROVE  /\ Others(h)
           /\ label = "idle" => req'[h] = NoRequest
           /\ label \in Labels => Moved(h, label)
           /\ req' = [g \in Handlers |-> req'[g]]
<1> DEFINE r == IF label = "idle" THEN NoRequest ELSE [req[h] EXCEPT !.pc = label]
<1>1. Becomes(h, r)
  BY DEF Goes, Becomes
<1>2. /\ req' = [g \in Handlers |-> IF g = h THEN r ELSE req[g]]
      /\ req'[h] = r /\ \A g \in Handlers : g # h => req'[g] = req[g]
  <2> HIDE DEF r
  <2> QED BY <1>1, BecomesFacts
<1>3. label \in Labels => r = [req[h] EXCEPT !.pc = label]
  BY DEF Labels
<1>4. label = "idle" => r = NoRequest
  OBVIOUS
<1> HIDE DEF r
<1>5. ASSUME label \in Labels PROVE Moved(h, label)
  <2>1. PICK old \in Request : old = req[h]
    OBVIOUS
  <2>2. r = [old EXCEPT !.pc = label]
    BY <1>3, <1>5, <2>1
  <2>3. /\ r \in Request /\ r.pc = label /\ r.kind = old.kind /\ r.r = old.r
        /\ r.d = old.d /\ r.rec = old.rec /\ r.prev = old.prev /\ r.made = old.made
    BY <1>5, <2>2, LabelFacts, Zenon
  <2> QED BY <1>2, <2>1, <2>3, Zenon DEF Moved
<1>6. req' = [g \in Handlers |-> req'[g]]
  BY <1>2
<1>7. Others(h)
  BY <1>2 DEF Others
<1>8. label = "idle" => req'[h] = NoRequest
  BY <1>2, <1>4
<1>9. label \in Labels => Moved(h, label)
  BY <1>5
<1> QED BY <1>6, <1>7, <1>8, <1>9

\* A well formed request replaced by a well formed one keeps all well formed.
LEMMA FormedStep ==
    ASSUME Types, NEW h \in Handlers, Others(h), Formed(req'[h]),
           req' = [g \in Handlers |-> req'[g]]
    PROVE  WellFormed' /\ req' \in [Handlers -> Request \cup {NoRequest}]
<1>1. \A g \in Handlers : Formed(req'[g])
  BY DEF Types, WellFormed, Others
<1>2. \A g \in Handlers : Formed(req'[g]) => req'[g] \in Request \cup {NoRequest}
  BY DEF Formed
<1> QED BY <1>1, <1>2 DEF WellFormed

\* The step of a busy handler moves its request and leaves it well formed.
LEMMA GoesFormed ==
    ASSUME Types, NEW h \in Handlers, Busy(h), NEW label \in Labels \cup {"idle"}, Goes(h, label),
           req[h].kind \in {"propose", "patch"} => label \in {"put", "idle"},
           label \in {"previous", "persist", "stop"} => req[h].kind = "swap",
           label = "stop" => req[h].prev # None
    PROVE  WellFormed' /\ req' \in [Handlers -> Request \cup {NoRequest}]
<1>1. Formed(req[h]) /\ req[h] \in Request /\ OverlayTypeOK
  BY BusyFacts DEF Types, WellFormed, Busy
<1>2. /\ Others(h)
      /\ label = "idle" => req'[h] = NoRequest
      /\ label \in Labels => Moved(h, label)
      /\ req' = [g \in Handlers |-> req'[g]]
  BY <1>1, GoesFacts
<1>3. Formed(req'[h])
  <2>1. CASE label = "idle"
    BY <1>2, <2>1 DEF Formed
  <2>2. CASE label \in Labels
    <3>1. req[h] # NoRequest
      BY DEF Busy, NoRequest
    <3>2. /\ req[h].kind \in {"propose", "patch"} => req[h].pc = "put"
          /\ req[h].kind \in {"validate", "verify", "swap"} => req[h].d \in Devices
      BY <1>1, <3>1 DEF Formed
    <3> QED BY <1>2, <2>2, <3>2 DEF Formed, Moved
  <2> QED BY <2>1, <2>2
<1> QED BY <1>2, <1>3, FormedStep

-----------------------------------------------------------------------------
\* Types.

\* The container of a request for a device is one that can exist.
LEMMA KeyFacts ==
    ASSUME NEW r \in Request, r.d \in Devices
    PROVE  Key(r) \in Keys /\ Key(r)[1] = r.d /\ Key(r)[2] # None
<1>1. r.rec.config \in Configs
  BY DEF Request, Recipe
<1>2. Name[r.rec.config] \in Names /\ Name[r.rec.config] # None
  BY <1>1, NameAssumption DEF Names
<1> QED BY <1>2 DEF Key, Keys

\* Upserting a service yields a list of services, of that one and the old ones.
LEMMA UpsertFacts ==
    ASSUME NEW list \in Seq(Service), NEW s \in Service
    PROVE  /\ Upsert(list, s) \in Seq(Service)
           /\ \A i \in DOMAIN Upsert(list, s) :
                \/ Upsert(list, s)[i] = s
                \/ \E j \in DOMAIN list : Upsert(list, s)[i] = list[j]
<1>1. CASE \E i \in DOMAIN list : list[i].name = s.name
  <2> DEFINE new == [i \in DOMAIN list |-> IF list[i].name = s.name THEN s ELSE list[i]]
  <2>1. Upsert(list, s) = new
    BY <1>1 DEF Upsert
  <2>2. new \in Seq(Service)
    OBVIOUS
  <2> QED BY <2>1, <2>2
<1>2. CASE ~\E i \in DOMAIN list : list[i].name = s.name
  <2>1. Upsert(list, s) = Append(list, s)
    BY <1>2 DEF Upsert
  <2> QED BY <2>1
<1> QED BY <1>1, <1>2

LEMMA BeginsTypes ==
    ASSUME Types, NEW h \in Handlers, NEW kind \in Kinds, NEW r \in Recipes,
           NEW d \in Devices \cup {None}, NEW rec \in Recipe,
           NEW label \in {"gate", "previous", "put"}, Begins(h, kind, r, d, rec, label),
           kind \in {"propose", "patch"} => label = "put",
           kind \in {"validate", "verify", "swap"} => d \in Devices,
           label = "previous" => kind = "swap"
    PROVE  Types'
<1> DEFINE q == [kind |-> kind, pc |-> label, r |-> r, d |-> d, rec |-> rec,
                 prev |-> None, made |-> FALSE]
<1>1. q \in Request
  BY DEF Request, Names
<1>2. Formed(q)
  BY <1>1 DEF Formed
<1>3. Becomes(h, q) /\ OverlayTypeOK
  BY DEF Begins, Types
<1> HIDE DEF q
<1>4. /\ req' = [g \in Handlers |-> IF g = h THEN q ELSE req[g]]
      /\ req'[h] = q /\ Others(h)
  BY <1>3, BecomesFacts DEF Others
<1>5. WellFormed' /\ req' \in [Handlers -> Request \cup {NoRequest}]
  <2>1. req' = [g \in Handlers |-> req'[g]]
    BY <1>4
  <2> QED BY <1>2, <1>4, <2>1, FormedStep
<1> QED BY <1>3, <1>5 DEF Begins, Types, OverlayTypeOK

LEMMA RequestedTypes ==
    ASSUME Types, NEW h \in Handlers, Requested(h)
    PROVE  Types'
<1> USE DEF Kinds
<1>1. \A r \in Recipes : Exists(r) => store[r] \in Recipe
  BY DEF Types, OverlayTypeOK, Exists
<1>2. PICK r \in Recipes :
        \/ \E c \in Configs : Propose(h, r, c) \/ Patch(h, r, c)
        \/ \E d \in Devices :
             Examine(h, "validate", r, d) \/ Examine(h, "verify", r, d) \/ Swap(h, r, d)
  BY DEF Requested
<1>3. ASSUME NEW c \in Configs, Propose(h, r, c)
      PROVE  Types'
  <2>1. [config |-> c, status |-> "proposed", on |-> {}] \in Recipe
    BY DEF Recipe
  <2> QED BY <1>3, <2>1, BeginsTypes DEF Propose
<1>4. ASSUME NEW c \in Configs, Patch(h, r, c)
      PROVE  Types'
  <2>1. [store[r] EXCEPT !.config = c] \in Recipe
    BY <1>1, <1>4 DEF Patch, Recipe
  <2> QED BY <1>4, <2>1, BeginsTypes DEF Patch
<1>5. ASSUME NEW d \in Devices, NEW kind \in {"validate", "verify"}, Examine(h, kind, r, d)
      PROVE  Types'
  BY <1>1, <1>5, BeginsTypes DEF Examine
<1>6. ASSUME NEW d \in Devices, Swap(h, r, d)
      PROVE  Types'
  BY <1>1, <1>6, BeginsTypes DEF Swap
<1> QED BY <1>2, <1>3, <1>4, <1>5, <1>6

\* What a busy handler's request is known to be.
LEMMA BusyTypes ==
    ASSUME Types, NEW h \in Handlers, Busy(h)
    PROVE  /\ OverlayTypeOK /\ Formed(req[h]) /\ req[h] \in Request /\ req[h].rec \in Recipe
           /\ req[h].pc \in Labels
           /\ req[h].pc # "put" => req[h].d \in Devices
                                   /\ req[h].kind \in {"validate", "verify", "swap"}
           /\ req[h].pc \in {"previous", "persist", "stop"} => req[h].kind = "swap"
           /\ req[h].pc = "stop" => req[h].prev # None
           /\ req[h].kind = "verify" => req[h].d \in Devices
<1>1. Formed(req[h]) /\ OverlayTypeOK
  BY DEF Types, WellFormed
<1>2. req[h] \in Request /\ req[h].rec \in Recipe /\ req[h].pc \in Labels
  BY <1>1, BusyFacts DEF Busy
<1>3. req[h] # NoRequest /\ req[h].kind \in Kinds
  BY <1>2 DEF Busy, NoRequest, Request
<1> QED BY <1>1, <1>2, <1>3 DEF Formed, Kinds

\* Replacing a handler's request by a well formed one.
LEMMA BecomesFormed ==
    ASSUME Types, NEW h \in Handlers, NEW q, Formed(q), Becomes(h, q)
    PROVE  WellFormed' /\ req' \in [Handlers -> Request \cup {NoRequest}]
<1>1. /\ req' = [g \in Handlers |-> IF g = h THEN q ELSE req[g]]
      /\ req'[h] = q /\ Others(h)
  BY BecomesFacts DEF Others, Types
<1>2. req' = [g \in Handlers |-> req'[g]]
  BY <1>1
<1> QED BY <1>1, <1>2, FormedStep

\* The evidence a gate or a trial adds is well typed, and so is the promoted copy.
LEMMA PromotionTypes ==
    ASSUME Types, NEW h \in Handlers, Busy(h), req[h].pc # "put", Passed(req[h]),
           Becomes(h, Promoted(req[h]))
    PROVE  /\ WellFormed' /\ req' \in [Handlers -> Request \cup {NoRequest}]
           /\ evidence' \subseteq Recipes \X Configs \X Devices
<1>1. /\ req[h] \in Request /\ req[h].d \in Devices /\ OverlayTypeOK
      /\ req[h].kind \in {"validate", "verify", "swap"}
  BY BusyTypes
<1>2. /\ Promoted(req[h]) \in Request /\ Promoted(req[h]).pc = "put"
      /\ Promoted(req[h]).kind = req[h].kind /\ Promoted(req[h]).d = req[h].d
  BY <1>1, PromotedFacts
<1>3. Formed(Promoted(req[h]))
  BY <1>1, <1>2, Zenon DEF Formed
<1>4. WellFormed' /\ req' \in [Handlers -> Request \cup {NoRequest}]
  BY <1>3, BecomesFormed
<1>5. evidence' \subseteq Recipes \X Configs \X Devices
  <2>1. <<req[h].r, req[h].rec.config, req[h].d>> \in Recipes \X Configs \X Devices
    BY <1>1 DEF Request, Recipe
  <2> QED BY <1>1, <2>1 DEF Passed, OverlayTypeOK
<1> QED BY <1>4, <1>5

LEMMA EvidenceTypes ==
    ASSUME Types, NEW h \in Handlers, Gate(h) \/ Test(h)
    PROVE  Types'
<1>1. Busy(h) /\ req[h].pc \in {"gate", "test"}
  BY DEF Gate, Test, At, Busy
<1>2. OnlyReq
  BY DEF Gate, Test
<1>3. req[h].kind \in {"validate", "verify", "swap"}
  BY <1>1, BusyTypes
<1>4. SUFFICES /\ WellFormed' /\ req' \in [Handlers -> Request \cup {NoRequest}]
               /\ evidence' \subseteq Recipes \X Configs \X Devices
  BY <1>2 DEF OnlyReq, Types, OverlayTypeOK
<1>5. CASE Passed(req[h]) /\ Becomes(h, Promoted(req[h]))
  BY <1>1, <1>5, PromotionTypes
<1>6. ASSUME NEW label \in Labels \cup {"idle"}, Goes(h, label), UNCHANGED evidence,
             label \in {"previous", "persist", "stop"} => req[h].kind = "swap", label # "stop"
      PROVE  /\ WellFormed' /\ req' \in [Handlers -> Request \cup {NoRequest}]
             /\ evidence' \subseteq Recipes \X Configs \X Devices
  BY <1>1, <1>3, <1>6, GoesFormed DEF Types, OverlayTypeOK
<1>7. CASE Gate(h)
  BY <1>5, <1>6, <1>7 DEF Gate, Labels
<1>8. CASE Test(h)
  BY <1>5, <1>6, <1>8 DEF Test, Labels
<1> QED BY <1>7, <1>8

\* Noting the previous service, and that a container was made.
LEMMA NotedFacts ==
    ASSUME NEW r \in Request, NEW name \in Names
    PROVE  /\ LET q == [r EXCEPT !.prev = name, !.pc = "deploy"]
              IN /\ q \in Request /\ q.pc = "deploy" /\ q.kind = r.kind /\ q.r = r.r
                 /\ q.d = r.d /\ q.rec = r.rec /\ q.prev = name /\ q.made = r.made
           /\ LET q == [r EXCEPT !.made = TRUE, !.pc = "test"]
              IN /\ q \in Request /\ q.pc = "test" /\ q.kind = r.kind /\ q.r = r.r
                 /\ q.d = r.d /\ q.rec = r.rec /\ q.prev = r.prev
<1> DEFINE k == [r EXCEPT !.prev = name]
           m == [r EXCEPT !.made = TRUE]
<1>1. /\ k \in Request /\ k.kind = r.kind /\ k.r = r.r
      /\ k.d = r.d /\ k.rec = r.rec /\ k.prev = name /\ k.made = r.made
  BY DEF Request
<1>2. /\ m \in Request /\ m.kind = r.kind /\ m.r = r.r
      /\ m.d = r.d /\ m.rec = r.rec /\ m.prev = r.prev
  BY DEF Request
<1>3. /\ [r EXCEPT !.prev = name, !.pc = "deploy"] = [k EXCEPT !.pc = "deploy"]
      /\ [r EXCEPT !.made = TRUE, !.pc = "test"] = [m EXCEPT !.pc = "test"]
  OBVIOUS
<1> HIDE DEF k, m
<1>4. LET q == [k EXCEPT !.pc = "deploy"]
      IN /\ q \in Request /\ q.pc = "deploy" /\ q.kind = k.kind /\ q.r = k.r
         /\ q.d = k.d /\ q.rec = k.rec /\ q.prev = k.prev /\ q.made = k.made
  BY <1>1, LabelFacts DEF Labels
<1>5. LET q == [m EXCEPT !.pc = "test"]
      IN /\ q \in Request /\ q.pc = "test" /\ q.kind = m.kind /\ q.r = m.r
         /\ q.d = m.d /\ q.rec = m.rec /\ q.prev = m.prev
  BY <1>2, LabelFacts DEF Labels
<1> QED BY <1>1, <1>2, <1>3, <1>4, <1>5, Zenon

LEMMA NotedFormed ==
    ASSUME NEW r \in Request, NEW name \in Names, r.d \in Devices,
           r.kind \in {"validate", "verify", "swap"}
    PROVE  /\ Formed([r EXCEPT !.prev = name, !.pc = "deploy"])
           /\ Formed([r EXCEPT !.made = TRUE, !.pc = "test"])
<1> DEFINE k == [r EXCEPT !.prev = name, !.pc = "deploy"]
           m == [r EXCEPT !.made = TRUE, !.pc = "test"]
<1>1. k \in Request /\ k.pc = "deploy" /\ k.kind = r.kind /\ k.d = r.d
  BY NotedFacts, Zenon
<1>2. m \in Request /\ m.pc = "test" /\ m.kind = r.kind /\ m.d = r.d
  BY NotedFacts, Zenon
<1> HIDE DEF k, m
<1>3. Formed(k) /\ Formed(m)
  BY <1>1, <1>2 DEF Formed
<1> QED BY <1>3 DEF k, m

LEMMA CutoverTypes ==
    ASSUME Types, NEW h \in Handlers,
           FindPrevious(h) \/ Deploy(h) \/ Persist(h) \/ StopPrevious(h)
    PROVE  Types'
<1>1. Busy(h) /\ req[h].pc \in {"previous", "deploy", "persist", "stop"}
  BY DEF FindPrevious, Deploy, Persist, StopPrevious, At, Busy
<1>2. /\ OverlayTypeOK /\ req[h] \in Request /\ req[h].d \in Devices
      /\ req[h].kind \in {"validate", "verify", "swap"}
      /\ req[h].pc \in {"previous", "persist", "stop"} => req[h].kind = "swap"
  BY <1>1, BusyTypes
<1>3. Key(req[h]) \in Keys
  BY <1>2, KeyFacts
<1>4. ASSUME NEW label \in {"stop", "put"}, Goes(h, label),
             label = "stop" => req[h].kind = "swap" /\ req[h].prev # None
      PROVE  WellFormed' /\ req' \in [Handlers -> Request \cup {NoRequest}]
  BY <1>1, <1>2, <1>4, GoesFormed DEF Labels
<1>5. CASE FindPrevious(h)
  <2>1. PICK name \in Names : Becomes(h, [req[h] EXCEPT !.prev = name, !.pc = "deploy"])
    BY <1>5 DEF FindPrevious
  <2>2. Formed([req[h] EXCEPT !.prev = name, !.pc = "deploy"])
    BY <1>2, NotedFormed
  <2>3. WellFormed' /\ req' \in [Handlers -> Request \cup {NoRequest}]
    BY <2>1, <2>2, BecomesFormed
  <2> QED BY <1>2, <1>5, <2>3 DEF FindPrevious, OnlyReq, Types, OverlayTypeOK
<1>6. CASE Deploy(h)
  <2>1. ASSUME Becomes(h, [req[h] EXCEPT !.made = TRUE, !.pc = "test"])
        PROVE  WellFormed' /\ req' \in [Handlers -> Request \cup {NoRequest}]
    <3>1. Formed([req[h] EXCEPT !.made = TRUE, !.pc = "test"])
      <4>1. PICK name \in Names : name = None
        BY DEF Names
      <4> QED BY <1>2, <4>1, NotedFormed
    <3> QED BY <2>1, <3>1, BecomesFormed
  <2>2. WellFormed' /\ req' \in [Handlers -> Request \cup {NoRequest}]
    BY <1>4, <1>6, <2>1 DEF Deploy
  <2>3. /\ box' \in [Keys -> {"none", "running", "stopped"}] /\ late' \subseteq Keys
        /\ faults' \in Nat
    BY <1>2, <1>3, <1>6 DEF Deploy, Fault, OverlayTypeOK
  <2> QED BY <1>2, <1>6, <2>2, <2>3 DEF Deploy, Types, OverlayTypeOK
<1>7. CASE Persist(h)
  <2>1. [dev |-> req[h].d, name |-> Name[req[h].rec.config]] \in Service
    BY <1>2 DEF Service, Names, Request, Recipe
  <2>2. svc' \in Seq(Service)
    BY <1>2, <1>7, <2>1, UpsertFacts DEF Persist, OverlayTypeOK
  <2>3. saved' \in Seq(Service) /\ faults' \in Nat
    BY <1>2, <1>7, <2>2 DEF Persist, Fault, OverlayTypeOK
  <2>4. WellFormed' /\ req' \in [Handlers -> Request \cup {NoRequest}]
    <3>1. req[h].kind = "swap"
      BY <1>2, <1>7 DEF Persist, At
    <3> QED BY <1>4, <1>7, <3>1 DEF Persist
  <2>5. adopted' \subseteq Keys
    BY <1>2, <1>3, <1>7 DEF Persist, OverlayTypeOK
  <2> QED BY <1>2, <1>7, <2>2, <2>3, <2>4, <2>5 DEF Persist, Types, OverlayTypeOK
<1>8. CASE StopPrevious(h)
  <2>1. box' \in [Keys -> {"none", "running", "stopped"}] /\ faults' \in Nat
    <3> DEFINE k == <<req[h].d, req[h].prev>>
    <3>1. \/ /\ box' = [box EXCEPT ![k] = IF @ = "running" THEN "stopped" ELSE @]
             /\ faults' = faults
          \/ Fault /\ box' = box
      BY <1>8, Zenon DEF StopPrevious
    <3> HIDE DEF k
    <3>2. box \in [Keys -> {"none", "running", "stopped"}] /\ faults \in Nat
      BY <1>2 DEF OverlayTypeOK
    <3> QED BY <3>1, <3>2 DEF Fault
  <2>2. WellFormed' /\ req' \in [Handlers -> Request \cup {NoRequest}]
    BY <1>4, <1>8 DEF StopPrevious
  <2> QED BY <1>2, <1>8, <2>1, <2>2 DEF StopPrevious, Types, OverlayTypeOK
<1> QED BY <1>5, <1>6, <1>7, <1>8

LEMMA FinishTypes ==
    ASSUME Types, NEW h \in Handlers, Put(h) \/ Remove(h)
    PROVE  Types'
<1>1. Busy(h) /\ req[h].pc \in {"put", "remove"}
  BY DEF Put, Remove, At, Busy
<1>2. /\ OverlayTypeOK /\ req[h] \in Request /\ req[h].rec \in Recipe /\ req[h].r \in Recipes
      /\ req[h].pc = "remove" => req[h].d \in Devices
  BY <1>1, BusyTypes DEF Request
<1>3. ASSUME NEW label \in {"idle", "put", "remove"}, Goes(h, label),
             label = "remove" => req[h].kind = "verify"
      PROVE  WellFormed' /\ req' \in [Handlers -> Request \cup {NoRequest}]
  BY <1>1, <1>3, GoesFormed DEF Labels
<1>4. CASE Put(h)
  <2>1. store' \in [Recipes -> Recipe \cup {None}] /\ faults' \in Nat
    BY <1>2, <1>4 DEF Put, Fault, OverlayTypeOK
  <2>2. WellFormed' /\ req' \in [Handlers -> Request \cup {NoRequest}]
    BY <1>3, <1>4 DEF Put
  <2> QED BY <1>2, <1>4, <2>1, <2>2 DEF Put, Types, OverlayTypeOK
<1>5. CASE Remove(h)
  <2>1. Key(req[h]) \in Keys
    BY <1>2, <1>5, KeyFacts DEF Remove, At
  <2>2. /\ box' \in [Keys -> {"none", "running", "stopped"}] /\ stray' \subseteq Keys
        /\ faults' \in Nat
    BY <1>2, <1>5, <2>1 DEF Remove, Fault, OverlayTypeOK
  <2>3. WellFormed' /\ req' \in [Handlers -> Request \cup {NoRequest}]
    BY <1>3, <1>5 DEF Remove
  <2> QED BY <1>2, <1>5, <2>2, <2>3 DEF Remove, Types, OverlayTypeOK
<1> QED BY <1>4, <1>5

\* The containers a handler answers for can exist.
LEMMA InHandKeys ==
    ASSUME Types, NEW h \in Handlers
    PROVE  /\ InHand(h) \subseteq Keys
           /\ InHand(h) # {} => Busy(h) /\ InHand(h) = {Key(req[h])} /\ req[h].d \in Devices
<1>1. CASE InHand(h) = {}
  BY <1>1
<1>2. CASE InHand(h) # {}
  <2>1. InHand(h) = {Key(req[h])} /\ Busy(h)
    BY <1>2 DEF InHand, Busy
  <2>2. req[h].d \in Devices
    BY <1>2, <2>1, BusyTypes DEF InHand
  <2>3. Key(req[h]) \in Keys
    BY <2>1, <2>2, BusyTypes, KeyFacts
  <2> QED BY <2>1, <2>2, <2>3
<1> QED BY <1>1, <1>2

LEMMA OutsideTypes ==
    ASSUME Types, Restart \/ \E k \in Keys : Land(k)
    PROVE  Types'
<1>1. OverlayTypeOK
  BY DEF Types
<1>2. CASE \E k \in Keys : Land(k)
  BY <1>1, <1>2 DEF Land, Types, WellFormed, OverlayTypeOK
<1>3. CASE Restart
  <2>1. /\ req' \in [Handlers -> Request \cup {NoRequest}] /\ WellFormed'
        /\ svc' \in Seq(Service) /\ faults' \in Nat
    BY <1>1, <1>3 DEF Restart, Fault, WellFormed, Formed, OverlayTypeOK
  <2>2. late' \subseteq Keys
    <3>1. \A g \in Handlers : At(g, "deploy") => Key(req[g]) \in Keys
      BY BusyTypes, KeyFacts DEF At, Busy
    <3> QED BY <1>1, <1>3, <3>1 DEF Restart, OverlayTypeOK
  <2>3. stray' \subseteq Keys
    <3>1. \A g \in Handlers : InHand(g) \subseteq Keys
      BY InHandKeys
    <3> QED BY <1>1, <1>3, <3>1 DEF Restart, OverlayTypeOK
  <2> QED BY <1>1, <1>3, <2>1, <2>2, <2>3 DEF Restart, Types, OverlayTypeOK
<1> QED BY <1>2, <1>3

\* The services deployed before can be listed.
LEMMA DeployedFacts == Deployed \subseteq Service /\ Cardinality(Deployed) \in Nat
<1>1. Deployed \subseteq Service
  BY DEF Deployed, Service, Names
<1> DEFINE D == {e \in Devices : Previous[e] # None}
<1>2. IsFiniteSet(D)
  BY DevicesAssumption, FS_Subset
<1>3. IsFiniteSet(Deployed)
  <2> DEFINE f == [d \in D |-> [dev |-> d, name |-> Previous[d]]]
  <2>1. f \in Surjection(D, Deployed)
    BY DEF Deployed, Surjection
  <2> QED BY <1>2, <2>1, FS_Surjection
<1> QED BY <1>1, <1>3, FS_CardinalityType

LEMMA InitTypes == Init => Types
<1> SUFFICES ASSUME Init PROVE Types
  OBVIOUS
<1>1. svc \in Seq(Service) /\ saved \in Seq(Service)
  BY DeployedFacts DEF Init
<1>2. store \in [Recipes -> Recipe \cup {None}]
  BY DEF Init, Recipe
<1>3. adopted \subseteq Keys
  BY DeployedFacts DEF Init, Service, Keys
<1>4. box \in [Keys -> {"none", "running", "stopped"}]
  BY DEF Init
<1>5. req \in [Handlers -> Request \cup {NoRequest}] /\ WellFormed
  BY DEF Init, WellFormed, Formed
<1> QED BY <1>1, <1>2, <1>3, <1>4, <1>5 DEF Init, Types, OverlayTypeOK

LEMMA NextTypes == Types /\ [Next]_vars => Types'
<1> SUFFICES ASSUME Types, [Next]_vars PROVE Types'
  OBVIOUS
<1>1. ASSUME NEW h \in Handlers, Requested(h) PROVE Types'
  BY <1>1, RequestedTypes
<1>2. ASSUME NEW h \in Handlers, Served(h) PROVE Types'
  BY <1>2, EvidenceTypes, CutoverTypes, FinishTypes DEF Served
<1>3. CASE Restart \/ \E k \in Keys : Land(k)
  BY <1>3, OutsideTypes
<1>4. CASE UNCHANGED vars
  BY <1>4 DEF vars, Types, WellFormed, OverlayTypeOK
<1> QED BY <1>1, <1>2, <1>3, <1>4 DEF Next

\* Every reachable state of the overlay is well typed.
THEOREM OverlayTyped == Spec => []OverlayTypeOK
<1>1. Spec => []Types
  BY InitTypes, NextTypes, PTL DEF Spec
<1> QED BY <1>1, PTL DEF Types

-----------------------------------------------------------------------------
\* Evidence.

\* A handler that goes on keeps the recipe it works on, and so do the others.
Keeps(h) == req'[h].pc = "idle" \/ (req'[h].r = req[h].r /\ req'[h].rec = req[h].rec)

LEMMA KeepsFacts ==
    ASSUME Types, NEW h \in Handlers, NEW label \in Labels \cup {"idle"}, Busy(h), Goes(h, label)
    PROVE  Others(h) /\ Keeps(h)
BY BusyTypes, GoesFacts DEF Moved, Keeps, NoRequest

\* A step that adds evidence at most, puts at most a handler's copy, and backs
\* what it changes in one request, keeps all of them backed.
LEMMA CopiesStep ==
    ASSUME Copies, evidence \subseteq evidence', NEW h \in Handlers, Others(h),
           req'[h].pc # "idle" => Backed(evidence', req'[h].r, req'[h].rec),
           \A r \in Recipes :
               store'[r] = store[r] \/ (Busy(h) /\ req[h].r = r /\ store'[r] = req[h].rec)
    PROVE  Copies'
<1>1. \A r, rec : Backed(evidence, r, rec) => Backed(evidence', r, rec)
  BY DEF Backed
<1>2. ASSUME NEW r \in Recipes, store'[r] # None
      PROVE  Backed(evidence', r, store'[r])
  BY <1>1, <1>2 DEF Copies, Exists
<1>3. ASSUME NEW g \in Handlers, req'[g].pc # "idle"
      PROVE  Backed(evidence', req'[g].r, req'[g].rec)
  <2>1. CASE g = h
    BY <2>1, <1>3
  <2>2. CASE g # h
    <3>1. req'[g] = req[g]
      BY <2>2 DEF Others
    <3> QED BY <1>1, <1>3, <3>1 DEF Copies, Busy
  <2> QED BY <2>1, <2>2
<1> QED BY <1>2, <1>3 DEF Copies, Busy, Exists

\* The same for a handler that keeps its recipe.
LEMMA KeptCopies ==
    ASSUME Types, Copies, NEW h \in Handlers, NEW label \in Labels \cup {"idle"}, Busy(h),
           Goes(h, label), UNCHANGED evidence,
           \A r \in Recipes : store'[r] = store[r] \/ (req[h].r = r /\ store'[r] = req[h].rec)
    PROVE  Copies'
<1>1. Others(h) /\ Keeps(h)
  BY KeepsFacts
<1>2. req'[h].pc # "idle" => Backed(evidence', req'[h].r, req'[h].rec)
  BY <1>1 DEF Keeps, Copies
<1>3. evidence \subseteq evidence' /\ Others(h)
  BY <1>1
<1>4. \A r \in Recipes :
        store'[r] = store[r] \/ (Busy(h) /\ req[h].r = r /\ store'[r] = req[h].rec)
  OBVIOUS
<1> QED BY <1>2, <1>3, <1>4, CopiesStep

\* A new request starts from the store's recipe, patched or not, or from nothing.
LEMMA BeginsCopies ==
    ASSUME Types, Copies, NEW h \in Handlers, NEW kind, NEW r \in Recipes, NEW d, NEW rec,
           NEW label, Begins(h, kind, r, d, rec, label), Backed(evidence, r, rec)
    PROVE  Copies'
<1> DEFINE q == [kind |-> kind, pc |-> label, r |-> r, d |-> d, rec |-> rec,
                 prev |-> None, made |-> FALSE]
<1>1. Becomes(h, q) /\ OverlayTypeOK /\ UNCHANGED <<store, evidence>>
  BY DEF Begins, Types
<1>2. q.r = r /\ q.rec = rec
  OBVIOUS
<1> HIDE DEF q
<1>3. req'[h] = q /\ Others(h)
  BY <1>1, BecomesFacts DEF Others
<1>4. req'[h].pc # "idle" => Backed(evidence', req'[h].r, req'[h].rec)
  BY <1>1, <1>2, <1>3
<1>5. evidence \subseteq evidence' /\ \A x \in Recipes : store'[x] = store[x]
  BY <1>1
<1> QED BY <1>3, <1>4, <1>5, CopiesStep

LEMMA RequestedCopies ==
    ASSUME Types, Copies, NEW h \in Handlers, Requested(h)
    PROVE  Copies'
<1>1. PICK r \in Recipes :
        \/ \E c \in Configs : Propose(h, r, c) \/ Patch(h, r, c)
        \/ \E d \in Devices :
             Examine(h, "validate", r, d) \/ Examine(h, "verify", r, d) \/ Swap(h, r, d)
  BY DEF Requested
<1>2. ASSUME NEW c \in Configs, Propose(h, r, c)
      PROVE  Copies'
  <2> DEFINE rec == [config |-> c, status |-> "proposed", on |-> {}]
  <2>1. Backed(evidence, r, rec) /\ Begins(h, "propose", r, None, rec, "put")
    BY <1>2 DEF Backed, Propose
  <2> HIDE DEF rec
  <2> QED BY <2>1, BeginsCopies
<1>3. ASSUME NEW c \in Configs, Patch(h, r, c)
      PROVE  Copies'
  <2>1. Backed(evidence, r, store[r]) /\ store[r] \in Recipe
    BY <1>3 DEF Patch, Copies, Exists, Types, OverlayTypeOK
  <2> DEFINE rec == [store[r] EXCEPT !.config = c]
  <2>2. Backed(evidence, r, rec) /\ Begins(h, "patch", r, None, rec, "put")
    BY <1>3, <2>1 DEF Backed, Recipe, Patch
  <2> HIDE DEF rec
  <2> QED BY <2>2, BeginsCopies
<1>4. ASSUME NEW d \in Devices, NEW kind, Examine(h, kind, r, d)
      PROVE  Copies'
  BY <1>4, BeginsCopies DEF Examine, Copies
<1>5. ASSUME NEW d \in Devices, Swap(h, r, d)
      PROVE  Copies'
  BY <1>5, BeginsCopies DEF Swap, Copies
<1> QED BY <1>1, <1>2, <1>3, <1>4, <1>5

\* A promotion is backed by the evidence that the same step adds.
LEMMA EvidenceCopies ==
    ASSUME Types, Copies, NEW h \in Handlers, Gate(h) \/ Test(h)
    PROVE  Copies'
<1>1. Busy(h) /\ req[h].pc \in {"gate", "test"} /\ OnlyReq
  BY DEF Gate, Test, At, Busy
<1>2. /\ OverlayTypeOK /\ req[h] \in Request /\ req[h].d \in Devices
      /\ req[h].rec \in Recipe /\ Backed(evidence, req[h].r, req[h].rec)
  BY <1>1, BusyTypes DEF Copies
<1>3. ASSUME Passed(req[h]), Becomes(h, Promoted(req[h]))
      PROVE  Copies'
  <2>1. /\ Promoted(req[h]).r = req[h].r
        /\ Promoted(req[h]).rec = [config |-> req[h].rec.config, status |-> "validated",
                                   on |-> req[h].rec.on \cup {req[h].d}]
    BY <1>2, PromotedFacts
  <2>2. req'[h] = Promoted(req[h]) /\ Others(h)
    BY <1>2, <1>3, BecomesFacts DEF Others
  <2>3. req[h].rec.config \in Configs
    BY <1>2 DEF Recipe
  <2>4. Backed(evidence', req[h].r, [config |-> req[h].rec.config, status |-> "validated",
                                     on |-> req[h].rec.on \cup {req[h].d}])
    BY <1>2, <1>3, <2>3 DEF Backed, Passed
  <2>5. evidence \subseteq evidence'
    BY <1>3 DEF Passed
  <2>6. Backed(evidence', req'[h].r, req'[h].rec)
    BY <2>1, <2>2, <2>4
  <2>7. \A r \in Recipes : store'[r] = store[r]
    BY <1>1 DEF OnlyReq
  <2> QED BY <2>2, <2>5, <2>6, <2>7, CopiesStep
<1>4. ASSUME NEW label \in Labels \cup {"idle"}, Goes(h, label), UNCHANGED evidence
      PROVE  Copies'
  <2>1. \A r \in Recipes : store'[r] = store[r]
    BY <1>1 DEF OnlyReq
  <2> QED BY <1>1, <1>4, <2>1, KeptCopies
<1>5. CASE Gate(h)
  BY <1>3, <1>4, <1>5 DEF Gate, Labels
<1>6. CASE Test(h)
  BY <1>3, <1>4, <1>6 DEF Test, Labels
<1> QED BY <1>5, <1>6

\* The other steps of a request leave the copy as it is or put it.
LEMMA ServedCopies ==
    ASSUME Types, Copies, NEW h \in Handlers, Served(h)
    PROVE  Copies'
<1>1. CASE Gate(h) \/ Test(h)
  BY <1>1, EvidenceCopies
<1>2. ASSUME Busy(h), NEW q, Becomes(h, q), q.r = req[h].r, q.rec = req[h].rec,
             UNCHANGED <<store, evidence>>
      PROVE  Copies'
  <2>1. req'[h] = q /\ Others(h)
    BY <1>2, BecomesFacts DEF Others, Types
  <2>2. Backed(evidence', req'[h].r, req'[h].rec)
    BY <1>2, <2>1 DEF Copies
  <2>3. evidence \subseteq evidence' /\ \A r \in Recipes : store'[r] = store[r]
    BY <1>2
  <2> QED BY <2>1, <2>2, <2>3, CopiesStep
<1>3. CASE FindPrevious(h)
  <2>1. Busy(h) /\ UNCHANGED <<store, evidence>>
    BY <1>3 DEF FindPrevious, At, Busy, OnlyReq
  <2>2. PICK name \in Names : Becomes(h, [req[h] EXCEPT !.prev = name, !.pc = "deploy"])
    BY <1>3 DEF FindPrevious
  <2> DEFINE q == [req[h] EXCEPT !.prev = name, !.pc = "deploy"]
  <2>3. Becomes(h, q)
    BY <2>2
  <2>4. q.r = req[h].r /\ q.rec = req[h].rec
    <3>1. req[h] \in Request
      BY <2>1, BusyTypes
    <3> QED BY <3>1, NotedFacts, Zenon
  <2> HIDE DEF q
  <2> QED BY <1>2, <2>1, <2>3, <2>4
<1>4. ASSUME NEW label \in Labels \cup {"idle"}, Busy(h), Goes(h, label),
             UNCHANGED <<store, evidence>>
      PROVE  Copies'
  <2>1. \A r \in Recipes : store'[r] = store[r]
    BY <1>4
  <2> QED BY <1>4, <2>1, KeptCopies
<1>5. CASE Deploy(h)
  <2>1. Busy(h) /\ UNCHANGED <<store, evidence>>
    BY <1>5 DEF Deploy, At, Busy
  <2>2. ASSUME Becomes(h, [req[h] EXCEPT !.made = TRUE, !.pc = "test"])
        PROVE  Copies'
    <3> DEFINE q == [req[h] EXCEPT !.made = TRUE, !.pc = "test"]
    <3>1. PICK name \in Names : name = None
      BY DEF Names
    <3>2. Becomes(h, q) /\ q.r = req[h].r /\ q.rec = req[h].rec
      BY <2>1, <2>2, <3>1, BusyTypes, NotedFacts
    <3> HIDE DEF q
    <3> QED BY <1>2, <2>1, <3>2
  <2> QED BY <1>4, <1>5, <2>1, <2>2 DEF Deploy, Labels
<1>6. CASE Persist(h) \/ StopPrevious(h) \/ Remove(h)
  <2>1. Busy(h) /\ UNCHANGED <<store, evidence>>
    BY <1>6 DEF Persist, StopPrevious, Remove, At, Busy
  <2>2. \E label \in Labels \cup {"idle"} : Goes(h, label)
    BY <1>6 DEF Persist, StopPrevious, Remove, Labels
  <2> QED BY <1>4, <2>1, <2>2
<1>7. CASE Put(h)
  <2>1. Busy(h) /\ UNCHANGED evidence
    BY <1>7 DEF Put, At, Busy
  <2>2. \E label \in Labels \cup {"idle"} : Goes(h, label)
    BY <1>7 DEF Put, Labels
  <2>3. \A r \in Recipes : store'[r] = store[r] \/ (req[h].r = r /\ store'[r] = req[h].rec)
    BY <1>7 DEF Put, Types, OverlayTypeOK
  <2> QED BY <2>1, <2>2, <2>3, KeptCopies
<1> QED BY <1>1, <1>3, <1>5, <1>6, <1>7 DEF Served

LEMMA InitCopies == Init => Copies
<1> SUFFICES ASSUME Init PROVE Copies
  OBVIOUS
<1>1. \A r \in Recipes : Exists(r) => store[r].on = {} /\ store[r].status = "proposed"
  BY DEF Init, Exists
<1>2. \A h \in Handlers : ~Busy(h)
  BY DEF Init, Busy, NoRequest
<1> QED BY <1>1, <1>2 DEF Copies, Backed

LEMMA NextCopies == Types /\ Copies /\ [Next]_vars => Copies'
<1> SUFFICES ASSUME Types, Copies, [Next]_vars PROVE Copies'
  OBVIOUS
<1>1. ASSUME NEW h \in Handlers, Requested(h) \/ Served(h) PROVE Copies'
  BY <1>1, RequestedCopies, ServedCopies
<1>2. CASE Restart
  <2>1. \A h \in Handlers : ~Busy(h)'
    BY <1>2 DEF Restart, Busy, NoRequest
  <2>2. UNCHANGED <<store, evidence>>
    BY <1>2 DEF Restart
  <2> QED BY <2>1, <2>2 DEF Copies, Exists
<1>3. CASE UNCHANGED vars \/ \E k \in Keys : Land(k)
  <2>1. UNCHANGED <<store, evidence, req>>
    BY <1>3 DEF vars, Land
  <2> QED BY <2>1 DEF Copies, Exists, Busy
<1> QED BY <1>1, <1>2, <1>3 DEF Next

\* Validation rests on evidence: a recipe is validated, and for a device, only if
\* some configuration of it has passed there, however puts overlap.
THEOREM EvidenceIsReal == Spec => []EvidenceBehindValidation
<1>1. Spec => [](Types /\ Copies)
  BY InitTypes, NextTypes, InitCopies, NextCopies, PTL DEF Spec
<1>2. Copies => EvidenceBehindValidation
  BY DEF Copies, Backed, EvidenceBehindValidation
<1> QED BY <1>1, <1>2, PTL
-----------------------------------------------------------------------------
(***************************************************************************)
(* The containers: no trial outlives its request and no swap leaves a      *)
(* device without a running service.                                       *)
(*                                                                         *)
(* Both rest on who may touch which container.  A container in the hand of *)
(* a request is running, not in service and in no other hand, so tearing   *)
(* it down takes no service away.  A swap stops a container that is in     *)
(* service, and on each device that has one there is always another that   *)
(* no swap is about to stop.                                               *)
(***************************************************************************)
Recorded(list) == \A i \in DOMAIN list : <<list[i].dev, list[i].name>> \in adopted

\* What a request holds, and what it knows of the previous service.
Held(h) == \A k \in InHand(h) : box[k] = "running" /\ k \notin adopted
Noted(h) == Busy(h) /\ req[h].prev # None => <<req[h].d, req[h].prev>> \in adopted
\* Which steps come before the container is made, and which requests make one.
Staged(h) ==
    /\ req[h].pc \in {"gate", "previous", "deploy"} => ~req[h].made
    /\ req[h].pc = "test" => req[h].made
    /\ req[h].pc \in {"deploy", "test"} => req[h].kind # "validate"

Custody ==
    /\ Recorded(svc) /\ Recorded(saved)
    /\ \A k \in adopted : box[k] # "none"
    /\ \A h \in Handlers : Held(h) /\ Noted(h) /\ Staged(h)
    /\ \A g, h \in Handlers : g # h => InHand(g) \cap InHand(h) = {}

\* A device with a running service has one that no swap is about to stop.
Spared(d, k) == k \in Serving(d) /\ \A h \in Handlers : At(h, "stop") => <<req[h].d, req[h].prev>> # k
Kept == \A d \in Devices : Serving(d) # {} => \E k \in Keys : Spared(d, k)

Safe == Custody /\ TrialsTornDown /\ Kept

-----------------------------------------------------------------------------
\* Steps that touch no container.

\* What a handler answers for depends on its request alone.
LEMMA HandFacts ==
    ASSUME Types, NEW h \in Handlers
    PROVE  /\ req[h].pc \notin {"test", "persist", "remove", "put"} => InHand(h) = {}
           /\ req[h].pc = "put" /\ (req[h].kind # "verify" \/ ~req[h].made) => InHand(h) = {}
           /\ req[h].pc = "put" /\ req[h].kind = "verify" /\ req[h].made
                => InHand(h) = {Key(req[h])}
           /\ req[h].pc \in {"test", "persist", "remove"} => InHand(h) = {Key(req[h])}
BY DEF InHand

\* The other handlers answer for what they did.
LEMMA OthersFacts ==
    ASSUME NEW h \in Handlers, Others(h), NEW g \in Handlers, g # h
    PROVE  /\ req'[g] = req[g] /\ InHand(g)' = InHand(g) /\ (Busy(g)' <=> Busy(g))
           /\ (Staged(g)' <=> Staged(g))
BY DEF Others, InHand, Key, Busy, Staged

\* Custody after a step of one handler: what is to be shown of the others is
\* that the containers they hold are untouched.
LEMMA CustodyStep ==
    ASSUME Types, Custody, NEW h \in Handlers, Others(h),
           Recorded(svc)', Recorded(saved)', adopted \subseteq adopted',
           \A k \in adopted' : box'[k] # "none",
           Held(h)', Noted(h)', Staged(h)',
           \A g \in Handlers : g # h => \A k \in InHand(g) :
               box'[k] = "running" /\ k \notin adopted' /\ k \notin InHand(h)'
    PROVE  Custody'
<1>1. ASSUME NEW g \in Handlers PROVE (Held(g) /\ Noted(g) /\ Staged(g))'
  <2>1. CASE g = h
    BY <2>1
  <2>2. CASE g # h
    <3>1. /\ req'[g] = req[g] /\ InHand(g)' = InHand(g) /\ (Busy(g)' <=> Busy(g))
          /\ (Staged(g)' <=> Staged(g))
      BY <2>2, OthersFacts
    <3>2. Noted(g) /\ Staged(g)
      BY DEF Custody
    <3>3. Held(g)'
      BY <2>2, <3>1 DEF Held
    <3>4. Noted(g)'
      BY <3>1, <3>2 DEF Noted
    <3> QED BY <3>1, <3>2, <3>3, <3>4
  <2> QED BY <2>1, <2>2
<1>2. ASSUME NEW f \in Handlers, NEW g \in Handlers, f # g
      PROVE  (InHand(f) \cap InHand(g) = {})'
  <2>1. CASE f = h
    <3>1. InHand(g)' = InHand(g)
      BY <1>2, <2>1, OthersFacts
    <3> QED BY <1>2, <2>1, <3>1
  <2>2. CASE g = h
    <3>1. InHand(f)' = InHand(f)
      BY <1>2, <2>2, OthersFacts
    <3> QED BY <1>2, <2>2, <3>1
  <2>3. CASE f # h /\ g # h
    <3>1. InHand(f)' = InHand(f) /\ InHand(g)' = InHand(g)
      BY <2>3, OthersFacts
    <3> QED BY <1>2, <3>1 DEF Custody
  <2> QED BY <2>1, <2>2, <2>3
<1> QED BY <1>1, <1>2 DEF Custody

\* A spared service stays spared when the step takes away no service and starts
\* no stop.
LEMMA KeptStep ==
    ASSUME Kept, NEW h \in Handlers, Others(h), ~At(h, "stop")',
           \A d \in Devices : Serving(d)' = Serving(d)
    PROVE  Kept'
<1>1. ASSUME NEW d \in Devices, NEW k \in Keys, Spared(d, k) PROVE Spared(d, k)'
  <2>1. ASSUME NEW g \in Handlers, At(g, "stop")'
        PROVE  At(g, "stop") /\ req'[g] = req[g]
    <3>1. g # h
      BY <2>1
    <3> QED BY <2>1, <3>1 DEF Others, At
  <2> QED BY <1>1, <2>1 DEF Spared
<1> QED BY <1>1 DEF Kept

\* A step of a handler that leaves the containers alone.
LEMMA QuietStep ==
    ASSUME Types, Safe, NEW h \in Handlers, Others(h),
           UNCHANGED <<svc, saved, box, adopted, stray>>, InHand(h)' = InHand(h),
           ~At(h, "stop")', Noted(h)', Staged(h)'
    PROVE  Safe'
<1>1. Custody /\ TrialsTornDown /\ Kept
  BY DEF Safe
<1>2. \A g \in Handlers : InHand(g)' = InHand(g)
  BY OthersFacts
<1>3. Custody'
  <2>1. Recorded(svc)' /\ Recorded(saved)' /\ \A k \in adopted' : box'[k] # "none"
    BY <1>1 DEF Custody, Recorded
  <2>2. Held(h)'
    BY <1>1 DEF Custody, Held
  <2>3. \A g \in Handlers : g # h => \A k \in InHand(g) :
          box'[k] = "running" /\ k \notin adopted' /\ k \notin InHand(h)'
    BY <1>1 DEF Custody, Held
  <2> QED BY <1>1, <2>1, <2>2, <2>3, CustodyStep
<1>4. TrialsTornDown'
  BY <1>1, <1>2 DEF TrialsTornDown
<1>5. \A d \in Devices : Serving(d)' = Serving(d)
  BY DEF Serving
<1> QED BY <1>1, <1>3, <1>4, <1>5, KeptStep DEF Safe

\* A handler that moves on to another step keeps its request.
LEMMA MovesFacts ==
    ASSUME Types, Safe, NEW h \in Handlers, Busy(h), NEW label \in Labels \cup {"idle"},
           Goes(h, label)
    PROVE  /\ Others(h) /\ req'[h].pc = label
           /\ label # "idle" => /\ req'[h].kind = req[h].kind /\ req'[h].made = req[h].made
                                /\ req'[h].d = req[h].d /\ req'[h].rec = req[h].rec
                                /\ req'[h].prev = req[h].prev /\ Key(req'[h]) = Key(req[h])
           /\ Noted(h)
<1>1. Others(h) /\ (label = "idle" => req'[h] = NoRequest) /\ (label \in Labels => Moved(h, label))
  BY BusyTypes, GoesFacts
<1>2. label # "idle" => Moved(h, label)
  BY <1>1
<1>3. Noted(h)
  BY DEF Safe, Custody
<1> QED BY <1>1, <1>2, <1>3 DEF Moved, Key, NoRequest

\* A handler that moves on, with the containers left alone, keeps custody.
LEMMA QuietMove ==
    ASSUME Types, Safe, NEW h \in Handlers, Busy(h), NEW label \in Labels \cup {"idle"},
           Goes(h, label), label # "stop", UNCHANGED <<svc, saved, box, adopted, stray>>,
           label = "test" => req[h].made,
           label \in {"gate", "previous", "deploy"} => ~req[h].made,
           label \in {"deploy", "test"} => req[h].kind # "validate",
           InHand(h)' = InHand(h)
    PROVE  Safe'
<1>1. /\ Others(h) /\ req'[h].pc = label /\ Noted(h)
      /\ label # "idle" => /\ req'[h].kind = req[h].kind /\ req'[h].made = req[h].made
                           /\ req'[h].d = req[h].d /\ req'[h].prev = req[h].prev
  BY MovesFacts
<1>2. Noted(h)'
  BY <1>1 DEF Noted, Busy
<1>3. Staged(h)'
  BY <1>1 DEF Staged
<1>4. ~At(h, "stop")'
  BY <1>1 DEF At
<1> QED BY <1>1, <1>2, <1>3, <1>4, QuietStep

LEMMA BeginsSafe ==
    ASSUME Types, Safe, NEW h \in Handlers, ~Busy(h), NEW kind, NEW r \in Recipes, NEW d, NEW rec,
           NEW label \in {"gate", "previous", "put"}, Begins(h, kind, r, d, rec, label)
    PROVE  Safe'
<1> DEFINE q == [kind |-> kind, pc |-> label, r |-> r, d |-> d, rec |-> rec,
                 prev |-> None, made |-> FALSE]
<1>1. Becomes(h, q) /\ OverlayTypeOK /\ UNCHANGED <<svc, saved, box, adopted, stray>>
  BY DEF Begins, Types
<1>2. q.pc = label /\ q.prev = None /\ q.made = FALSE
  OBVIOUS
<1> HIDE DEF q
<1>3. req'[h] = q /\ Others(h)
  BY <1>1, BecomesFacts DEF Others
<1>4. InHand(h)' = {} /\ InHand(h) = {}
  <2>1. req[h].pc = "idle"
    BY DEF Busy
  <2> QED BY <1>2, <1>3, <2>1, HandFacts DEF InHand
<1>5. Noted(h)' /\ Staged(h)' /\ ~At(h, "stop")'
  BY <1>2, <1>3 DEF Noted, Staged, At
<1> QED BY <1>1, <1>3, <1>4, <1>5, QuietStep

LEMMA RequestedSafe ==
    ASSUME Types, Safe, NEW h \in Handlers, Requested(h)
    PROVE  Safe'
<1>1. PICK r \in Recipes :
        \/ \E c \in Configs : Propose(h, r, c) \/ Patch(h, r, c)
        \/ \E d \in Devices :
             Examine(h, "validate", r, d) \/ Examine(h, "verify", r, d) \/ Swap(h, r, d)
  BY DEF Requested
<1>2. ~Busy(h)
  BY <1>1 DEF Propose, Patch, Examine, Swap, Ready, Busy
<1>3. \E kind, d, rec, label :
        label \in {"gate", "previous", "put"} /\ Begins(h, kind, r, d, rec, label)
  BY <1>1 DEF Propose, Patch, Examine, Swap
<1> QED BY <1>2, <1>3, BeginsSafe

\* Gate, FindPrevious and Test.
LEMMA LookSafe ==
    ASSUME Types, Safe, NEW h \in Handlers, Gate(h) \/ FindPrevious(h) \/ Test(h)
    PROVE  Safe'
<1>1. /\ Busy(h) /\ UNCHANGED <<svc, saved, box, adopted, stray>>
      /\ req[h].pc \in {"gate", "previous", "test"}
  BY DEF Gate, FindPrevious, Test, At, Busy, OnlyReq
<1>2. /\ OverlayTypeOK /\ req[h] \in Request /\ req[h].d \in Devices
      /\ req[h].kind \in {"validate", "verify", "swap"} /\ Noted(h) /\ Staged(h)
  BY <1>1, BusyTypes DEF Safe, Custody
<1>3. ASSUME Becomes(h, Promoted(req[h])), req[h].pc \in {"gate", "test"},
             req[h].pc = "gate" => req[h].kind = "validate",
             req[h].pc = "test" => req[h].kind = "verify"
      PROVE  Safe'
  <2>1. /\ Promoted(req[h]).pc = "put" /\ Promoted(req[h]).kind = req[h].kind
        /\ Promoted(req[h]).d = req[h].d /\ Promoted(req[h]).prev = req[h].prev
        /\ Promoted(req[h]).made = req[h].made
        /\ Promoted(req[h]).rec = [config |-> req[h].rec.config, status |-> "validated",
                                   on |-> req[h].rec.on \cup {req[h].d}]
    BY <1>2, PromotedFacts, Zenon
  <2>2. req'[h] = Promoted(req[h]) /\ Others(h)
    BY <1>2, <1>3, BecomesFacts DEF Others
  <2>3. Key(req'[h]) = Key(req[h])
    BY <2>1, <2>2 DEF Key
  <2>4. InHand(h)' = InHand(h)
    BY <1>2, <1>3, <2>1, <2>2, <2>3 DEF InHand, Staged
  <2>5. Noted(h)' /\ Staged(h)' /\ ~At(h, "stop")'
    BY <1>1, <1>2, <2>1, <2>2 DEF Noted, Staged, At, Busy
  <2> QED BY <1>1, <2>2, <2>4, <2>5, QuietStep
<1>4. ASSUME NEW label \in {"deploy", "put", "idle"}, Goes(h, label), req[h].pc = "gate",
             label = "deploy" => req[h].kind = "verify"
      PROVE  Safe'
  <2>1. InHand(h) = {} /\ ~req[h].made
    BY <1>2, <1>4, HandFacts DEF Staged
  <2>2. req'[h].pc = label /\ (label # "idle" => req'[h].made = req[h].made)
    BY <1>1, <1>4, MovesFacts DEF Labels
  <2>3. InHand(h)' = {}
    BY <1>4, <2>1, <2>2 DEF InHand
  <2> QED BY <1>1, <1>4, <2>1, <2>3, QuietMove DEF Labels
<1>5. ASSUME NEW label \in {"persist", "remove", "put"}, Goes(h, label), req[h].pc = "test",
             label = "put" => req[h].kind = "verify"
      PROVE  Safe'
  <2>1. InHand(h) = {Key(req[h])} /\ req[h].made
    BY <1>2, <1>5, HandFacts DEF Staged
  <2>2. /\ req'[h].pc = label /\ req'[h].made = req[h].made /\ req'[h].kind = req[h].kind
        /\ Key(req'[h]) = Key(req[h])
    BY <1>1, <1>5, MovesFacts DEF Labels
  <2>3. InHand(h)' = InHand(h)
    BY <1>5, <2>1, <2>2 DEF InHand
  <2> QED BY <1>1, <1>5, <2>3, QuietMove DEF Labels
<1>6. CASE Gate(h)
  <2>1. req[h].pc = "gate"
    BY <1>6 DEF Gate, At
  <2> QED BY <1>3, <1>4, <1>6, <2>1 DEF Gate
<1>7. CASE Test(h)
  <2>1. req[h].pc = "test"
    BY <1>7 DEF Test, At
  <2>2. req[h].kind \in {"verify", "swap"}
    BY <1>2, <2>1 DEF Staged
  <2> QED BY <1>3, <1>5, <1>7, <2>1, <2>2 DEF Test
<1>8. CASE FindPrevious(h)
  <2>1. PICK name \in Names :
          /\ ServiceOn(req[h].d, name)
          /\ Becomes(h, [req[h] EXCEPT !.prev = name, !.pc = "deploy"])
    BY <1>8 DEF FindPrevious
  <2>2. req[h].pc = "previous" /\ req[h].kind = "swap"
    BY <1>1, <1>8, BusyTypes DEF FindPrevious, At
  <2> DEFINE q == [req[h] EXCEPT !.prev = name, !.pc = "deploy"]
  <2>3. /\ q.pc = "deploy" /\ q.kind = req[h].kind /\ q.d = req[h].d
        /\ q.prev = name /\ q.made = req[h].made
    BY <1>2, NotedFacts, ZenonT(40)
  <2>4. Becomes(h, q)
    BY <2>1
  <2> HIDE DEF q
  <2>5. req'[h] = q /\ Others(h)
    BY <1>2, <2>4, BecomesFacts DEF Others
  <2>6. InHand(h) = {} /\ InHand(h)' = {}
    BY <2>2, <2>3, <2>5, HandFacts DEF InHand
  <2>7. name # None => <<req[h].d, name>> \in adopted
    <3>1. Recorded(svc)
      BY DEF Safe, Custody
    <3> QED BY <2>1, <3>1 DEF ServiceOn, First, Recorded
  <2>8. Noted(h)' /\ Staged(h)' /\ ~At(h, "stop")'
    BY <1>1, <1>2, <2>2, <2>3, <2>5, <2>7 DEF Noted, Staged, At
  <2> QED BY <1>1, <2>5, <2>6, <2>8, QuietStep
<1> QED BY <1>6, <1>7, <1>8

-----------------------------------------------------------------------------
\* Steps that touch a container.

\* The container of an idle name becomes one that a request holds, or one that
\* nobody heard of: no service is touched.
LEMMA StartedFacts ==
    ASSUME Types, Safe, NEW k \in Keys, box[k] = "none", box' = [box EXCEPT ![k] = "running"],
           UNCHANGED adopted
    PROVE  /\ k \notin adopted /\ box'[k] = "running" /\ \A i \in Keys : i # k => box'[i] = box[i]
           /\ \A g \in Handlers : k \notin InHand(g)
           /\ \A i \in adopted' : box'[i] # "none"
           /\ \A d \in Devices : Serving(d)' = Serving(d)
<1>1. OverlayTypeOK /\ Custody
  BY DEF Types, Safe
<1>2. k \notin adopted /\ \A g \in Handlers : k \notin InHand(g)
  BY <1>1 DEF Custody, Held
<1>3. box'[k] = "running" /\ \A i \in Keys : i # k => box'[i] = box[i]
  BY <1>1 DEF OverlayTypeOK
<1>4. \A i \in adopted : i \in Keys /\ box'[i] = box[i]
  BY <1>1, <1>2, <1>3 DEF OverlayTypeOK
<1>5. \A d \in Devices : Serving(d)' = Serving(d)
  BY <1>4 DEF Serving
<1>6. \A i \in adopted' : box'[i] # "none"
  BY <1>1, <1>4 DEF Custody
<1> QED BY <1>2, <1>3, <1>5, <1>6

LEMMA DeploySafe ==
    ASSUME Types, Safe, NEW h \in Handlers, Deploy(h)
    PROVE  Safe'
<1>1. /\ Busy(h) /\ req[h].pc = "deploy" /\ UNCHANGED <<svc, saved, adopted, stray>>
  BY DEF Deploy, At, Busy
<1>2. /\ OverlayTypeOK /\ req[h] \in Request /\ req[h].d \in Devices
      /\ req[h].kind \in {"validate", "verify", "swap"} /\ Noted(h) /\ Staged(h)
      /\ Key(req[h]) \in Keys /\ InHand(h) = {} /\ Custody /\ TrialsTornDown /\ Kept
  BY <1>1, BusyTypes, KeyFacts, HandFacts DEF Safe, Custody
<1>3. ASSUME Goes(h, "put"), UNCHANGED box
      PROVE  Safe'
  <2>1. req'[h].pc = "put" /\ req'[h].made = req[h].made
    BY <1>1, <1>3, MovesFacts DEF Labels
  <2>2. InHand(h)' = {}
    BY <1>1, <1>2, <2>1 DEF InHand, Staged
  <2> QED BY <1>1, <1>2, <1>3, <2>2, QuietMove DEF Labels
<1>4. ASSUME box[Key(req[h])] = "none", box' = [box EXCEPT ![Key(req[h])] = "running"],
             Becomes(h, [req[h] EXCEPT !.made = TRUE, !.pc = "test"])
      PROVE  Safe'
  <2> DEFINE q == [req[h] EXCEPT !.made = TRUE, !.pc = "test"]
             k == Key(req[h])
  <2>1. /\ q.pc = "test" /\ q.kind = req[h].kind /\ q.d = req[h].d /\ q.rec = req[h].rec
        /\ q.prev = req[h].prev
    <3>1. PICK name \in Names : name = None
      BY DEF Names
    <3> QED BY <1>2, <3>1, NotedFacts, Zenon
  <2>2. q.made
    BY <1>2 DEF Request
  <2>3. Becomes(h, q)
    BY <1>4
  <2> HIDE DEF q
  <2>4. req'[h] = q /\ Others(h)
    BY <1>2, <2>3, BecomesFacts DEF Others
  <2>5. InHand(h)' = {k}
    BY <2>1, <2>4 DEF InHand, Key
  <2>6. /\ k \notin adopted /\ box'[k] = "running" /\ \A i \in Keys : i # k => box'[i] = box[i]
        /\ \A g \in Handlers : k \notin InHand(g)
        /\ \A i \in adopted' : box'[i] # "none"
        /\ \A d \in Devices : Serving(d)' = Serving(d)
    BY <1>1, <1>2, <1>4, StartedFacts
  <2> HIDE DEF k
  <2>7. Held(h)' /\ Noted(h)' /\ Staged(h)' /\ ~At(h, "stop")'
    BY <1>1, <1>2, <2>1, <2>2, <2>4, <2>5, <2>6 DEF Held, Noted, Staged, At, Busy
  <2>8. Custody'
    <3>1. Recorded(svc)' /\ Recorded(saved)'
      BY <1>1, <1>2 DEF Custody, Recorded
    <3>2. \A g \in Handlers : g # h => \A i \in InHand(g) :
            box'[i] = "running" /\ i \notin adopted' /\ i \notin InHand(h)'
      <4>1. \A g \in Handlers : InHand(g) \subseteq Keys
        BY InHandKeys
      <4> QED BY <1>1, <1>2, <2>5, <2>6, <4>1 DEF Custody, Held
    <3> QED BY <1>1, <1>2, <2>4, <2>6, <2>7, <3>1, <3>2, CustodyStep
  <2>9. TrialsTornDown'
    <3>1. \A g \in Handlers : InHand(g) \subseteq InHand(g)'
      BY <1>2, <2>4, OthersFacts
    <3> QED BY <1>1, <1>2, <2>5, <2>6, <3>1 DEF TrialsTornDown
  <2> QED BY <1>2, <2>4, <2>6, <2>7, <2>8, <2>9, KeptStep DEF Safe
<1> QED BY <1>3, <1>4 DEF Deploy

\* What a swap has in hand when it cuts over, and what it puts into service.
LEMMA PersistSafe ==
    ASSUME Types, Safe, NEW h \in Handlers, Persist(h)
    PROVE  Safe'
<1> DEFINE k == Key(req[h])
           s == [dev |-> req[h].d, name |-> Name[req[h].rec.config]]
<1>1. /\ Busy(h) /\ req[h].pc = "persist" /\ UNCHANGED <<box, stray>>
      /\ adopted' = adopted \cup {k} /\ svc' = Upsert(svc, s)
      /\ saved' = svc' \/ saved' = saved
  BY DEF Persist, At, Busy
<1>2. /\ OverlayTypeOK /\ req[h] \in Request /\ req[h].rec \in Recipe /\ req[h].d \in Devices
      /\ req[h].kind = "swap" /\ Noted(h) /\ Custody /\ TrialsTornDown /\ Kept
  BY <1>1, BusyTypes DEF Safe, Custody
<1>3. k \in Keys /\ k[1] = req[h].d /\ InHand(h) = {k} /\ k = <<s.dev, s.name>>
  BY <1>1, <1>2, KeyFacts, HandFacts DEF Key
<1>4. PICK label \in {"put", "stop"} :
        Goes(h, label) /\ (label = "stop" => req[h].prev # Name[req[h].rec.config])
  BY <1>1 DEF Persist
<1>5. s \in Service
  BY <1>2 DEF Service, Names, Recipe
<1> HIDE DEF k, s
<1>6. /\ Others(h) /\ req'[h].pc = label /\ req'[h].kind = req[h].kind
      /\ req'[h].d = req[h].d /\ req'[h].prev = req[h].prev
  BY <1>1, <1>4, MovesFacts DEF Labels
<1>7. InHand(h)' = {}
  BY <1>2, <1>6 DEF InHand
<1>8. box[k] = "running" /\ k \notin adopted
  BY <1>2, <1>3 DEF Custody, Held
<1>9. Recorded(svc)' /\ Recorded(saved)'
  <2>1. \A i \in DOMAIN Upsert(svc, s) :
          Upsert(svc, s)[i] = s \/ \E j \in DOMAIN svc : Upsert(svc, s)[i] = svc[j]
    BY <1>2, <1>5, UpsertFacts DEF OverlayTypeOK
  <2>2. Recorded(svc)'
    BY <1>1, <1>2, <1>3, <2>1 DEF Recorded, Custody
  <2>3. saved' = saved => Recorded(saved)'
    BY <1>1, <1>2 DEF Recorded, Custody
  <2>4. saved' = svc' => Recorded(saved)'
    BY <2>2 DEF Recorded
  <2> QED BY <1>1, <2>2, <2>3, <2>4
<1>10. Custody'
  <2>1. adopted \subseteq adopted' /\ \A i \in adopted' : box'[i] # "none"
    BY <1>1, <1>2, <1>8 DEF Custody
  <2>2. Held(h)' /\ Noted(h)' /\ Staged(h)'
    BY <1>1, <1>2, <1>6, <1>7 DEF Held, Noted, Staged, Busy
  <2>3. \A g \in Handlers : g # h => \A i \in InHand(g) :
          box'[i] = "running" /\ i \notin adopted' /\ i \notin InHand(h)'
    BY <1>1, <1>2, <1>3, <1>7 DEF Custody, Held
  <2> QED BY <1>2, <1>6, <1>9, <2>1, <2>2, <2>3, CustodyStep
<1>11. TrialsTornDown'
  <2>1. \A g \in Handlers : g # h => InHand(g)' = InHand(g)
    BY <1>6, OthersFacts
  <2> QED BY <1>1, <1>2, <1>3, <2>1 DEF TrialsTornDown
<1>12. Kept'
  <2> PICK dev \in Devices, key \in Keys : dev = req[h].d /\ key = k
    BY <1>2, <1>3
  <2>0. /\ dev = req[h].d /\ req'[h].d = dev /\ key[1] = dev /\ key \notin adopted
        /\ box'[key] = "running" /\ adopted' = adopted \cup {key}
        /\ At(h, "stop")' => <<req'[h].d, req'[h].prev>> # key
    BY <1>1, <1>3, <1>4, <1>6, <1>8 DEF At, s
  <2>1. ASSUME NEW g \in Handlers, At(g, "stop")', g # h
        PROVE  /\ At(g, "stop") /\ req'[g] = req[g]
               /\ <<req[g].d, req[g].prev>> \in adopted
    <3>1. At(g, "stop") /\ req'[g] = req[g]
      BY <1>6, <2>1 DEF Others, At
    <3>2. Busy(g) /\ req[g].prev # None
      BY <3>1, BusyTypes DEF At, Busy
    <3> QED BY <1>2, <3>1, <3>2 DEF Custody, Noted
  <2>2. Spared(dev, key)'
    <3>1. \A g \in Handlers : At(g, "stop")' => <<req'[g].d, req'[g].prev>> # key
      BY <2>0, <2>1
    <3> QED BY <2>0, <3>1 DEF Spared, Serving
  <2>3. ASSUME NEW d \in Devices, d # dev, NEW i \in Keys, Spared(d, i)
        PROVE  Spared(d, i)'
    <3>1. i \in Serving(d)' /\ i[1] = d
      BY <1>1, <2>3 DEF Serving, Spared
    <3>2. \A g \in Handlers : g # h /\ At(g, "stop")' => <<req'[g].d, req'[g].prev>> # i
      BY <2>1, <2>3 DEF Spared
    <3>3. <<req'[h].d, req'[h].prev>> # i
      BY <2>0, <2>3, <3>1
    <3> QED BY <3>1, <3>2, <3>3 DEF Spared
  <2>4. ASSUME NEW d \in Devices, d # dev, Serving(d)' # {}
        PROVE  Serving(d) # {}
    <3>1. PICK i \in adopted' : i[1] = d /\ box'[i] = "running"
      BY <2>4 DEF Serving
    <3>2. i \in adopted /\ box[i] = "running"
      BY <1>1, <2>0, <2>4, <3>1
    <3> QED BY <3>1, <3>2 DEF Serving
  <2>5. ASSUME NEW d \in Devices, Serving(d)' # {} PROVE \E i \in Keys : Spared(d, i)'
    <3>1. CASE d = dev
      BY <2>2, <3>1
    <3>2. CASE d # dev
      <4>1. PICK i \in Keys : Spared(d, i)
        BY <1>2, <2>4, <2>5, <3>2 DEF Kept
      <4> QED BY <2>3, <3>2, <4>1
    <3> QED BY <3>1, <3>2
  <2> QED BY <2>5 DEF Kept
<1> QED BY <1>10, <1>11, <1>12 DEF Safe

\* The previous service is stopped while another one of the device is spared.
LEMMA StopPreviousSafe ==
    ASSUME Types, Safe, NEW h \in Handlers, StopPrevious(h)
    PROVE  Safe' /\ \A d \in Devices : Serving(d) # {} => Serving(d)' # {}
<1>1. /\ Busy(h) /\ req[h].pc = "stop" /\ Goes(h, "put")
      /\ UNCHANGED <<svc, saved, adopted, stray>>
  BY DEF StopPrevious, At, Busy
<1>2. /\ OverlayTypeOK /\ req[h] \in Request /\ req[h].d \in Devices /\ req[h].kind = "swap"
      /\ req[h].prev # None /\ Noted(h) /\ Custody /\ TrialsTornDown /\ Kept
  BY <1>1, BusyTypes DEF Safe, Custody
<1>3. PICK k \in Keys : k = <<req[h].d, req[h].prev>> /\ k \in adopted
  BY <1>1, <1>2 DEF Noted, OverlayTypeOK
<1>4. /\ \A i \in Keys : i # k => box'[i] = box[i]
      /\ box[k] # "none" /\ box'[k] # "none"
  <2>1. box' = box \/ box' = [box EXCEPT ![k] = IF @ = "running" THEN "stopped" ELSE @]
    BY <1>3 DEF StopPrevious
  <2>2. box[k] # "none"
    BY <1>2, <1>3 DEF Custody
  <2> QED BY <1>2, <2>1, <2>2 DEF OverlayTypeOK
<1>5. Others(h) /\ req'[h].pc = "put" /\ req'[h].kind = "swap"
  BY <1>1, <1>2, MovesFacts DEF Labels
<1>6. InHand(h) = {} /\ InHand(h)' = {}
  BY <1>1, <1>5, HandFacts DEF InHand
<1>7. \A g \in Handlers : InHand(g)' = InHand(g) /\ InHand(g) \subseteq Keys
  BY <1>5, <1>6, OthersFacts, InHandKeys
<1>8. Custody'
  <2>1. Recorded(svc)' /\ Recorded(saved)' /\ \A i \in adopted' : box'[i] # "none"
    BY <1>1, <1>2, <1>4 DEF Custody, Recorded, OverlayTypeOK
  <2>2. Held(h)' /\ Staged(h)'
    BY <1>5, <1>6 DEF Held, Staged
  <2>3. Noted(h)'
    <3>1. req'[h].d = req[h].d /\ req'[h].prev = req[h].prev
      BY <1>1, MovesFacts DEF Labels
    <3> QED BY <1>1, <1>2, <3>1 DEF Noted
  <2>4. \A g \in Handlers : g # h => \A i \in InHand(g) :
          box'[i] = "running" /\ i \notin adopted' /\ i \notin InHand(h)'
    BY <1>1, <1>2, <1>3, <1>4, <1>6, <1>7 DEF Custody, Held
  <2> QED BY <1>1, <1>2, <1>5, <2>1, <2>2, <2>3, <2>4, CustodyStep
<1>9. TrialsTornDown'
  BY <1>1, <1>2, <1>4, <1>7 DEF TrialsTornDown
<1>10. ASSUME NEW d \in Devices, NEW i \in Keys, Spared(d, i)
       PROVE  Spared(d, i)'
  <2>1. i # k /\ i \in Serving(d)
    BY <1>1, <1>3, <1>10 DEF Spared, At
  <2>2. i \in Serving(d)'
    BY <1>1, <1>4, <2>1 DEF Serving
  <2>3. ASSUME NEW g \in Handlers, At(g, "stop")'
        PROVE  At(g, "stop") /\ req'[g] = req[g]
    BY <1>5, <2>3 DEF At, Others
  <2> QED BY <1>10, <2>2, <2>3 DEF Spared
<1>11. ASSUME NEW d \in Devices, Serving(d)' # {} PROVE Serving(d) # {}
  <2>1. PICK i \in adopted' : i[1] = d /\ box'[i] = "running"
    BY <1>11 DEF Serving
  <2>2. i \in adopted /\ box[i] = "running"
    <3>1. box'[k] = "running" => box[k] = "running"
      BY <1>2, <1>3 DEF StopPrevious, OverlayTypeOK
    <3> QED BY <1>1, <1>2, <1>4, <2>1, <3>1 DEF OverlayTypeOK
  <2> QED BY <2>1, <2>2 DEF Serving
<1>12. Kept'
  <2>1. ASSUME NEW d \in Devices, Serving(d)' # {} PROVE \E i \in Keys : Spared(d, i)'
    <3>1. PICK i \in Keys : Spared(d, i)
      BY <1>2, <1>11, <2>1 DEF Kept
    <3> QED BY <1>10, <3>1
  <2> QED BY <2>1 DEF Kept
<1>13. ASSUME NEW d \in Devices, Serving(d) # {} PROVE Serving(d)' # {}
  <2>1. PICK i \in Keys : Spared(d, i)
    BY <1>2, <1>13 DEF Kept
  <2>2. Spared(d, i)'
    BY <1>10, <2>1
  <2> QED BY <2>2 DEF Spared
<1> QED BY <1>8, <1>9, <1>12, <1>13 DEF Safe

LEMMA PutSafe ==
    ASSUME Types, Safe, NEW h \in Handlers, Put(h)
    PROVE  Safe'
<1>1. /\ Busy(h) /\ req[h].pc = "put" /\ UNCHANGED <<svc, saved, box, adopted, stray>>
  BY DEF Put, At, Busy
<1>2. CASE req[h].kind = "verify" /\ req[h].made
  <2>1. Goes(h, "remove")
    BY <1>2 DEF Put
  <2>2. req'[h].pc = "remove" /\ Key(req'[h]) = Key(req[h])
    BY <1>1, <2>1, MovesFacts DEF Labels
  <2>3. InHand(h)' = InHand(h)
    BY <1>1, <1>2, <2>2 DEF InHand
  <2> QED BY <1>1, <2>1, <2>3, QuietMove DEF Labels
<1>3. CASE ~(req[h].kind = "verify" /\ req[h].made)
  <2>1. Goes(h, "idle")
    BY <1>3 DEF Put
  <2>2. req'[h] = NoRequest
    BY <1>1, <2>1, BusyTypes, GoesFacts
  <2>3. InHand(h)' = {} /\ InHand(h) = {}
    BY <1>1, <1>3, <2>2, HandFacts DEF InHand, NoRequest
  <2> QED BY <1>1, <2>1, <2>3, QuietMove
<1> QED BY <1>2, <1>3

\* A trial is removed, or left behind on record: no service is touched.
LEMMA RemoveSafe ==
    ASSUME Types, Safe, NEW h \in Handlers, Remove(h)
    PROVE  Safe'
<1>1. /\ Busy(h) /\ req[h].pc = "remove" /\ UNCHANGED <<svc, saved, adopted>>
  BY DEF Remove, At, Busy
<1>2. /\ OverlayTypeOK /\ req[h] \in Request /\ req[h].d \in Devices /\ Noted(h) /\ Staged(h)
      /\ Custody /\ TrialsTornDown /\ Kept
  BY <1>1, BusyTypes DEF Safe, Custody
<1>3. PICK k \in Keys : k = Key(req[h]) /\ InHand(h) = {k}
  BY <1>1, <1>2, KeyFacts, HandFacts
<1>4. k \notin adopted /\ \A g \in Handlers : g # h => k \notin InHand(g)
  BY <1>2, <1>3 DEF Custody, Held
<1>5. /\ \A i \in Keys : i # k => box'[i] = box[i]
      /\ box'[k] = "none" \/ k \in stray'
      /\ stray \subseteq stray'
  BY <1>2, <1>3 DEF Remove, OverlayTypeOK
<1>6. PICK label \in {"put", "idle"} : Goes(h, label) /\ (label = "put" => req[h].kind = "swap")
  BY DEF Remove
<1>7. /\ Others(h) /\ req'[h].pc = label
      /\ label = "put" => /\ req'[h].kind = req[h].kind /\ req'[h].d = req[h].d
                          /\ req'[h].prev = req[h].prev
  BY <1>1, <1>6, MovesFacts DEF Labels
<1>8. InHand(h)' = {}
  BY <1>6, <1>7 DEF InHand
<1>9. \A g \in Handlers : InHand(g) \subseteq Keys /\ (g # h => InHand(g)' = InHand(g))
  BY <1>7, OthersFacts, InHandKeys
<1>10. \A i \in adopted : i \in Keys /\ i # k /\ box'[i] = box[i]
  BY <1>2, <1>4, <1>5 DEF OverlayTypeOK
<1>11. Custody'
  <2>1. Recorded(svc)' /\ Recorded(saved)' /\ \A i \in adopted' : box'[i] # "none"
    BY <1>1, <1>2, <1>10 DEF Custody, Recorded
  <2>2. Held(h)' /\ Staged(h)' /\ Noted(h)'
    BY <1>1, <1>2, <1>7, <1>8 DEF Held, Staged, Noted, Busy
  <2>3. \A g \in Handlers : g # h => \A i \in InHand(g) :
          box'[i] = "running" /\ i \notin adopted' /\ i \notin InHand(h)'
    BY <1>1, <1>2, <1>4, <1>5, <1>8, <1>9 DEF Custody, Held
  <2> QED BY <1>1, <1>2, <1>7, <2>1, <2>2, <2>3, CustodyStep
<1>12. TrialsTornDown'
  <2>1. ASSUME NEW i \in Keys, box'[i] # "none", i # k
        PROVE  i \in adopted' \cup stray' \cup UNION {InHand(g)' : g \in Handlers}
    <3>1. i \in adopted \cup stray \cup UNION {InHand(g) : g \in Handlers}
      BY <1>2, <1>5, <2>1 DEF TrialsTornDown
    <3> QED BY <1>1, <1>3, <1>5, <1>9, <2>1, <3>1
  <2> QED BY <1>5, <2>1 DEF TrialsTornDown
<1>13. \A d \in Devices : Serving(d)' = Serving(d)
  BY <1>1, <1>10 DEF Serving
<1>14. ~At(h, "stop")'
  BY <1>7 DEF At
<1> QED BY <1>2, <1>7, <1>11, <1>12, <1>13, <1>14, KeptStep DEF Safe

-----------------------------------------------------------------------------
\* Late launches and crashes.

LEMMA LandSafe ==
    ASSUME Types, Safe, NEW k \in Keys, Land(k)
    PROVE  Safe' /\ \A d \in Devices : Serving(d)' = Serving(d)
<1>1. Custody /\ TrialsTornDown /\ Kept /\ OverlayTypeOK
  BY DEF Safe, Types
<1>2. UNCHANGED <<svc, saved, req, adopted>> /\ stray \subseteq stray'
  BY DEF Land
<1>3. \A g \in Handlers : /\ InHand(g)' = InHand(g) /\ InHand(g) \subseteq Keys
                         /\ (Noted(g)' <=> Noted(g)) /\ (Staged(g)' <=> Staged(g))
  BY <1>2, InHandKeys DEF InHand, Key, Noted, Staged, Busy
<1>4. /\ \A d \in Devices : Serving(d)' = Serving(d)
      /\ \A i \in adopted' : box'[i] # "none"
      /\ \A g \in Handlers : \A i \in InHand(g) : box'[i] = box[i]
      /\ \A i \in Keys : box'[i] # "none" => box[i] # "none" \/ i \in stray'
  <2>1. CASE UNCHANGED box
    BY <1>1, <1>2, <2>1 DEF Custody, Serving
  <2>2. CASE box[k] = "none" /\ box' = [box EXCEPT ![k] = "running"] /\ stray' = stray \cup {k}
    <3>1. /\ \A i \in Keys : i # k => box'[i] = box[i]
          /\ \A g \in Handlers : k \notin InHand(g)
          /\ \A i \in adopted' : box'[i] # "none"
          /\ \A d \in Devices : Serving(d)' = Serving(d)
      BY <1>2, <2>2, StartedFacts
    <3> QED BY <1>3, <2>2, <3>1
  <2> QED BY <2>1, <2>2 DEF Land
<1>5. Custody'
  <2>1. Recorded(svc)' /\ Recorded(saved)'
    BY <1>1, <1>2 DEF Custody, Recorded
  <2>2. \A g \in Handlers : (Held(g) /\ Noted(g) /\ Staged(g))'
    BY <1>1, <1>2, <1>3, <1>4 DEF Custody, Held
  <2> QED BY <1>1, <1>3, <1>4, <2>1, <2>2 DEF Custody
<1>6. TrialsTornDown'
  BY <1>1, <1>2, <1>3, <1>4 DEF TrialsTornDown
<1>7. Kept'
  BY <1>1, <1>2, <1>4 DEF Kept, Spared, At
<1> QED BY <1>4, <1>5, <1>6, <1>7 DEF Safe

LEMMA RestartSafe ==
    ASSUME Types, Safe, Restart
    PROVE  Safe' /\ \A d \in Devices : Serving(d)' = Serving(d)
<1>1. Custody /\ TrialsTornDown /\ Kept
  BY DEF Safe
<1>2. /\ UNCHANGED <<saved, box, adopted>> /\ svc' = saved
      /\ stray' = stray \cup UNION {InHand(g) : g \in Handlers}
      /\ \A g \in Handlers : req'[g] = NoRequest
  BY DEF Restart
<1>3. \A g \in Handlers : req'[g].pc = "idle" /\ InHand(g)' = {}
  BY <1>2 DEF NoRequest, InHand
<1>4. \A d \in Devices : Serving(d)' = Serving(d)
  BY <1>2 DEF Serving
<1>5. Custody'
  BY <1>1, <1>2, <1>3 DEF Custody, Recorded, Held, Noted, Staged, Busy
<1>6. TrialsTornDown'
  BY <1>1, <1>2 DEF TrialsTornDown
<1>7. Kept'
  <2>1. \A d \in Devices, k \in Keys : Spared(d, k) => Spared(d, k)'
    BY <1>3, <1>4 DEF Spared, At
  <2> QED BY <1>1, <1>4, <2>1 DEF Kept
<1> QED BY <1>4, <1>5, <1>6, <1>7 DEF Safe

-----------------------------------------------------------------------------
LEMMA InitSafe == Init => Safe
<1> SUFFICES ASSUME Init PROVE Safe
  OBVIOUS
<1>1. adopted \subseteq Keys /\ \A k \in adopted : box[k] = "running"
  BY InitTypes DEF Init, Types, OverlayTypeOK
<1>2. \A h \in Handlers : req[h].pc = "idle" /\ InHand(h) = {}
  BY DEF Init, NoRequest, InHand
<1>3. Recorded(svc) /\ Recorded(saved)
  BY DEF Init, Recorded
<1>4. Custody
  BY <1>1, <1>2, <1>3 DEF Custody, Held, Noted, Staged, Busy
<1>5. TrialsTornDown
  BY DEF Init, TrialsTornDown
<1>6. Kept
  BY <1>1, <1>2 DEF Kept, Spared, Serving, At
<1> QED BY <1>4, <1>5, <1>6 DEF Safe

LEMMA NextSafe == Types /\ Safe /\ [Next]_vars => Safe'
<1> SUFFICES ASSUME Types, Safe, [Next]_vars PROVE Safe'
  OBVIOUS
<1>1. ASSUME NEW h \in Handlers, Requested(h) \/ Served(h) PROVE Safe'
  BY <1>1, RequestedSafe, LookSafe, DeploySafe, PersistSafe, StopPreviousSafe, PutSafe,
     RemoveSafe DEF Served
<1>2. CASE Restart \/ \E k \in Keys : Land(k)
  BY <1>2, RestartSafe, LandSafe
<1>3. CASE UNCHANGED vars
  BY <1>3 DEF vars, Safe, Custody, TrialsTornDown, Kept, Recorded, Held, Noted, Staged, Spared,
              Serving, InHand, Key, Busy, At
<1> QED BY <1>1, <1>2, <1>3 DEF Next

LEMMA SafeAlways == Spec => [](Types /\ Safe)
BY InitTypes, NextTypes, InitSafe, NextSafe, PTL DEF Spec

\* Every container is in service, in the hand of a request, or one whose removal
\* failed, that was launched late or whose request a crash ended.
THEOREM TrialsEnd == Spec => []TrialsTornDown
<1>1. Safe => TrialsTornDown
  BY DEF Safe
<1> QED BY <1>1, SafeAlways, PTL

\* The steps that may change a container, and what they leave running.
LEMMA ServingStep ==
    ASSUME Types, Safe, [Next]_vars
    PROVE  \A d \in Devices : Serving(d) # {} => Serving(d)' # {}
<1>1. Custody /\ OverlayTypeOK
  BY DEF Safe, Types
<1>2. CASE UNCHANGED <<box, adopted>>
  BY <1>2 DEF Serving
<1>3. ASSUME NEW h \in Handlers, Requested(h)
      PROVE  UNCHANGED <<box, adopted>>
  BY <1>3 DEF Requested, Propose, Patch, Examine, Swap, Begins
<1>4. ASSUME NEW h \in Handlers, Gate(h) \/ FindPrevious(h) \/ Test(h) \/ Put(h)
      PROVE  UNCHANGED <<box, adopted>>
  BY <1>4 DEF Gate, FindPrevious, Test, Put, OnlyReq
<1>5. ASSUME NEW h \in Handlers, Deploy(h)
      PROVE  \A d \in Devices : Serving(d) # {} => Serving(d)' # {}
  <2>1. Busy(h) /\ req[h].pc = "deploy" /\ UNCHANGED adopted
    BY <1>5 DEF Deploy, At, Busy
  <2>2. Key(req[h]) \in Keys
    BY <2>1, BusyTypes, KeyFacts
  <2>3. CASE box[Key(req[h])] = "none" /\ box' = [box EXCEPT ![Key(req[h])] = "running"]
    BY <2>1, <2>2, <2>3, StartedFacts
  <2>4. CASE UNCHANGED box
    BY <2>1, <2>4 DEF Serving
  <2> QED BY <1>5, <2>3, <2>4 DEF Deploy
<1>6. ASSUME NEW h \in Handlers, Persist(h)
      PROVE  \A d \in Devices : Serving(d) \subseteq Serving(d)'
  BY <1>6 DEF Persist, Serving
<1>7. ASSUME NEW h \in Handlers, Remove(h)
      PROVE  \A d \in Devices : Serving(d) \subseteq Serving(d)'
  <2>1. req[h].pc = "remove" /\ UNCHANGED adopted
    BY <1>7 DEF Remove, At
  <2>2. Key(req[h]) \notin adopted
    BY <1>1, <2>1, HandFacts DEF Custody, Held
  <2>3. \A k \in adopted : box'[k] = box[k]
    BY <1>1, <1>7, <2>2 DEF Remove, OverlayTypeOK
  <2> QED BY <2>1, <2>3 DEF Serving
<1>8. ASSUME NEW h \in Handlers, Served(h)
      PROVE  \A d \in Devices : Serving(d) # {} => Serving(d)' # {}
  <2>1. CASE Persist(h) \/ Remove(h)
    BY <1>6, <1>7, <2>1
  <2>2. CASE StopPrevious(h)
    BY <2>2, StopPreviousSafe
  <2> QED BY <1>2, <1>4, <1>5, <1>8, <2>1, <2>2 DEF Served
<1>9. CASE Restart \/ \E k \in Keys : Land(k)
  BY <1>9, RestartSafe, LandSafe
<1> QED BY <1>2, <1>3, <1>8, <1>9 DEF Next, vars

\* In whatever order the swaps of a device overlap, fail or are cut off by a
\* crash, none of them takes the last running service from it.
THEOREM ServingIsKept == Spec => DeviceKeepsServing
<1>1. Types /\ Safe /\ [Next]_vars
        => [\A d \in Devices : Serving(d) # {} => Serving(d)' # {}]_vars
  BY ServingStep
<1> QED BY <1>1, SafeAlways, PTL DEF Spec, DeviceKeepsServing

\* Whatever copies handlers put back and wherever they end: a validated recipe has
\* evidence, and every container is in service, in a request's hands or stray.
THEOREM RecipeIsSafe == Spec => []RecipeSafety
<1>1. OverlayTypeOK /\ EvidenceBehindValidation /\ TrialsTornDown => RecipeSafety
  BY DEF RecipeSafety
<1> QED BY <1>1, OverlayTyped, EvidenceIsReal, TrialsEnd, PTL
=============================================================================
