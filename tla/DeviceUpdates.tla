---------------------------- MODULE DeviceUpdates ----------------------------
(***************************************************************************)
(* The daemon's configuration and the requests that change it, composed    *)
(* with the tunnel pool: the device handlers clone the configuration, save *)
(* the clone and only then take Daemon.mu to make it current and adjust    *)
(* the tunnels (applyConfigUpdate); deployed services are recorded under   *)
(* the lock (persistDeployResult, removeServiceByContainerID).             *)
(*                                                                         *)
(* config.Save writes `config.json.tmp` and renames it.  All savers share  *)
(* that name, so an open file may be renamed while it is written: `fd`     *)
(* says where the file a request is writing is now.  A restart loses the   *)
(* requests and the tunnels and starts again from config.json.             *)
(***************************************************************************)
EXTENDS TunnelPool

CONSTANTS
    Handlers,      \* requests that may be served at the same time
    Services,
    Host,          \* [Services -> Devices]
    Alias,         \* [Versions -> Versions]: a device under its Tailscale name
    Absent,        \* device that is not configured
    Nobody,        \* Daemon.mu is free
    Empty, Torn, NoFile, \* files: truncated, parts of two writes, none
    MaxRequests,   \* bound on requests
    MaxSaveFaults, \* bound on failed saves
    MaxRestarts    \* bound on crashes of the daemon

ASSUME HostAssumption == Host \in [Services -> Devices]
ASSUME AliasAssumption ==
    Alias \in [Versions -> Versions] /\ \A v \in Versions : Alias[Alias[v]] = Alias[v]
ASSUME UpdateBoundAssumption ==
    MaxRequests \in Nat /\ MaxSaveFaults \in Nat /\ MaxRestarts \in Nat

VARIABLES
    disk,      \* contents of config.json
    tmp,       \* contents of config.json.tmp
    cfg,       \* Daemon.cfg
    lock,      \* holder of Daemon.mu's write lock
    req,       \* the requests in progress
    requests, saveFaults, restarts

updateVars == <<disk, tmp, cfg, lock, req, requests, saveFaults, restarts>>
vars == <<poolVars, updateVars>>

-----------------------------------------------------------------------------
Config == [dev: [Devices -> Versions \cup {Absent}], svc: SUBSET Services]
Files == Config \cup {Empty, Torn, NoFile}
\* What stands for an empty, a torn and a missing file, and for no lock holder, is
\* none of what can be saved, and no handler.
ASSUME FileNamesAssumption ==
    /\ {Empty, Torn, NoFile} \cap Config = {} /\ NoFile \notin {Empty, Torn}
    /\ Nobody \notin Handlers

Readable(file) == file \notin {Empty, Torn}

DeviceKinds == {"put", "delete", "reload"}
ServiceKinds == {"deploy", "remove"}
Request == [kind: DeviceKinds \cup ServiceKinds \cup {"none"},
            pc: {"idle", "open", "write", "rename", "apply", "tunnels"},
            dev: Devices, next: Config, fd: {"none", "tmp", "disk", "gone"},
            added: SUBSET Devices, close: SUBSET Devices, connect: SUBSET Devices]

Ready(h) == req[h].pc = "idle" /\ requests < MaxRequests
Free == lock = Nobody
At2(h, label) == req[h].pc = label
Becomes(h, r) == req' = [req EXCEPT ![h] = r]

Serving(h, kind, d, next, label) ==
    [req[h] EXCEPT !.kind = kind, !.pc = label, !.dev = d, !.next = next]

\* The request is answered; a service request releases the lock it held.
Answered(r) == [r EXCEPT !.kind = "none", !.pc = "idle", !.fd = "none", !.close = {},
                         !.connect = {}, !.added = {}]

Released(h) == IF lock = h THEN Nobody ELSE lock

-----------------------------------------------------------------------------
\* Requests.

Admit == requests' = requests + 1 /\ UNCHANGED <<poolVars, disk, tmp, saveFaults, restarts>>

\* Mutant of PutDevice: the list of devices is built anew instead of cloned.
PutDeviceAlone(h, d, v) ==
    /\ Ready(h) /\ Free
    /\ LET next == [cfg EXCEPT !.dev = [e \in Devices |-> IF e = d THEN v ELSE Absent]]
       IN Becomes(h, Serving(h, "put", d, next, "open"))
    /\ Admit /\ UNCHANGED <<cfg, lock>>

\* UpsertDevice on a clone: create, update and bootstrap.
PutDevice(h, d, v) ==
    /\ Ready(h) /\ Free
    /\ Becomes(h, Serving(h, "put", d, [cfg EXCEPT !.dev[d] = v], "open"))
    /\ Admit /\ UNCHANGED <<cfg, lock>>

DeleteDevice(h, d) ==
    /\ Ready(h) /\ Free /\ cfg.dev[d] # Absent
    /\ LET next == [dev |-> [cfg.dev EXCEPT ![d] = Absent],
                    svc |-> {s \in cfg.svc : Host[s] # d}]
       IN Becomes(h, Serving(h, "delete", d, next, "open"))
    /\ Admit /\ UNCHANGED <<cfg, lock>>

\* applyCurrentTailscaleHostAliases, when Tailscale knows the devices.
Aliased(c) ==
    [c EXCEPT !.dev = [d \in Devices |-> IF @[d] = Absent THEN Absent ELSE Alias[@[d]]]]

\* config.Load; aliases that change it are saved first.
Reload(h, d) ==
    /\ Ready(h) /\ Readable(disk)
    /\ \/ Becomes(h, Serving(h, "reload", d, disk, "apply"))
       \/ /\ Aliased(disk) # disk
          /\ Becomes(h, Serving(h, "reload", d, Aliased(disk), "open"))
    /\ Admit /\ UNCHANGED <<cfg, lock>>

\* persistDeployResult changes Daemon.cfg in place and saves it under the lock.
PersistDeployResult(h, s) ==
    /\ Ready(h) /\ Free /\ lock' = h /\ cfg' = [cfg EXCEPT !.svc = @ \cup {s}]
    /\ Becomes(h, Serving(h, "deploy", Host[s], cfg', "open")) /\ Admit

RemoveService(h, s) ==
    /\ Ready(h) /\ Free /\ s \in cfg.svc
    /\ lock' = h /\ cfg' = [cfg EXCEPT !.svc = @ \ {s}]
    /\ Becomes(h, Serving(h, "remove", Host[s], cfg', "open")) /\ Admit

-----------------------------------------------------------------------------
\* config.Save.

SaveFault(h) ==
    /\ saveFaults < MaxSaveFaults /\ saveFaults' = saveFaults + 1
    /\ lock' = Released(h) /\ UNCHANGED <<poolVars, cfg, requests, restarts>>

\* Mutant of Failed: a failed save is not an error for the request.
FailedIgnored(r) ==
    IF r.kind \in ServiceKinds THEN Answered(r) ELSE [r EXCEPT !.pc = "apply", !.fd = "none"]

\* A failed save ends the request; a reload goes on.
Failed(r) == IF r.kind = "reload" THEN [r EXCEPT !.pc = "apply", !.fd = "none"] ELSE Answered(r)

\* os.WriteFile truncates the file, ...
OpenTmp(h) ==
    /\ At2(h, "open") /\ tmp' = Empty
    /\ \/ /\ Becomes(h, [req[h] EXCEPT !.pc = "write", !.fd = "tmp"])
          /\ UNCHANGED <<poolVars, cfg, lock, requests, saveFaults, restarts>>
       \/ SaveFault(h) /\ Becomes(h, Failed(req[h]))
    /\ UNCHANGED disk

\* ... and writes it; over another's data the result may be parts of both.
Overwrite(file, data) == IF file \in {Empty, data} THEN {data} ELSE {data, Torn}

WriteTmp(h) ==
    /\ At2(h, "write")
    /\ CASE req[h].fd = "tmp" -> tmp' \in Overwrite(tmp, req[h].next) /\ UNCHANGED disk
         [] req[h].fd = "disk" -> disk' \in Overwrite(disk, req[h].next) /\ UNCHANGED tmp
         [] OTHER -> UNCHANGED <<tmp, disk>>
    /\ Becomes(h, [req[h] EXCEPT !.pc = "rename", !.fd = "none"])
    /\ UNCHANGED <<poolVars, cfg, lock, requests, saveFaults, restarts>>

\* Where the files being written are after a rename, or a removal, of tmp.
Moved(r, renamed) ==
    CASE r.fd = "tmp" -> [r EXCEPT !.fd = IF renamed THEN "disk" ELSE "gone"]
      [] r.fd = "disk" -> [r EXCEPT !.fd = IF renamed THEN "gone" ELSE "disk"]
      [] OTHER -> r

Saved(r) == IF r.kind \in ServiceKinds THEN Answered(r) ELSE [r EXCEPT !.pc = "apply"]

RenameTmp(h) ==
    /\ At2(h, "rename")
    /\ \/ /\ tmp # NoFile /\ disk' = tmp /\ tmp' = NoFile /\ lock' = Released(h)
          /\ req' = [g \in Handlers |-> IF g = h THEN Saved(req[h]) ELSE Moved(req[g], TRUE)]
          /\ UNCHANGED <<poolVars, cfg, requests, saveFaults, restarts>>
       \/ /\ tmp = NoFile /\ Becomes(h, Failed(req[h])) /\ lock' = Released(h)
          /\ UNCHANGED <<poolVars, disk, tmp, cfg, requests, saveFaults, restarts>>
       \/ /\ SaveFault(h) /\ tmp' = NoFile /\ UNCHANGED disk
          /\ req' = [g \in Handlers |->
                       IF g = h THEN Failed(req[h]) ELSE Moved(req[g], FALSE)]

-----------------------------------------------------------------------------
\* applyConfigUpdate: make the configuration current, then adjust the tunnels
\* one device at a time, removed devices first.

\* Mutant of Apply: Daemon.mu is not taken.
ApplyUnlocked(h) ==
    /\ At2(h, "apply") /\ Becomes(h, [req[h] EXCEPT !.pc = "tunnels"]) /\ cfg' = req[h].next
    /\ UNCHANGED <<poolVars, disk, tmp, lock, requests, saveFaults, restarts>>

Apply(h) ==
    LET before == cfg.dev
        after == req[h].next.dev
        changed == {d \in Devices : before[d] # after[d]}
    IN /\ At2(h, "apply") /\ Free
       /\ Becomes(h, [req[h] EXCEPT !.pc = "tunnels",
                        !.close = {d \in changed : before[d] # Absent},
                        !.connect = {d \in changed : after[d] # Absent},
                        !.added = {d \in changed : before[d] = Absent}])
       /\ cfg' = req[h].next
       /\ UNCHANGED <<poolVars, disk, tmp, lock, requests, saveFaults, restarts>>

OnlyReq == UNCHANGED <<disk, tmp, cfg, lock, requests, saveFaults, restarts>>

CloseTunnel(h, d) ==
    LET r == req[h]
        halfway == r.connect \ (r.close \cup r.added)
    IN /\ At2(h, "tunnels") /\ d \in r.close
       /\ d \in r.connect => r.close \subseteq r.connect /\ halfway = {}
       /\ CloseDevice(d)
       /\ Becomes(h, [r EXCEPT !.close = @ \ {d}]) /\ OnlyReq

ConnectTunnel(h, d) ==
    LET r == req[h] IN
    /\ At2(h, "tunnels") /\ d \in r.connect \ r.close /\ r.close \subseteq r.connect
    /\ ConnectDevice(d, r.next.dev[d])
    /\ Becomes(h, [r EXCEPT !.connect = @ \ {d}, !.added = @ \ {d}]) /\ OnlyReq

Finish(h) ==
    /\ At2(h, "tunnels") /\ req[h].close = {} /\ req[h].connect = {}
    /\ Becomes(h, Answered(req[h]))
    /\ UNCHANGED <<poolVars, disk, tmp, cfg, lock, requests, saveFaults, restarts>>

-----------------------------------------------------------------------------
EmptyConfig == [dev |-> [d \in Devices |-> Absent], svc |-> {}]

NoRequest ==
    [h \in Handlers |-> [kind |-> "none", pc |-> "idle", dev |-> CHOOSE d \in Devices : TRUE,
                         next |-> EmptyConfig, fd |-> "none",
                         added |-> {}, close |-> {}, connect |-> {}]]

Init ==
    /\ PoolInit
    /\ cfg = EmptyConfig /\ disk = EmptyConfig /\ tmp = NoFile /\ lock = Nobody
    /\ req = NoRequest
    /\ requests = 0 /\ saveFaults = 0 /\ restarts = 0

\* The goroutines of ConnectAll in a new process; its loops are numbered anew.
ConnectAll(c) ==
    LET configured == {d \in Devices : c.dev[d] # Absent}
        fresh == [i \in Loops |-> [loop[i] EXCEPT !.pc = "unused", !.canceled = FALSE,
                                                  !.connected = FALSE, !.gen = 0]]
    IN \E owner \in [configured -> Loops] :
         /\ \A d, e \in configured : owner[d] = owner[e] => d = e
         /\ loop' = [i \in Loops |->
                        IF \E d \in configured : owner[d] = i
                        THEN LET d == CHOOSE d \in configured : owner[d] = i
                             IN Spawned(fresh, i, d, c.dev[d])[i]
                        ELSE fresh[i]]
         /\ tunnels' = [d \in Devices |-> NoLoop]
         /\ open' = {} /\ live' = {} /\ UNCHANGED <<faults, reconnects>>

\* The daemon crashes, or is stopped, and runs again.  It does not come up with
\* a file it cannot read.
Restart ==
    /\ restarts < MaxRestarts /\ restarts' = restarts + 1
    /\ Readable(disk) /\ cfg' \in {disk, Aliased(disk)}
    /\ \/ disk' = cfg' /\ tmp' = IF cfg' = disk THEN tmp ELSE NoFile
       \/ UNCHANGED <<disk, tmp>>
    /\ ConnectAll(cfg') /\ lock' = Nobody
    /\ req' = NoRequest
    /\ UNCHANGED <<requests, saveFaults>>

Requested(h) ==
    \/ \E d \in Devices : (\E v \in Versions : PutDevice(h, d, v)) \/ DeleteDevice(h, d)
                            \/ Reload(h, d)
    \/ \E s \in Services : PersistDeployResult(h, s) \/ RemoveService(h, s)

Served(h) ==
    \/ OpenTmp(h) \/ WriteTmp(h) \/ RenameTmp(h) \/ Apply(h) \/ Finish(h)
    \/ \E d \in Devices : CloseTunnel(h, d) \/ ConnectTunnel(h, d)

PoolRuns == (LoopsRun \/ Loses) /\ UNCHANGED updateVars

Next == PoolRuns \/ Restart \/ \E h \in Handlers : Requested(h) \/ Served(h)

Spec == Init /\ [][Next]_vars

-----------------------------------------------------------------------------
\* Properties.

UpdatesTypeOK ==
    /\ PoolTypeOK
    /\ disk \in Files \ {NoFile} /\ tmp \in Files /\ cfg \in Config
    /\ req \in [Handlers -> Request]
    /\ lock = Nobody \/ (lock \in Handlers /\ req[lock].kind \in ServiceKinds)
    /\ requests \in Nat /\ saveFaults \in Nat /\ restarts \in Nat

Idle == \A h \in Handlers : req[h].pc = "idle"
Reloading(h) == At2(h, "apply") /\ req[h].kind = "reload"

\* config.json can always be read: Save replaces it as a whole, and the daemon
\* comes up again wherever it crashed.
DiskReadable == Readable(disk)

\* What a service request writes to disk is what the daemon works with, even
\* while device handlers save their clones: nothing is made current meanwhile.
LockedSaveIsCurrent == \A h \in Handlers : lock = h => req[h].next = cfg

\* While handlers save their clones and swap the configuration in any order, the
\* lock is held only by a request that saves what is current (persistDeployResult,
\* removeServiceByContainerID, applyConfigUpdate).
UpdatesSafety ==
    UpdatesTypeOK /\ LockedSaveIsCurrent

\* Between requests the devices on disk are those the daemon works with, but
\* for aliases that could not be saved.
DevicesPersisted == Idle => Readable(disk) /\ cfg.dev \in {disk.dev, Aliased(disk).dev}

\* Between requests, and after a restart, every configured device has a tunnel
\* or a goroutine that is about to register one.
ConfiguredIsServed ==
    Idle => \A d \in Devices : cfg.dev[d] # Absent =>
              \/ Entry(d) # NoLoop
              \/ \E i \in Loops : At(i, "spawned") /\ loop[i].dev = d
=============================================================================
