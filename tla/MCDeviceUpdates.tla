-------------------------- MODULE MCDeviceUpdates --------------------------
(***************************************************************************)
(* Instances of UpdateHistory.  MCSpec runs three of them side by side: in *)
(* one, requests on two devices and two services follow each other; in the *)
(* other two, requests are served together: two on one device and one      *)
(* service, or two on two devices and two services.  `overlap` says which, *)
(* and is drawn once.                                                      *)
(***************************************************************************)
EXTENDS UpdateHistory, TLC

CONSTANTS d1, v1, s1, h1

VARIABLE overlap

HostedOnFirst == [s \in Services |-> d1]
NamedFirst == [v \in Versions |-> v1]
Symmetry == Permutations(Loops)

MCInit == HistoryInit /\ overlap \in {"none", "device", "devices"}

OneAtATime ==
    /\ \A h \in Handlers \ {h1} : req'[h].pc = "idle"
    /\ requests' + saveFaults' + restarts' <= 4
    /\ \A d \in Devices \ {d1} : cfg'.dev[d] \in {v1, Absent}

OneDevice ==
    /\ \A d \in Devices \ {d1} : cfg'.dev[d] = Absent
    /\ \A h \in Handlers : req'[h].pc # "idle" =>
         /\ req'[h].dev = d1 /\ req'[h].next.dev[d1] \in {v1, Absent}
         /\ \A d \in Devices \ {d1} : req'[h].next.dev[d] = Absent
    /\ cfg'.svc \subseteq {s1}

\* Requests on two devices overlap; the goroutines they start and cancel stand still.
TwoDevices ==
    /\ req' # req /\ UNCHANGED <<restarts, saveFaults>>
    /\ \A d \in Devices \ {d1} : cfg'.dev[d] \in {v1, Absent}
    /\ \A h \in Handlers, d \in Devices \ {d1} : req'[h].next.dev[d] \in {v1, Absent}

MCNext ==
    /\ HistoryNext /\ UNCHANGED overlap
    /\ \/ overlap = "none" /\ OneAtATime
       \/ overlap = "device" /\ OneDevice
       \/ overlap = "devices" /\ TwoDevices

MCSpec == MCInit /\ [][MCNext]_<<vars, missed, overlap>>

\* config.json can be read at every instant, the daemon comes up after every
\* crash, as long as no two saves overlap.
AloneReadable == overlap = "none" => DiskReadable

\* Requests that follow each other leave on disk what the daemon works with.
AlonePersisted == overlap = "none" => DevicesPersisted

\* Requests that follow each other leave no configured device without a tunnel.
AloneServed == overlap = "none" => ConfiguredIsServed

\* Requests that follow each other, with failed saves, crashes and restarts between,
\* leave a file that can be loaded, the daemon's devices in it, and a tunnel for each.
AloneSettled ==
    AloneReadable /\ AlonePersisted /\ AloneServed
=============================================================================
