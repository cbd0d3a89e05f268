----------------------------- MODULE LogStreams -----------------------------
(***************************************************************************)
(* GET /logs/{device}/{container}: the daemon's handler, the goroutine that*)
(* relays the agent's answer to it (Aggregator.StreamLogs), and the agent's*)
(* handler with its two scanners, the goroutine that closes their channel  *)
(* and the `docker logs -f` process it reads (handleContainerLogs).        *)
(*                                                                         *)
(* Lines are counted, not told apart.  The daemon asks the agent with the  *)
(* client of the metrics, whose timeout of ten seconds includes the body:  *)
(* TimesOut is the end of those seconds.  Docker writes lines when it likes;*)
(* the goroutines that are not blocked run.  A container of TensorFold,    *)
(* whose tail is answered at once, is outside the model.                   *)
(***************************************************************************)
EXTENDS Integers

CONSTANTS
    AgentBuffer,   \* capacity of the agent's channel (64)
    RelayBuffer,   \* capacity of the daemon's channel (100)
    WireBuffer,    \* what the connection holds before a write blocks
    MaxLongLines,  \* bound on streams with a line above the scanners' 1 MiB
    MaxLines       \* bound on lines on the way to the user

ASSUME BufferAssumption ==
    {AgentBuffer, RelayBuffer, WireBuffer} \subseteq Nat \ {0} /\ {MaxLongLines, MaxLines} \subseteq Nat

VARIABLES
    docker,        \* the docker logs process: "none", "runs" or "ended"
    pipes,         \* whether its pipes are open
    scanner,       \* [Pipes -> what the goroutine does]
    logCh, closed, \* lines in the agent's channel, whether it is closed
    handler,       \* the agent's handler, which may refuse the request
    canceled,      \* its variable of that name
    wire,          \* lines on the connection
    hungUp,        \* the agent knows that the connection is closed: its context is done
    relay, relayCh, relayed, \* the relaying goroutine, its channel, whether it is closed
    viewer,        \* the daemon's handler
    clientGone,    \* the context of the user's request is done
    broken,        \* the daemon cannot read on: the ten seconds are over, or the
                   \* connection is lost
    longLines, lines

agentSide == <<docker, pipes, scanner, logCh, closed, handler, canceled>>
daemonSide == <<relay, relayCh, relayed, viewer, clientGone, broken>>
logVars == <<agentSide, wire, hungUp, daemonSide, longLines, lines>>

-----------------------------------------------------------------------------
Pipes == {"stdout", "stderr"}
ScannerDone(p) == scanner[p] = "done"
AllScanned == \A p \in Pipes : ScannerDone(p)

LogInit ==
    /\ docker = "none" /\ pipes = TRUE
    /\ scanner = [p \in Pipes |-> "scan"]
    /\ logCh = 0 /\ closed = FALSE /\ handler = "idle" /\ canceled = FALSE
    /\ wire = 0 /\ hungUp = FALSE
    /\ relay = "idle" /\ relayCh = 0 /\ relayed = FALSE
    /\ viewer = "idle" /\ clientGone = FALSE /\ broken = FALSE
    /\ longLines = 0 /\ lines = 0

\* The user opens the stream: handleLogs calls StreamLogs, which asks the agent, or
\* fails because the device is not connected.
OpenStream ==
    /\ viewer = "idle" /\ viewer' \in {"asks", "returned"}
    /\ UNCHANGED <<agentSide, wire, hungUp, relay, relayCh, relayed, clientGone, broken, longLines,
                   lines>>

-----------------------------------------------------------------------------
\* The agent: it refuses the request (a grouped or unknown container, docker logs
\* cannot be started), or starts docker logs; also when the daemon has given up.
Accept ==
    /\ handler = "idle" /\ (viewer = "asks" \/ broken)
    /\ \/ handler' = "refused" /\ UNCHANGED docker
       \/ handler' = "serves" /\ docker' = "runs"
    /\ UNCHANGED <<pipes, scanner, logCh, closed, canceled, wire, hungUp, daemonSide, longLines,
                   lines>>

\* startScan.
ScanLine(p) ==
    /\ scanner[p] = "scan" /\ docker = "runs" /\ pipes /\ lines < MaxLines
    /\ scanner' = [scanner EXCEPT ![p] = "send"] /\ lines' = lines + 1
    /\ UNCHANGED <<docker, pipes, logCh, closed, handler, canceled, wire, hungUp, daemonSide,
                   longLines>>

\* A line above the limit ends the scan; its error is sent like a line.
LongLine(p) ==
    /\ scanner[p] = "scan" /\ docker = "runs" /\ pipes /\ longLines < MaxLongLines
    /\ scanner' = [scanner EXCEPT ![p] = "report"] /\ longLines' = longLines + 1
    /\ UNCHANGED <<docker, pipes, logCh, closed, handler, canceled, wire, hungUp, daemonSide, lines>>

\* The end of the process closes its side of the pipe; reading a pipe the handler
\* closed is an error.
ScanEnds(p) ==
    /\ scanner[p] = "scan" /\ (docker = "ended" \/ ~pipes)
    /\ scanner' = [scanner EXCEPT ![p] = IF pipes THEN "done" ELSE "report"]
    /\ UNCHANGED <<docker, pipes, logCh, closed, handler, canceled, wire, hungUp, daemonSide,
                   longLines, lines>>

Send(p) ==
    /\ scanner[p] \in {"send", "report"} /\ logCh < AgentBuffer
    /\ logCh' = logCh + 1
    /\ scanner' = [scanner EXCEPT ![p] = IF @ = "send" THEN "scan" ELSE "done"]
    /\ UNCHANGED <<docker, pipes, closed, handler, canceled, wire, hungUp, daemonSide, longLines,
                   lines>>

GiveUp(p) ==
    /\ scanner[p] \in {"send", "report"} /\ hungUp
    /\ scanner' = [scanner EXCEPT ![p] = "done"]
    /\ UNCHANGED <<docker, pipes, logCh, closed, handler, canceled, wire, hungUp, daemonSide,
                   longLines, lines>>

\* Mutant of CloseCh: the wait group counts one scanner.
CloseChEarly ==
    /\ ~closed /\ (\E p \in Pipes : ScannerDone(p)) /\ closed' = TRUE
    /\ UNCHANGED <<docker, pipes, scanner, logCh, handler, canceled, wire, hungUp, daemonSide,
                   longLines, lines>>

\* scanners.Wait, then close.
CloseCh ==
    /\ ~closed /\ AllScanned /\ closed' = TRUE
    /\ UNCHANGED <<docker, pipes, scanner, logCh, handler, canceled, wire, hungUp, daemonSide,
                   longLines, lines>>

\* Mutant of Cancel: the process is left to notice its closed pipes.
CancelOnlyPipes ==
    /\ handler = "serves" /\ hungUp /\ ~canceled
    /\ canceled' = TRUE /\ pipes' = FALSE
    /\ UNCHANGED <<docker, scanner, logCh, closed, handler, wire, hungUp, daemonSide, longLines,
                   lines>>

\* The handler's loop: the end of the request kills the process ...
Cancel ==
    /\ handler = "serves" /\ hungUp /\ ~canceled
    /\ canceled' = TRUE /\ docker' = "ended" /\ pipes' = FALSE
    /\ UNCHANGED <<scanner, logCh, closed, handler, wire, hungUp, daemonSide, longLines, lines>>

\* ... and the channel is drained to its end; a write waits for room on the wire.
WriteEvent ==
    /\ handler = "serves" /\ logCh > 0 /\ logCh' = logCh - 1
    /\ \/ (canceled \/ hungUp) /\ UNCHANGED wire
       \/ ~canceled /\ ~hungUp /\ wire < WireBuffer /\ wire' = wire + 1
    /\ UNCHANGED <<docker, pipes, scanner, closed, handler, canceled, hungUp, daemonSide, longLines,
                   lines>>

\* cmd.Wait does not look at the request.
AwaitDocker ==
    /\ handler = "serves" /\ logCh = 0 /\ closed /\ handler' = "waits"
    /\ UNCHANGED <<docker, pipes, scanner, logCh, closed, canceled, wire, hungUp, daemonSide,
                   longLines, lines>>

HandlerReturns ==
    /\ handler = "waits" /\ docker = "ended" /\ handler' = "returned"
    /\ UNCHANGED <<docker, pipes, scanner, logCh, closed, canceled, wire, hungUp, daemonSide,
                   longLines, lines>>

\* The container ended.  A process whose output nobody reads stays.
DockerEnds ==
    /\ docker = "runs" /\ \E p \in Pipes : scanner[p] = "scan"
    /\ docker' = "ended"
    /\ UNCHANGED <<pipes, scanner, logCh, closed, handler, canceled, wire, hungUp, daemonSide,
                   longLines, lines>>

AgentStep ==
    \/ \E p \in Pipes : ScanEnds(p) \/ Send(p) \/ GiveUp(p)
    \/ CloseCh \/ Cancel \/ WriteEvent \/ AwaitDocker \/ HandlerReturns

-----------------------------------------------------------------------------
\* The daemon.

\* StreamLogs waits for the agent's answer, whose head the agent sends with the first
\* line it flushes, or when its handler returns.
AnswerArrives ==
    /\ viewer = "asks" /\ ~broken
    /\ \/ (wire > 0 \/ handler = "returned") /\ viewer' = "serves" /\ relay' = "scan"
       \/ handler = "refused" /\ viewer' = "returned" /\ UNCHANGED relay
    /\ UNCHANGED <<agentSide, wire, hungUp, relayCh, relayed, clientGone, broken, longLines, lines>>

AskFails ==
    /\ viewer = "asks" /\ broken /\ viewer' = "returned"
    /\ UNCHANGED <<agentSide, wire, hungUp, relay, relayCh, relayed, clientGone, broken, longLines,
                   lines>>

\* Its goroutine sends without looking whether anyone receives.
RelayLine ==
    /\ relay = "scan" /\ ~broken /\ wire > 0 /\ wire' = wire - 1 /\ relay' = "send"
    /\ UNCHANGED <<agentSide, hungUp, relayCh, relayed, viewer, clientGone, broken, longLines,
                   lines>>

RelaySend ==
    /\ relay \in {"send", "report"} /\ relayCh < RelayBuffer /\ relayCh' = relayCh + 1
    /\ relay' = IF relay = "send" THEN "scan" ELSE "closing"
    /\ UNCHANGED <<agentSide, wire, hungUp, relayed, viewer, clientGone, broken, longLines, lines>>

\* The body ends with the agent's handler, or with an error, which is sent like a line.
RelayScanEnds ==
    /\ relay = "scan"
    /\ \/ broken /\ relay' = "report"
       \/ ~broken /\ handler = "returned" /\ wire = 0 /\ relay' = "closing"
    /\ UNCHANGED <<agentSide, wire, hungUp, relayCh, relayed, viewer, clientGone, broken,
                   longLines, lines>>

\* So it does with a line above the limit of the relay's own scanner.
RelayLongLine ==
    /\ relay = "scan" /\ ~broken /\ wire > 0 /\ longLines < MaxLongLines
    /\ relay' = "report" /\ longLines' = longLines + 1
    /\ UNCHANGED <<agentSide, wire, hungUp, relayCh, relayed, viewer, clientGone, broken, lines>>

\* The channel and the body are closed; over a lost connection the agent does not hear.
RelayCloses ==
    /\ relay = "closing" /\ relay' = "done" /\ relayed' = TRUE
    /\ hungUp' = (hungUp \/ ~broken) /\ wire' = 0
    /\ UNCHANGED <<agentSide, relayCh, viewer, clientGone, broken, longLines, lines>>

\* Mutant of TimesOut: the client of the logs has no timeout.
TimesOutNever == FALSE /\ UNCHANGED logVars

InUse == viewer = "asks" \/ relay \notin {"idle", "done"}

\* The timeout of the client closes the connection, whoever reads from it.
TimesOut ==
    /\ InUse /\ ~broken /\ broken' = TRUE /\ hungUp' = TRUE /\ wire' = 0
    /\ UNCHANGED <<agentSide, relay, relayCh, relayed, viewer, clientGone, longLines, lines>>

\* The tunnel goes down with the connection in it; the agent hears of it later.
ConnectionBreaks ==
    /\ InUse /\ ~broken /\ broken' = TRUE /\ wire' = 0
    /\ UNCHANGED <<agentSide, hungUp, relay, relayCh, relayed, viewer, clientGone, longLines, lines>>

AgentHears ==
    /\ broken /\ ~hungUp /\ hungUp' = TRUE
    /\ UNCHANGED <<agentSide, wire, daemonSide, longLines, lines>>

\* handleLogs.
ShowLine ==
    /\ viewer = "serves" /\ relayCh > 0 /\ relayCh' = relayCh - 1
    /\ UNCHANGED <<agentSide, wire, hungUp, relay, relayed, viewer, clientGone, broken, longLines,
                   lines>>

ViewerReturns ==
    /\ viewer = "serves" /\ (clientGone \/ (relayed /\ relayCh = 0))
    /\ viewer' = "returned"
    /\ UNCHANGED <<agentSide, wire, hungUp, relay, relayCh, relayed, clientGone, broken, longLines,
                   lines>>

ClientLeaves ==
    /\ ~clientGone /\ viewer \in {"asks", "serves"} /\ clientGone' = TRUE
    /\ UNCHANGED <<agentSide, wire, hungUp, relay, relayCh, relayed, viewer, broken, longLines,
                   lines>>

RelayStep == RelayLine \/ RelaySend \/ RelayScanEnds \/ RelayCloses
ViewerStep == AnswerArrives \/ AskFails \/ ShowLine \/ ViewerReturns

LogNext ==
    \/ AgentStep \/ RelayStep \/ ViewerStep \/ TimesOut
    \/ \E p \in Pipes : ScanLine(p) \/ LongLine(p)
    \/ RelayLongLine \/ ConnectionBreaks \/ AgentHears
    \/ OpenStream \/ Accept \/ DockerEnds \/ ClientLeaves

LogSpec == LogInit /\ [][LogNext]_logVars

\* Goroutines that can run do; a select between what is ready is a choice.  What
\* Docker writes, when it ends, when the agent takes up the request and when the user
\* leaves is not promised.
LogFairness ==
    /\ \A p \in Pipes : WF_logVars(ScanEnds(p) \/ Send(p) \/ GiveUp(p))
    /\ WF_logVars(CloseCh)
    /\ WF_logVars(Cancel \/ WriteEvent \/ AwaitDocker \/ HandlerReturns)
    /\ WF_logVars(RelayStep)
    /\ WF_logVars(ViewerStep)
    /\ WF_logVars(TimesOut)

FairLogSpec == LogSpec /\ LogFairness

-----------------------------------------------------------------------------
\* Properties.

\* A channel never holds more than its capacity, and nobody sends on one that was
\* closed, which would end the process: handleContainerLogs closes its channel
\* when both scanners are through, StreamLogs when its goroutine is.
LogsTypeOK ==
    /\ docker \in {"none", "runs", "ended"} /\ handler \in {"idle", "refused", "serves", "waits", "returned"}
    /\ logCh \in 0 .. AgentBuffer /\ relayCh \in 0 .. RelayBuffer /\ wire \in 0 .. WireBuffer
    /\ closed => AllScanned
    /\ relayed => relay = "done"

\* Every stream the user asks for ends: when the agent refuses it, when the container
\* ends, when the connection is lost, when the user leaves, and in any case with the
\* timeout of the client (daemon.handleLogs).
StreamsEnd == viewer \in {"asks", "serves"} ~> viewer = "returned"

\* A connection the agent knows to be closed ends its handler.  The one exception is in
\* the code: handleContainerLogs may find its channel closed before it looks at the
\* end of the request -- both scanners gave up at a line, or stopped at one above
\* their limit -- and then waits for a process nobody kills.
AgentLetsGo ==
    hungUp /\ handler = "serves" ~>
        handler = "returned" \/ (handler = "waits" /\ docker = "runs" /\ ~canceled)
=============================================================================
