------------------------------ MODULE Collector ------------------------------
(***************************************************************************)
(* The collector's accept path, end to end: the admission gate             *)
(* (producer-backpressure.ts), the micro-batcher (produce-micro-batcher.ts)*)
(* that coalesces requests, the anchor (accept-event.usecase.ts) that      *)
(* produces a batch to the log or else appends it to the write-ahead log,  *)
(* the write-ahead log's flush passes, the shutdown sequence               *)
(* (shutdown-drain.ts, main.ts), crashes and reboots.                      *)
(*                                                                         *)
(* All of it runs in one Node process: an action is the code between two   *)
(* awaits, and actions of different activities interleave freely.          *)
(***************************************************************************)
EXTENDS LocalDiskFallback

CONSTANTS Requests,   \* what clients send: each request is a sequence of messages
          MaxEvents   \* INGEST_BATCH_MAX_EVENTS

ASSUME RequestAssumption ==
  /\ Requests \subseteq Seq(Msgs) \ {<<>>}
  /\ MaxEvents \in Nat \ {0}

VARIABLES phase,        \* "down", "serving", or how far the shutdown is
          status,       \* [Msgs -> what the client of each message has been told]
          buffer,       \* the batcher's pending messages
          timerArmed,   \* the linger timer is set
          queue,        \* batches taken from the buffer, chained; the head is being anchored
          anchorPc,     \* where anchor() is with the head of queue
          drainResult   \* what drain() returned

batchVars == <<buffer, timerArmed, queue, anchorPc>>
callerVars == <<phase, status, batchVars, drainResult>>
logVars == <<brokerUp, onLog, faults, producerVars>>
vars == <<logVars, walVars, callerVars>>

Phases == {"down", "serving", "closing", "draining", "stopping", "exiting"}
Statuses == {"new", "pending", "acked", "shed", "failed", "unanswered"}

TypeOK ==
  /\ ProducerTypeOK
  /\ WalTypeOK
  /\ phase \in Phases
  /\ status \in [Msgs -> Statuses]
  /\ buffer \in Seq(Msgs)
  /\ timerArmed \in BOOLEAN
  /\ queue \in Seq(Seq(Msgs))
  /\ anchorPc \in {"idle", "send", "append", "sync"}
  /\ drainResult \in {"none", "drained", "timeout"}

Init ==
  /\ ProducerInit
  /\ WalInit
  /\ phase = "down"
  /\ status = [m \in Msgs |-> "new"]
  /\ buffer = <<>> /\ timerArmed = FALSE
  /\ queue = <<>> /\ anchorPc = "idle"
  /\ drainResult = "none"

Up == phase # "down"
Holds(s, m) == \E k \in 1..Len(s) : s[k] = m

-----------------------------------------------------------------------------
(* Boot, and the accept path of one request.                               *)

Boot ==
  /\ phase = "down"
  /\ Adopt
  /\ ConnectOk \/ ConnectFail
  /\ phase' = "serving"
  /\ drainResult' = "none"
  /\ UNCHANGED <<brokerUp, onLog, walLocked, passVars, status, batchVars>>

\* admit(): some durable anchor is believed to be available.
Admit == Healthy \/ ~ Saturated

Tell(s, what) == status' = [m \in Msgs |-> IF Holds(s, m) THEN what ELSE status[m]]

\* flushNow(): the pending batch is chained behind the ones before it.
TakeBatch(pending) ==
  /\ queue' = Append(queue, pending)
  /\ buffer' = <<>>
  /\ timerArmed' = FALSE

\* Mutant: a batch being anchored is trusted to take the buffer along.
AcceptNoTimer(r) ==
  /\ phase = "serving"
  /\ \A m \in Msgs : Holds(r, m) => status[m] = "new"
  /\ Admit
  /\ Tell(r, "pending")
  /\ IF Len(buffer \o r) >= MaxEvents
     THEN TakeBatch(buffer \o r)
     ELSE buffer' = buffer \o r /\ timerArmed' = (queue = <<>>) /\ UNCHANGED queue
  /\ UNCHANGED <<logVars, walVars, phase, anchorPc, drainResult>>

Accept(r) ==
  /\ phase = "serving"
  /\ \A m \in Msgs : Holds(r, m) => status[m] = "new"
  /\ Admit
  /\ Tell(r, "pending")
  /\ IF Len(buffer \o r) >= MaxEvents
     THEN TakeBatch(buffer \o r)
     ELSE buffer' = buffer \o r /\ timerArmed' = TRUE /\ UNCHANGED queue
  /\ UNCHANGED <<logVars, walVars, phase, anchorPc, drainResult>>

Shed(r) ==
  /\ phase = "serving"
  /\ \A m \in Msgs : Holds(r, m) => status[m] = "new"
  /\ ~ Admit
  /\ Tell(r, "shed")
  /\ UNCHANGED <<logVars, walVars, phase, batchVars, drainResult>>

LingerOver ==
  /\ timerArmed
  /\ TakeBatch(buffer)
  /\ UNCHANGED <<logVars, walVars, phase, status, anchorPc, drainResult>>

-----------------------------------------------------------------------------
(* anchor(): produce, or else append to the write-ahead log.               *)

\* A lazy connect that fails goes the way of a failed produce.
AnchorBegin ==
  /\ queue # <<>> /\ anchorPc = "idle"
  /\ \/ connected /\ UNCHANGED producerVars /\ anchorPc' = "send"
     \/ ConnectOk /\ anchorPc' = "send"
     \/ ConnectFail /\ anchorPc' = "append"
  /\ UNCHANGED <<brokerUp, onLog, faults, walVars, phase, status>>
  /\ UNCHANGED <<buffer, timerArmed, queue, drainResult>>

\* The whole batch is answered alike, and the next one in the chain begins.
Settle(what) ==
  /\ Tell(Head(queue), what)
  /\ queue' = Tail(queue)
  /\ anchorPc' = "idle"
  /\ UNCHANGED <<phase, buffer, timerArmed, drainResult>>

AnchorSendOk ==
  /\ anchorPc = "send"
  /\ SendOk({m \in Msgs : Holds(Head(queue), m)})
  /\ Settle("acked")
  /\ UNCHANGED <<brokerUp, walVars>>

AnchorSendFail ==
  /\ anchorPc = "send"
  /\ SendFail({m \in Msgs : Holds(Head(queue), m)})
  /\ anchorPc' = "append"
  /\ UNCHANGED <<brokerUp, walVars, phase, status, buffer, timerArmed, queue, drainResult>>

AnchorRefused ==
  /\ anchorPc = "append"
  /\ AppendRefused(Head(queue))
  /\ Settle("shed")
  /\ UNCHANGED <<logVars, walVars>>

AnchorWrite ==
  /\ anchorPc = "append"
  /\ AppendWrite(Head(queue))
  /\ anchorPc' = "sync"
  /\ UNCHANGED <<logVars, accountVars, passVars>>
  /\ UNCHANGED <<phase, status, buffer, timerArmed, queue, drainResult>>

AnchorSync ==
  /\ anchorPc = "sync"
  /\ AppendAccount(Head(queue))
  /\ Settle("acked")
  /\ UNCHANGED <<logVars, diskVars, passVars>>

\* The append throws, from write() or from datasync(): the requests get a 500
\* and nothing is accounted or undone.
AnchorWriteError ==
  /\ "error" \in IoFaults
  /\ anchorPc = "append"
  /\ AppendTorn(Head(queue))
  /\ Settle("failed")
  /\ UNCHANGED <<brokerUp, onLog, producerVars, accountVars, passVars, walLocked>>

AnchorSyncError ==
  /\ "error" \in IoFaults
  /\ anchorPc = "sync"
  /\ SpendFault
  /\ walLocked' = FALSE
  /\ Settle("failed")
  /\ UNCHANGED <<brokerUp, onLog, producerVars, diskVars, accountVars, passVars>>

\* The byte count write() returns is not looked at.
AnchorShortWrite ==
  /\ "short" \in IoFaults
  /\ anchorPc = "append"
  /\ AppendTorn(Head(queue))
  /\ walLocked' = TRUE
  /\ anchorPc' = "sync"
  /\ UNCHANGED <<brokerUp, onLog, producerVars, accountVars, passVars>>
  /\ UNCHANGED <<phase, status, buffer, timerArmed, queue, drainResult>>

-----------------------------------------------------------------------------
(* Flush passes: the timer starts them until the shutdown stops it.        *)

FlushTick ==
  /\ phase \in {"serving", "closing"}
  /\ FlushBegin
  /\ UNCHANGED <<logVars, callerVars>>

FlushFileStep ==
  /\ FlushRotate \/ FlushRename \/ FlushRead \/ FlushTruncate \/ FlushAdvance \/ FlushUnlink
  /\ UNCHANGED <<logVars, callerVars>>

FlushFaultyStep ==
  /\ FlushIoError \/ FlushUnlinkOffset
  /\ UNCHANGED <<brokerUp, onLog, producerVars, callerVars>>

FlushLogStep ==
  /\ FlushConnect \/ FlushSendOk \/ FlushSendFail
  /\ UNCHANGED callerVars

FlushStep == FlushTick \/ FlushFileStep \/ FlushFaultyStep \/ FlushLogStep

-----------------------------------------------------------------------------
(* Shutdown: stop accepting, let the requests in flight finish, one bounded *)
(* drain, stop, disconnect, exit.                                          *)

Sigterm ==
  /\ phase = "serving"
  /\ phase' = "closing"
  /\ UNCHANGED <<logVars, walVars, status, batchVars, drainResult>>

\* app.close() resolved.  drain() awaits flushOnce(), which returns at once
\* when a pass is in flight or there is nothing to flush.
DrainBegin ==
  /\ phase = "closing"
  /\ \A m \in Msgs : status[m] # "pending"
  /\ \/ /\ FlushBegin
        /\ phase' = "draining"
        /\ UNCHANGED drainResult
     \/ /\ ~ PassCanStart
        /\ phase' = "stopping" /\ drainResult' = "drained"
        /\ UNCHANGED walVars
  /\ UNCHANGED <<logVars, status, batchVars>>

\* The pass drain() started ended, one way or the other; or the deadline won.
DrainEnd ==
  /\ phase = "draining"
  /\ flushPc = "idle"
  /\ phase' = "stopping"
  /\ drainResult' = "drained"
  /\ UNCHANGED <<logVars, walVars, status, batchVars>>

DrainTimeout ==
  /\ phase = "draining"
  /\ flushPc # "idle"
  /\ phase' = "stopping"
  /\ drainResult' = "timeout"
  /\ UNCHANGED <<logVars, walVars, status, batchVars>>

\* stop() waits for the lock; then the producer goes.
StopAndDisconnect ==
  /\ phase = "stopping"
  /\ ~ walLocked
  /\ Disconnect
  /\ phase' = "exiting"
  /\ UNCHANGED <<brokerUp, onLog, faults, walVars, status, batchVars, drainResult>>

\* What dies with the process.
Die ==
  /\ phase' = "down"
  /\ ForgetMemory
  /\ status' = [m \in Msgs |-> IF status[m] = "pending" THEN "unanswered" ELSE status[m]]
  /\ buffer' = <<>> /\ timerArmed' = FALSE /\ queue' = <<>> /\ anchorPc' = "idle"
  /\ connected' = FALSE /\ produceFailures' = 0 /\ eventDisconnected' = FALSE
  /\ UNCHANGED <<brokerUp, onLog, drainResult>>

\* process.exit(0).  An exit that cuts a flush pass short is counted as a fault.
Exit ==
  /\ phase = "exiting"
  /\ Die
  /\ faults' = IF flushPc # "idle" /\ faults < MaxFaults THEN faults + 1 ELSE faults
  /\ UNCHANGED diskVars

Crash ==
  /\ Up
  /\ Die
  /\ SpendFault
  /\ UNCHANGED diskVars

CrashMidWrite ==
  /\ Up
  /\ "crash" \in IoFaults
  /\ anchorPc = "append"
  /\ AppendTorn(Head(queue))
  /\ Die

-----------------------------------------------------------------------------
Environment ==
  /\ BrokerFlip \/ SocketDropped
  /\ UNCHANGED <<walVars, callerVars>>

AnchorStep ==
  \/ AnchorBegin \/ AnchorSendOk \/ AnchorSendFail
  \/ AnchorRefused \/ AnchorWrite \/ AnchorSync
  \/ AnchorWriteError \/ AnchorSyncError \/ AnchorShortWrite

ShutdownStep == DrainBegin \/ DrainEnd \/ DrainTimeout \/ StopAndDisconnect \/ Exit

Next ==
  \/ Boot
  \/ \E r \in Requests : Accept(r) \/ Shed(r)
  \/ LingerOver
  \/ AnchorStep
  \/ FlushStep
  \/ Sigterm \/ ShutdownStep
  \/ Crash \/ CrashMidWrite
  \/ Environment

Spec == Init /\ [][Next]_vars

\* The process is restarted, its timers fire, and its I/O completes.
FairSpec ==
  /\ Spec
  /\ WF_vars(Boot) /\ WF_vars(LingerOver) /\ WF_vars(AnchorStep)
  /\ WF_vars(FlushStep) /\ WF_vars(ShutdownStep)

-----------------------------------------------------------------------------
(* Safety.                                                                 *)

\* A message whose client was told 200 is on the log, or on disk where a
\* flush pass will still find it.
AckedDurable ==
  \A m \in Msgs : status[m] = "acked" => Durable(m)

\* Whatever else happens (outages, late produces, crashes, restarts, failing
\* sidecar writes and unlinks), only an append cut short can cost an
\* acknowledged message.
LossNeedsTornWrite == tornWrites = 0 => AckedDurable

\* Without a crash, a late produce or an I/O error, no message gets a second
\* copy on the log: neither an outage in mid-file nor a restart replays what
\* the sidecar says is there.
ExactlyOnceWithoutFaults ==
  faults = 0 => \A m \in Msgs : onLog[m] <= 1

\* While the process is up and the pending gauge reads 0, every acknowledged
\* message is on the log: the durability exposure window is closed.
GaugeCoversExposure ==
  (phase # "down" /\ PendingEvents = 0) =>
     \A m \in Msgs : status[m] = "acked" => Logged(m)

\* The files together never exceed the cap, whatever the accounts in memory
\* went through.
WalWithinCap == Len(activeFile) + Len(flushingFile) <= MaxBytes

\* Between passes, at most one batch of lines is on the log and not yet
\* covered by the sidecar: what a resumed pass will produce again.
ReplayWithinOneBatch ==
  flushPc = "idle" =>
    Cardinality({k \in 1..Len(flushingFile) :
       offset < k /\ k <= producedUpTo /\ flushingFile[k] # Torn}) <= BatchLines

\* drain() reports "drained" only when no flush pass is left unfinished.
DrainedMeansPassCompleted ==
  (phase = "stopping" /\ drainResult = "drained") => flushPc = "idle"

\* The .flushing file is unlinked only when each of its messages is on the log.
UnlinkOnlyProduced ==
  [][flushingFile # <<>> /\ flushingFile' = <<>> =>
       \A m \in MsgsIn(flushingFile, 0, Len(flushingFile)) : Logged(m)]_vars

\* The collector keeps the promise of IngestContract: nothing safe is ever
\* given up, and only safe messages are acknowledged.
Contract == INSTANCE IngestContract WITH
  acked <- {m \in Msgs : status[m] = "acked"},
  safe  <- {m \in Msgs : Durable(m)},
  log   <- {m \in Msgs : Logged(m)}

KeepsContract == Contract!Spec

-----------------------------------------------------------------------------
(* Liveness.                                                               *)

\* Every admitted request is answered, or its client sees the process die.
EveryRequestAnswered ==
  \A m \in Msgs : status[m] = "pending" ~> status[m] # "pending"

SettlesDown == <>[](brokerUp /\ phase = "serving")

\* Once the broker and the process stay up, what was acknowledged reaches
\* the log.
AckedReachesLog ==
  SettlesDown => \A m \in Msgs : status[m] = "acked" ~> Logged(m)

\* ... and a gate closed by a full write-ahead log opens again.
GateReopens == SettlesDown => []<>Admit
=============================================================================
