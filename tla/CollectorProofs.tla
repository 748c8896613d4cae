--------------------------- MODULE CollectorProofs ---------------------------
(***************************************************************************)
(* Theorems about Collector.tla, for every set of messages, cap, batch     *)
(* size, choice of requests and of I/O faults, and any fault budget.       *)
(***************************************************************************)
EXTENDS Collector, TLAPS, SequenceTheorems, FiniteSetTheorems

USE FaultAssumption, WalAssumption, RequestAssumption

-----------------------------------------------------------------------------
(* Type correctness.  The Boolean variables are kept apart from the rest:   *)
(* Zenon proves the one half and SMT the other.                             *)

Flags ==
  /\ brokerUp \in BOOLEAN /\ connected \in BOOLEAN /\ eventDisconnected \in BOOLEAN
  /\ activeOpen \in BOOLEAN /\ walLocked \in BOOLEAN /\ lastBatch \in BOOLEAN
  /\ timerArmed \in BOOLEAN

LogData ==
  /\ onLog \in [Msgs -> 0..2]
  /\ produceFailures \in 0..3
  /\ faults \in Nat /\ faults <= MaxFaults

WalData ==
  /\ activeFile \in Seq(Lines) /\ flushingFile \in Seq(Lines)
  /\ offset \in Nat /\ producedUpTo \in Nat
  /\ tornWrites \in Nat /\ tornWrites <= faults
  /\ activeBytes \in Nat /\ flushingBytes \in Nat /\ flushingEvents \in Nat
  /\ from \in Nat /\ to \in Nat
  /\ flushPc \in FlushPcs

CallerData ==
  /\ phase \in Phases
  /\ status \in [Msgs -> Statuses]
  /\ buffer \in Seq(Msgs)
  /\ queue \in Seq(Seq(Msgs))
  /\ anchorPc \in {"idle", "send", "append", "sync"}
  /\ anchorPc # "idle" => queue # <<>>
  /\ drainResult \in {"none", "drained", "timeout"}

TypeInv == Flags /\ LogData /\ WalData /\ CallerData

LEMMA TypeInvOK == TypeInv => TypeOK
<1> SUFFICES ASSUME TypeInv PROVE TypeOK OBVIOUS
<1>1. faults \in 0..MaxFaults /\ tornWrites \in 0..MaxFaults
  BY DEF TypeInv, LogData, WalData
<1>2. produceFailures \in 0..UnhealthyThreshold
  BY DEF TypeInv, LogData, UnhealthyThreshold
<1> QED
  BY <1>1, <1>2, Zenon
     DEF TypeInv, Flags, LogData, WalData, CallerData, TypeOK, ProducerTypeOK, WalTypeOK

LEMMA TypeInit == Init => TypeInv
<1> SUFFICES ASSUME Init PROVE TypeInv OBVIOUS
<1>0. \A S : <<>> \in Seq(S) OBVIOUS
<1>1. Flags BY Zenon DEF Init, ProducerInit, WalInit, Flags
<1>2. LogData BY DEF Init, ProducerInit, LogData
<1>3. WalData BY <1>0 DEF Init, ProducerInit, WalInit, WalData, FlushPcs
<1>4. CallerData BY <1>0 DEF Init, CallerData, Phases, Statuses
<1> QED BY <1>1, <1>2, <1>3, <1>4 DEF TypeInv

\* A step that leaves the producer, the log or the write-ahead log alone.
LEMMA LogKept == ASSUME LogData, UNCHANGED <<onLog, produceFailures, faults>> PROVE LogData'
BY DEF LogData

LEMMA WalKept ==
  ASSUME WalData, UNCHANGED walVars, faults' \in Nat, faults' >= faults, faults \in Nat
  PROVE  WalData'
BY DEF WalData, walVars, diskVars, accountVars, passVars

LEMMA TypeBoot == TypeInv /\ Boot => TypeInv'
<1> SUFFICES ASSUME TypeInv, Boot PROVE TypeInv' OBVIOUS
<1> USE DEF Boot
<1>1. Flags'
  BY Zenon DEF TypeInv, Flags, Adopt, ConnectOk, ConnectFail, passVars, batchVars
<1>2. LogData' BY DEF TypeInv, LogData, Adopt, ConnectOk, ConnectFail, SpendFault
<1>3. WalData' BY DEF TypeInv, LogData, WalData, Adopt, SpendFault, passVars, FlushPcs
<1>4. CallerData' BY DEF TypeInv, CallerData, Phases, batchVars
<1> QED BY <1>1, <1>2, <1>3, <1>4 DEF TypeInv

LEMMA TypeAccept == ASSUME TypeInv, NEW r \in Requests, Accept(r) PROVE TypeInv'
<1> USE DEF Accept, logVars, producerVars, walVars, diskVars, accountVars, passVars
<1>0. r \in Seq(Msgs) /\ buffer \o r \in Seq(Msgs) BY DEF TypeInv, CallerData
<1>1. Flags' BY Zenon DEF TypeInv, Flags, TakeBatch
<1>2. LogData' BY DEF TypeInv, LogData
<1>3. WalData' BY DEF TypeInv, WalData
<1>4. CallerData'
  <2>1. status' \in [Msgs -> Statuses] BY DEF TypeInv, CallerData, Tell, Statuses
  <2>2. buffer' \in Seq(Msgs) BY <1>0, EmptySeq DEF TakeBatch
  <2>3. queue' \in Seq(Seq(Msgs)) /\ (queue # <<>> => queue' # <<>>)
    <3>1. queue \in Seq(Seq(Msgs)) BY DEF TypeInv, CallerData
    <3>2. \A b \in Seq(Msgs) : Append(queue, b) \in Seq(Seq(Msgs)) /\ Append(queue, b) # <<>>
      BY <3>1, AppendProperties
    <3> QED BY <1>0, <3>1, <3>2 DEF TakeBatch
  <2> QED BY <2>1, <2>2, <2>3 DEF TypeInv, CallerData
<1> QED BY <1>1, <1>2, <1>3, <1>4 DEF TypeInv

LEMMA TypeShed == ASSUME TypeInv, NEW r \in Requests, Shed(r) PROVE TypeInv'
<1> USE DEF Shed, logVars, producerVars, walVars, diskVars, accountVars, passVars, batchVars
<1>1. Flags' BY Zenon DEF TypeInv, Flags
<1>2. LogData' BY DEF TypeInv, LogData
<1>3. WalData' BY DEF TypeInv, WalData
<1>4. CallerData' BY DEF TypeInv, CallerData, Tell, Statuses
<1> QED BY <1>1, <1>2, <1>3, <1>4 DEF TypeInv

LEMMA TypeLingerOver == TypeInv /\ LingerOver => TypeInv'
<1> SUFFICES ASSUME TypeInv, LingerOver PROVE TypeInv' OBVIOUS
<1> USE DEF LingerOver, TakeBatch, logVars, producerVars, walVars, diskVars, accountVars, passVars
<1>1. Flags' BY Zenon DEF TypeInv, Flags
<1>2. LogData' BY DEF TypeInv, LogData
<1>3. WalData' BY DEF TypeInv, WalData
<1>4. CallerData'
  <2>1. buffer \in Seq(Msgs) /\ queue \in Seq(Seq(Msgs)) BY DEF TypeInv, CallerData
  <2>2. Append(queue, buffer) \in Seq(Seq(Msgs)) /\ Append(queue, buffer) # <<>>
    BY <2>1, AppendProperties
  <2>3. buffer' \in Seq(Msgs) BY EmptySeq
  <2> QED BY <2>2, <2>3 DEF TypeInv, CallerData
<1> QED BY <1>1, <1>2, <1>3, <1>4 DEF TypeInv

-----------------------------------------------------------------------------
(* What a produce does to the producer's and the log's variables.           *)

LEMMA LandType ==
  ASSUME LogData, NEW S, Land(S)
  PROVE  onLog' \in [Msgs -> 0..2] /\ \A m \in Msgs : Logged(m) => Logged(m)'
BY DEF LogData, Land, Logged

LEMMA SendOkType ==
  ASSUME LogData, NEW S, SendOk(S)
  PROVE  /\ LogData' /\ faults' = faults
         /\ \A m \in Msgs : (m \in S \/ Logged(m)) => Logged(m)'
<1>1. onLog' \in [Msgs -> 0..2] BY LandType DEF SendOk
<1>2. \A m \in Msgs : (m \in S \/ Logged(m)) => Logged(m)'
  BY DEF SendOk, LogData, Land, Logged
<1> QED BY <1>1, <1>2 DEF SendOk, LogData

LEMMA SendFailType ==
  ASSUME LogData, NEW S, SendFail(S)
  PROVE  /\ LogData' /\ faults' >= faults
         /\ \A m \in Msgs : Logged(m) => Logged(m)'
<1>1. CASE ~ connected /\ UNCHANGED <<onLog, produceFailures, faults>>
  BY <1>1 DEF LogData, Logged
<1>2. CASE connected /\ ~ UNCHANGED <<onLog, produceFailures, faults>>
  <2>1. produceFailures' \in 0..3
    BY <1>2 DEF SendFail, LogData, UnhealthyThreshold
  <2>2. CASE UNCHANGED <<onLog, faults>> BY <2>1, <2>2 DEF LogData, Logged
  <2>3. CASE SpendFault /\ \E landed \in SUBSET S : Land(landed)
    BY <2>1, <2>3, LandType DEF LogData, SpendFault
  <2> QED BY <1>2, <2>2, <2>3 DEF SendFail
<1>3. CASE connected /\ UNCHANGED <<onLog, produceFailures, faults>>
  BY <1>3 DEF LogData, Logged
<1> QED BY <1>1, <1>2, <1>3 DEF SendFail

-----------------------------------------------------------------------------
(* The anchor.                                                              *)

\* The head of a non-empty queue is a batch, and so is the rest a queue.
LEMMA QueueHead ==
  ASSUME CallerData, anchorPc # "idle"
  PROVE  Head(queue) \in Seq(Msgs) /\ Tail(queue) \in Seq(Seq(Msgs))
BY HeadTailProperties DEF CallerData

LEMMA SettleType ==
  ASSUME CallerData, anchorPc # "idle", NEW what \in Statuses, Settle(what)
  PROVE  CallerData'
BY QueueHead DEF CallerData, Settle, Tell, Statuses

LEMMA TypeAnchorBegin == TypeInv /\ AnchorBegin => TypeInv'
<1> SUFFICES ASSUME TypeInv, AnchorBegin PROVE TypeInv' OBVIOUS
<1> USE DEF AnchorBegin, ConnectOk, ConnectFail, producerVars, walVars, diskVars,
            accountVars, passVars
<1>1. Flags' BY Zenon DEF TypeInv, Flags
<1>2. LogData' BY DEF TypeInv, LogData
<1>3. WalData' BY DEF TypeInv, WalData
<1>4. CallerData' BY DEF TypeInv, CallerData
<1> QED BY <1>1, <1>2, <1>3, <1>4 DEF TypeInv

LEMMA TypeAnchorSend == TypeInv /\ (AnchorSendOk \/ AnchorSendFail) => TypeInv'
<1> SUFFICES ASSUME TypeInv, AnchorSendOk \/ AnchorSendFail PROVE TypeInv' OBVIOUS
<1>1. Flags'
  BY Zenon DEF TypeInv, Flags, AnchorSendOk, AnchorSendFail, SendOk, SendFail, Settle,
               producerVars, walVars, diskVars, accountVars, passVars
<1>2. LogData' /\ faults' >= faults
  BY SendOkType, SendFailType DEF TypeInv, LogData, AnchorSendOk, AnchorSendFail
<1>3. WalData' BY <1>2, WalKept DEF TypeInv, LogData, AnchorSendOk, AnchorSendFail
<1>4. CallerData'
  <2>1. CASE AnchorSendOk
    BY <2>1, SettleType DEF AnchorSendOk, TypeInv, Statuses
  <2>2. CASE AnchorSendFail
    BY <2>2 DEF AnchorSendFail, TypeInv, CallerData
  <2> QED BY <2>1, <2>2
<1> QED BY <1>1, <1>2, <1>3, <1>4 DEF TypeInv

LEMMA TypeAnchorRefused == TypeInv /\ AnchorRefused => TypeInv'
<1> SUFFICES ASSUME TypeInv, AnchorRefused PROVE TypeInv' OBVIOUS
<1> USE DEF AnchorRefused, logVars, producerVars
<1>1. Flags'
  BY Zenon DEF TypeInv, Flags, Settle, walVars, diskVars, accountVars, passVars
<1>2. LogData' BY DEF TypeInv, LogData
<1>3. WalData' BY <1>2, WalKept DEF TypeInv, LogData
<1>4. CallerData' BY SettleType DEF TypeInv, Statuses
<1> QED BY <1>1, <1>2, <1>3, <1>4 DEF TypeInv

\* A file grown by an append is a file.
LEMMA ExtendType ==
  ASSUME NEW f \in Seq(Lines), NEW w \in Seq(Lines), NEW open
  PROVE  Extend(f, open, w) \in Seq(Lines)
<1>1. CASE ~ (open /\ w # <<>>) BY <1>1, ConcatProperties DEF Extend
<1>2. CASE open /\ w # <<>>
  <2>1. Tail(w) \in Seq(Lines) BY <1>2, HeadTailProperties
  <2>2. [f EXCEPT ![Len(f)] = Torn] \in Seq(Lines)
    <3>1. CASE f = <<>>
      <4>1. [f EXCEPT ![Len(f)] = Torn] = f BY <3>1, EmptySeq
      <4> QED BY <4>1
    <3>2. CASE f # <<>>
      <4>1. Len(f) \in 1..Len(f) BY <3>2, EmptySeq
      <4> QED BY <4>1, ExceptSeq DEF Lines
    <3> QED BY <3>1, <3>2
  <2>3. [f EXCEPT ![Len(f)] = Torn] \o Tail(w) \in Seq(Lines)
    BY <2>1, <2>2, ConcatProperties
  <2> QED BY <1>2, <2>3 DEF Extend
<1> QED BY <1>1, <1>2

\* Without a partial last line, an append only adds lines at the end.
LEMMA ExtendClosed ==
  ASSUME NEW f \in Seq(Lines), NEW w \in Seq(Lines)
  PROVE  /\ Extend(f, FALSE, w) = f \o w
         /\ Len(f \o w) = Len(f) + Len(w)
         /\ \A i \in 1..Len(f) : (f \o w)[i] = f[i]
         /\ \A i \in 1..Len(w) : (f \o w)[Len(f) + i] = w[i]
BY DEF Extend

LEMMA WriteType ==
  ASSUME WalData, LogData, NEW w \in Seq(Msgs), AppendWrite(w) \/ AppendTorn(w)
  PROVE  activeFile' \in Seq(Lines)
<1>0. w \in Seq(Lines) /\ activeFile \in Seq(Lines) BY SeqMonotonic DEF Lines, WalData
<1>1. CASE AppendWrite(w) BY <1>0, <1>1, ExtendType DEF AppendWrite
<1>2. CASE AppendTorn(w)
  <2>1. PICK j \in 1..Len(w) :
          \/ activeFile' = Extend(activeFile, activeOpen, SubSeq(w, 1, j - 1))
          \/ \E last \in {Torn, w[j]} :
               activeFile' = Extend(activeFile, activeOpen, SubSeq(w, 1, j - 1) \o <<last>>)
    BY <1>2 DEF AppendTorn
  <2>2. SubSeq(w, 1, j - 1) \in Seq(Lines) BY <1>0
  <2>3. \A last \in {Torn, w[j]} : SubSeq(w, 1, j - 1) \o <<last>> \in Seq(Lines)
    <3>1. \A last \in {Torn, w[j]} : <<last>> \in Seq(Lines) BY <1>0 DEF Lines
    <3> QED BY <2>2, <3>1, ConcatProperties
  <2> QED BY <1>0, <2>1, <2>2, <2>3, ExtendType
<1> QED BY <1>1, <1>2

LEMMA TypeAnchorWrite ==
  ASSUME TypeInv, AnchorWrite \/ AnchorWriteError \/ AnchorShortWrite
  PROVE  TypeInv'
<1> USE DEF AnchorWrite, AnchorWriteError, AnchorShortWrite, AppendWrite, AppendTorn
<1>0. anchorPc = "append" OBVIOUS
<1>1. Flags'
  <2>1. (activeOpen' \in BOOLEAN) /\ (walLocked' \in BOOLEAN)
    BY Zenon DEF TypeInv, Flags
  <2> QED
    BY <2>1, Zenon DEF TypeInv, Flags, Settle, logVars, producerVars, accountVars, passVars
<1>2. LogData' /\ faults' >= faults /\ tornWrites' <= faults' /\ tornWrites' \in Nat
  <2>1. UNCHANGED <<onLog, produceFailures>> BY DEF logVars, producerVars
  <2>2. CASE UNCHANGED <<faults, tornWrites>>
    BY <2>1, <2>2 DEF TypeInv, LogData, WalData
  <2>3. CASE SpendFault /\ tornWrites' = tornWrites + 1
    BY <2>1, <2>3 DEF TypeInv, LogData, WalData, SpendFault
  <2> QED BY <2>2, <2>3 DEF logVars
<1>3. activeFile' \in Seq(Lines)
  BY <1>0, QueueHead, WriteType DEF TypeInv
<1>4. WalData' BY <1>2, <1>3 DEF TypeInv, WalData, accountVars, passVars
<1>5. CallerData'
  <2>1. CASE AnchorWriteError BY <1>0, <2>1, SettleType DEF TypeInv, Statuses
  <2>2. CASE AnchorWrite \/ AnchorShortWrite BY <1>0, <2>2 DEF TypeInv, CallerData
  <2> QED BY <2>1, <2>2
<1> QED BY <1>1, <1>2, <1>4, <1>5 DEF TypeInv

LEMMA TypeAnchorSync ==
  ASSUME TypeInv, AnchorSync \/ AnchorSyncError
  PROVE  TypeInv'
<1> USE DEF AnchorSync, AnchorSyncError, AppendAccount
<1>0. anchorPc = "sync" OBVIOUS
<1>1. Flags'
  BY Zenon DEF TypeInv, Flags, Settle, logVars, producerVars, diskVars, passVars
<1>2. LogData' /\ faults' >= faults
  BY DEF TypeInv, LogData, SpendFault, logVars, producerVars
<1>3. Len(Head(queue)) \in Nat BY <1>0, QueueHead DEF TypeInv
<1>4. WalData'
  <2>1. activeBytes' \in Nat /\ flushingBytes' \in Nat /\ flushingEvents' \in Nat
    BY <1>3 DEF TypeInv, WalData, accountVars
  <2>2. UNCHANGED diskVars /\ UNCHANGED passVars OBVIOUS
  <2> QED
    BY <1>2, <2>1, <2>2 DEF TypeInv, LogData, WalData, diskVars, passVars
<1>5. CallerData' BY <1>0, SettleType DEF TypeInv, Statuses
<1> QED BY <1>1, <1>2, <1>4, <1>5 DEF TypeInv

-----------------------------------------------------------------------------
(* The flush pass.                                                          *)

LEMMA CallersKept == ASSUME CallerData, UNCHANGED callerVars PROVE CallerData'
BY DEF CallerData, callerVars, batchVars

LEMMA FlagsKept ==
  ASSUME Flags, UNCHANGED <<brokerUp, connected, eventDisconnected, timerArmed>>,
         UNCHANGED <<activeOpen, walLocked, lastBatch>>
  PROVE  Flags'
BY Zenon DEF Flags

LEMMA FlushBeginType ==
  ASSUME Flags, WalData, FlushBegin, UNCHANGED logVars, UNCHANGED timerArmed
  PROVE  Flags' /\ WalData'
<1> USE DEF FlushBegin, logVars, producerVars, diskVars, accountVars
<1>1. Flags' BY Zenon DEF Flags
<1>2. WalData' BY DEF WalData, FlushPcs
<1> QED BY <1>1, <1>2

LEMMA TypeFlushFileStep == TypeInv /\ FlushFileStep => TypeInv'
<1> SUFFICES ASSUME TypeInv, FlushFileStep PROVE TypeInv' OBVIOUS
<1> USE DEF FlushFileStep, logVars, producerVars
<1>0. UNCHANGED timerArmed BY DEF callerVars, batchVars
<1>1. Flags'
  BY <1>0, Zenon DEF TypeInv, Flags, FlushRotate, FlushRename, FlushRead, FlushTruncate,
                     FlushAdvance, FlushUnlink, diskVars, accountVars
<1>2. LogData' BY DEF TypeInv, LogData
<1>3. WalData'
  <2>0. flushingEvents' \in Nat /\ activeBytes' \in Nat /\ flushingBytes' \in Nat
    <3>1. CASE FlushAdvance
      <4>1. CASE flushingEvents > BatchSize /\ BatchSize \in Nat
        BY <3>1, <4>1 DEF FlushAdvance, CountFlushed, TypeInv, WalData
      <4>2. BatchSize \in Nat
        <5>1. IsFiniteSet(from+1..to) BY FS_Interval DEF TypeInv, WalData
        <5>2. IsFiniteSet({k \in from+1..to : flushingFile[k] # Torn})
          BY <5>1, FS_Subset
        <5> QED BY <5>2, FS_CardinalityType DEF BatchSize
      <4>3. CASE ~ (flushingEvents > BatchSize)
        BY <3>1, <4>3 DEF FlushAdvance, CountFlushed, TypeInv, WalData
      <4> QED BY <4>1, <4>2, <4>3
    <3>2. CASE FlushRename BY <3>2 DEF FlushRename, TypeInv, WalData
    <3>3. CASE UNCHANGED accountVars BY <3>3 DEF accountVars, TypeInv, WalData
    <3> QED BY <3>1, <3>2, <3>3 DEF FlushRotate, FlushRead, FlushTruncate, FlushUnlink
  <2>1. flushPc' \in FlushPcs /\ from' \in Nat /\ to' \in Nat
    BY DEF TypeInv, WalData, FlushPcs, FlushRotate, FlushRename, FlushRead,
           FlushTruncate, FlushAdvance, FlushUnlink
  <2>2. /\ activeFile' \in Seq(Lines) /\ flushingFile' \in Seq(Lines)
        /\ offset' \in Nat /\ producedUpTo' \in Nat
        /\ UNCHANGED tornWrites
    <3>0. <<>> \in Seq(Lines) BY EmptySeq
    <3>1. CASE FlushRotate \/ FlushTruncate
      BY <3>1 DEF TypeInv, WalData, FlushRotate, FlushTruncate
    <3>2. CASE FlushRename BY <3>0, <3>2 DEF TypeInv, WalData, FlushRename
    <3>3. CASE FlushRead BY <3>3 DEF TypeInv, WalData, FlushRead, diskVars
    <3>4. CASE FlushAdvance BY <3>4 DEF TypeInv, WalData, FlushAdvance
    <3>5. CASE FlushUnlink BY <3>0, <3>5 DEF TypeInv, WalData, FlushUnlink
    <3> QED BY <3>1, <3>2, <3>3, <3>4, <3>5
  <2> QED BY <2>0, <2>1, <2>2 DEF TypeInv, WalData
<1>4. CallerData' BY CallersKept DEF TypeInv
<1> QED BY <1>1, <1>2, <1>3, <1>4 DEF TypeInv

LEMMA TypeFlushTick == TypeInv /\ FlushTick => TypeInv'
<1> SUFFICES ASSUME TypeInv, FlushTick PROVE TypeInv' OBVIOUS
<1>1. Flags' /\ WalData'
  BY FlushBeginType DEF TypeInv, FlushTick, callerVars, batchVars
<1>2. LogData' BY DEF TypeInv, LogData, FlushTick, logVars, producerVars
<1>3. CallerData' BY CallersKept DEF TypeInv, FlushTick
<1> QED BY <1>1, <1>2, <1>3 DEF TypeInv

LEMMA TypeFlushFaultyStep == TypeInv /\ FlushFaultyStep => TypeInv'
<1> SUFFICES ASSUME TypeInv, FlushFaultyStep PROVE TypeInv' OBVIOUS
<1> USE DEF FlushFaultyStep, FlushIoError, FlushUnlinkOffset, FlushGiveUp
<1>1. Flags'
  BY Zenon DEF TypeInv, Flags, producerVars, callerVars, batchVars, diskVars
<1>2. LogData' /\ faults' >= faults
  BY DEF TypeInv, LogData, SpendFault, producerVars
<1>3. WalData'
  BY <1>2 DEF TypeInv, LogData, WalData, FlushPcs, diskVars, accountVars
<1>4. CallerData' BY CallersKept DEF TypeInv
<1> QED BY <1>1, <1>2, <1>3, <1>4 DEF TypeInv

LEMMA TypeFlushLogStep == TypeInv /\ FlushLogStep => TypeInv'
<1> SUFFICES ASSUME TypeInv, FlushLogStep PROVE TypeInv' OBVIOUS
<1> USE DEF FlushLogStep
<1>0. UNCHANGED timerArmed BY DEF callerVars, batchVars
<1>1. Flags'
  BY <1>0, Zenon
     DEF TypeInv, Flags, FlushConnect, FlushSendOk, FlushSendFail, ConnectOk, ConnectFail,
         SendOk, SendFail, FlushStartReading, FlushGiveUp, producerVars, diskVars
<1>2. LogData' /\ faults' >= faults
  <2>1. CASE FlushConnect
    BY <2>1 DEF TypeInv, LogData, FlushConnect, ConnectOk, ConnectFail, producerVars
  <2>2. CASE FlushSendOk BY <2>2, SendOkType DEF TypeInv, LogData, FlushSendOk
  <2>3. CASE FlushSendFail BY <2>3, SendFailType DEF TypeInv, FlushSendFail
  <2> QED BY <2>1, <2>2, <2>3
<1>3. WalData'
  <2>1. CASE FlushConnect
    BY <2>1 DEF TypeInv, WalData, FlushPcs, FlushConnect, FlushStartReading, FlushGiveUp,
                diskVars, accountVars
  <2>2. CASE FlushSendOk
    <3>1. BatchSize \in Nat
      <4>1. IsFiniteSet(from+1..to) BY FS_Interval DEF TypeInv, WalData
      <4>2. IsFiniteSet({k \in from+1..to : flushingFile[k] # Torn}) BY <4>1, FS_Subset
      <4> QED BY <4>2, FS_CardinalityType DEF BatchSize
    <3>2. flushingEvents' \in Nat /\ activeBytes' \in Nat /\ flushingBytes' \in Nat
      BY <2>2, <3>1 DEF TypeInv, WalData, FlushSendOk, CountFlushed, accountVars
    <3> QED BY <1>2, <2>2, <3>2 DEF TypeInv, LogData, WalData, FlushPcs, FlushSendOk
  <2>3. CASE FlushSendFail
    BY <1>2, <2>3 DEF TypeInv, LogData, WalData, FlushPcs, FlushSendFail, FlushGiveUp,
                diskVars, accountVars
  <2> QED BY <2>1, <2>2, <2>3
<1>4. CallerData' BY CallersKept DEF TypeInv
<1> QED BY <1>1, <1>2, <1>3, <1>4 DEF TypeInv

-----------------------------------------------------------------------------
(* Shutdown, death and the environment.                                     *)

LEMMA TypeShutdown ==
  ASSUME TypeInv, Sigterm \/ DrainBegin \/ DrainEnd \/ DrainTimeout \/ StopAndDisconnect
  PROVE  TypeInv'
<1> USE DEF Sigterm, DrainBegin, DrainEnd, DrainTimeout, StopAndDisconnect
<1>0. UNCHANGED timerArmed /\ UNCHANGED brokerUp BY DEF batchVars, logVars
<1>1. LogData' /\ UNCHANGED faults
  BY DEF TypeInv, LogData, Disconnect, logVars, producerVars
<1>2. ASSUME UNCHANGED walVars PROVE Flags' /\ WalData'
  <2>1. Flags'
    BY <1>0, <1>2, Zenon DEF TypeInv, Flags, Disconnect, logVars, producerVars, walVars,
                         diskVars, accountVars, passVars
  <2>2. WalData' BY <1>1, <1>2, WalKept DEF TypeInv, LogData
  <2> QED BY <2>1, <2>2
<1>3. ASSUME FlushBegin, UNCHANGED logVars PROVE Flags' /\ WalData'
  BY <1>0, <1>3, FlushBeginType DEF TypeInv
<1>4. Flags' /\ WalData' BY <1>2, <1>3
<1>5. CallerData' BY DEF TypeInv, CallerData, Phases, batchVars
<1> QED BY <1>1, <1>4, <1>5 DEF TypeInv

LEMMA TypeDie == TypeInv /\ (Exit \/ Crash \/ CrashMidWrite) => TypeInv'
<1> SUFFICES ASSUME TypeInv, Exit \/ Crash \/ CrashMidWrite PROVE TypeInv' OBVIOUS
<1>0. Die BY DEF Exit, Crash, CrashMidWrite
<1>1. Flags'
  BY <1>0, Zenon DEF TypeInv, Flags, Exit, Crash, CrashMidWrite, AppendTorn, Die,
                     ForgetMemory, diskVars
<1>2. LogData' /\ faults' >= faults
  BY <1>0 DEF TypeInv, LogData, Exit, Crash, CrashMidWrite, AppendTorn, SpendFault, Die
<1>3. CallerData'
  <2>1. <<>> \in Seq(Msgs) /\ <<>> \in Seq(Seq(Msgs)) BY EmptySeq
  <2> QED BY <1>0, <2>1 DEF TypeInv, CallerData, Die, Phases, Statuses
<1>4. WalData'
  <2>1. CASE UNCHANGED diskVars
    BY <1>0, <1>2, <2>1 DEF TypeInv, LogData, WalData, Die, ForgetMemory, FlushPcs, diskVars
  <2>2. CASE CrashMidWrite
    <3>1. activeFile' \in Seq(Lines)
      BY <2>2, QueueHead, WriteType DEF TypeInv, CrashMidWrite
    <3>2. tornWrites' \in Nat /\ tornWrites' <= faults'
      BY <2>2 DEF TypeInv, LogData, WalData, CrashMidWrite, AppendTorn, SpendFault
    <3> QED
      BY <1>0, <2>2, <3>1, <3>2 DEF TypeInv, WalData, CrashMidWrite, AppendTorn, Die,
                                ForgetMemory, FlushPcs
  <2> QED BY <2>1, <2>2 DEF Exit, Crash
<1> QED BY <1>1, <1>2, <1>3, <1>4 DEF TypeInv

LEMMA TypeEnvironment == TypeInv /\ Environment => TypeInv'
<1> SUFFICES ASSUME TypeInv, Environment PROVE TypeInv' OBVIOUS
<1> USE DEF Environment, BrokerFlip, SocketDropped, producerVars
<1>1. Flags'
  BY Zenon DEF TypeInv, Flags, walVars, diskVars, accountVars, passVars, callerVars, batchVars
<1>2. LogData' BY DEF TypeInv, LogData
<1>3. WalData' BY WalKept DEF TypeInv, LogData
<1>4. CallerData' BY CallersKept DEF TypeInv
<1> QED BY <1>1, <1>2, <1>3, <1>4 DEF TypeInv

LEMMA TypeNext == TypeInv /\ [Next]_vars => TypeInv'
<1> SUFFICES ASSUME TypeInv, [Next]_vars PROVE TypeInv' OBVIOUS
<1>1. CASE Boot BY <1>1, TypeBoot
<1>2. CASE \E r \in Requests : Accept(r) \/ Shed(r) BY <1>2, TypeAccept, TypeShed
<1>3. CASE LingerOver BY <1>3, TypeLingerOver
<1>4. CASE AnchorStep
  BY <1>4, TypeAnchorBegin, TypeAnchorSend, TypeAnchorRefused, TypeAnchorWrite,
     TypeAnchorSync DEF AnchorStep
<1>5. CASE FlushStep
  BY <1>5, TypeFlushTick, TypeFlushFileStep, TypeFlushFaultyStep, TypeFlushLogStep
     DEF FlushStep
<1>6. CASE Sigterm \/ ShutdownStep BY <1>6, TypeShutdown, TypeDie DEF ShutdownStep
<1>7. CASE Crash \/ CrashMidWrite BY <1>7, TypeDie
<1>8. CASE Environment BY <1>8, TypeEnvironment
<1>9. CASE UNCHANGED vars
  <2>1. UNCHANGED logVars /\ UNCHANGED walVars /\ UNCHANGED callerVars BY <1>9 DEF vars
  <2>2. Flags'
    BY <2>1, Zenon DEF TypeInv, Flags, logVars, producerVars, walVars, diskVars,
                       accountVars, passVars, callerVars, batchVars
  <2>3. LogData' BY <2>1 DEF TypeInv, LogData, logVars, producerVars
  <2>4. WalData' BY <2>1, WalKept DEF TypeInv, LogData, logVars
  <2>5. CallerData' BY <2>1, CallersKept DEF TypeInv
  <2> QED BY <2>2, <2>3, <2>4, <2>5 DEF TypeInv
<1> QED BY <1>1, <1>2, <1>3, <1>4, <1>5, <1>6, <1>7, <1>8, <1>9 DEF Next

\* Every variable keeps its type: in particular no account goes negative and
\* no batch in the chain is ever looked for when the chain is empty.
THEOREM CollectorTypeCorrect == Spec => []TypeOK
<1>1. Spec => []TypeInv BY TypeInit, TypeNext, PTL DEF Spec
<1> QED BY <1>1, TypeInvOK, PTL

-----------------------------------------------------------------------------
(* No acknowledged message is lost unless an append was cut short.          *)
(*                                                                         *)
(* The property is not inductive: it survives an unlink only because every *)
(* line of the file is known to be on the log, a restart only because the  *)
(* sidecar never runs ahead of the log, and a rotation only because the    *)
(* .flushing file is absent and the sidecar gone.  WalOK says so.          *)

\* The messages on the first n lines of file f are on the log.
Covered(f, n, log) == \A k \in 1..Len(f) : (k <= n /\ f[k] # Torn) => log[f[k]] > 0

WalOK ==
  /\ phase = "down" => /\ flushPc = "idle" /\ anchorPc = "idle"
                       /\ queue = <<>> /\ ~ timerArmed
  /\ (phase # "down" /\ flushingBytes = 0) => flushingFile = <<>>
  /\ flushPc \in {"rotate", "rename"} => flushingFile = <<>> /\ activeBytes > 0
  /\ flushPc = "rename" => offset = 0 /\ walLocked
  /\ flushPc = "unlinkOffset" => flushingFile = <<>>
  /\ anchorPc = "sync" => walLocked /\ flushPc # "rename"
  /\ Covered(flushingFile, offset, onLog)
  /\ flushPc \in {"read", "send"} => Covered(flushingFile, from, onLog)
  /\ (flushPc = "send" /\ lastBatch) => to = Len(flushingFile)
  /\ flushPc \in {"truncate", "advance"} => Covered(flushingFile, to, onLog)
  /\ flushPc = "unlink" => Covered(flushingFile, Len(flushingFile), onLog)

\* What is on the log stays there.
LogGrows == \A m \in Msgs : onLog[m] > 0 => onLog'[m] > 0

LEMMA WalOKInit == Init => WalOK
BY DEF Init, ProducerInit, WalInit, WalOK, Covered

LEMMA LineIsMsg ==
  ASSUME NEW f \in Seq(Lines), NEW k \in 1..Len(f), f[k] # Torn
  PROVE  f[k] \in Msgs
BY DEF Lines

\* Lines on the log stay on the log.
LEMMA CoveredKept ==
  ASSUME NEW f \in Seq(Lines), LogGrows, NEW n, Covered(f, n, onLog)
  PROVE  Covered(f, n, onLog')
<1> SUFFICES ASSUME NEW k \in 1..Len(f), k <= n, f[k] # Torn
             PROVE  onLog'[f[k]] > 0
  BY DEF Covered
<1>1. onLog[f[k]] > 0 BY DEF Covered
<1> QED BY <1>1, LineIsMsg DEF LogGrows

\* Steps of the callers and of the environment.
LEMMA WalOKKept ==
  ASSUME TypeInv, WalOK, LogGrows, UNCHANGED walVars,
         phase = "down" <=> phase' = "down",
         anchorPc' # "sync" \/ anchorPc' = anchorPc,
         phase = "down" => UNCHANGED <<anchorPc, queue, timerArmed>>
  PROVE  WalOK'
<1>1. /\ UNCHANGED <<flushingFile, offset, flushingBytes, activeBytes, walLocked>>
      /\ UNCHANGED <<flushPc, from, to, lastBatch>>
  BY DEF walVars, diskVars, accountVars, passVars
<1>2. \A n : Covered(flushingFile, n, onLog) => Covered(flushingFile, n, onLog')
  BY CoveredKept DEF TypeInv, WalData
<1> QED BY <1>1, <1>2 DEF WalOK

LEMMA WalOKBoot == TypeInv /\ WalOK /\ Boot => WalOK'
<1> SUFFICES ASSUME TypeInv, WalOK, Boot PROVE WalOK' OBVIOUS
<1>1. /\ phase' = "serving" /\ flushPc = "idle" /\ flushPc' = "idle" /\ anchorPc' = "idle"
      /\ UNCHANGED <<flushingFile, onLog>>
  BY DEF WalOK, Boot, Adopt, passVars, batchVars
<1>2. flushingBytes' = 0 => flushingFile' = <<>>
  BY <1>1, EmptySeq DEF Boot, Adopt, TypeInv, WalData
<1>3. Covered(flushingFile', offset', onLog')
  <2>1. CASE UNCHANGED offset BY <1>1, <2>1 DEF WalOK
  <2>2. CASE flushingFile = <<>> BY <1>1, <2>2 DEF Covered
  <2> QED BY <2>1, <2>2 DEF Boot, Adopt
<1> QED BY <1>1, <1>2, <1>3 DEF WalOK

\* An append moves only the active file, its account and the lock.
LEMMA WalOKAppend ==
  ASSUME TypeInv, WalOK,
         AnchorWrite \/ AnchorSync \/ AnchorWriteError \/ AnchorSyncError \/ AnchorShortWrite
  PROVE  WalOK'
<1>1. UNCHANGED <<phase, onLog, flushingFile, offset, flushingBytes, passVars>>
  BY DEF AnchorWrite, AnchorSync, AnchorWriteError, AnchorSyncError, AnchorShortWrite,
         AppendWrite, AppendTorn, AppendAccount, Settle, logVars, diskVars, accountVars
<1>2. phase # "down"
  BY DEF WalOK, AnchorWrite, AnchorSync, AnchorWriteError, AnchorSyncError, AnchorShortWrite
<1>3. activeBytes > 0 => activeBytes' > 0
  <2>1. CASE AnchorSync
    <3>1. Len(Head(queue)) \in Nat BY <2>1, QueueHead DEF AnchorSync, TypeInv
    <3> QED BY <2>1, <3>1 DEF AnchorSync, AppendAccount, TypeInv, WalData
  <2>2. CASE ~ AnchorSync
    BY <2>2 DEF AnchorWrite, AnchorWriteError, AnchorSyncError, AnchorShortWrite, accountVars
  <2> QED BY <2>1, <2>2
<1>4. anchorPc' = "sync" => walLocked' /\ flushPc' # "rename"
  BY <1>1 DEF WalOK, AnchorWrite, AnchorSync, AnchorWriteError, AnchorSyncError,
              AnchorShortWrite, AppendWrite, AppendTorn, Settle, passVars
<1>5. flushPc' = "rename" => walLocked'
  BY <1>1 DEF WalOK, AnchorWrite, AnchorSync, AnchorWriteError, AnchorSyncError,
              AnchorShortWrite, AppendWrite, AppendTorn, AppendAccount, passVars
<1> QED BY <1>1, <1>2, <1>3, <1>4, <1>5 DEF WalOK, passVars

LEMMA WalOKFlushBegin ==
  ASSUME TypeInv, WalOK, FlushBegin, UNCHANGED <<anchorPc, onLog>>,
         phase # "down", phase' # "down"
  PROVE  WalOK'
<1>1. UNCHANGED <<flushingFile, offset, flushingBytes, activeBytes, walLocked, from, to>>
  BY DEF FlushBegin, diskVars, accountVars
<1>2. flushPc = "idle" /\ flushPc' \in {"rotate", "connect"} BY DEF FlushBegin, PassCanStart
<1>3. flushPc' = "rotate" => flushingFile' = <<>> /\ activeBytes' > 0
  BY <1>1 DEF FlushBegin, PassCanStart, WalOK, TypeInv, WalData
<1> QED BY <1>1, <1>2, <1>3 DEF WalOK

LEMMA WalOKFlushFileStep == TypeInv /\ WalOK /\ FlushFileStep => WalOK'
<1> SUFFICES ASSUME TypeInv, WalOK, FlushFileStep PROVE WalOK' OBVIOUS
<1>0. UNCHANGED <<phase, anchorPc, queue, timerArmed, onLog>>
  BY DEF FlushFileStep, callerVars, batchVars, logVars
<1>1. CASE FlushRotate
  <2>1. Covered(flushingFile', 0, onLog') BY <1>0, <1>1 DEF Covered, TypeInv, WalData
  <2> QED BY <1>0, <1>1, <2>1 DEF WalOK, FlushRotate, accountVars
<1>2. CASE FlushRename
  <2>1. flushPc' = "connect" /\ flushingBytes' = activeBytes /\ offset' = 0
    BY <1>2 DEF FlushRename, WalOK
  <2>2. Covered(flushingFile', 0, onLog') BY DEF Covered
  <2>3. flushingBytes' # 0 BY <1>2, <2>1 DEF FlushRename, WalOK
  <2> QED BY <1>0, <1>2, <2>1, <2>2, <2>3 DEF WalOK, FlushRename
<1>3. CASE FlushRead
  <2>1. UNCHANGED <<flushingFile, offset, from, accountVars, walLocked>>
    BY <1>3 DEF FlushRead, diskVars
  <2>2. flushPc = "read" /\ flushPc' \in {"send", "unlink"} BY <1>3 DEF FlushRead
  <2>3. flushPc' = "unlink" => Covered(flushingFile, Len(flushingFile), onLog)
    <3> SUFFICES ASSUME flushPc' = "unlink", NEW k \in 1..Len(flushingFile),
                        flushingFile[k] # Torn
                 PROVE  onLog[flushingFile[k]] > 0
      BY DEF Covered
    <3>1. MsgsIn(flushingFile, from, Len(flushingFile)) = {} BY <1>3 DEF FlushRead
    <3>2. ~ (from < k)
      <4> SUFFICES ASSUME from < k
                   PROVE  flushingFile[k] \in MsgsIn(flushingFile, from, Len(flushingFile))
        BY <3>1
      <4>1. k <= Len(flushingFile) BY DEF TypeInv, WalData
      <4> QED BY <4>1 DEF MsgsIn
    <3>3. k <= from BY <3>2 DEF TypeInv, WalData
    <3> QED BY <2>2, <3>3 DEF WalOK, Covered
  <2>4. (flushPc' = "send" /\ lastBatch') => to' = Len(flushingFile)
    BY <1>3 DEF FlushRead
  <2> QED BY <1>0, <2>1, <2>2, <2>3, <2>4 DEF WalOK, accountVars
<1>4. CASE FlushTruncate
  <2>1. Covered(flushingFile, 0, onLog) BY DEF Covered
  <2> QED BY <1>0, <1>4, <2>1 DEF WalOK, FlushTruncate, accountVars
<1>5. CASE FlushAdvance BY <1>0, <1>5 DEF WalOK, FlushAdvance, CountFlushed
<1>6. CASE FlushUnlink
  <2>1. \A n : Covered(<<>>, n, onLog) BY DEF Covered
  <2> QED BY <1>0, <1>6, <2>1 DEF WalOK, FlushUnlink, accountVars
<1> QED BY <1>1, <1>2, <1>3, <1>4, <1>5, <1>6 DEF FlushFileStep

\* A pass that gives up, or is cut short, leaves only what the files say.
LEMMA WalOKGiveUp ==
  ASSUME TypeInv, WalOK, LogGrows, FlushGiveUp, UNCHANGED <<phase, anchorPc, queue, timerArmed>>
  PROVE  WalOK'
<1>1. /\ UNCHANGED <<flushingFile, offset, flushingBytes, activeBytes, walLocked>>
      /\ flushPc' = "idle"
  BY DEF FlushGiveUp, diskVars, accountVars
<1>2. Covered(flushingFile, offset, onLog')
  BY CoveredKept DEF WalOK, TypeInv, WalData
<1> QED BY <1>1, <1>2 DEF WalOK

LEMMA WalOKFlushFaultyStep == TypeInv /\ WalOK /\ FlushFaultyStep => WalOK'
<1> SUFFICES ASSUME TypeInv, WalOK, FlushFaultyStep PROVE WalOK' OBVIOUS
<1>0. UNCHANGED <<phase, anchorPc, queue, timerArmed, onLog>> /\ LogGrows
  BY DEF FlushFaultyStep, callerVars, batchVars, LogGrows
<1>1. CASE FlushIoError BY <1>0, <1>1, WalOKGiveUp DEF FlushIoError
<1>2. CASE FlushUnlinkOffset
  <2>1. \A n : Covered(<<>>, n, onLog) BY DEF Covered
  <2> QED BY <1>0, <1>2, <2>1 DEF WalOK, FlushUnlinkOffset
<1> QED BY <1>1, <1>2 DEF FlushFaultyStep

LEMMA WalOKFlushLogStep == TypeInv /\ WalOK /\ FlushLogStep => WalOK'
<1> SUFFICES ASSUME TypeInv, WalOK, FlushLogStep PROVE WalOK' OBVIOUS
<1>0. UNCHANGED <<phase, anchorPc, queue, timerArmed>> BY DEF FlushLogStep, callerVars, batchVars
<1>1. CASE FlushConnect
  <2>0. LogGrows BY <1>1 DEF FlushConnect, LogGrows
  <2>1. CASE FlushGiveUp BY <1>0, <2>0, <2>1, WalOKGiveUp
  <2>2. CASE FlushStartReading
    BY <1>0, <1>1, <2>2 DEF WalOK, FlushConnect, FlushStartReading, diskVars, accountVars
  <2> QED BY <1>1, <2>1, <2>2 DEF FlushConnect
<1>2. CASE FlushSendOk
  <2>1. \A m \in Msgs : (m \in MsgsIn(flushingFile, from, to) \/ onLog[m] > 0) => onLog'[m] > 0
    BY <1>2, SendOkType DEF FlushSendOk, TypeInv, Logged
  <2>2. Covered(flushingFile, to, onLog')
    <3> SUFFICES ASSUME NEW k \in 1..Len(flushingFile), k <= to, flushingFile[k] # Torn
                 PROVE  onLog'[flushingFile[k]] > 0
      BY DEF Covered
    <3>1. flushingFile[k] \in Msgs BY LineIsMsg DEF TypeInv, WalData
    <3>2. CASE k <= from BY <1>2, <2>1, <3>1, <3>2 DEF FlushSendOk, WalOK, Covered
    <3>3. CASE from < k BY <2>1, <3>1, <3>3 DEF MsgsIn
    <3> QED BY <3>2, <3>3 DEF TypeInv, WalData
  <2>3. Covered(flushingFile, offset, onLog')
    BY <2>1, CoveredKept DEF WalOK, TypeInv, WalData, LogGrows
  <2>4. lastBatch => to = Len(flushingFile) BY <1>2 DEF FlushSendOk, WalOK
  <2>5. /\ UNCHANGED <<flushingFile, offset, flushingBytes, activeBytes, walLocked, to>>
        /\ (flushPc' = "unlink" /\ lastBatch) \/ flushPc' = "truncate"
    BY <1>2 DEF FlushSendOk, CountFlushed, accountVars
  <2> QED BY <1>0, <1>2, <2>2, <2>3, <2>4, <2>5 DEF WalOK, FlushSendOk
<1>3. CASE FlushSendFail
  <2>1. LogGrows BY <1>3, SendFailType DEF FlushSendFail, TypeInv, Logged, LogGrows
  <2> QED BY <1>0, <1>3, <2>1, WalOKGiveUp DEF FlushSendFail
<1> QED BY <1>1, <1>2, <1>3 DEF FlushLogStep

LEMMA WalOKDie == TypeInv /\ WalOK /\ (Exit \/ Crash \/ CrashMidWrite) => WalOK'
<1> SUFFICES ASSUME TypeInv, WalOK, Exit \/ Crash \/ CrashMidWrite PROVE WalOK' OBVIOUS
<1>1. Die /\ UNCHANGED <<flushingFile, offset>>
  BY DEF Exit, Crash, CrashMidWrite, AppendTorn, diskVars
<1> QED BY <1>1 DEF WalOK, Die, ForgetMemory

LEMMA WalOKNext == TypeInv /\ WalOK /\ [Next]_vars => WalOK'
<1> SUFFICES ASSUME TypeInv, WalOK, [Next]_vars PROVE WalOK' OBVIOUS
<1>a. ASSUME UNCHANGED <<onLog, walVars>>, phase = "down" <=> phase' = "down",
             UNCHANGED anchorPc, phase = "down" => UNCHANGED <<queue, timerArmed>>
      PROVE  WalOK'
  BY <1>a, WalOKKept DEF LogGrows, WalOK
<1>1. CASE Boot BY <1>1, WalOKBoot
<1>2. CASE \E r \in Requests : Accept(r) \/ Shed(r)
  BY <1>2, <1>a DEF Accept, Shed, logVars, batchVars
<1>3. CASE LingerOver BY <1>3, <1>a DEF LingerOver, WalOK, logVars
<1>4. CASE AnchorStep
  <2>1. CASE AnchorBegin \/ AnchorSendOk \/ AnchorSendFail \/ AnchorRefused
    <3>1. LogGrows
      <4>1. CASE AnchorBegin BY <4>1 DEF AnchorBegin, LogGrows
      <4>2. CASE AnchorSendOk
        BY <4>2, SendOkType DEF AnchorSendOk, TypeInv, Logged, LogGrows
      <4>3. CASE AnchorSendFail
        BY <4>3, SendFailType DEF AnchorSendFail, TypeInv, Logged, LogGrows
      <4>4. CASE AnchorRefused BY <4>4 DEF AnchorRefused, logVars, LogGrows
      <4> QED BY <2>1, <4>1, <4>2, <4>3, <4>4
    <3>2. UNCHANGED walVars /\ UNCHANGED phase /\ anchorPc' # "sync"
      BY <2>1 DEF AnchorBegin, AnchorSendOk, AnchorSendFail, AnchorRefused, Settle
    <3>3. phase # "down"
      <4>1. CASE AnchorBegin
        BY <4>1 DEF AnchorBegin, WalOK
      <4>2. CASE ~ AnchorBegin
        BY <2>1, <4>2 DEF AnchorSendOk, AnchorSendFail, AnchorRefused, WalOK
      <4> QED BY <4>1, <4>2
    <3> QED BY <3>1, <3>2, <3>3, WalOKKept
  <2>2. CASE ~ (AnchorBegin \/ AnchorSendOk \/ AnchorSendFail \/ AnchorRefused)
    BY <1>4, <2>2, WalOKAppend DEF AnchorStep
  <2> QED BY <2>1, <2>2
<1>5. CASE FlushTick
  BY <1>5, WalOKFlushBegin DEF FlushTick, logVars, callerVars, batchVars
<1>6. CASE FlushFileStep \/ FlushFaultyStep \/ FlushLogStep
  BY <1>6, WalOKFlushFileStep, WalOKFlushFaultyStep, WalOKFlushLogStep
<1>7. CASE Sigterm \/ DrainEnd \/ DrainTimeout \/ StopAndDisconnect
  BY <1>7, <1>a DEF Sigterm, DrainEnd, DrainTimeout, StopAndDisconnect, logVars, batchVars
<1>8. CASE DrainBegin
  <2>1. CASE FlushBegin
    BY <1>8, <2>1, WalOKFlushBegin DEF DrainBegin, logVars, batchVars
  <2>2. CASE UNCHANGED walVars BY <1>8, <2>2, <1>a DEF DrainBegin, logVars, batchVars
  <2> QED BY <1>8, <2>1, <2>2 DEF DrainBegin
<1>9. CASE Exit \/ Crash \/ CrashMidWrite BY <1>9, WalOKDie
<1>10. CASE Environment
  BY <1>10, <1>a DEF Environment, BrokerFlip, SocketDropped, callerVars, batchVars
<1>11. CASE UNCHANGED vars BY <1>11, <1>a DEF vars, logVars, callerVars, batchVars
<1> QED
  BY <1>1, <1>2, <1>3, <1>4, <1>5, <1>6, <1>7, <1>8, <1>9, <1>10, <1>11
     DEF Next, FlushStep, ShutdownStep

-----------------------------------------------------------------------------
(* What is durable stays durable.                                           *)

DurableGrows == \A m \in Msgs : Durable(m) => Durable(m)'

\* Neither file changes and the sidecar does not advance.
LEMMA DurableFilesKept ==
  ASSUME TypeInv, LogGrows, UNCHANGED <<activeFile, flushingFile>>,
         offset' \in {0, offset} \/ flushingFile = <<>>
  PROVE  DurableGrows
<1> SUFFICES ASSUME NEW m \in Msgs, Durable(m) PROVE Durable(m)' BY DEF DurableGrows
<1>1. CASE Logged(m) BY <1>1 DEF LogGrows, Durable, Logged
<1>2. CASE \E k \in 1..Len(activeFile) : activeFile[k] = m
  BY <1>2 DEF Durable, Recoverable
<1>3. CASE \E k \in 1..Len(flushingFile) : k > offset /\ flushingFile[k] = m
  <2>1. PICK k \in 1..Len(flushingFile) : k > offset /\ flushingFile[k] = m BY <1>3
  <2>2. flushingFile # <<>> BY <2>1
  <2>3. k > offset' BY <2>1, <2>2
  <2> QED BY <2>1, <2>3 DEF Durable, Recoverable
<1> QED BY <1>1, <1>2, <1>3 DEF Durable, Recoverable

\* A complete append adds lines to the active file and changes none.
LEMMA AppendKeeps ==
  ASSUME TypeInv, NEW w \in Seq(Msgs), AppendWrite(w), ~ activeOpen
  PROVE  /\ ~ activeOpen'
         /\ \A m \in Msgs : Holds(activeFile, m) \/ Holds(w, m) => Holds(activeFile, m)'
<1>1. w \in Seq(Lines) /\ activeFile \in Seq(Lines)
  BY SeqMonotonic DEF Lines, TypeInv, WalData
<1>2. activeFile' = activeFile \o w
  BY <1>1, Zenon DEF AppendWrite, Extend
<1>3. ~ activeOpen' BY DEF AppendWrite
<1>4. ASSUME NEW m \in Msgs, Holds(activeFile, m) PROVE Holds(activeFile \o w, m)
  BY <1>1, <1>4, ExtendClosed DEF Holds
<1>5. ASSUME NEW m \in Msgs, Holds(w, m) PROVE Holds(activeFile \o w, m)
  <2>1. PICK k \in 1..Len(w) : w[k] = m BY <1>5 DEF Holds
  <2>2. (activeFile \o w)[Len(activeFile) + k] = m BY <1>1, <2>1, ExtendClosed
  <2>3. Len(activeFile) + k \in 1..Len(activeFile \o w) BY <1>1, ExtendClosed
  <2> QED BY <2>2, <2>3 DEF Holds
<1> QED BY <1>2, <1>3, <1>4, <1>5 DEF Holds

LEMMA DurableAppend ==
  ASSUME TypeInv, NEW w \in Seq(Msgs), AppendWrite(w), ~ activeOpen, UNCHANGED onLog
  PROVE  DurableGrows
<1>1. UNCHANGED <<flushingFile, offset>> BY DEF AppendWrite
<1>2. \A m \in Msgs : Holds(activeFile, m) => Holds(activeFile, m)' BY AppendKeeps
<1> QED BY <1>1, <1>2 DEF DurableGrows, Durable, Recoverable, Logged, Holds

LEMMA DurableFlushFileStep ==
  TypeInv /\ WalOK /\ FlushFileStep => DurableGrows
<1> SUFFICES ASSUME TypeInv, WalOK, FlushFileStep PROVE DurableGrows OBVIOUS
<1>0. LogGrows /\ UNCHANGED onLog BY DEF FlushFileStep, logVars, LogGrows
<1>1. CASE FlushRotate \/ FlushRead \/ FlushTruncate
  BY <1>0, <1>1, DurableFilesKept DEF FlushRotate, FlushRead, FlushTruncate, diskVars
<1>2. CASE FlushRename
  <2>1. flushingFile' = activeFile /\ offset' = 0 /\ flushingFile = <<>>
    BY <1>2 DEF FlushRename, WalOK
  <2> QED BY <1>0, <2>1 DEF DurableGrows, Durable, Recoverable, Logged
<1>3. CASE FlushAdvance
  <2>1. UNCHANGED <<activeFile, flushingFile>> /\ offset' = to BY <1>3 DEF FlushAdvance
  <2>2. Covered(flushingFile, to, onLog) BY <1>3 DEF FlushAdvance, WalOK
  <2>3. ASSUME NEW m \in Msgs, NEW k \in 1..Len(flushingFile), flushingFile[k] = m
        PROVE  Logged(m) \/ k > to
    BY <2>2, <2>3, WalAssumption DEF Covered, Logged, TypeInv, WalData
  <2> QED BY <1>0, <2>1, <2>3 DEF DurableGrows, Durable, Recoverable, Logged
<1>4. CASE FlushUnlink
  <2>1. UNCHANGED activeFile BY <1>4 DEF FlushUnlink
  <2>2. Covered(flushingFile, Len(flushingFile), onLog) BY <1>4 DEF FlushUnlink, WalOK
  <2>3. ASSUME NEW m \in Msgs, NEW k \in 1..Len(flushingFile), flushingFile[k] = m
        PROVE  Logged(m)
    BY <2>2, <2>3, WalAssumption DEF Covered, Logged, TypeInv, WalData
  <2> QED BY <1>0, <2>1, <2>3 DEF DurableGrows, Durable, Recoverable, Logged
<1> QED BY <1>1, <1>2, <1>3, <1>4 DEF FlushFileStep

\* The log grows in every step.
LEMMA LogGrowsNext == TypeInv /\ [Next]_vars => LogGrows
<1> SUFFICES ASSUME TypeInv, [Next]_vars PROVE LogGrows OBVIOUS
<1>0. UNCHANGED onLog => LogGrows BY DEF LogGrows
<1>1. CASE AnchorSendOk BY <1>1, SendOkType DEF AnchorSendOk, TypeInv, Logged, LogGrows
<1>2. CASE AnchorSendFail
  BY <1>2, SendFailType DEF AnchorSendFail, TypeInv, Logged, LogGrows
<1>3. CASE FlushSendOk BY <1>3, SendOkType DEF FlushSendOk, TypeInv, Logged, LogGrows
<1>4. CASE FlushSendFail BY <1>4, SendFailType DEF FlushSendFail, TypeInv, Logged, LogGrows
<1>5. CASE Exit \/ Crash \/ CrashMidWrite
  BY <1>0, <1>5 DEF Exit, Crash, CrashMidWrite, Die
<1>6. CASE AnchorStep /\ ~ AnchorSendOk /\ ~ AnchorSendFail
  BY <1>0, <1>6 DEF AnchorStep, AnchorBegin, AnchorRefused, AnchorWrite, AnchorSync,
       AnchorWriteError, AnchorSyncError, AnchorShortWrite, logVars
<1>7. CASE FlushStep /\ ~ FlushSendOk /\ ~ FlushSendFail
  BY <1>0, <1>7 DEF FlushStep, FlushTick, FlushFileStep, FlushFaultyStep, FlushLogStep,
       FlushConnect, logVars
<1>8. CASE Sigterm \/ DrainBegin \/ DrainEnd \/ DrainTimeout \/ StopAndDisconnect
  BY <1>0, <1>8 DEF Sigterm, DrainBegin, DrainEnd, DrainTimeout, StopAndDisconnect, logVars
<1>9. CASE Boot \/ LingerOver \/ Environment \/ UNCHANGED vars
  BY <1>0, <1>9 DEF Boot, LingerOver, Environment, BrokerFlip, SocketDropped, vars, logVars
<1>10. CASE \E r \in Requests : Accept(r) \/ Shed(r)
  BY <1>0, <1>10 DEF Accept, Shed, logVars
<1> QED
  BY <1>1, <1>2, <1>3, <1>4, <1>5, <1>6, <1>7, <1>8, <1>9, <1>10 DEF Next, ShutdownStep

\* As long as no append was cut short, no step gives up a durable message.
LEMMA DurableNext ==
  ASSUME TypeInv, WalOK, [Next]_vars, ~ activeOpen, tornWrites' = tornWrites
  PROVE  DurableGrows
<1>0. LogGrows BY LogGrowsNext
<1>1. ASSUME UNCHANGED diskVars PROVE DurableGrows
  BY <1>0, <1>1, DurableFilesKept DEF diskVars
<1>2. CASE Boot BY <1>0, <1>2, DurableFilesKept DEF Boot, Adopt
<1>3. CASE FlushFileStep BY <1>3, DurableFlushFileStep
<1>4. CASE FlushFaultyStep
  BY <1>0, <1>1, <1>4, DurableFilesKept
     DEF FlushFaultyStep, FlushIoError, FlushGiveUp, FlushUnlinkOffset
<1>5. CASE FlushLogStep
  <2>1. CASE FlushConnect \/ FlushSendFail
    BY <1>1, <2>1 DEF FlushConnect, FlushSendFail, FlushStartReading, FlushGiveUp
  <2>2. CASE FlushSendOk BY <1>0, <2>2, DurableFilesKept DEF FlushSendOk
  <2> QED BY <1>5, <2>1, <2>2 DEF FlushLogStep
<1>6. CASE AnchorWrite
  <2>1. Head(queue) \in Seq(Msgs) BY <1>6, QueueHead DEF AnchorWrite, TypeInv
  <2> QED BY <1>6, <2>1, DurableAppend DEF AnchorWrite, logVars
<1>7. CASE AnchorWriteError \/ AnchorShortWrite \/ CrashMidWrite
  <2>1. tornWrites' = tornWrites + 1
    BY <1>7 DEF AnchorWriteError, AnchorShortWrite, CrashMidWrite, AppendTorn
  <2> QED BY <2>1 DEF TypeInv, WalData
<1>8. CASE \/ AnchorBegin \/ AnchorSendOk \/ AnchorSendFail \/ AnchorRefused
           \/ AnchorSync \/ AnchorSyncError
  BY <1>1, <1>8 DEF AnchorBegin, AnchorSendOk, AnchorSendFail, AnchorRefused, AnchorSync,
       AnchorSyncError, walVars
<1>9. CASE FlushTick \/ DrainBegin
  BY <1>1, <1>9 DEF FlushTick, DrainBegin, FlushBegin, walVars
<1>10. CASE Sigterm \/ DrainEnd \/ DrainTimeout \/ StopAndDisconnect
  BY <1>1, <1>10 DEF Sigterm, DrainEnd, DrainTimeout, StopAndDisconnect, walVars
<1>11. CASE Exit \/ Crash BY <1>1, <1>11 DEF Exit, Crash
<1>12. CASE LingerOver \/ Environment \/ UNCHANGED vars
  BY <1>1, <1>12 DEF LingerOver, Environment, vars, walVars
<1>13. CASE \E r \in Requests : Accept(r) \/ Shed(r)
  BY <1>1, <1>13 DEF Accept, Shed, walVars
<1> QED
  BY <1>2, <1>3, <1>4, <1>5, <1>6, <1>7, <1>8, <1>9, <1>10, <1>11, <1>12, <1>13
     DEF Next, AnchorStep, FlushStep, ShutdownStep

-----------------------------------------------------------------------------
(* What is acknowledged is durable.                                         *)

\* The batch whose append is being synced is in the active file.
Kept ==
  tornWrites = 0 =>
    /\ ~ activeOpen
    /\ anchorPc = "sync" =>
         \A m \in Msgs : Holds(Head(queue), m) => Holds(activeFile, m)
    /\ AckedDurable

LEMMA KeptInit == Init => Kept
BY DEF Init, WalInit, Kept, AckedDurable

\* The faults that cut an append short.
Tearing == {"crash", "error", "short"}

LEMMA TornWritesGrow ==
  ASSUME TypeInv, [Next]_vars
  PROVE  \/ tornWrites' = tornWrites
         \/ tornWrites' = tornWrites + 1 /\ IoFaults \cap Tearing # {}
<1> USE DEF Tearing
<1>1. CASE AnchorStep
  BY <1>1 DEF AnchorStep, AnchorBegin, AnchorSendOk, AnchorSendFail, AnchorRefused,
       AnchorWrite, AnchorSync, AnchorWriteError, AnchorSyncError, AnchorShortWrite,
       AppendWrite, AppendTorn, walVars, diskVars
<1>2. CASE FlushStep
  BY <1>2 DEF FlushStep, FlushTick, FlushBegin, FlushFileStep, FlushFaultyStep,
       FlushLogStep, FlushRotate, FlushRename, FlushRead, FlushTruncate, FlushAdvance,
       FlushUnlink, FlushIoError, FlushUnlinkOffset, FlushConnect, FlushSendOk,
       FlushSendFail, FlushStartReading, FlushGiveUp, diskVars
<1>3. CASE Sigterm \/ ShutdownStep
  BY <1>3 DEF Sigterm, ShutdownStep, DrainBegin, DrainEnd, DrainTimeout, FlushBegin,
       StopAndDisconnect, Exit, walVars, diskVars
<1>4. CASE Boot \/ Crash \/ CrashMidWrite
  BY <1>4 DEF Boot, Adopt, Crash, CrashMidWrite, AppendTorn, diskVars
<1>5. CASE LingerOver \/ Environment \/ UNCHANGED vars
  BY <1>5 DEF LingerOver, Environment, vars, walVars, diskVars
<1>6. CASE \E r \in Requests : Accept(r) \/ Shed(r)
  BY <1>6 DEF Accept, Shed, walVars, diskVars
<1> QED BY <1>1, <1>2, <1>3, <1>4, <1>5, <1>6 DEF Next

\* Only a produce or a completed append acknowledges anything.
LEMMA AckedBy ==
  ASSUME TypeInv, [Next]_vars, NEW m \in Msgs, status'[m] = "acked", status[m] # "acked"
  PROVE  (AnchorSendOk \/ AnchorSync) /\ Holds(Head(queue), m)
<1> USE DEF Tell, TypeInv, CallerData
<1>1. CASE AnchorSendOk \/ AnchorSync
  BY <1>1 DEF AnchorSendOk, AnchorSync, Settle
<1>2. CASE AnchorStep /\ ~ AnchorSendOk /\ ~ AnchorSync
  BY <1>2 DEF AnchorStep, AnchorBegin, AnchorSendFail, AnchorRefused, AnchorWrite,
       AnchorWriteError, AnchorSyncError, AnchorShortWrite, Settle
<1>3. CASE FlushStep
  BY <1>3 DEF FlushStep, FlushTick, FlushFileStep, FlushFaultyStep, FlushLogStep, callerVars
<1>4. CASE Sigterm \/ DrainBegin \/ DrainEnd \/ DrainTimeout \/ StopAndDisconnect
  BY <1>4 DEF Sigterm, DrainBegin, DrainEnd, DrainTimeout, StopAndDisconnect
<1>5. CASE Exit \/ Crash \/ CrashMidWrite BY <1>5 DEF Exit, Crash, CrashMidWrite, Die
<1>6. CASE Boot \/ LingerOver \/ Environment \/ UNCHANGED vars
  BY <1>6 DEF Boot, LingerOver, Environment, vars, callerVars
<1>7. CASE \E r \in Requests : Accept(r) \/ Shed(r) BY <1>7 DEF Accept, Shed
<1> QED BY <1>1, <1>2, <1>3, <1>4, <1>5, <1>6, <1>7 DEF Next, ShutdownStep

\* Batches chained behind the head do not move it.
LEMMA HeadStays ==
  ASSUME TypeInv, queue # <<>>, NEW b \in Seq(Msgs), queue' = Append(queue, b)
  PROVE  Head(queue') = Head(queue)
<1>1. queue \in Seq(Seq(Msgs)) /\ Len(queue) > 0 BY EmptySeq DEF TypeInv, CallerData
<1> QED BY <1>1, AppendProperties

SyncedInFile ==
  anchorPc = "sync" => \A m \in Msgs : Holds(Head(queue), m) => Holds(activeFile, m)

LEMMA SyncedInFileNext ==
  ASSUME TypeInv, WalOK, [Next]_vars, ~ activeOpen, tornWrites' = tornWrites, SyncedInFile
  PROVE  ~ activeOpen' /\ SyncedInFile'
<1>1. ASSUME UNCHANGED <<activeFile, activeOpen, queue>>,
             anchorPc' = anchorPc \/ anchorPc' # "sync"
      PROVE  ~ activeOpen' /\ SyncedInFile'
  BY <1>1, Zenon DEF SyncedInFile, Holds
<1>2. ASSUME UNCHANGED <<activeFile, activeOpen>>, anchorPc' # "sync"
      PROVE  ~ activeOpen' /\ SyncedInFile'
  BY <1>2, Zenon DEF SyncedInFile
<1>3. CASE AnchorWrite
  <2>1. Head(queue) \in Seq(Msgs) /\ UNCHANGED queue
    BY <1>3, QueueHead DEF AnchorWrite, TypeInv
  <2>2. /\ ~ activeOpen'
        /\ \A m \in Msgs : Holds(Head(queue), m) => Holds(activeFile, m)'
    BY <1>3, <2>1, AppendKeeps DEF AnchorWrite
  <2> QED BY <2>1, <2>2, Zenon DEF SyncedInFile, Holds
<1>4. CASE AnchorWriteError \/ AnchorShortWrite \/ CrashMidWrite
  <2>1. tornWrites' = tornWrites + 1
    BY <1>4 DEF AnchorWriteError, AnchorShortWrite, CrashMidWrite, AppendTorn
  <2> QED BY <2>1 DEF TypeInv, WalData
<1>5. CASE \/ AnchorBegin \/ AnchorSendOk \/ AnchorSendFail \/ AnchorRefused
           \/ AnchorSync \/ AnchorSyncError
  BY <1>2, <1>5 DEF AnchorBegin, AnchorSendOk, AnchorSendFail, AnchorRefused, AnchorSync,
       AnchorSyncError, Settle, walVars, diskVars
<1>6. CASE FlushRename /\ UNCHANGED callerVars
  <2>1. ~ activeOpen' BY <1>6 DEF FlushRename
  <2>2. anchorPc' # "sync" BY <1>6 DEF FlushRename, WalOK, callerVars, batchVars
  <2> QED BY <2>1, <2>2 DEF SyncedInFile
<1>7. CASE FlushFileStep /\ ~ FlushRename
  BY <1>1, <1>7 DEF FlushFileStep, FlushRotate, FlushRead, FlushTruncate, FlushAdvance,
       FlushUnlink, diskVars, callerVars, batchVars
<1>8. CASE FlushFaultyStep
  BY <1>1, <1>8 DEF FlushFaultyStep, FlushIoError, FlushGiveUp, FlushUnlinkOffset,
       diskVars, callerVars, batchVars
<1>9. CASE FlushLogStep
  BY <1>1, <1>9 DEF FlushLogStep, FlushConnect, FlushSendOk, FlushSendFail,
       FlushStartReading, FlushGiveUp, diskVars, callerVars, batchVars
<1>10. CASE FlushTick \/ DrainBegin
  BY <1>1, <1>10 DEF FlushTick, DrainBegin, FlushBegin, walVars, diskVars, callerVars, batchVars
<1>11. CASE Sigterm \/ DrainEnd \/ DrainTimeout \/ StopAndDisconnect
  BY <1>1, <1>11 DEF Sigterm, DrainEnd, DrainTimeout, StopAndDisconnect, walVars, diskVars,
       batchVars
<1>12. CASE Exit \/ Crash BY <1>2, <1>12 DEF Exit, Crash, Die, diskVars
<1>13. CASE Boot \/ Environment \/ UNCHANGED vars
  BY <1>1, <1>13 DEF Boot, Adopt, Environment, vars, walVars, diskVars, callerVars, batchVars
<1>14. CASE LingerOver \/ \E r \in Requests : Accept(r) \/ Shed(r)
  <2>1. UNCHANGED <<activeFile, activeOpen, anchorPc>>
    BY <1>14 DEF LingerOver, Accept, Shed, walVars, diskVars, batchVars
  <2>2. CASE anchorPc = "sync"
    <3>1. queue # <<>> BY <2>2 DEF TypeInv, CallerData
    <3>2. UNCHANGED queue \/ \E b \in Seq(Msgs) : queue' = Append(queue, b)
      <4>1. \A r \in Requests : buffer \o r \in Seq(Msgs)
        BY RequestAssumption DEF TypeInv, CallerData
      <4>2. buffer \in Seq(Msgs) BY DEF TypeInv, CallerData
      <4> QED
        BY <1>14, <4>1, <4>2 DEF LingerOver, Accept, Shed, TakeBatch, batchVars
    <3>3. Head(queue') = Head(queue) BY <3>1, <3>2, HeadStays
    <3> QED BY <2>1, <3>3, Zenon DEF SyncedInFile, Holds
  <2>3. CASE anchorPc # "sync" BY <1>2, <2>1, <2>3
  <2> QED BY <2>2, <2>3
<1> QED
  BY <1>3, <1>4, <1>5, <1>6, <1>7, <1>8, <1>9, <1>10, <1>11, <1>12, <1>13, <1>14
     DEF Next, AnchorStep, FlushStep, FlushFileStep, ShutdownStep

LEMMA KeptNext == TypeInv /\ WalOK /\ Kept /\ [Next]_vars => Kept'
<1> SUFFICES ASSUME TypeInv, WalOK, Kept, [Next]_vars, tornWrites' = 0
             PROVE  ~ activeOpen' /\ SyncedInFile' /\ AckedDurable'
  BY DEF Kept, SyncedInFile
<1>1. tornWrites = 0 /\ tornWrites' = tornWrites
  BY TornWritesGrow DEF TypeInv, WalData
<1>2. ~ activeOpen /\ SyncedInFile /\ AckedDurable BY <1>1 DEF Kept, SyncedInFile
<1>3. ~ activeOpen' /\ SyncedInFile' BY <1>1, <1>2, SyncedInFileNext
<1>4. ASSUME NEW m \in Msgs, status'[m] = "acked" PROVE Durable(m)'
  <2>0. Durable(m) => Durable(m)' BY <1>1, <1>2, DurableNext DEF DurableGrows
  <2>1. CASE status[m] = "acked" BY <1>2, <2>0, <2>1 DEF AckedDurable
  <2>2. CASE status[m] # "acked" /\ AnchorSync
    <3>1. Holds(activeFile, m)
      BY <1>2, <1>4, <2>2, AckedBy DEF SyncedInFile, AnchorSync
    <3> QED BY <2>0, <3>1 DEF Durable, Recoverable, Holds
  <2>3. CASE status[m] # "acked" /\ AnchorSendOk
    <3>1. m \in {x \in Msgs : Holds(Head(queue), x)} BY <1>4, <2>3, AckedBy
    <3>2. onLog'[m] > 0 BY <2>3, <3>1, SendOkType DEF AnchorSendOk, TypeInv, Logged
    <3> QED BY <3>2 DEF Durable, Logged
  <2> QED BY <1>4, <2>1, <2>2, <2>3, AckedBy
<1> QED BY <1>3, <1>4 DEF AckedDurable

\* An acknowledged message is on the log or on disk where a flush pass will
\* find it, through outages, late produces, crashes, restarts, failing sidecar
\* writes and failing unlinks, unless an append was cut short.
THEOREM CollectorDurable == Spec => []LossNeedsTornWrite
<1>1. Init => TypeInv /\ WalOK /\ Kept BY TypeInit, WalOKInit, KeptInit
<1>2. TypeInv /\ WalOK /\ Kept /\ [Next]_vars => (TypeInv /\ WalOK /\ Kept)'
  BY TypeNext, WalOKNext, KeptNext
<1>3. Kept => LossNeedsTornWrite BY DEF Kept, LossNeedsTornWrite
<1> QED BY <1>1, <1>2, <1>3, PTL DEF Spec

\* The .flushing file goes only when each of its messages is on the log.
THEOREM CollectorUnlinkSafe == Spec => UnlinkOnlyProduced
<1> DEFINE Safe == flushingFile # <<>> /\ flushingFile' = <<>> =>
                     \A m \in MsgsIn(flushingFile, 0, Len(flushingFile)) : Logged(m)
<1>1. Init => TypeInv /\ WalOK BY TypeInit, WalOKInit
<1>2. TypeInv /\ WalOK /\ [Next]_vars => (TypeInv /\ WalOK)'
  BY TypeNext, WalOKNext
<1>3. TypeInv /\ WalOK /\ [Next]_vars => [Safe]_vars
  <2> SUFFICES ASSUME TypeInv, WalOK, [Next]_vars, flushingFile # <<>>, flushingFile' = <<>>
               PROVE  \A m \in MsgsIn(flushingFile, 0, Len(flushingFile)) : Logged(m)
    OBVIOUS
  <2>1. CASE FlushUnlink
    BY <2>1 DEF FlushUnlink, WalOK, Covered, MsgsIn, Logged
  <2>2. CASE FlushRename BY <2>2 DEF FlushRename, WalOK
  <2>3. CASE UNCHANGED flushingFile BY <2>3
  <2>4. FlushUnlink \/ FlushRename \/ UNCHANGED flushingFile
    <3>1. CASE UNCHANGED walVars BY <3>1 DEF walVars, diskVars
    <3>2. CASE FlushStep
      BY <3>2 DEF FlushStep, FlushTick, FlushBegin, FlushFileStep, FlushFaultyStep,
           FlushLogStep, FlushRotate, FlushRead, FlushTruncate, FlushAdvance, FlushIoError,
           FlushUnlinkOffset, FlushConnect, FlushSendOk, FlushSendFail, FlushStartReading,
           FlushGiveUp, diskVars
    <3>3. CASE Boot \/ AnchorStep
      BY <3>1, <3>3 DEF Boot, Adopt, AnchorStep, AnchorBegin, AnchorSendOk, AnchorSendFail,
           AnchorRefused, AnchorWrite, AnchorSync, AnchorWriteError, AnchorSyncError,
           AnchorShortWrite, AppendWrite, AppendTorn, diskVars
    <3>4. CASE Sigterm \/ ShutdownStep \/ Crash \/ CrashMidWrite
      BY <3>1, <3>4 DEF Sigterm, ShutdownStep, DrainBegin, DrainEnd, DrainTimeout,
           FlushBegin, StopAndDisconnect, Exit, Crash, CrashMidWrite, AppendTorn, diskVars
    <3>5. CASE \/ LingerOver \/ Environment \/ UNCHANGED vars
               \/ \E r \in Requests : Accept(r) \/ Shed(r)
      BY <3>1, <3>5 DEF LingerOver, Environment, Accept, Shed, vars
    <3> QED BY <3>2, <3>3, <3>4, <3>5 DEF Next
  <2> QED BY <2>1, <2>2, <2>3, <2>4
<1> QED BY <1>1, <1>2, <1>3, PTL DEF Spec, UnlinkOnlyProduced

-----------------------------------------------------------------------------
(* What follows says what the collector promises beyond losing nothing:     *)
(* that it implements IngestContract, that the write-ahead log stays within *)
(* its cap, that the pending gauge covers what is not on the log yet, and   *)
(* that no message lands twice unless something failed.                     *)

-----------------------------------------------------------------------------
(* Sequences of messages, by what they hold.                                *)

LEMMA HoldsConcat ==
  ASSUME NEW S, NEW s \in Seq(S), NEW t \in Seq(S), NEW m
  PROVE  Holds(s \o t, m) <=> Holds(s, m) \/ Holds(t, m)
<1>0. /\ s \o t \in Seq(S) /\ Len(s \o t) = Len(s) + Len(t)
      /\ \A i \in 1..Len(s) : (s \o t)[i] = s[i]
      /\ \A i \in 1..Len(t) : (s \o t)[Len(s) + i] = t[i]
  OBVIOUS
<1>1. ASSUME NEW k \in 1..Len(s \o t), (s \o t)[k] = m PROVE Holds(s, m) \/ Holds(t, m)
  <2>1. CASE k <= Len(s) BY <1>0, <1>1, <2>1 DEF Holds
  <2>2. CASE k > Len(s)
    <3>1. k - Len(s) \in 1..Len(t) /\ k = Len(s) + (k - Len(s)) BY <1>0, <2>2
    <3>2. t[k - Len(s)] = m BY <1>0, <1>1, <3>1
    <3> QED BY <3>1, <3>2 DEF Holds
  <2> QED BY <2>1, <2>2
<1>2. ASSUME NEW k \in 1..Len(s), s[k] = m PROVE Holds(s \o t, m) BY <1>0, <1>2 DEF Holds
<1>3. ASSUME NEW k \in 1..Len(t), t[k] = m PROVE Holds(s \o t, m)
  <2>1. Len(s) + k \in 1..Len(s \o t) BY <1>0
  <2> QED BY <1>0, <1>3, <2>1 DEF Holds
<1> QED BY <1>1, <1>2, <1>3 DEF Holds

LEMMA HoldsEmpty == \A m : ~ Holds(<<>>, m)
BY DEF Holds

\* A batch chained behind the others, and the chain without its head.
LEMMA ChainAppend ==
  ASSUME NEW q \in Seq(Seq(Msgs)), NEW b \in Seq(Msgs), NEW i \in 1..Len(Append(q, b))
  PROVE  \/ i \in 1..Len(q) /\ Append(q, b)[i] = q[i]
         \/ i = Len(q) + 1 /\ Append(q, b)[i] = b
OBVIOUS

LEMMA ChainTail ==
  ASSUME NEW q \in Seq(Seq(Msgs)), q # <<>>
  PROVE  /\ Head(q) = q[1] /\ 1 \in 1..Len(q)
         /\ \A i \in 1..Len(Tail(q)) : i + 1 \in 2..Len(q) /\ Tail(q)[i] = q[i + 1]
OBVIOUS

-----------------------------------------------------------------------------
(* A message waits in one place, and its client has been told nothing.      *)

Queued ==
  /\ \A m \in Msgs : Holds(buffer, m) => status[m] = "pending"
  /\ \A i \in 1..Len(queue) : \A m \in Msgs :
       Holds(queue[i], m) => status[m] = "pending" /\ ~ Holds(buffer, m)
  /\ \A i, j \in 1..Len(queue) : \A m \in Msgs :
       Holds(queue[i], m) /\ Holds(queue[j], m) => i = j

LEMMA QueuedInit == Init => Queued
BY HoldsEmpty DEF Init, Queued

LEMMA QueuedKept ==
  ASSUME Queued, UNCHANGED <<buffer, queue, status>>
  PROVE  Queued'
BY DEF Queued, Holds

LEMMA QueuedSettle ==
  ASSUME TypeInv, Queued, NEW what, anchorPc # "idle", Settle(what)
  PROVE  Queued'
<1>1. queue \in Seq(Seq(Msgs)) /\ queue # <<>> BY DEF TypeInv, CallerData
<1>2. /\ Head(queue) = queue[1] /\ 1 \in 1..Len(queue)
      /\ \A i \in 1..Len(queue') : i + 1 \in 2..Len(queue) /\ queue'[i] = queue[i + 1]
  BY <1>1, ChainTail DEF Settle
<1>3. \A m \in Msgs : ~ Holds(queue[1], m) => status'[m] = status[m]
  BY <1>2 DEF Settle, Tell, TypeInv, CallerData
<1>4. UNCHANGED buffer BY DEF Settle
<1>5. ASSUME NEW m \in Msgs, Holds(buffer, m) PROVE status'[m] = "pending"
  <2>1. ~ Holds(queue[1], m) BY <1>2, <1>5 DEF Queued
  <2> QED BY <1>3, <1>5, <2>1 DEF Queued
<1>6. ASSUME NEW i \in 1..Len(queue'), NEW m \in Msgs, Holds(queue'[i], m)
      PROVE  status'[m] = "pending" /\ ~ Holds(buffer, m)
  <2>1. i + 1 \in 1..Len(queue) /\ i + 1 # 1 /\ Holds(queue[i + 1], m) BY <1>2, <1>6
  <2>2. ~ Holds(queue[1], m) BY <1>2, <2>1 DEF Queued
  <2> QED BY <1>3, <2>1, <2>2 DEF Queued
<1>7. ASSUME NEW i \in 1..Len(queue'), NEW j \in 1..Len(queue'), NEW m \in Msgs,
             Holds(queue'[i], m), Holds(queue'[j], m)
      PROVE  i = j
  <2>1. i + 1 \in 1..Len(queue) /\ Holds(queue[i + 1], m) BY <1>2, <1>7
  <2>2. j + 1 \in 1..Len(queue) /\ Holds(queue[j + 1], m) BY <1>2, <1>7
  <2>3. i + 1 = j + 1 BY <2>1, <2>2 DEF Queued
  <2> QED BY <2>3
<1> QED BY <1>4, <1>5, <1>6, <1>7 DEF Queued, Holds

\* A buffer of pending messages that are in no batch is chained.
LEMMA QueuedTake ==
  ASSUME TypeInv, NEW b \in Seq(Msgs), TakeBatch(b),
         \A m \in Msgs : Holds(b, m) => status'[m] = "pending",
         \A i \in 1..Len(queue) : \A m \in Msgs :
           Holds(queue[i], m) => status'[m] = "pending" /\ ~ Holds(b, m),
         Queued
  PROVE  Queued'
<1>1. queue \in Seq(Seq(Msgs)) /\ queue' = Append(queue, b) /\ buffer' = <<>>
  BY DEF TypeInv, CallerData, TakeBatch
<1>2. \A i \in 1..Len(queue') :
         \/ i \in 1..Len(queue) /\ queue'[i] = queue[i]
         \/ i = Len(queue) + 1 /\ queue'[i] = b
  BY <1>1, ChainAppend
<1>3. \A m \in Msgs : ~ Holds(buffer', m) BY <1>1, HoldsEmpty
<1>4. ASSUME NEW i \in 1..Len(queue'), NEW m \in Msgs, Holds(queue'[i], m)
      PROVE  status'[m] = "pending"
  BY <1>2, <1>4
<1>5. ASSUME NEW i \in 1..Len(queue'), NEW j \in 1..Len(queue'), NEW m \in Msgs,
             Holds(queue'[i], m), Holds(queue'[j], m)
      PROVE  i = j
  BY <1>2, <1>5 DEF Queued
<1> QED BY <1>3, <1>4, <1>5, Zenon DEF Queued, Holds

LEMMA QueuedAccept == ASSUME TypeInv, Queued, NEW r \in Requests, Accept(r) PROVE Queued'
<1>0. r \in Seq(Msgs) /\ buffer \in Seq(Msgs) /\ buffer \o r \in Seq(Msgs)
  BY RequestAssumption DEF TypeInv, CallerData
<1>1. \A m \in Msgs : /\ Holds(r, m) => status[m] = "new" /\ status'[m] = "pending"
                      /\ ~ Holds(r, m) => status'[m] = status[m]
  BY DEF Accept, Tell, TypeInv, CallerData
<1>2. \A m \in Msgs : Holds(buffer \o r, m) <=> Holds(buffer, m) \/ Holds(r, m)
  BY <1>0, HoldsConcat
<1>3. \A m \in Msgs : Holds(buffer \o r, m) => status'[m] = "pending"
  BY <1>1, <1>2 DEF Queued
<1>4. \A i \in 1..Len(queue) : \A m \in Msgs :
        Holds(queue[i], m) => status'[m] = "pending" /\ ~ Holds(buffer \o r, m)
  BY <1>1, <1>2 DEF Queued
<1>5. CASE TakeBatch(buffer \o r) BY <1>0, <1>3, <1>4, <1>5, QueuedTake
<1>6. CASE buffer' = buffer \o r /\ UNCHANGED queue
  <2>1. \A m \in Msgs : Holds(buffer', m) => status'[m] = "pending" BY <1>3, <1>6
  <2>2. \A i \in 1..Len(queue') : \A m \in Msgs :
          Holds(queue'[i], m) => status'[m] = "pending" /\ ~ Holds(buffer', m)
    BY <1>4, <1>6
  <2>3. \A i, j \in 1..Len(queue') : \A m \in Msgs :
          Holds(queue'[i], m) /\ Holds(queue'[j], m) => i = j
    BY <1>6 DEF Queued
  <2> QED BY <2>1, <2>2, <2>3, Zenon DEF Queued, Holds
<1> QED BY <1>5, <1>6 DEF Accept

LEMMA QueuedNext == TypeInv /\ Queued /\ [Next]_vars => Queued'
<1> SUFFICES ASSUME TypeInv, Queued, [Next]_vars PROVE Queued' OBVIOUS
<1>1. CASE \/ AnchorSendOk \/ AnchorRefused \/ AnchorSync \/ AnchorWriteError
           \/ AnchorSyncError
  <2>1. anchorPc # "idle" /\ \E what \in Statuses : Settle(what)
    BY <1>1 DEF AnchorSendOk, AnchorRefused, AnchorSync, AnchorWriteError, AnchorSyncError,
         Statuses
  <2> QED BY <2>1, QueuedSettle
<1>2. CASE AnchorBegin \/ AnchorSendFail \/ AnchorWrite \/ AnchorShortWrite
  BY <1>2, QueuedKept DEF AnchorBegin, AnchorSendFail, AnchorWrite, AnchorShortWrite
<1>3. CASE FlushStep
  BY <1>3, QueuedKept DEF FlushStep, FlushTick, FlushFileStep, FlushFaultyStep, FlushLogStep,
       callerVars, batchVars
<1>4. CASE Sigterm \/ DrainBegin \/ DrainEnd \/ DrainTimeout \/ StopAndDisconnect
  BY <1>4, QueuedKept DEF Sigterm, DrainBegin, DrainEnd, DrainTimeout, StopAndDisconnect,
       batchVars
<1>5. CASE Exit \/ Crash \/ CrashMidWrite
  <2>1. buffer' = <<>> /\ queue' = <<>> BY <1>5 DEF Exit, Crash, CrashMidWrite, Die
  <2> QED BY <2>1, HoldsEmpty DEF Queued
<1>6. CASE \E r \in Requests : Accept(r) BY <1>6, QueuedAccept
<1>7. CASE \E r \in Requests : Shed(r)
  <2>1. PICK r \in Requests : Shed(r) BY <1>7
  <2>2. UNCHANGED <<buffer, queue>> BY <2>1 DEF Shed, batchVars
  <2>3. \A m \in Msgs : status[m] = "pending" => status'[m] = "pending"
    BY <2>1 DEF Shed, Tell, TypeInv, CallerData
  <2>4. /\ \A m \in Msgs : Holds(buffer, m) => status'[m] = "pending"
        /\ \A i \in 1..Len(queue) : \A m \in Msgs :
             Holds(queue[i], m) => status'[m] = "pending" /\ ~ Holds(buffer, m)
        /\ \A i, j \in 1..Len(queue) : \A m \in Msgs :
             Holds(queue[i], m) /\ Holds(queue[j], m) => i = j
    BY <2>3 DEF Queued
  <2>5. buffer' = buffer /\ queue' = queue BY <2>2
  <2> QED BY <2>4, <2>5, Zenon DEF Queued
<1>8. CASE LingerOver
  <2>1. TakeBatch(buffer) /\ buffer \in Seq(Msgs) /\ UNCHANGED status
    BY <1>8 DEF LingerOver, TypeInv, CallerData
  <2>2. \A m \in Msgs : Holds(buffer, m) => status'[m] = "pending"
    <3>1. \A m \in Msgs : Holds(buffer, m) => status[m] = "pending" BY DEF Queued
    <3>2. status' = status BY <2>1
    <3> QED BY <3>1, <3>2, Zenon
  <2>3. \A i \in 1..Len(queue) : \A m \in Msgs :
          Holds(queue[i], m) => status'[m] = "pending" /\ ~ Holds(buffer, m)
    <3>1. \A i \in 1..Len(queue) : \A m \in Msgs :
            Holds(queue[i], m) => status[m] = "pending" /\ ~ Holds(buffer, m)
      BY DEF Queued
    <3>2. status' = status BY <2>1
    <3> QED BY <3>1, <3>2, Zenon
  <2> QED BY <2>1, <2>2, <2>3, QueuedTake
<1>9. CASE Boot \/ Environment \/ UNCHANGED vars
  BY <1>9, QueuedKept DEF Boot, Environment, vars, callerVars, batchVars
<1> QED
  BY <1>1, <1>2, <1>3, <1>4, <1>5, <1>6, <1>7, <1>8, <1>9 DEF Next, AnchorStep, ShutdownStep
-----------------------------------------------------------------------------
(* The refinement of IngestContract.                                        *)

\* A client that was told 200 is never told anything else.
LEMMA AckedStays ==
  ASSUME TypeInv, Queued, [Next]_vars, NEW m \in Msgs, status[m] = "acked"
  PROVE  status'[m] = "acked"
<1> USE DEF TypeInv, CallerData
<1>0. UNCHANGED status => status'[m] = "acked" OBVIOUS
<1>1. CASE \/ AnchorSendOk \/ AnchorRefused \/ AnchorSync \/ AnchorWriteError
           \/ AnchorSyncError
  <2>1. anchorPc # "idle" /\ \E what \in Statuses : Settle(what)
    BY <1>1 DEF AnchorSendOk, AnchorRefused, AnchorSync, AnchorWriteError, AnchorSyncError,
         Statuses
  <2>2. Head(queue) = queue[1] /\ 1 \in 1..Len(queue) BY <2>1, ChainTail
  <2>3. ~ Holds(Head(queue), m) BY <2>2 DEF Queued
  <2> QED BY <2>1, <2>3 DEF Settle, Tell
<1>2. CASE AnchorBegin \/ AnchorSendFail \/ AnchorWrite \/ AnchorShortWrite
  BY <1>0, <1>2 DEF AnchorBegin, AnchorSendFail, AnchorWrite, AnchorShortWrite
<1>3. CASE FlushStep
  BY <1>0, <1>3 DEF FlushStep, FlushTick, FlushFileStep, FlushFaultyStep, FlushLogStep,
       callerVars
<1>4. CASE Sigterm \/ DrainBegin \/ DrainEnd \/ DrainTimeout \/ StopAndDisconnect
  BY <1>0, <1>4 DEF Sigterm, DrainBegin, DrainEnd, DrainTimeout, StopAndDisconnect
<1>5. CASE Exit \/ Crash \/ CrashMidWrite BY <1>5 DEF Exit, Crash, CrashMidWrite, Die
<1>6. CASE \E r \in Requests : Accept(r) \/ Shed(r) BY <1>6 DEF Accept, Shed, Tell
<1>7. CASE LingerOver \/ Boot \/ Environment \/ UNCHANGED vars
  BY <1>0, <1>7 DEF LingerOver, Boot, Environment, vars, callerVars
<1> QED
  BY <1>1, <1>2, <1>3, <1>4, <1>5, <1>6, <1>7 DEF Next, AnchorStep, ShutdownStep

\* Only these steps touch the log.
LEMMA LogMovedBy ==
  ASSUME [Next]_vars
  PROVE  UNCHANGED onLog \/ AnchorSendOk \/ AnchorSendFail \/ FlushSendOk \/ FlushSendFail
<1>1. CASE AnchorStep
  BY <1>1 DEF AnchorStep, AnchorBegin, AnchorRefused, AnchorWrite, AnchorSync,
       AnchorWriteError, AnchorSyncError, AnchorShortWrite, logVars
<1>2. CASE FlushStep
  BY <1>2 DEF FlushStep, FlushTick, FlushFileStep, FlushFaultyStep, FlushLogStep,
       FlushConnect, logVars
<1>3. CASE Sigterm \/ ShutdownStep \/ Crash \/ CrashMidWrite
  BY <1>3 DEF Sigterm, ShutdownStep, DrainBegin, DrainEnd, DrainTimeout, StopAndDisconnect,
       Exit, Crash, CrashMidWrite, Die, logVars
<1>4. CASE \/ Boot \/ LingerOver \/ Environment \/ UNCHANGED vars
           \/ \E r \in Requests : Accept(r) \/ Shed(r)
  BY <1>4 DEF Boot, LingerOver, Environment, BrokerFlip, SocketDropped, Accept, Shed, vars,
       logVars
<1> QED BY <1>1, <1>2, <1>3, <1>4 DEF Next

\* The contract's state: acknowledged, safe, on the log.
Acked == {m \in Msgs : status[m] = "acked"}
Safe == {m \in Msgs : Durable(m)}
OnTopic == {m \in Msgs : Logged(m)}
PromiseStep == [Contract!Next]_<<Acked, Safe, OnTopic>>

\* A step that only grows what is safe persists it.
LEMMA PersistStep ==
  ASSUME Acked' = Acked, UNCHANGED onLog, DurableGrows
  PROVE  PromiseStep
<1>1. OnTopic' = OnTopic BY DEF OnTopic, Logged
<1>2. Safe' \in SUBSET Msgs /\ Safe' = Safe \cup Safe' BY DEF Safe, DurableGrows
<1>3. Contract!Persist(Safe') BY <1>1, <1>2 DEF Contract!Persist, Acked, Safe, OnTopic
<1>4. \E S \in SUBSET Msgs : Contract!Persist(S) BY <1>2, <1>3, Zenon
<1>5. Contract!Next BY <1>4, Zenon DEF Contract!Next
<1> QED BY <1>5, Zenon DEF PromiseStep

\* A step that moves no line publishes what it adds to the log.
LEMMA PublishStep ==
  ASSUME UNCHANGED <<activeFile, flushingFile, offset>>, LogGrows
  PROVE  /\ OnTopic' = OnTopic \cup OnTopic'
         /\ Safe' = Safe \cup OnTopic'
         /\ Acked' = Acked => PromiseStep
<1>1. OnTopic' = OnTopic \cup OnTopic' /\ OnTopic' \in SUBSET Msgs
  BY DEF OnTopic, Logged, LogGrows
<1>2. \A m \in Msgs : Recoverable(m)' <=> Recoverable(m) BY DEF Recoverable
<1>3. Safe' = Safe \cup OnTopic'
  BY <1>1, <1>2 DEF Safe, OnTopic, Durable, LogGrows, Logged
<1>4. ASSUME Acked' = Acked PROVE PromiseStep
  <2>1. Contract!Publish(OnTopic')
    BY <1>1, <1>3, <1>4 DEF Contract!Publish, Acked, Safe, OnTopic
  <2>2. \E S \in SUBSET Msgs : Contract!Publish(S) BY <1>1, <2>1, Zenon
  <2>3. Contract!Next BY <2>2, Zenon DEF Contract!Next
  <2> QED BY <2>3, Zenon DEF PromiseStep
<1> QED BY <1>1, <1>3, <1>4

LEMMA PromiseAckStep ==
  ASSUME TypeInv, WalOK, Kept, Queued, [Next]_vars, tornWrites = 0,
         AnchorSendOk \/ AnchorSync
  PROVE  PromiseStep
<1>0. PICK S : S = {m \in Msgs : Holds(Head(queue), m)} OBVIOUS
<1>1. S \in SUBSET Msgs BY <1>0
<1>2. Acked' = Acked \cup S
  BY <1>0, AckedStays, AckedBy
     DEF Acked, AnchorSendOk, AnchorSync, Settle, Tell, TypeInv, CallerData
<1>3. UNCHANGED <<activeFile, flushingFile, offset>>
  BY DEF AnchorSendOk, AnchorSync, walVars, diskVars
<1>4. LogGrows BY LogGrowsNext
<1>5. CASE AnchorSendOk
  <2>1. OnTopic' = OnTopic \cup S
    BY <1>0, <1>5 DEF AnchorSendOk, SendOk, Land, OnTopic, Logged, TypeInv, LogData
  <2>2. Safe' = Safe \cup S
    BY <1>3, <1>4, <2>1, PublishStep DEF Safe, OnTopic, Durable
  <2>3. Contract!PublishAndAcknowledge(S)
    BY <1>2, <2>1, <2>2 DEF Contract!PublishAndAcknowledge, Acked, Safe, OnTopic
  <2>4. Contract!Next BY <1>1, <2>3, Zenon DEF Contract!Next
  <2> QED BY <2>4, Zenon DEF PromiseStep
<1>6. CASE AnchorSync
  <2>1. UNCHANGED onLog BY <1>6 DEF AnchorSync, logVars
  <2>2. OnTopic' = OnTopic /\ Safe' = Safe
    BY <1>3, <2>1 DEF OnTopic, Logged, Safe, Durable, Recoverable
  <2>3. S \subseteq Safe
    BY <1>0, <1>6 DEF AnchorSync, Kept, Safe, Durable, Recoverable, Holds
  <2>4. Contract!Acknowledge(S)
    BY <1>2, <2>2, <2>3 DEF Contract!Acknowledge, Acked, Safe, OnTopic
  <2>5. Contract!Next BY <1>1, <2>4, Zenon DEF Contract!Next
  <2> QED BY <2>5, Zenon DEF PromiseStep
<1> QED BY <1>5, <1>6

\* As long as no append is cut short, each step of the collector is one of the
\* contract or leaves what it promises alone.
LEMMA PromiseNext ==
  ASSUME TypeInv, WalOK, Kept, Queued, [Next]_vars, tornWrites = 0, tornWrites' = 0
  PROVE  PromiseStep
<1>1. CASE AnchorSendOk \/ AnchorSync BY <1>1, PromiseAckStep
<1>2. CASE ~ (AnchorSendOk \/ AnchorSync)
  <2>1. Acked' = Acked BY <1>2, AckedStays, AckedBy DEF Acked
  <2>2. ASSUME UNCHANGED onLog PROVE PromiseStep
    BY <2>1, <2>2, DurableNext, PersistStep DEF Kept
  <2>3. ASSUME UNCHANGED <<activeFile, flushingFile, offset>> PROVE PromiseStep
    BY <2>1, <2>3, LogGrowsNext, PublishStep
  <2>4. CASE AnchorSendFail \/ FlushSendOk \/ FlushSendFail
    BY <2>3, <2>4 DEF AnchorSendFail, FlushSendOk, FlushSendFail, FlushGiveUp, walVars, diskVars
  <2>5. UNCHANGED onLog \/ AnchorSendFail \/ FlushSendOk \/ FlushSendFail
    BY <1>2, LogMovedBy
  <2> QED BY <2>2, <2>4, <2>5
<1> QED BY <1>1, <1>2

\* Without the faults that cut an append short, the collector implements
\* IngestContract, through outages, crashes, restarts, late produces and failing
\* sidecar writes and unlinks: what is safe stays safe, and only what is safe is
\* acknowledged.
THEOREM CollectorKeepsContract ==
  ASSUME IoFaults \cap Tearing = {}
  PROVE  Spec => KeepsContract
<1> DEFINE Inv == TypeInv /\ WalOK /\ Kept /\ Queued /\ tornWrites = 0
<1>1. Init => Inv
  BY TypeInit, WalOKInit, KeptInit, QueuedInit DEF Init, WalInit
<1>2. Inv /\ [Next]_vars => Inv'
  BY TypeNext, WalOKNext, KeptNext, QueuedNext, TornWritesGrow
<1>3. Inv /\ [Next]_vars => PromiseStep
  BY <1>2, PromiseNext
<1>4. Init => Contract!Init
  BY EmptySeq DEF Init, ProducerInit, WalInit, Contract!Init, Durable, Logged, Recoverable
<1> QED
  BY <1>1, <1>2, <1>3, <1>4, PTL
     DEF Spec, KeepsContract, Contract!Spec, PromiseStep, Acked, Safe, OnTopic

-----------------------------------------------------------------------------
(* The cap.  The accounts may lag behind the files by the one append that   *)
(* is being synced, and never by more, unless an append throws.             *)

Unsynced == IF anchorPc = "sync" THEN Len(Head(queue)) ELSE 0

CapInv ==
  /\ Len(activeFile) + Len(flushingFile) <= MaxBytes
  /\ phase # "down" =>
       /\ activeBytes + flushingBytes + Unsynced <= MaxBytes
       /\ Len(activeFile) <= activeBytes + Unsynced
       /\ Len(flushingFile) <= flushingBytes

\* A file grows by at most what is appended: glueing a line adds none.
LEMMA ExtendLen ==
  ASSUME NEW f \in Seq(Lines), NEW w \in Seq(Lines), NEW open
  PROVE  Len(Extend(f, open, w)) <= Len(f) + Len(w)
<1>1. CASE ~ (open /\ w # <<>>) BY <1>1, ConcatProperties DEF Extend
<1>2. CASE open /\ w # <<>>
  <2>1. Tail(w) \in Seq(Lines) /\ Len(Tail(w)) = Len(w) - 1 BY <1>2, HeadTailProperties
  <2>2. [f EXCEPT ![Len(f)] = Torn] \in Seq(Lines) /\ Len([f EXCEPT ![Len(f)] = Torn]) = Len(f)
    <3>1. CASE f = <<>>
      <4>1. [f EXCEPT ![Len(f)] = Torn] = f BY <3>1, EmptySeq
      <4> QED BY <4>1
    <3>2. CASE f # <<>>
      <4>1. Len(f) \in 1..Len(f) BY <3>2, EmptySeq
      <4> QED BY <4>1, ExceptSeq DEF Lines
    <3> QED BY <3>1, <3>2
  <2> QED BY <1>2, <2>1, <2>2, ConcatProperties DEF Extend
<1> QED BY <1>1, <1>2

LEMMA WriteLen ==
  ASSUME TypeInv, NEW w \in Seq(Msgs), AppendWrite(w) \/ AppendTorn(w)
  PROVE  Len(activeFile') <= Len(activeFile) + Len(w)
<1>0. w \in Seq(Lines) /\ activeFile \in Seq(Lines)
  BY SeqMonotonic DEF Lines, TypeInv, WalData
<1>1. CASE AppendWrite(w) BY <1>0, <1>1, ExtendLen DEF AppendWrite
<1>2. CASE AppendTorn(w)
  <2>1. PICK j \in 1..Len(w) :
          \/ activeFile' = Extend(activeFile, activeOpen, SubSeq(w, 1, j - 1))
          \/ \E last \in {Torn, w[j]} :
               activeFile' = Extend(activeFile, activeOpen, SubSeq(w, 1, j - 1) \o <<last>>)
    BY <1>2 DEF AppendTorn
  <2>2. SubSeq(w, 1, j - 1) \in Seq(Lines) /\ Len(SubSeq(w, 1, j - 1)) = j - 1 BY <1>0
  <2>3. \A last \in {Torn, w[j]} :
          /\ SubSeq(w, 1, j - 1) \o <<last>> \in Seq(Lines)
          /\ Len(SubSeq(w, 1, j - 1) \o <<last>>) = j
    <3>1. \A last \in {Torn, w[j]} : <<last>> \in Seq(Lines) /\ Len(<<last>>) = 1
      BY <1>0 DEF Lines
    <3> QED BY <2>2, <3>1, ConcatProperties
  <2>4. j <= Len(w) /\ Len(w) \in Nat /\ Len(activeFile) \in Nat BY <1>0
  <2>5. Len(activeFile') <= Len(activeFile) + j
    <3>1. CASE activeFile' = Extend(activeFile, activeOpen, SubSeq(w, 1, j - 1))
      <4>1. Len(activeFile') <= Len(activeFile) + (j - 1)
        BY <1>0, <2>2, <3>1, ExtendLen
      <4>2. activeFile' \in Seq(Lines) BY <1>0, <2>2, <3>1, ExtendType
      <4>3. Len(activeFile') \in Nat BY <4>2
      <4> QED BY <2>4, <4>1, <4>3
    <3>2. CASE \E last \in {Torn, w[j]} :
                 activeFile' = Extend(activeFile, activeOpen, SubSeq(w, 1, j - 1) \o <<last>>)
      <4>1. PICK last \in {Torn, w[j]} :
              activeFile' = Extend(activeFile, activeOpen, SubSeq(w, 1, j - 1) \o <<last>>)
        BY <3>2
      <4> QED BY <1>0, <2>3, <4>1, ExtendLen
    <3> QED BY <2>1, <3>1, <3>2
  <2>6. Len(activeFile') \in Nat
    <3>1. activeFile' \in Seq(Lines) BY <1>2, WriteType DEF TypeInv
    <3> QED BY <3>1
  <2> QED BY <2>4, <2>5, <2>6
<1> QED BY <1>1, <1>2

\* Batches join the chain behind the one whose append is being synced.
LEMMA ChainGrows ==
  ASSUME TypeInv, LingerOver \/ \E r \in Requests : Accept(r) \/ Shed(r)
  PROVE  UNCHANGED anchorPc /\ (anchorPc # "idle" => Head(queue') = Head(queue))
<1>1. \A r \in Requests : buffer \o r \in Seq(Msgs)
  BY RequestAssumption DEF TypeInv, CallerData
<1>2. buffer \in Seq(Msgs) BY DEF TypeInv, CallerData
<1>3. UNCHANGED queue \/ \E b \in Seq(Msgs) : queue' = Append(queue, b)
  BY <1>1, <1>2 DEF LingerOver, Accept, Shed, TakeBatch, batchVars
<1>4. anchorPc # "idle" => queue # <<>> BY DEF TypeInv, CallerData
<1> QED BY <1>3, <1>4, HeadStays DEF LingerOver, Accept, Shed, batchVars

LEMMA UnsyncedType == ASSUME TypeInv PROVE Unsynced \in Nat
<1>1. anchorPc = "sync" => Len(Head(queue)) \in Nat BY QueueHead DEF TypeInv
<1> QED BY <1>1 DEF Unsynced

\* A step that moves no line and no account and begins no sync.
LEMMA CapKept ==
  ASSUME TypeInv, CapInv, UNCHANGED <<activeFile, flushingFile, activeBytes, flushingBytes>>,
         anchorPc # "sync",
         anchorPc' # "sync", phase' # "down" => phase # "down"
  PROVE  CapInv'
BY DEF CapInv, Unsynced

LEMMA CapSyncing ==
  ASSUME TypeInv, CapInv, UNCHANGED <<activeFile, flushingFile, activeBytes, flushingBytes>>,
         anchorPc' = anchorPc, anchorPc = "sync" => Head(queue') = Head(queue),
         phase' # "down" => phase # "down"
  PROVE  CapInv'
<1>1. Unsynced' = Unsynced BY DEF Unsynced
<1> QED BY <1>1 DEF CapInv

LEMMA CapNext ==
  ASSUME TypeInv, WalOK, CapInv, [Next]_vars, "error" \notin IoFaults
  PROVE  CapInv'
<1>0. /\ Len(activeFile) \in Nat /\ Len(flushingFile) \in Nat /\ Unsynced \in Nat
      /\ activeBytes \in Nat /\ flushingBytes \in Nat /\ MaxBytes \in Nat
  BY UnsyncedType, WalAssumption DEF TypeInv, WalData
<1>1. CASE Boot
  BY <1>0, <1>1 DEF Boot, Adopt, batchVars, WalOK, CapInv, Unsynced
<1>2. CASE LingerOver \/ \E r \in Requests : Accept(r) \/ Shed(r)
  BY <1>2, ChainGrows, CapSyncing
     DEF LingerOver, Accept, Shed, walVars, diskVars, accountVars
<1>3. CASE AnchorBegin \/ AnchorSendOk \/ AnchorSendFail \/ AnchorRefused
  BY <1>3, CapKept
     DEF AnchorBegin, AnchorSendOk, AnchorSendFail, AnchorRefused, Settle, walVars, diskVars,
         accountVars
<1>4. CASE AnchorWrite \/ AnchorShortWrite \/ CrashMidWrite
  <2>1. anchorPc = "append" /\ phase # "down"
    BY <1>4 DEF AnchorWrite, AnchorShortWrite, CrashMidWrite, WalOK
  <2>2. Head(queue) \in Seq(Msgs) BY <2>1, QueueHead DEF TypeInv
  <2>3. AppendWrite(Head(queue)) \/ AppendTorn(Head(queue))
    BY <1>4 DEF AnchorWrite, AnchorShortWrite, CrashMidWrite
  <2>4. PICK n \in Nat : n = Len(Head(queue)) BY <2>2
  <2>5. PICK len \in Nat : len = Len(activeFile') /\ len <= Len(activeFile) + n
    <3>1. activeFile' \in Seq(Lines) BY <2>2, <2>3, WriteType DEF TypeInv
    <3>2. Len(activeFile') <= Len(activeFile) + n BY <2>2, <2>3, <2>4, WriteLen
    <3> QED BY <3>1, <3>2
  <2>6. activeBytes + flushingBytes + n <= MaxBytes /\ UNCHANGED flushingFile
    BY <2>3, <2>4 DEF AppendWrite, AppendTorn, PendingBytes
  <2>7. Len(activeFile) <= activeBytes /\ Len(flushingFile) <= flushingBytes
    BY <1>0, <2>1 DEF CapInv, Unsynced
  <2>8. len <= activeBytes + n /\ len + Len(flushingFile) <= MaxBytes
    BY <1>0, <2>5, <2>6, <2>7
  <2>9. CASE CrashMidWrite BY <2>5, <2>6, <2>8, <2>9 DEF CapInv, CrashMidWrite, Die
  <2>10. CASE AnchorWrite \/ AnchorShortWrite
    <3>1. UNCHANGED <<queue, activeBytes, flushingBytes>> /\ anchorPc' = "sync"
      BY <2>10 DEF AnchorWrite, AnchorShortWrite, accountVars
    <3>2. Unsynced' = n BY <2>4, <3>1 DEF Unsynced
    <3> QED BY <2>5, <2>6, <2>7, <2>8, <3>1, <3>2 DEF CapInv
  <2> QED BY <1>4, <2>9, <2>10
<1>5. CASE AnchorSync
  <2>1. PICK n \in Nat : n = Len(Head(queue)) /\ n = Unsynced
    BY <1>5, QueueHead DEF AnchorSync, TypeInv, Unsynced
  <2>2. /\ UNCHANGED <<activeFile, flushingFile, flushingBytes, phase>>
        /\ activeBytes' = activeBytes + n /\ Unsynced' = 0
    BY <1>5, <2>1 DEF AnchorSync, AppendAccount, Settle, diskVars, Unsynced
  <2> QED BY <1>0, <2>1, <2>2 DEF CapInv
<1>6. CASE AnchorWriteError \/ AnchorSyncError
  BY <1>6 DEF AnchorWriteError, AnchorSyncError
<1>7. CASE FlushRename /\ UNCHANGED callerVars
  <2>1. anchorPc # "sync" /\ UNCHANGED <<anchorPc, phase>> /\ flushingFile = <<>>
    BY <1>7 DEF FlushRename, WalOK, callerVars, batchVars
  <2> QED BY <1>0, <1>7, <2>1 DEF FlushRename, CapInv, Unsynced
<1>8. CASE FlushUnlink /\ UNCHANGED callerVars
  <2>1. /\ UNCHANGED <<activeFile, activeBytes, flushingBytes, phase, anchorPc, queue>>
        /\ Len(flushingFile') = 0
    BY <1>8 DEF FlushUnlink, accountVars, callerVars, batchVars
  <2>2. Unsynced' = Unsynced BY <2>1 DEF Unsynced
  <2> QED BY <1>0, <2>1, <2>2 DEF CapInv
<1>9. CASE FlushUnlinkOffset /\ UNCHANGED callerVars
  <2>1. flushingFile = <<>> BY <1>9 DEF FlushUnlinkOffset, WalOK
  <2>2. /\ UNCHANGED <<activeFile, flushingFile, activeBytes, phase, anchorPc, queue>>
        /\ flushingBytes' = 0 /\ Len(flushingFile) = 0
    BY <1>9, <2>1 DEF FlushUnlinkOffset, callerVars, batchVars
  <2>3. Unsynced' = Unsynced BY <2>2 DEF Unsynced
  <2> QED BY <1>0, <2>2, <2>3 DEF CapInv
<1>10. CASE FlushStep /\ ~ (FlushRename \/ FlushUnlink \/ FlushUnlinkOffset)
  <2>1. UNCHANGED <<activeFile, flushingFile, activeBytes, flushingBytes, callerVars>>
    BY <1>10 DEF FlushStep, FlushTick, FlushBegin, FlushFileStep, FlushFaultyStep,
         FlushLogStep, FlushRotate, FlushRead, FlushTruncate, FlushAdvance, FlushIoError,
         FlushConnect, FlushSendOk, FlushSendFail, FlushStartReading, FlushGiveUp,
         CountFlushed, diskVars, accountVars
  <2> QED BY <2>1, CapSyncing DEF callerVars, batchVars
<1>11. CASE Sigterm \/ DrainBegin \/ DrainEnd \/ DrainTimeout \/ StopAndDisconnect
  BY <1>11, CapSyncing
     DEF Sigterm, DrainBegin, DrainEnd, DrainTimeout, StopAndDisconnect, FlushBegin, walVars,
         diskVars, accountVars, batchVars
<1>12. CASE Exit \/ Crash BY <1>12 DEF Exit, Crash, Die, diskVars, CapInv
<1>13. CASE Environment \/ UNCHANGED vars
  BY <1>13, CapSyncing
     DEF Environment, vars, walVars, diskVars, accountVars, callerVars, batchVars
<1>14. CASE FlushStep
  <2>1. UNCHANGED callerVars
    BY <1>14 DEF FlushStep, FlushTick, FlushFileStep, FlushFaultyStep, FlushLogStep
  <2> QED BY <1>7, <1>8, <1>9, <1>10, <1>14, <2>1
<1> QED
  BY <1>1, <1>2, <1>3, <1>4, <1>5, <1>6, <1>11, <1>12, <1>13, <1>14
     DEF Next, AnchorStep, ShutdownStep

\* The files together never outgrow INGEST_FALLBACK_MAX_BYTES, whatever
\* crashes, restarts and partial writes do to the accounts, as long as no
\* append throws: what a failed append wrote is in the file and in no account.
THEOREM CollectorWithinCap ==
  ASSUME "error" \notin IoFaults
  PROVE  Spec => []WalWithinCap
<1>1. Init => TypeInv /\ WalOK /\ CapInv
  BY TypeInit, WalOKInit, WalAssumption DEF Init, WalInit, CapInv
<1>2. TypeInv /\ WalOK /\ CapInv /\ [Next]_vars => (TypeInv /\ WalOK /\ CapInv)'
  BY TypeNext, WalOKNext, CapNext
<1>3. CapInv => WalWithinCap BY DEF CapInv, WalWithinCap
<1> QED BY <1>1, <1>2, <1>3, PTL DEF Spec

-----------------------------------------------------------------------------
(* The gauge.  It counts what no sidecar covers yet, so it reads 0 only     *)
(* when every line of both files is on the log.                             *)

\* What the steps move: the files and the account of the active one ...
LEMMA FilesMovedBy ==
  ASSUME TypeInv, [Next]_vars, tornWrites' = tornWrites
  PROVE  /\ UNCHANGED flushingFile \/ FlushRename \/ FlushUnlink
         /\ UNCHANGED activeFile \/ AnchorWrite \/ FlushRename
         /\ UNCHANGED activeBytes \/ AnchorSync \/ FlushRename \/ Boot \/ Die
<1>1. ASSUME UNCHANGED diskVars, UNCHANGED activeBytes \/ AnchorSync \/ Die
      PROVE  /\ UNCHANGED <<flushingFile, activeFile>>
             /\ UNCHANGED activeBytes \/ AnchorSync \/ Die
  BY <1>1 DEF diskVars
<1>2. CASE Boot BY <1>2 DEF Boot, Adopt
<1>3. CASE AnchorWriteError \/ AnchorShortWrite \/ CrashMidWrite
  <2>1. tornWrites' = tornWrites + 1
    BY <1>3 DEF AnchorWriteError, AnchorShortWrite, CrashMidWrite, AppendTorn
  <2> QED BY <2>1 DEF TypeInv, WalData
<1>4. CASE AnchorWrite BY <1>4 DEF AnchorWrite, AppendWrite, accountVars
<1>5. CASE \/ AnchorBegin \/ AnchorSendOk \/ AnchorSendFail \/ AnchorRefused
           \/ AnchorSync \/ AnchorSyncError
  BY <1>1, <1>5 DEF AnchorBegin, AnchorSendOk, AnchorSendFail, AnchorRefused, AnchorSync,
       AnchorSyncError, walVars, accountVars
<1>6. CASE FlushStep
  BY <1>6 DEF FlushStep, FlushTick, FlushBegin, FlushFileStep, FlushFaultyStep,
       FlushLogStep, FlushRotate, FlushRead, FlushTruncate, FlushAdvance, FlushUnlink,
       FlushIoError, FlushUnlinkOffset, FlushConnect, FlushSendOk, FlushSendFail,
       FlushStartReading, FlushGiveUp, CountFlushed, diskVars, accountVars
<1>7. CASE Sigterm \/ DrainBegin \/ DrainEnd \/ DrainTimeout \/ StopAndDisconnect
  BY <1>7 DEF Sigterm, DrainBegin, DrainEnd, DrainTimeout, StopAndDisconnect, FlushBegin,
       walVars, diskVars, accountVars
<1>8. CASE Exit \/ Crash BY <1>1, <1>8 DEF Exit, Crash
<1>9. CASE LingerOver \/ Environment \/ UNCHANGED vars
  BY <1>9 DEF LingerOver, Environment, vars, walVars, diskVars, accountVars
<1>10. CASE \E r \in Requests : Accept(r) \/ Shed(r)
  BY <1>10 DEF Accept, Shed, walVars, diskVars, accountVars
<1> QED
  BY <1>2, <1>3, <1>4, <1>5, <1>6, <1>7, <1>8, <1>9, <1>10 DEF Next, AnchorStep, ShutdownStep

\* ... and the flush pass with what it reads.
LEMMA PassMovedBy ==
  ASSUME [Next]_vars
  PROVE  \/ FlushFileStep \/ FlushFaultyStep \/ FlushLogStep
         \/ FlushBegin /\ UNCHANGED onLog /\ phase # "down"
         \/ Boot
         \/ Die /\ UNCHANGED <<flushingFile, offset, producedUpTo>>
         \/ UNCHANGED <<flushingFile, offset, producedUpTo, passVars, flushingEvents>>
            /\ (phase = "down" => phase' = "down")
<1>1. CASE AnchorStep
  BY <1>1 DEF AnchorStep, AnchorBegin, AnchorSendOk, AnchorSendFail, AnchorRefused,
       AnchorWrite, AnchorSync, AnchorWriteError, AnchorSyncError, AnchorShortWrite,
       AppendWrite, AppendTorn, AppendAccount, Settle, walVars, diskVars, accountVars
<1>2. CASE FlushStep BY <1>2 DEF FlushStep, FlushTick, logVars
<1>3. CASE Sigterm \/ DrainBegin \/ DrainEnd \/ DrainTimeout \/ StopAndDisconnect
  BY <1>3 DEF Sigterm, DrainBegin, DrainEnd, DrainTimeout, StopAndDisconnect, walVars,
       diskVars, accountVars, logVars
<1>4. CASE Exit \/ Crash \/ CrashMidWrite
  BY <1>4 DEF Exit, Crash, CrashMidWrite, AppendTorn, diskVars
<1>5. CASE LingerOver \/ Environment \/ UNCHANGED vars
  BY <1>5 DEF LingerOver, Environment, vars, walVars, diskVars, accountVars, callerVars
<1>6. CASE \E r \in Requests : Accept(r) \/ Shed(r)
  BY <1>6 DEF Accept, Shed, walVars, diskVars, accountVars
<1> QED BY <1>1, <1>2, <1>3, <1>4, <1>5, <1>6 DEF Next, ShutdownStep

\* The account of the active file is its length, but for the append being synced.
BytesOK == phase # "down" => activeBytes + Unsynced = Len(activeFile)

LEMMA BytesNext ==
  ASSUME TypeInv, WalOK, BytesOK, [Next]_vars, ~ activeOpen, tornWrites' = tornWrites,
         "error" \notin IoFaults
  PROVE  BytesOK'
<1>0. /\ Len(activeFile) \in Nat /\ Unsynced \in Nat /\ activeBytes \in Nat
  BY UnsyncedType DEF TypeInv, WalData
<1>1. CASE Boot BY <1>0, <1>1 DEF Boot, Adopt, batchVars, WalOK, BytesOK, Unsynced
<1>2. ASSUME UNCHANGED <<activeFile, activeBytes>>, Unsynced' = Unsynced,
             phase = "down" => phase' = "down"
      PROVE  BytesOK'
  BY <1>2 DEF BytesOK
<1>3. CASE LingerOver \/ \E r \in Requests : Accept(r) \/ Shed(r)
  <2>1. Unsynced' = Unsynced BY <1>3, ChainGrows DEF Unsynced
  <2> QED BY <1>2, <1>3, <2>1 DEF LingerOver, Accept, Shed, walVars, diskVars, accountVars
<1>4. CASE AnchorBegin \/ AnchorSendOk \/ AnchorSendFail \/ AnchorRefused
  BY <1>2, <1>4
     DEF AnchorBegin, AnchorSendOk, AnchorSendFail, AnchorRefused, Settle, walVars, diskVars,
         accountVars, Unsynced
<1>5. CASE AnchorWrite
  <2>1. anchorPc = "append" /\ phase # "down" BY <1>5 DEF AnchorWrite, WalOK
  <2>2. Head(queue) \in Seq(Msgs) BY <2>1, QueueHead DEF TypeInv
  <2>3. Head(queue) \in Seq(Lines) /\ activeFile \in Seq(Lines)
    BY <2>2, SeqMonotonic DEF Lines, TypeInv, WalData
  <2>4. activeFile' = activeFile \o Head(queue)
    BY <1>5, Zenon DEF AnchorWrite, AppendWrite, Extend
  <2>5. Len(activeFile') = Len(activeFile) + Len(Head(queue))
    BY <2>3, <2>4, ConcatProperties
  <2>6. activeBytes' = activeBytes /\ Unsynced = 0 /\ Unsynced' = Len(Head(queue))
    BY <1>5, <2>1 DEF AnchorWrite, accountVars, Unsynced
  <2> QED BY <1>0, <2>1, <2>5, <2>6 DEF BytesOK
<1>6. CASE AnchorSync
  <2>1. PICK n \in Nat : n = Len(Head(queue)) /\ n = Unsynced
    BY <1>6, QueueHead DEF AnchorSync, TypeInv, Unsynced
  <2>2. /\ UNCHANGED <<activeFile, phase>>
        /\ activeBytes' = activeBytes + n /\ Unsynced' = 0
    BY <1>6, <2>1 DEF AnchorSync, AppendAccount, Settle, diskVars, Unsynced
  <2> QED BY <1>0, <2>1, <2>2 DEF BytesOK
<1>7. CASE AnchorShortWrite \/ CrashMidWrite
  <2>1. tornWrites' = tornWrites + 1
    BY <1>7 DEF AnchorShortWrite, CrashMidWrite, AppendTorn
  <2> QED BY <2>1 DEF TypeInv, WalData
<1>8. CASE AnchorWriteError \/ AnchorSyncError
  BY <1>8 DEF AnchorWriteError, AnchorSyncError
<1>9. CASE FlushRename /\ UNCHANGED callerVars
  <2>1. anchorPc' # "sync" BY <1>9 DEF FlushRename, WalOK, callerVars, batchVars
  <2> QED BY <1>9, <2>1 DEF FlushRename, BytesOK, Unsynced
<1>10. CASE FlushStep /\ ~ FlushRename
  <2>1. UNCHANGED <<activeFile, activeBytes, callerVars>>
    BY <1>10 DEF FlushStep, FlushTick, FlushBegin, FlushFileStep, FlushFaultyStep,
         FlushLogStep, FlushRotate, FlushRead, FlushTruncate, FlushAdvance, FlushUnlink,
         FlushIoError, FlushUnlinkOffset, FlushConnect, FlushSendOk, FlushSendFail,
         FlushStartReading, FlushGiveUp, CountFlushed, diskVars, accountVars
  <2> QED BY <1>2, <2>1 DEF callerVars, batchVars, Unsynced
<1>11. CASE Sigterm \/ DrainBegin \/ DrainEnd \/ DrainTimeout \/ StopAndDisconnect
  BY <1>2, <1>11
     DEF Sigterm, DrainBegin, DrainEnd, DrainTimeout, StopAndDisconnect, FlushBegin, walVars,
         diskVars, accountVars, batchVars, Unsynced
<1>12. CASE Exit \/ Crash BY <1>12 DEF Exit, Crash, Die, BytesOK
<1>13. CASE Environment \/ UNCHANGED vars
  BY <1>2, <1>13
     DEF Environment, vars, walVars, diskVars, accountVars, callerVars, batchVars, Unsynced
<1>14. CASE FlushStep
  <2>1. UNCHANGED callerVars
    BY <1>14 DEF FlushStep, FlushTick, FlushFileStep, FlushFaultyStep, FlushLogStep
  <2> QED BY <1>9, <1>10, <1>14, <2>1
<1> QED
  BY <1>1, <1>3, <1>4, <1>5, <1>6, <1>7, <1>8, <1>11, <1>12, <1>13, <1>14
     DEF Next, AnchorStep, ShutdownStep

\* A pass starts a batch where the sidecar says, and its batch is in the file.
PassOK ==
  /\ flushPc \in {"read", "send"} => offset = from
  /\ flushPc \in {"send", "truncate", "advance"} => from <= to /\ to <= Len(flushingFile)

LEMMA PassNext ==
  ASSUME TypeInv, WalOK, PassOK, [Next]_vars
  PROVE  PassOK'
<1>0. /\ from \in Nat /\ to \in Nat /\ offset \in Nat /\ Len(flushingFile) \in Nat
  BY DEF TypeInv, WalData
<1>1. CASE FlushFileStep
  <2>1. CASE FlushRotate \/ FlushRename \/ FlushUnlink
    BY <2>1 DEF FlushRotate, FlushRename, FlushUnlink, PassOK
  <2>2. CASE FlushRead
    <3>1. UNCHANGED <<flushingFile, offset, from>> /\ flushPc = "read"
      BY <2>2 DEF FlushRead, diskVars
    <3>2. flushPc' = "unlink" \/ (flushPc' = "send" /\ from <= to' /\ to' <= Len(flushingFile))
      <4>1. CASE \E n \in from+1..Len(flushingFile) :
                   Completes(n) /\ flushPc' = "send" /\ to' = n /\ lastBatch' = FALSE
        BY <1>0, <4>1
      <4>2. CASE /\ to' = Len(flushingFile)
                 /\ flushPc' = IF MsgsIn(flushingFile, from, Len(flushingFile)) = {}
                               THEN "unlink" ELSE "send"
        <5>1. MsgsIn(flushingFile, from, Len(flushingFile)) # {} => from <= Len(flushingFile)
          BY <1>0 DEF MsgsIn
        <5> QED BY <1>0, <4>2, <5>1
      <4> QED BY <2>2, <4>1, <4>2 DEF FlushRead
    <3> QED BY <3>1, <3>2 DEF PassOK
  <2>3. CASE FlushTruncate BY <2>3 DEF FlushTruncate, PassOK
  <2>4. CASE FlushAdvance BY <2>4 DEF FlushAdvance, PassOK
  <2> QED BY <1>1, <2>1, <2>2, <2>3, <2>4 DEF FlushFileStep
<1>2. CASE FlushFaultyStep
  BY <1>2 DEF FlushFaultyStep, FlushIoError, FlushGiveUp, FlushUnlinkOffset, PassOK
<1>3. CASE FlushLogStep
  <2>1. CASE FlushConnect
    BY <2>1 DEF FlushConnect, FlushStartReading, FlushGiveUp, diskVars, PassOK
  <2>2. CASE FlushSendOk BY <2>2 DEF FlushSendOk, PassOK
  <2>3. CASE FlushSendFail BY <2>3 DEF FlushSendFail, FlushGiveUp, PassOK
  <2> QED BY <1>3, <2>1, <2>2, <2>3 DEF FlushLogStep
<1>4. CASE FlushBegin BY <1>4 DEF FlushBegin, PassOK
<1>5. CASE Boot
  <2>1. flushPc' = "idle" BY <1>5 DEF Boot, passVars, WalOK
  <2> QED BY <2>1 DEF PassOK
<1>6. CASE Die BY <1>6 DEF Die, ForgetMemory, PassOK
<1>7. CASE UNCHANGED <<flushingFile, offset, passVars>> BY <1>7 DEF passVars, PassOK
<1> QED BY <1>1, <1>2, <1>3, <1>4, <1>5, <1>6, <1>7, PassMovedBy

-----------------------------------------------------------------------------
\* The lines of file f after line p, torn ones left out.
Unread(f, p) == {k \in 1..Len(f) : p < k /\ f[k] # Torn}

LEMMA UnreadBound ==
  ASSUME NEW f \in Seq(Lines), NEW p \in Nat
  PROVE  /\ IsFiniteSet(Unread(f, p)) /\ Cardinality(Unread(f, p)) \in Nat
         /\ Cardinality(Unread(f, p)) <= (IF Len(f) > p THEN Len(f) - p ELSE 0)
<1>0. Len(f) \in Int /\ p + 1 \in Int OBVIOUS
<1>1. IsFiniteSet(p+1..Len(f)) /\
      Cardinality(p+1..Len(f)) = IF p + 1 > Len(f) THEN 0 ELSE Len(f) - (p + 1) + 1
  BY <1>0, FS_Interval
<1>2. Unread(f, p) \in SUBSET (p+1..Len(f)) BY <1>0 DEF Unread
<1>3. IsFiniteSet(Unread(f, p)) /\ Cardinality(Unread(f, p)) <= Cardinality(p+1..Len(f))
  BY <1>1, <1>2, FS_Subset
<1>4. Cardinality(Unread(f, p)) \in Nat BY <1>3, FS_CardinalityType
<1> QED BY <1>0, <1>1, <1>3, <1>4

\* What is left after a batch is what was left before it, less the batch.
LEMMA UnreadSplit ==
  ASSUME NEW f \in Seq(Lines), NEW a \in Nat, NEW b \in Nat, a <= b, b <= Len(f)
  PROVE  /\ Cardinality({k \in a+1..b : f[k] # Torn}) \in Nat
         /\ Cardinality(Unread(f, a))
              = Cardinality({k \in a+1..b : f[k] # Torn}) + Cardinality(Unread(f, b))
<1> DEFINE batch == {k \in a+1..b : f[k] # Torn}
<1>0. Len(f) \in Nat OBVIOUS
<1>1. IsFiniteSet(batch) /\ Cardinality(batch) \in Nat
  <2>1. IsFiniteSet(a+1..b) BY FS_Interval
  <2>2. batch \in SUBSET (a+1..b) OBVIOUS
  <2>3. IsFiniteSet(batch) BY <2>1, <2>2, FS_Subset
  <2> QED BY <2>3, FS_CardinalityType
<1>2. IsFiniteSet(Unread(f, b)) /\ Cardinality(Unread(f, b)) \in Nat BY UnreadBound
<1>3. Unread(f, a) = batch \cup Unread(f, b) BY <1>0 DEF Unread
<1>4. batch \cap Unread(f, b) = {} BY DEF Unread
<1>5. Cardinality(Unread(f, a))
        = Cardinality(batch) + Cardinality(Unread(f, b)) - Cardinality({})
  BY <1>1, <1>2, <1>3, <1>4, FS_Union
<1> QED BY <1>1, <1>2, <1>5, FS_EmptySet

\* How far into the .flushing file the pass, or else the sidecar, is.
Progress == IF flushPc \in {"read", "send", "truncate", "advance"} THEN from ELSE offset

\* The gauge counts every line not covered yet, or every line is on the log.
Counted ==
  phase # "down" =>
    \/ Covered(flushingFile, Len(flushingFile), onLog)
    \/ Cardinality(Unread(flushingFile, Progress)) <= flushingEvents

LEMMA CountedKept ==
  ASSUME TypeInv, LogGrows, Counted, phase # "down", UNCHANGED <<flushingFile, flushingEvents>>,
         Progress' = Progress
  PROVE  Counted'
<1>1. Covered(flushingFile, Len(flushingFile), onLog)
        => Covered(flushingFile, Len(flushingFile), onLog')
  BY CoveredKept DEF TypeInv, WalData
<1> QED BY <1>1 DEF Counted

LEMMA CountedEmpty == ASSUME flushingFile' = <<>> PROVE Counted'
BY DEF Counted, Covered

LEMMA CountedNext ==
  ASSUME TypeInv, WalOK, BytesOK, PassOK, Counted, [Next]_vars, "sidecar" \notin IoFaults
  PROVE  Counted'
<1>0. LogGrows /\ TypeInv' /\ WalOK' BY LogGrowsNext, TypeNext, WalOKNext
<1>1. CASE Die BY <1>1 DEF Die, Counted
<1>2. CASE Boot
  <2>1. CASE flushingFile = <<>> BY <2>1, <1>2, CountedEmpty DEF Boot, Adopt
  <2>2. CASE flushingFile # <<>>
    <3>1. UNCHANGED <<flushingFile, offset, passVars>> /\ flushPc = "idle"
      BY <1>2, <2>2 DEF Boot, Adopt, WalOK
    <3>2. Progress' = offset BY <3>1 DEF Progress, passVars
    <3>3. flushingEvents' = IF Len(flushingFile) > offset THEN Len(flushingFile) - offset ELSE 0
      BY <1>2 DEF Boot, Adopt
    <3>4. Cardinality(Unread(flushingFile, offset)) <= flushingEvents'
      BY <3>3, UnreadBound DEF TypeInv, WalData
    <3> QED BY <3>1, <3>2, <3>4 DEF Counted
  <2> QED BY <2>1, <2>2
<1>3. CASE FlushBegin /\ UNCHANGED onLog /\ phase # "down"
  <2>1. UNCHANGED <<flushingFile, flushingEvents, offset>> /\ flushPc = "idle"
    BY <1>3 DEF FlushBegin, PassCanStart, diskVars, accountVars
  <2>2. Progress' = Progress BY <1>3, <2>1 DEF FlushBegin, Progress
  <2> QED BY <1>0, <1>3, <2>1, <2>2, CountedKept
<1>4. CASE UNCHANGED <<flushingFile, offset, producedUpTo, passVars, flushingEvents>>
           /\ (phase = "down" => phase' = "down")
  <2>1. Progress' = Progress BY <1>4 DEF passVars, Progress
  <2>2. CASE phase # "down" BY <1>0, <1>4, <2>1, <2>2, CountedKept
  <2>3. CASE phase = "down" BY <1>4, <2>3 DEF Counted
  <2> QED BY <2>2, <2>3
<1>5. ASSUME FlushFileStep \/ FlushFaultyStep \/ FlushLogStep
      PROVE  phase # "down" /\ UNCHANGED phase
  <2>1. flushPc # "idle"
    BY <1>5 DEF FlushFileStep, FlushFaultyStep, FlushLogStep, FlushRotate, FlushRename,
         FlushRead, FlushTruncate, FlushAdvance, FlushUnlink, FlushIoError,
         FlushUnlinkOffset, FlushConnect, FlushSendOk, FlushSendFail
  <2>2. UNCHANGED phase
    BY <1>5 DEF FlushFileStep, FlushFaultyStep, FlushLogStep, callerVars
  <2> QED BY <2>1, <2>2 DEF WalOK
<1>6. ASSUME phase # "down", flushPc' = "unlink" PROVE Counted'
  BY <1>0, <1>6 DEF WalOK, Counted
<1>7. CASE FlushFileStep
  <2>1. CASE FlushRotate
    <3>1. flushingFile' = <<>> BY <2>1 DEF FlushRotate, WalOK
    <3> QED BY <3>1, CountedEmpty
  <2>2. CASE FlushRename
    <3>1. anchorPc # "sync" /\ flushPc = "rename" /\ offset = 0 BY <2>2 DEF FlushRename, WalOK
    <3>2. activeBytes = Len(activeFile)
      BY <1>5, <1>7, <3>1 DEF BytesOK, Unsynced, TypeInv, WalData
    <3>3. /\ flushingFile' = activeFile /\ flushingEvents' = Len(activeFile)
          /\ Progress' = 0
      BY <2>2, <3>1, <3>2 DEF FlushRename, Progress
    <3>4. Cardinality(Unread(activeFile, 0)) <= Len(activeFile)
      BY UnreadBound DEF TypeInv, WalData
    <3> QED BY <3>3, <3>4 DEF Counted
  <2>3. CASE FlushRead
    <3>1. UNCHANGED <<flushingFile, flushingEvents, offset, from>> /\ flushPc = "read"
      BY <2>3 DEF FlushRead, diskVars, accountVars
    <3>2. CASE flushPc' = "send"
      <4>1. Progress' = Progress BY <3>1, <3>2 DEF Progress
      <4> QED BY <1>0, <1>5, <1>7, <3>1, <4>1, CountedKept
    <3> QED BY <1>5, <1>6, <1>7, <2>3, <3>2 DEF FlushRead
  <2>4. CASE FlushTruncate
    <3>1. UNCHANGED <<flushingFile, flushingEvents>> /\ Progress' = Progress
      BY <2>4 DEF FlushTruncate, accountVars, Progress
    <3> QED BY <1>0, <1>5, <1>7, <3>1, CountedKept
  <2>5. CASE FlushAdvance
    <3>1. /\ UNCHANGED <<flushingFile, onLog>> /\ Progress = from /\ Progress' = to
          /\ from <= to /\ to <= Len(flushingFile) /\ phase # "down"
      BY <1>5, <1>7, <2>5 DEF FlushAdvance, FlushFileStep, logVars, Progress, PassOK
    <3>2. CASE Covered(flushingFile, Len(flushingFile), onLog) BY <3>1, <3>2 DEF Counted
    <3>3. CASE Cardinality(Unread(flushingFile, from)) <= flushingEvents
      <4>0. /\ BatchSize \in Nat
            /\ Cardinality(Unread(flushingFile, from))
                 = BatchSize + Cardinality(Unread(flushingFile, to))
        BY <3>1, UnreadSplit DEF BatchSize, TypeInv, WalData
      <4>1. PICK batch \in Nat : /\ batch = BatchSize
                                 /\ Cardinality(Unread(flushingFile, from))
                                      = batch + Cardinality(Unread(flushingFile, to))
        BY <4>0
      <4>2. PICK left \in Nat : left = Cardinality(Unread(flushingFile, to))
        BY UnreadBound DEF TypeInv, WalData
      <4>3. flushingEvents' = IF flushingEvents > batch THEN flushingEvents - batch ELSE 0
        BY <2>5, <4>1 DEF FlushAdvance, CountFlushed
      <4>4. left <= flushingEvents'
        BY <3>3, <4>1, <4>2, <4>3 DEF TypeInv, WalData
      <4> QED BY <3>1, <4>2, <4>4 DEF Counted
    <3> QED BY <3>1, <3>2, <3>3 DEF Counted
  <2>6. CASE FlushUnlink BY <2>6, CountedEmpty DEF FlushUnlink
  <2> QED BY <1>7, <2>1, <2>2, <2>3, <2>4, <2>5, <2>6 DEF FlushFileStep
<1>8. CASE FlushFaultyStep
  <2>1. CASE FlushIoError
    <3>1. UNCHANGED <<flushingFile, flushingEvents, offset>> /\ flushPc = "unlink"
      BY <2>1 DEF FlushIoError, FlushGiveUp, diskVars, accountVars
    <3>2. Progress' = Progress BY <2>1, <3>1 DEF FlushIoError, FlushGiveUp, Progress
    <3> QED BY <1>0, <1>5, <1>8, <3>1, <3>2, CountedKept
  <2>2. CASE FlushUnlinkOffset
    <3>1. flushingFile' = <<>> BY <2>2 DEF FlushUnlinkOffset, WalOK
    <3> QED BY <3>1, CountedEmpty
  <2> QED BY <1>8, <2>1, <2>2 DEF FlushFaultyStep
<1>9. CASE FlushLogStep
  <2>1. CASE FlushConnect
    <3>1. UNCHANGED <<flushingFile, flushingEvents, offset>> /\ flushPc = "connect"
      BY <2>1 DEF FlushConnect, FlushStartReading, FlushGiveUp, diskVars, accountVars
    <3>2. Progress' = Progress
      BY <2>1, <3>1 DEF FlushConnect, FlushStartReading, FlushGiveUp, Progress
    <3> QED BY <1>0, <1>5, <1>9, <3>1, <3>2, CountedKept
  <2>2. CASE FlushSendOk
    <3>1. CASE flushPc' = "unlink" BY <1>5, <1>6, <1>9, <3>1
    <3>2. CASE flushPc' # "unlink"
      <4>1. UNCHANGED <<flushingFile, flushingEvents, from>> /\ Progress' = Progress
        BY <2>2, <3>2 DEF FlushSendOk, accountVars, Progress
      <4> QED BY <1>0, <1>5, <1>9, <4>1, CountedKept
    <3> QED BY <3>1, <3>2
  <2>3. CASE FlushSendFail
    <3>1. UNCHANGED <<flushingFile, flushingEvents, offset>> /\ flushPc = "send"
      BY <2>3 DEF FlushSendFail, FlushGiveUp, diskVars, accountVars
    <3>2. Progress' = Progress BY <2>3, <3>1 DEF FlushSendFail, FlushGiveUp, Progress, PassOK
    <3> QED BY <1>0, <1>5, <1>9, <3>1, <3>2, CountedKept
  <2> QED BY <1>9, <2>1, <2>2, <2>3 DEF FlushLogStep
<1> QED BY <1>1, <1>2, <1>3, <1>4, <1>7, <1>8, <1>9, PassMovedBy

-----------------------------------------------------------------------------
\* An acknowledged message is on the log, in the rotated file, or accounted for
\* in the active one.
AckedCounted ==
  phase # "down" =>
    \A m \in Msgs : status[m] = "acked" =>
       \/ Logged(m) \/ Holds(flushingFile, m)
       \/ Holds(activeFile, m) /\ activeBytes > 0

LEMMA AckedCountedNext ==
  ASSUME TypeInv, WalOK, Kept, AckedCounted, [Next]_vars, tornWrites = 0, tornWrites' = 0
  PROVE  AckedCounted'
<1> SUFFICES ASSUME phase' # "down", NEW m \in Msgs, status'[m] = "acked"
             PROVE  \/ Logged(m)' \/ Holds(flushingFile', m)
                    \/ Holds(activeFile', m) /\ activeBytes' > 0
  BY DEF AckedCounted
<1>0. Logged(m) => Logged(m)' BY LogGrowsNext DEF LogGrows, Logged
<1>1. CASE Boot
  <2>1. Durable(m)
    BY <1>1 DEF Boot, batchVars, Kept, AckedDurable
  <2>2. UNCHANGED <<activeFile, flushingFile>> /\ activeBytes' = Len(activeFile)
    BY <1>1 DEF Boot, Adopt
  <2> QED BY <1>0, <2>1, <2>2 DEF Durable, Recoverable, Holds, TypeInv, WalData
<1>2. CASE AnchorSync /\ status[m] # "acked"
  <2>1. Holds(Head(queue), m) BY <1>2, AckedBy
  <2>2. Holds(activeFile', m) BY <1>2, <2>1 DEF AnchorSync, diskVars, Kept, Holds
  <2>3. Head(queue) \in Seq(Msgs) BY <1>2, QueueHead DEF AnchorSync, TypeInv
  <2>4. Len(Head(queue)) \in Nat /\ Len(Head(queue)) > 0 BY <2>1, <2>3 DEF Holds
  <2>5. activeBytes' > 0
    BY <1>2, <2>4 DEF AnchorSync, AppendAccount, TypeInv, WalData
  <2> QED BY <2>2, <2>5
<1>3. CASE AnchorSendOk /\ status[m] # "acked"
  <2>1. m \in {x \in Msgs : Holds(Head(queue), x)} BY <1>3, AckedBy
  <2> QED BY <1>3, <2>1, SendOkType DEF AnchorSendOk, TypeInv
<1>4. CASE status[m] = "acked" /\ ~ Boot
  <2>0. phase # "down"
    <3>1. ~ Die BY DEF Die
    <3>2. FlushFileStep \/ FlushFaultyStep \/ FlushLogStep => phase # "down"
      BY DEF FlushFileStep, FlushFaultyStep, FlushLogStep, FlushRotate, FlushRename,
         FlushRead, FlushTruncate, FlushAdvance, FlushUnlink, FlushIoError,
         FlushUnlinkOffset, FlushConnect, FlushSendOk, FlushSendFail, WalOK
    <3> QED BY <1>4, <3>1, <3>2, PassMovedBy
  <2>1. /\ UNCHANGED flushingFile \/ FlushRename \/ FlushUnlink
        /\ UNCHANGED activeFile \/ AnchorWrite \/ FlushRename
        /\ UNCHANGED activeBytes \/ AnchorSync \/ FlushRename
    <3>1. ~ Die BY DEF Die
    <3> QED BY <1>4, <3>1, FilesMovedBy
  <2>2. CASE Logged(m) BY <1>0, <2>2
  <2>3. CASE Holds(flushingFile, m)
    <3>1. CASE UNCHANGED flushingFile BY <2>3, <3>1
    <3>2. CASE FlushRename BY <2>3, <3>2, HoldsEmpty DEF FlushRename, WalOK
    <3>3. CASE FlushUnlink
      <4>1. Covered(flushingFile, Len(flushingFile), onLog) BY <3>3 DEF FlushUnlink, WalOK
      <4>2. Logged(m)
        BY <2>3, <4>1, WalAssumption DEF Covered, Holds, Logged, TypeInv, WalData
      <4> QED BY <1>0, <4>2
    <3> QED BY <2>1, <3>1, <3>2, <3>3
  <2>4. CASE Holds(activeFile, m) /\ activeBytes > 0
    <3>1. CASE FlushRename BY <2>4, <3>1 DEF FlushRename
    <3>2. CASE ~ FlushRename
      <4>1. activeBytes' > 0
        <5>1. CASE UNCHANGED activeBytes BY <2>4, <5>1
        <5>2. CASE AnchorSync
          <6>1. Len(Head(queue)) \in Nat BY <5>2, QueueHead DEF AnchorSync, TypeInv
          <6> QED BY <2>4, <5>2, <6>1 DEF AnchorSync, AppendAccount, TypeInv, WalData
        <5> QED BY <2>1, <3>2, <5>1, <5>2
      <4>2. Holds(activeFile', m)
        <5>1. CASE UNCHANGED activeFile BY <2>4, <5>1
        <5>2. CASE AnchorWrite
          <6>1. Head(queue) \in Seq(Msgs) BY <5>2, QueueHead DEF AnchorWrite, TypeInv
          <6>2. Holds(activeFile, m)'
            BY <2>4, <5>2, <6>1, AppendKeeps DEF AnchorWrite, Kept
          <6> QED BY <6>2 DEF Holds
        <5> QED BY <2>1, <3>2, <5>1, <5>2
      <4> QED BY <4>1, <4>2
    <3> QED BY <3>1, <3>2
  <2> QED BY <1>4, <2>0, <2>2, <2>3, <2>4 DEF AckedCounted
<1> QED BY <1>1, <1>2, <1>3, <1>4, AckedBy

\* When the pending gauge reads 0 the durability exposure window is closed:
\* every acknowledged message is on the log, whatever outages, crashes and
\* restarts came before.  Sidecar writes that fail are excluded, for the gauge
\* then really reads 0 too early, and so are appends cut short.
THEOREM CollectorGaugeCovers ==
  ASSUME IoFaults \subseteq {"unlink"}
  PROVE  Spec => []GaugeCoversExposure
<1> DEFINE Inv == /\ TypeInv /\ WalOK /\ Kept /\ tornWrites = 0
                  /\ BytesOK /\ PassOK /\ Counted /\ AckedCounted
<1>1. Init => Inv
  BY TypeInit, WalOKInit, KeptInit
     DEF Init, WalInit, BytesOK, PassOK, Counted, AckedCounted
<1>2. Inv /\ [Next]_vars => Inv'
  <2> SUFFICES ASSUME Inv, [Next]_vars PROVE Inv' OBVIOUS
  <2>1. tornWrites' = 0 BY TornWritesGrow DEF Tearing
  <2>2. TypeInv' /\ WalOK' /\ Kept' BY TypeNext, WalOKNext, KeptNext
  <2>3. BytesOK' BY <2>1, BytesNext DEF Kept
  <2>4. PassOK' BY PassNext
  <2>5. Counted' BY CountedNext
  <2>6. AckedCounted' BY <2>1, AckedCountedNext
  <2> QED BY <2>1, <2>2, <2>3, <2>4, <2>5, <2>6
<1>3. Inv => GaugeCoversExposure
  <2> SUFFICES ASSUME Inv, phase # "down", PendingEvents = 0, NEW m \in Msgs,
                      status[m] = "acked"
               PROVE  Logged(m)
    BY DEF GaugeCoversExposure
  <2>1. activeBytes = 0 /\ flushingEvents = 0 BY DEF PendingEvents, TypeInv, WalData
  <2>2. Logged(m) \/ Holds(flushingFile, m) BY <2>1 DEF AckedCounted
  <2>3. Progress \in Nat BY DEF Progress, TypeInv, WalData
  <2>4. Covered(flushingFile, Progress, onLog)
    BY DEF WalOK, PassOK, Progress, Covered, TypeInv, WalData
  <2>5. Covered(flushingFile, Len(flushingFile), onLog)
    <3>1. CASE Cardinality(Unread(flushingFile, Progress)) <= flushingEvents
      <4>1. Unread(flushingFile, Progress) = {}
        BY <2>1, <2>3, <3>1, UnreadBound, FS_EmptySet DEF TypeInv, WalData
      <4> QED BY <2>3, <2>4, <4>1 DEF Unread, Covered
    <3> QED BY <3>1 DEF Counted
  <2> QED BY <2>2, <2>5, WalAssumption DEF Holds, Covered, Logged, TypeInv, WalData
<1> QED BY <1>1, <1>2, <1>3, PTL DEF Spec

-----------------------------------------------------------------------------
(* Exactly once.  While nothing has failed, a message is in one place: with *)
(* its client, waiting, in one line of a file not produced yet, or on the   *)
(* log.                                                                     *)

Distinct(s) == \A i, j \in 1..Len(s) : s[i] = s[j] => i = j

\* m is in the buffer or in a batch that no append has stored.
Waits(m) ==
  \/ Holds(buffer, m)
  \/ \E i \in 1..Len(queue) : (i = 1 => anchorPc # "sync") /\ Holds(queue[i], m)

Unproduced(m) ==
  \E k \in 1..Len(flushingFile) : producedUpTo < k /\ flushingFile[k] = m

OnDisk(m) == Holds(activeFile, m) \/ Unproduced(m)

BatchesDistinct == Distinct(buffer) /\ \A i \in 1..Len(queue) : Distinct(queue[i])

\* The sidecar covers what was produced, but between a produce and its sidecar write.
SidecarOK ==
  /\ producedUpTo <= Len(flushingFile)
  /\ faults = 0 =>
       /\ flushPc \notin {"truncate", "advance", "unlink"} => producedUpTo <= offset
       /\ flushPc \in {"truncate", "advance"} => producedUpTo = to

Once ==
  faults = 0 =>
    /\ \A m \in Msgs : onLog[m] <= 1
    /\ \A m \in Msgs : status[m] = "new" \/ Waits(m) => ~ OnDisk(m) /\ ~ Logged(m)
    /\ \A m \in Msgs : OnDisk(m) => ~ Logged(m)
    /\ \A m \in Msgs : Holds(activeFile, m) => ~ Unproduced(m)
    /\ Distinct(activeFile)
    /\ \A i, j \in 1..Len(flushingFile) :
         producedUpTo < i /\ producedUpTo < j /\ flushingFile[i] = flushingFile[j] => i = j

LEMMA DistinctConcat ==
  ASSUME NEW S, NEW s \in Seq(S), NEW t \in Seq(S), Distinct(s), Distinct(t),
         \A m : ~ (Holds(s, m) /\ Holds(t, m))
  PROVE  Distinct(s \o t)
<1>0. /\ s \o t \in Seq(S) /\ Len(s \o t) = Len(s) + Len(t)
      /\ Len(s) \in Nat /\ Len(t) \in Nat
      /\ \A i \in 1..Len(s) : (s \o t)[i] = s[i]
      /\ \A i \in 1..Len(t) : (s \o t)[Len(s) + i] = t[i]
  OBVIOUS
<1>1. ASSUME NEW k \in 1..Len(s \o t)
      PROVE  \/ k \in 1..Len(s) /\ (s \o t)[k] = s[k]
             \/ k - Len(s) \in 1..Len(t) /\ (s \o t)[k] = t[k - Len(s)]
  <2>1. CASE k <= Len(s) BY <1>0, <2>1
  <2>2. CASE k > Len(s)
    <3>1. k - Len(s) \in 1..Len(t) /\ k = Len(s) + (k - Len(s)) BY <1>0, <2>2
    <3> QED BY <1>0, <3>1
  <2> QED BY <1>0, <2>1, <2>2
<1>2. SUFFICES ASSUME NEW i \in 1..Len(s \o t), NEW j \in 1..Len(s \o t),
                      (s \o t)[i] = (s \o t)[j]
               PROVE  i = j
  BY DEF Distinct
<1>3. CASE i \in 1..Len(s) /\ (s \o t)[i] = s[i]
  <2>1. Holds(s, (s \o t)[i]) BY <1>3 DEF Holds
  <2>2. ~ (j - Len(s) \in 1..Len(t) /\ (s \o t)[j] = t[j - Len(s)])
    BY <1>2, <2>1 DEF Holds
  <2> QED BY <1>1, <1>2, <1>3, <2>2 DEF Distinct
<1>4. CASE i - Len(s) \in 1..Len(t) /\ (s \o t)[i] = t[i - Len(s)]
  <2>1. Holds(t, (s \o t)[i]) BY <1>4 DEF Holds
  <2>2. ~ (j \in 1..Len(s) /\ (s \o t)[j] = s[j]) BY <1>2, <2>1 DEF Holds
  <2>3. j - Len(s) \in 1..Len(t) /\ (s \o t)[j] = t[j - Len(s)] BY <1>1, <2>2
  <2>4. i - Len(s) = j - Len(s) BY <1>2, <1>4, <2>3 DEF Distinct
  <2> QED BY <1>0, <2>4
<1> QED BY <1>1, <1>3, <1>4

\* Faults are counted and never forgotten.
LEMMA FaultsGrow ==
  ASSUME TypeInv, [Next]_vars
  PROVE  faults' >= faults
<1>0. faults \in Nat BY DEF TypeInv, LogData
<1>1. CASE AnchorStep
  BY <1>0, <1>1, SendFailType
     DEF AnchorStep, AnchorBegin, AnchorSendOk, SendOk, AnchorSendFail, AnchorRefused,
         AnchorWrite, AnchorSync, AnchorWriteError, AnchorSyncError, AnchorShortWrite,
         AppendTorn, SpendFault, logVars, TypeInv
<1>2. CASE FlushStep
  BY <1>0, <1>2, SendFailType
     DEF FlushStep, FlushTick, FlushFileStep, FlushFaultyStep, FlushIoError,
         FlushUnlinkOffset, FlushLogStep, FlushConnect, FlushSendOk, SendOk, FlushSendFail,
         SpendFault, logVars, TypeInv
<1>3. CASE Sigterm \/ ShutdownStep \/ Crash \/ CrashMidWrite
  BY <1>0, <1>3 DEF Sigterm, ShutdownStep, DrainBegin, DrainEnd, DrainTimeout,
       StopAndDisconnect, Exit, Crash, CrashMidWrite, AppendTorn, SpendFault, logVars
<1>4. CASE Boot \/ LingerOver \/ Environment \/ UNCHANGED vars
  BY <1>0, <1>4 DEF Boot, Adopt, LingerOver, Environment, BrokerFlip, SocketDropped,
       SpendFault, vars, logVars
<1>5. CASE \E r \in Requests : Accept(r) \/ Shed(r)
  BY <1>0, <1>5 DEF Accept, Shed, logVars
<1> QED BY <1>1, <1>2, <1>3, <1>4, <1>5 DEF Next

LEMMA BatchesDistinctTake ==
  ASSUME TypeInv, BatchesDistinct, NEW b \in Seq(Msgs), Distinct(b), TakeBatch(b)
  PROVE  BatchesDistinct'
<1>1. queue \in Seq(Seq(Msgs)) /\ queue' = Append(queue, b) /\ buffer' = <<>>
  BY DEF TypeInv, CallerData, TakeBatch
<1>2. \A i \in 1..Len(queue') :
         \/ i \in 1..Len(queue) /\ queue'[i] = queue[i]
         \/ i = Len(queue) + 1 /\ queue'[i] = b
  BY <1>1, ChainAppend
<1>3. \A i \in 1..Len(queue') : Distinct(queue'[i]) BY <1>2 DEF BatchesDistinct
<1>4. Distinct(buffer') BY <1>1 DEF Distinct
<1> QED BY <1>3, <1>4, Zenon DEF BatchesDistinct, Distinct

LEMMA BatchesDistinctNext ==
  ASSUME TypeInv, Queued, BatchesDistinct, [Next]_vars, \A r \in Requests : Distinct(r)
  PROVE  BatchesDistinct'
<1>0. ASSUME UNCHANGED <<buffer, queue>> PROVE BatchesDistinct'
  BY <1>0 DEF BatchesDistinct, Distinct
<1>1. CASE \/ AnchorSendOk \/ AnchorRefused \/ AnchorSync \/ AnchorWriteError
           \/ AnchorSyncError
  <2>1. anchorPc # "idle" /\ queue' = Tail(queue) /\ UNCHANGED buffer
    BY <1>1 DEF AnchorSendOk, AnchorRefused, AnchorSync, AnchorWriteError, AnchorSyncError,
         Settle
  <2>2. \A i \in 1..Len(queue') : i + 1 \in 1..Len(queue) /\ queue'[i] = queue[i + 1]
    BY <2>1, ChainTail DEF TypeInv, CallerData
  <2> QED BY <2>1, <2>2 DEF BatchesDistinct, Distinct
<1>2. CASE AnchorBegin \/ AnchorSendFail \/ AnchorWrite \/ AnchorShortWrite
  BY <1>0, <1>2 DEF AnchorBegin, AnchorSendFail, AnchorWrite, AnchorShortWrite
<1>3. CASE FlushStep
  BY <1>0, <1>3 DEF FlushStep, FlushTick, FlushFileStep, FlushFaultyStep, FlushLogStep,
       callerVars, batchVars
<1>4. CASE Sigterm \/ DrainBegin \/ DrainEnd \/ DrainTimeout \/ StopAndDisconnect
  BY <1>0, <1>4 DEF Sigterm, DrainBegin, DrainEnd, DrainTimeout, StopAndDisconnect,
       batchVars
<1>5. CASE Exit \/ Crash \/ CrashMidWrite
  <2>1. buffer' = <<>> /\ queue' = <<>> BY <1>5 DEF Exit, Crash, CrashMidWrite, Die
  <2> QED BY <2>1 DEF BatchesDistinct, Distinct
<1>6. CASE \E r \in Requests : Accept(r)
  <2>1. PICK r \in Requests : Accept(r) BY <1>6
  <2>2. r \in Seq(Msgs) /\ buffer \in Seq(Msgs) /\ buffer \o r \in Seq(Msgs)
    BY RequestAssumption DEF TypeInv, CallerData
  <2>3. \A m : ~ (Holds(buffer, m) /\ Holds(r, m))
    <3> SUFFICES ASSUME NEW m, Holds(buffer, m), Holds(r, m) PROVE FALSE OBVIOUS
    <3>1. m \in Msgs BY <2>2 DEF Holds
    <3> QED BY <2>1, <3>1 DEF Accept, Queued
  <2>4. Distinct(buffer \o r) BY <2>2, <2>3, DistinctConcat DEF BatchesDistinct
  <2>5. CASE TakeBatch(buffer \o r) BY <2>2, <2>4, <2>5, BatchesDistinctTake
  <2>6. CASE buffer' = buffer \o r /\ UNCHANGED queue
    BY <2>4, <2>6, Zenon DEF BatchesDistinct, Distinct
  <2> QED BY <2>1, <2>5, <2>6 DEF Accept
<1>7. CASE \E r \in Requests : Shed(r) BY <1>0, <1>7 DEF Shed, batchVars
<1>8. CASE LingerOver
  BY <1>8, BatchesDistinctTake DEF LingerOver, BatchesDistinct, TypeInv, CallerData
<1>9. CASE Boot \/ Environment \/ UNCHANGED vars
  BY <1>0, <1>9 DEF Boot, Environment, vars, callerVars, batchVars
<1> QED
  BY <1>1, <1>2, <1>3, <1>4, <1>5, <1>6, <1>7, <1>8, <1>9 DEF Next, AnchorStep, ShutdownStep

\* The faults happen to be the only way off the straight path of a pass.
LEMMA Unfailing ==
  ASSUME TypeInv, WalOK, [Next]_vars, faults' = 0, MaxFaults > 0
  PROVE  /\ faults = 0 /\ tornWrites' = tornWrites
         /\ ~ FlushIoError
         /\ Die => flushPc = "idle"
         /\ AnchorSendFail \/ FlushSendFail => UNCHANGED onLog
<1>1. faults = 0 BY FaultsGrow DEF TypeInv, LogData
<1>2. tornWrites = 0 /\ tornWrites' = 0
  <2>1. TypeInv' BY TypeNext
  <2> QED BY <1>1, <2>1 DEF TypeInv, WalData
<1>3. ~ SpendFault BY <1>1 DEF SpendFault
<1>4. Die => flushPc = "idle"
  <2> SUFFICES ASSUME Die PROVE flushPc = "idle" OBVIOUS
  <2>1. ~ Crash /\ ~ CrashMidWrite BY <1>3 DEF Crash, CrashMidWrite, AppendTorn
  <2>2. CASE Exit BY <1>1, <2>2 DEF Exit
  <2>3. CASE phase = "down" BY <2>3 DEF WalOK
  <2>4. phase' = "down" BY DEF Die
  <2>5. Exit \/ phase = "down"
    <3>1. ~ Boot /\ ~ Sigterm /\ ~ DrainBegin /\ ~ DrainEnd /\ ~ DrainTimeout
             /\ ~ StopAndDisconnect
      BY <2>4 DEF Boot, Sigterm, DrainBegin, DrainEnd, DrainTimeout, StopAndDisconnect
    <3>2. CASE AnchorStep
      BY <2>4, <3>2 DEF AnchorStep, AnchorBegin, AnchorSendOk, AnchorSendFail,
           AnchorRefused, AnchorWrite, AnchorSync, AnchorWriteError, AnchorSyncError,
           AnchorShortWrite, Settle
    <3>3. CASE FlushStep
      BY <2>4, <3>3 DEF FlushStep, FlushTick, FlushFileStep, FlushFaultyStep, FlushLogStep,
           callerVars
    <3>4. CASE \/ LingerOver \/ Environment \/ UNCHANGED vars
               \/ \E r \in Requests : Accept(r) \/ Shed(r)
      BY <2>4, <3>4 DEF LingerOver, Environment, Accept, Shed, vars, callerVars
    <3> QED BY <2>1, <3>1, <3>2, <3>3, <3>4 DEF Next, ShutdownStep
  <2> QED BY <2>2, <2>3, <2>5
<1>5. AnchorSendFail \/ FlushSendFail => UNCHANGED onLog
  BY <1>3 DEF AnchorSendFail, FlushSendFail, SendFail
<1>6. ~ FlushIoError BY <1>3 DEF FlushIoError
<1> QED BY <1>1, <1>2, <1>4, <1>5, <1>6

LEMMA SidecarNext ==
  ASSUME TypeInv, WalOK, PassOK, SidecarOK, [Next]_vars, MaxFaults > 0
  PROVE  SidecarOK'
<1>0. /\ producedUpTo \in Nat /\ offset \in Nat /\ to \in Nat /\ from \in Nat
      /\ Len(flushingFile) \in Nat /\ (flushingFile = <<>> => Len(flushingFile) = 0)
  BY DEF TypeInv, WalData
<1>1. faults' = 0 =>
        /\ faults = 0 /\ ~ FlushIoError
        /\ Die => flushPc = "idle"
  BY Unfailing
<1>2. CASE FlushFileStep
  <2>1. CASE FlushRotate
    <3>1. flushingFile = <<>> BY <2>1 DEF FlushRotate, WalOK
    <3> QED BY <1>0, <1>1, <2>1, <3>1 DEF FlushRotate, SidecarOK
  <2>2. CASE FlushRename
    <3>1. producedUpTo' = 0 /\ offset' = 0 /\ flushPc' = "connect"
      BY <2>2 DEF FlushRename, WalOK
    <3>2. flushingFile' \in Seq(Lines) BY <2>2 DEF FlushRename, TypeInv, WalData
    <3>3. Len(flushingFile') \in Nat BY <3>2
    <3> QED BY <3>1, <3>3 DEF SidecarOK
  <2>3. CASE FlushRead BY <1>1, <2>3 DEF FlushRead, diskVars, SidecarOK
  <2>4. CASE FlushTruncate BY <1>1, <2>4 DEF FlushTruncate, SidecarOK
  <2>5. CASE FlushAdvance BY <1>0, <1>1, <2>5 DEF FlushAdvance, SidecarOK
  <2>6. CASE FlushUnlink
    <3>1. producedUpTo' = 0 /\ UNCHANGED offset /\ flushPc' = "unlinkOffset"
          /\ Len(flushingFile') = 0
      BY <2>6 DEF FlushUnlink
    <3> QED BY <1>0, <3>1 DEF SidecarOK
  <2> QED BY <1>2, <2>1, <2>2, <2>3, <2>4, <2>5, <2>6 DEF FlushFileStep
<1>3. CASE FlushIoError
  BY <1>1, <1>3 DEF FlushIoError, FlushGiveUp, diskVars, SidecarOK
<1>4. CASE FlushUnlinkOffset
  <2>1. flushingFile = <<>> BY <1>4 DEF FlushUnlinkOffset, WalOK
  <2> QED BY <1>0, <1>1, <1>4, <2>1 DEF FlushUnlinkOffset, SidecarOK
<1>5. CASE FlushLogStep
  <2>1. CASE FlushConnect
    BY <1>1, <2>1 DEF FlushConnect, FlushStartReading, FlushGiveUp, diskVars, SidecarOK
  <2>2. CASE FlushSendOk BY <1>0, <1>1, <2>2 DEF FlushSendOk, PassOK, SidecarOK
  <2>3. CASE FlushSendFail
    BY <1>1, <2>3 DEF FlushSendFail, FlushGiveUp, diskVars, SidecarOK
  <2> QED BY <1>5, <2>1, <2>2, <2>3 DEF FlushLogStep
<1>6. CASE FlushBegin
  BY <1>1, <1>6 DEF FlushBegin, PassCanStart, diskVars, SidecarOK
<1>7. CASE Boot
  <2>1. flushPc' = "idle" /\ flushPc = "idle" BY <1>7 DEF Boot, passVars, WalOK
  <2>2. UNCHANGED <<flushingFile, producedUpTo>> BY <1>7 DEF Boot, Adopt
  <2>3. UNCHANGED offset \/ flushingFile = <<>> BY <1>7 DEF Boot, Adopt
  <2>4. offset' \in Nat BY <1>0, <1>7 DEF Boot, Adopt
  <2> QED BY <1>0, <1>1, <2>1, <2>2, <2>3, <2>4 DEF SidecarOK
<1>8. CASE Die /\ UNCHANGED <<flushingFile, offset, producedUpTo>>
  <2>1. flushPc' = "idle" BY <1>8 DEF Die, ForgetMemory
  <2> QED BY <1>1, <1>8, <2>1 DEF SidecarOK
<1>9. CASE UNCHANGED <<flushingFile, offset, producedUpTo, passVars, flushingEvents>>
  BY <1>1, <1>9 DEF passVars, SidecarOK
<1> QED
  BY <1>2, <1>3, <1>4, <1>5, <1>6, <1>7, <1>8, <1>9, PassMovedBy DEF FlushFaultyStep

\* Nobody goes back to waiting, or to not having been sent.
LEMMA WaitsNext ==
  ASSUME TypeInv, [Next]_vars, NEW m \in Msgs, status'[m] = "new" \/ Waits(m)'
  PROVE  status[m] = "new" \/ Waits(m)
<1> USE DEF TypeInv, CallerData
<1>0. ASSUME UNCHANGED <<buffer, queue, status>>, anchorPc # "sync"
      PROVE  status[m] = "new" \/ Waits(m)
  BY <1>0 DEF Waits, Holds
<1>a. ASSUME UNCHANGED <<buffer, queue, status, anchorPc>>
      PROVE  status[m] = "new" \/ Waits(m)
  BY <1>a DEF Waits, Holds
<1>1. CASE \/ AnchorSendOk \/ AnchorRefused \/ AnchorSync \/ AnchorWriteError
           \/ AnchorSyncError
  <2>1. anchorPc # "idle" /\ UNCHANGED buffer /\ queue' = Tail(queue)
        /\ \E what \in Statuses : what # "new" /\ Tell(Head(queue), what)
    BY <1>1 DEF AnchorSendOk, AnchorRefused, AnchorSync, AnchorWriteError, AnchorSyncError,
         Settle, Statuses
  <2>2. status'[m] = "new" => status[m] = "new" BY <2>1 DEF Tell
  <2>3. \A i \in 1..Len(queue') : i + 1 \in 2..Len(queue) /\ queue'[i] = queue[i + 1]
    BY <2>1, ChainTail
  <2>4. ASSUME NEW i \in 1..Len(queue'), Holds(queue'[i], m) PROVE Waits(m)
    <3>1. i + 1 \in 1..Len(queue) /\ i + 1 # 1 /\ Holds(queue[i + 1], m) BY <2>3, <2>4
    <3> QED BY <3>1 DEF Waits
  <2>5. Holds(buffer', m) => Waits(m) BY <2>1 DEF Waits
  <2>6. Waits(m)' => Holds(buffer', m) \/ \E i \in 1..Len(queue') : Holds(queue'[i], m)
    BY DEF Waits, Holds
  <2> QED BY <2>2, <2>4, <2>5, <2>6
<1>2. CASE AnchorBegin \/ AnchorSendFail \/ AnchorWrite \/ AnchorShortWrite
  BY <1>0, <1>2 DEF AnchorBegin, AnchorSendFail, AnchorWrite, AnchorShortWrite
<1>3. CASE FlushStep
  BY <1>a, <1>3 DEF FlushStep, FlushTick, FlushFileStep, FlushFaultyStep, FlushLogStep,
       callerVars, batchVars
<1>4. CASE Sigterm \/ DrainBegin \/ DrainEnd \/ DrainTimeout \/ StopAndDisconnect
  BY <1>a, <1>4 DEF Sigterm, DrainBegin, DrainEnd, DrainTimeout, StopAndDisconnect,
       batchVars
<1>5. CASE Exit \/ Crash \/ CrashMidWrite
  <2>1. Die BY <1>5 DEF Exit, Crash, CrashMidWrite
  <2>2. ~ Waits(m)' BY <2>1 DEF Die, Waits, Holds
  <2>3. status'[m] = "new" => status[m] = "new" BY <2>1 DEF Die
  <2> QED BY <2>2, <2>3
<1>6. ASSUME NEW b \in Seq(Msgs), TakeBatch(b), UNCHANGED anchorPc,
             Waits(m)', ~ Holds(b, m)
      PROVE  Waits(m)
  <2>1. queue' = Append(queue, b) /\ buffer' = <<>> BY <1>6 DEF TakeBatch
  <2>2. ~ Holds(buffer', m) BY <2>1, HoldsEmpty
  <2>3. PICK i \in 1..Len(queue') : (i = 1 => anchorPc # "sync") /\ Holds(queue'[i], m)
    BY <1>6, <2>2 DEF Waits, Holds
  <2>4. i \in 1..Len(queue) /\ queue'[i] = queue[i] BY <1>6, <2>1, <2>3, ChainAppend
  <2> QED BY <2>3, <2>4 DEF Waits
<1>7. CASE \E r \in Requests : Accept(r)
  <2>1. PICK r \in Requests : Accept(r) BY <1>7
  <2>2. r \in Seq(Msgs) /\ buffer \o r \in Seq(Msgs) BY RequestAssumption
  <2>3. status'[m] = "new" => status[m] = "new" BY <2>1 DEF Accept, Tell
  <2>4. Holds(r, m) => status[m] = "new" BY <2>1 DEF Accept
  <2>5. Holds(buffer \o r, m) => Holds(buffer, m) \/ status[m] = "new"
    BY <2>2, <2>4, HoldsConcat
  <2>6. Holds(buffer, m) => Waits(m) BY DEF Waits
  <2>7. UNCHANGED anchorPc BY <2>1 DEF Accept
  <2>8. CASE TakeBatch(buffer \o r) BY <1>6, <2>2, <2>3, <2>5, <2>6, <2>7, <2>8
  <2>9. CASE buffer' = buffer \o r /\ UNCHANGED queue
    BY <2>3, <2>5, <2>6, <2>7, <2>9 DEF Waits, Holds
  <2> QED BY <2>1, <2>8, <2>9 DEF Accept
<1>8. CASE \E r \in Requests : Shed(r)
  <2>1. UNCHANGED <<buffer, queue, anchorPc>> BY <1>8 DEF Shed, batchVars
  <2>2. status'[m] = "new" => status[m] = "new" BY <1>8 DEF Shed, Tell
  <2> QED BY <2>1, <2>2 DEF Waits, Holds
<1>9. CASE LingerOver
  <2>1. TakeBatch(buffer) /\ UNCHANGED <<anchorPc, status>> BY <1>9 DEF LingerOver
  <2>2. Holds(buffer, m) => Waits(m) BY DEF Waits
  <2> QED BY <1>6, <2>1, <2>2
<1>10. CASE Boot \/ Environment \/ UNCHANGED vars
  BY <1>a, <1>10 DEF Boot, Environment, vars, callerVars, batchVars
<1> QED
  BY <1>1, <1>2, <1>3, <1>4, <1>5, <1>7, <1>8, <1>9, <1>10 DEF Next, AnchorStep, ShutdownStep

LEMMA ProducedMovedBy ==
  ASSUME [Next]_vars
  PROVE  UNCHANGED producedUpTo \/ FlushRename \/ FlushUnlink \/ FlushSendOk
<1>1. CASE FlushFileStep \/ FlushFaultyStep \/ FlushLogStep
  BY <1>1 DEF FlushFileStep, FlushFaultyStep, FlushLogStep, FlushRotate, FlushRead,
       FlushTruncate, FlushAdvance, FlushIoError, FlushUnlinkOffset, FlushConnect,
       FlushSendFail, FlushStartReading, FlushGiveUp, diskVars
<1>2. CASE FlushBegin BY <1>2 DEF FlushBegin, diskVars
<1>3. CASE Boot BY <1>3 DEF Boot, Adopt
<1>4. CASE Exit \/ Crash \/ CrashMidWrite
  BY <1>4 DEF Exit, Crash, CrashMidWrite, AppendTorn, diskVars
<1>5. CASE AnchorStep
  BY <1>5 DEF AnchorStep, AnchorBegin, AnchorSendOk, AnchorSendFail, AnchorRefused,
       AnchorWrite, AnchorSync, AnchorWriteError, AnchorSyncError, AnchorShortWrite,
       AppendWrite, AppendTorn, walVars, diskVars
<1>6. CASE Sigterm \/ DrainBegin \/ DrainEnd \/ DrainTimeout \/ StopAndDisconnect
  BY <1>2, <1>6 DEF Sigterm, DrainBegin, DrainEnd, DrainTimeout, StopAndDisconnect, walVars,
       diskVars
<1>7. CASE LingerOver \/ Environment \/ UNCHANGED vars
  BY <1>7 DEF LingerOver, Environment, vars, walVars, diskVars
<1>8. CASE \E r \in Requests : Accept(r) \/ Shed(r)
  BY <1>8 DEF Accept, Shed, walVars, diskVars
<1> QED
  BY <1>1, <1>2, <1>3, <1>4, <1>5, <1>6, <1>7, <1>8 DEF Next, FlushStep, FlushTick, ShutdownStep

\* A step that lands nothing and moves no line leaves each message where it is.
LEMMA OnceKept ==
  ASSUME Once, faults' = 0 => faults = 0,
         UNCHANGED <<onLog, activeFile, flushingFile, producedUpTo>>,
         \A m \in Msgs : status'[m] = "new" \/ Waits(m)' => status[m] = "new" \/ Waits(m)
  PROVE  Once'
<1> SUFFICES ASSUME faults' = 0, faults = 0 PROVE Once' BY DEF Once
<1>1. \A m \in Msgs : /\ OnDisk(m)' <=> OnDisk(m)
                      /\ Logged(m)' <=> Logged(m)
                      /\ Unproduced(m)' <=> Unproduced(m)
  BY DEF OnDisk, Unproduced, Logged, Holds
<1>2. \A m \in Msgs : status'[m] = "new" \/ Waits(m)' => ~ OnDisk(m)' /\ ~ Logged(m)'
  BY <1>1 DEF Once
<1>3. \A m \in Msgs : OnDisk(m)' => ~ Logged(m)' BY <1>1 DEF Once
<1>4. \A m \in Msgs : Holds(activeFile, m)' => ~ Unproduced(m)' BY <1>1 DEF Once, Holds
<1> QED BY <1>2, <1>3, <1>4 DEF Once, Distinct

\* The batch in hand waits, and once the step has settled or stored it it does not.
LEMMA HeadWaits ==
  ASSUME TypeInv, Queued, NEW m \in Msgs, anchorPc # "idle", Holds(Head(queue), m)
  PROVE  /\ status[m] = "pending"
         /\ anchorPc # "sync" => Waits(m)
         /\ \A i \in 1..Len(queue) : Holds(queue[i], m) => i = 1
         /\ ~ Holds(buffer, m)
<1>1. queue # <<>> /\ queue \in Seq(Seq(Msgs)) BY DEF TypeInv, CallerData
<1>2. Head(queue) = queue[1] /\ 1 \in 1..Len(queue) BY <1>1, ChainTail
<1> QED BY <1>2 DEF Queued, Waits

\* A produce of messages that are not on the log lands each of them once.
LEMMA LandsOnce ==
  ASSUME TypeInv, NEW S, SendOk(S), \A m \in Msgs : onLog[m] <= 1,
         \A m \in Msgs : m \in S => ~ Logged(m)
  PROVE  /\ \A m \in Msgs : onLog'[m] <= 1
         /\ \A m \in Msgs : Logged(m)' => Logged(m) \/ m \in S
BY DEF SendOk, Land, Logged, TypeInv, LogData

LEMMA OnceAnchorSendOk ==
  ASSUME TypeInv, Queued, Queued', Once, AnchorSendOk, faults' = 0, faults = 0,
         \A m \in Msgs : status'[m] = "new" \/ Waits(m)' => status[m] = "new" \/ Waits(m)
  PROVE  Once'
<1>0. anchorPc = "send" /\ UNCHANGED <<activeFile, flushingFile, producedUpTo>>
  BY DEF AnchorSendOk, walVars, diskVars
<1>1. \A m \in Msgs : Holds(Head(queue), m) => ~ OnDisk(m) /\ ~ Logged(m)
  BY <1>0, HeadWaits DEF Once
<1>2. /\ \A m \in Msgs : onLog'[m] <= 1
      /\ \A m \in Msgs : Logged(m)' => Logged(m) \/ Holds(Head(queue), m)
  <2>1. PICK S : S = {m \in Msgs : Holds(Head(queue), m)} /\ SendOk(S) BY DEF AnchorSendOk
  <2>2. \A m \in Msgs : m \in S <=> Holds(Head(queue), m) BY <2>1
  <2>3. \A m \in Msgs : m \in S => ~ Logged(m) BY <1>1, <2>2
  <2>4. \A m \in Msgs : onLog[m] <= 1 BY DEF Once
  <2> QED BY <2>1, <2>2, <2>3, <2>4, LandsOnce
<1>3. \A m \in Msgs : /\ OnDisk(m)' <=> OnDisk(m)
                      /\ Unproduced(m)' <=> Unproduced(m)
  BY <1>0 DEF OnDisk, Unproduced, Holds
<1>4. ASSUME NEW m \in Msgs, Holds(Head(queue), m)
      PROVE  status'[m] # "new" /\ ~ Waits(m)'
  <2>1. status'[m] = "acked" BY <1>4 DEF AnchorSendOk, Settle, Tell
  <2>2. Waits(m)' => status'[m] = "pending" BY DEF Waits, Holds, Queued
  <2> QED BY <2>1, <2>2
<1>5. \A m \in Msgs : status'[m] = "new" \/ Waits(m)' => ~ OnDisk(m)' /\ ~ Logged(m)'
  BY <1>2, <1>3, <1>4 DEF Once
<1>6. \A m \in Msgs : OnDisk(m)' => ~ Logged(m)' BY <1>1, <1>2, <1>3 DEF Once
<1>7. \A m \in Msgs : Holds(activeFile, m)' => ~ Unproduced(m)' BY <1>0, <1>3 DEF Once, Holds
<1> QED BY <1>0, <1>2, <1>5, <1>6, <1>7 DEF Once, Distinct

LEMMA OnceAnchorWrite ==
  ASSUME TypeInv, Queued, BatchesDistinct, Once, ~ activeOpen, AnchorWrite, faults' = 0,
         faults = 0,
         \A m \in Msgs : status'[m] = "new" \/ Waits(m)' => status[m] = "new" \/ Waits(m)
  PROVE  Once'
<1>0. /\ anchorPc = "append" /\ anchorPc' = "sync"
      /\ UNCHANGED <<queue, buffer, status, onLog, flushingFile, producedUpTo>>
  BY DEF AnchorWrite, AppendWrite, logVars
<1>1. Head(queue) \in Seq(Msgs) /\ Head(queue) = queue[1] /\ 1 \in 1..Len(queue)
  BY <1>0, QueueHead, ChainTail DEF TypeInv, CallerData
<1>2. Head(queue) \in Seq(Lines) /\ activeFile \in Seq(Lines)
  BY <1>1, SeqMonotonic DEF Lines, TypeInv, WalData
<1>3. activeFile' = activeFile \o Head(queue)
  BY Zenon DEF AnchorWrite, AppendWrite, Extend
<1>4. \A m : Holds(activeFile', m) <=> Holds(activeFile, m) \/ Holds(Head(queue), m)
  BY <1>2, <1>3, HoldsConcat
<1>5. \A m \in Msgs : Holds(Head(queue), m) => ~ OnDisk(m) /\ ~ Logged(m)
  BY <1>0, HeadWaits DEF Once
<1>6. \A m \in Msgs : /\ Logged(m)' <=> Logged(m)
                      /\ Unproduced(m)' <=> Unproduced(m)
                      /\ OnDisk(m)' <=> OnDisk(m) \/ Holds(Head(queue), m)
  BY <1>0, <1>4 DEF OnDisk, Unproduced, Logged, Holds
<1>7. ASSUME NEW m \in Msgs, Holds(Head(queue), m)
      PROVE  status'[m] # "new" /\ ~ Waits(m)'
  <2>1. /\ status[m] = "pending" /\ ~ Holds(buffer, m)
        /\ \A i \in 1..Len(queue) : Holds(queue[i], m) => i = 1
    BY <1>0, <1>7, HeadWaits
  <2> QED BY <1>0, <2>1 DEF Waits, Holds
<1>8. \A m \in Msgs : status'[m] = "new" \/ Waits(m)' => ~ OnDisk(m)' /\ ~ Logged(m)'
  BY <1>6, <1>7 DEF Once
<1>9. \A m \in Msgs : OnDisk(m)' => ~ Logged(m)' BY <1>5, <1>6 DEF Once
<1>10. \A m \in Msgs : Holds(activeFile', m) => ~ Unproduced(m)'
  BY <1>4, <1>5, <1>6 DEF Once, OnDisk
<1>11. Distinct(activeFile')
  <2>1. Distinct(Head(queue)) BY <1>1 DEF BatchesDistinct
  <2>2. \A m : ~ (Holds(activeFile, m) /\ Holds(Head(queue), m))
    <3> SUFFICES ASSUME NEW m, Holds(activeFile, m), Holds(Head(queue), m) PROVE FALSE
      OBVIOUS
    <3>1. m \in Msgs BY <1>1 DEF Holds
    <3> QED BY <1>5, <3>1 DEF OnDisk
  <2>3. Distinct(activeFile) BY DEF Once
  <2> QED BY <1>2, <1>3, <2>1, <2>2, <2>3, DistinctConcat
<1> QED BY <1>0, <1>8, <1>9, <1>10, <1>11 DEF Once, Distinct, Holds

LEMMA OnceFlushRename ==
  ASSUME TypeInv, WalOK, Once, FlushRename, UNCHANGED <<callerVars, onLog>>, faults' = 0,
         faults = 0
  PROVE  Once'
<1>0. /\ UNCHANGED <<queue, buffer, anchorPc, status>>
      /\ flushingFile = <<>> /\ flushingFile' = activeFile /\ activeFile' = <<>>
      /\ producedUpTo' = 0
  BY DEF FlushRename, WalOK, callerVars, batchVars
<1>1. \A m : ~ Holds(activeFile', m) BY <1>0, HoldsEmpty
<1>2. \A m \in Msgs : /\ Logged(m)' <=> Logged(m)
                      /\ Waits(m)' <=> Waits(m)
                      /\ Unproduced(m)' => Holds(activeFile, m)
                      /\ OnDisk(m)' => OnDisk(m)
  BY <1>0, <1>1 DEF OnDisk, Unproduced, Logged, Holds, Waits
<1>3. \A i, j \in 1..Len(flushingFile') : flushingFile'[i] = flushingFile'[j] => i = j
  BY <1>0 DEF Once, Distinct
<1>4. Distinct(activeFile') BY <1>0 DEF Distinct
<1>5. \A m \in Msgs : status'[m] = "new" \/ Waits(m)' => ~ OnDisk(m)' /\ ~ Logged(m)'
  BY <1>0, <1>2 DEF Once
<1>6. \A m \in Msgs : OnDisk(m)' => ~ Logged(m)' BY <1>2 DEF Once
<1>7. \A m \in Msgs : onLog'[m] <= 1 BY DEF Once
<1> QED BY <1>1, <1>3, <1>4, <1>5, <1>6, <1>7 DEF Once, Distinct, Holds

LEMMA OnceFlushUnlink ==
  ASSUME TypeInv, Once, FlushUnlink, UNCHANGED <<callerVars, onLog>>, faults' = 0,
         faults = 0
  PROVE  Once'
<1>0. /\ UNCHANGED <<queue, buffer, anchorPc, status, activeFile>> /\ flushingFile' = <<>>
  BY DEF FlushUnlink, callerVars, batchVars
<1>1. \A m \in Msgs : /\ Logged(m)' <=> Logged(m)
                      /\ Waits(m)' <=> Waits(m)
                      /\ ~ Unproduced(m)'
                      /\ OnDisk(m)' => OnDisk(m)
  BY <1>0 DEF OnDisk, Unproduced, Logged, Holds, Waits
<1>2. \A m \in Msgs : status'[m] = "new" \/ Waits(m)' => ~ OnDisk(m)' /\ ~ Logged(m)'
  BY <1>0, <1>1 DEF Once
<1>3. \A m \in Msgs : OnDisk(m)' => ~ Logged(m)' BY <1>1 DEF Once
<1>4. \A m \in Msgs : onLog'[m] <= 1 BY DEF Once
<1>5. \A i, j \in 1..Len(flushingFile') : i = j BY <1>0
<1> QED BY <1>0, <1>1, <1>2, <1>3, <1>4, <1>5 DEF Once, Distinct, Holds

LEMMA OnceFlushSendOk ==
  ASSUME TypeInv, PassOK, SidecarOK, Once, FlushSendOk, UNCHANGED callerVars, faults' = 0,
         faults = 0
  PROVE  Once'
<1>0. /\ UNCHANGED <<queue, buffer, anchorPc, status, activeFile, flushingFile>>
      /\ producedUpTo' = to /\ producedUpTo <= from /\ from <= to /\ to <= Len(flushingFile)
  BY DEF FlushSendOk, SidecarOK, PassOK, callerVars, batchVars
<1>t. producedUpTo \in Nat /\ from \in Nat /\ to \in Nat /\ Len(flushingFile) \in Nat
  BY DEF TypeInv, WalData
<1>1. PICK S : S = MsgsIn(flushingFile, from, to) /\ SendOk(S) BY DEF FlushSendOk
<1>2. \A m \in Msgs : m \in S =>
        \E k \in 1..Len(flushingFile) : from < k /\ k <= to /\ flushingFile[k] = m
  BY <1>1 DEF MsgsIn
<1>3. \A m \in Msgs : m \in S => Unproduced(m)
  BY <1>0, <1>t, <1>2 DEF Unproduced
<1>4. \A m \in Msgs : m \in S => ~ Logged(m) BY <1>3 DEF Once, OnDisk
<1>5. /\ \A m \in Msgs : onLog'[m] <= 1
      /\ \A m \in Msgs : Logged(m)' => Logged(m) \/ m \in S
  BY <1>1, <1>4, LandsOnce DEF Once
<1>6. ASSUME NEW m \in Msgs, Unproduced(m)' PROVE Unproduced(m) /\ m \notin S
  <2>1. PICK k \in 1..Len(flushingFile) : to < k /\ flushingFile[k] = m
    BY <1>0, <1>6 DEF Unproduced
  <2>2. Unproduced(m) BY <1>0, <1>t, <2>1 DEF Unproduced
  <2>3. ASSUME m \in S PROVE FALSE
    <3>1. PICK j \in 1..Len(flushingFile) : from < j /\ j <= to /\ flushingFile[j] = m
      BY <1>2, <2>3
    <3>2. producedUpTo < j /\ producedUpTo < k /\ j # k BY <1>0, <1>t, <2>1, <3>1
    <3> QED BY <2>1, <3>1, <3>2 DEF Once
  <2> QED BY <2>2, <2>3
<1>7. \A m \in Msgs : Waits(m)' <=> Waits(m) BY <1>0 DEF Waits, Holds
<1>8. \A m \in Msgs : OnDisk(m)' => OnDisk(m) /\ m \notin S
  BY <1>0, <1>3, <1>6 DEF OnDisk, Holds, Once
<1>9. \A m \in Msgs : status'[m] = "new" \/ Waits(m)' => ~ OnDisk(m)' /\ ~ Logged(m)'
  BY <1>0, <1>3, <1>5, <1>7, <1>8 DEF Once, OnDisk
<1>10. \A m \in Msgs : OnDisk(m)' => ~ Logged(m)' BY <1>5, <1>8 DEF Once
<1>11. \A m \in Msgs : Holds(activeFile', m) => ~ Unproduced(m)'
  BY <1>0, <1>6 DEF Once, Holds
<1>12. \A i, j \in 1..Len(flushingFile') :
         producedUpTo' < i /\ producedUpTo' < j /\ flushingFile'[i] = flushingFile'[j] => i = j
  BY <1>0, <1>t DEF Once
<1> QED BY <1>0, <1>5, <1>9, <1>10, <1>11, <1>12 DEF Once, Distinct, Holds

LEMMA OnceNext ==
  ASSUME TypeInv, WalOK, Kept, Queued, PassOK, SidecarOK, BatchesDistinct, Once, [Next]_vars,
         MaxFaults > 0
  PROVE  Once'
<1> SUFFICES ASSUME faults' = 0 PROVE Once' BY DEF Once
<1>0. /\ faults = 0 /\ tornWrites' = tornWrites
      /\ AnchorSendFail \/ FlushSendFail => UNCHANGED onLog
  BY Unfailing
<1>1. ~ activeOpen /\ Queued'
  <2>1. tornWrites = 0 BY <1>0 DEF TypeInv, WalData
  <2> QED BY <2>1, QueuedNext DEF Kept
<1>2. \A m \in Msgs : status'[m] = "new" \/ Waits(m)' => status[m] = "new" \/ Waits(m)
  BY WaitsNext
<1>3. UNCHANGED onLog \/ AnchorSendOk \/ FlushSendOk BY <1>0, LogMovedBy
<1>4. /\ UNCHANGED flushingFile \/ FlushRename \/ FlushUnlink
      /\ UNCHANGED activeFile \/ AnchorWrite \/ FlushRename
  BY <1>0, FilesMovedBy
<1>5. UNCHANGED producedUpTo \/ FlushRename \/ FlushUnlink \/ FlushSendOk
  BY ProducedMovedBy
<1>6. FlushRename \/ FlushUnlink \/ FlushSendOk => UNCHANGED callerVars
  <2>1. FlushRename \/ FlushUnlink \/ FlushSendOk =>
          flushPc # "idle" /\ flushPc' # "idle" /\ flushPc' # flushPc
    BY DEF FlushRename, FlushUnlink, FlushSendOk
  <2> QED
    BY <2>1, PassMovedBy DEF FlushFileStep, FlushFaultyStep, FlushLogStep, FlushBegin,
         PassCanStart, Boot, passVars, Die, ForgetMemory
<1>7. CASE AnchorSendOk BY <1>0, <1>1, <1>2, <1>7, OnceAnchorSendOk
<1>8. CASE AnchorWrite BY <1>0, <1>1, <1>2, <1>8, OnceAnchorWrite
<1>9. CASE FlushRename
  <2>1. UNCHANGED onLog BY <1>3, <1>9 DEF AnchorSendOk, FlushSendOk, FlushRename, walVars, passVars
  <2> QED BY <1>0, <1>6, <1>9, <2>1, OnceFlushRename
<1>10. CASE FlushUnlink
  <2>1. UNCHANGED onLog BY <1>3, <1>10 DEF AnchorSendOk, FlushSendOk, FlushUnlink, walVars, passVars
  <2> QED BY <1>0, <1>6, <1>10, <2>1, OnceFlushUnlink
<1>11. CASE FlushSendOk BY <1>0, <1>6, <1>11, OnceFlushSendOk
<1>12. CASE ~ (AnchorSendOk \/ AnchorWrite \/ FlushRename \/ FlushUnlink \/ FlushSendOk)
  BY <1>0, <1>2, <1>3, <1>4, <1>5, <1>12, OnceKept
<1> QED BY <1>7, <1>8, <1>9, <1>10, <1>11, <1>12

\* Without a crash, a late produce or an I/O error no message gets a second
\* copy on the log: neither an outage in mid-file nor an orderly restart
\* replays what the sidecar says is there.  Requests do not repeat a message,
\* and the fault budget has room to count an exit that cuts a pass short.
THEOREM CollectorExactlyOnce ==
  ASSUME MaxFaults > 0, \A r \in Requests : Distinct(r)
  PROVE  Spec => []ExactlyOnceWithoutFaults
<1> DEFINE Inv == /\ TypeInv /\ WalOK /\ Kept /\ Queued
                  /\ PassOK /\ SidecarOK /\ BatchesDistinct /\ Once
<1>1. Init => Inv
  <2> SUFFICES ASSUME Init PROVE Inv OBVIOUS
  <2>1. TypeInv /\ WalOK /\ Kept /\ Queued BY TypeInit, WalOKInit, KeptInit, QueuedInit
  <2>2. PassOK /\ SidecarOK /\ BatchesDistinct
    BY DEF Init, WalInit, PassOK, SidecarOK, BatchesDistinct, Distinct
  <2>3. \A m \in Msgs : ~ OnDisk(m) /\ ~ Logged(m)
    BY HoldsEmpty DEF Init, WalInit, ProducerInit, OnDisk, Unproduced, Logged
  <2>4. Once
    BY <2>3 DEF Init, WalInit, ProducerInit, Once, OnDisk, Distinct
  <2> QED BY <2>1, <2>2, <2>4
<1>2. Inv /\ [Next]_vars => Inv'
  <2> SUFFICES ASSUME Inv, [Next]_vars PROVE Inv' OBVIOUS
  <2>1. TypeInv' /\ WalOK' /\ Kept' /\ Queued' BY TypeNext, WalOKNext, KeptNext, QueuedNext
  <2>2. PassOK' /\ SidecarOK' /\ BatchesDistinct'
    BY PassNext, SidecarNext, BatchesDistinctNext
  <2>3. Once' BY OnceNext
  <2> QED BY <2>1, <2>2, <2>3
<1>3. Inv => ExactlyOnceWithoutFaults BY DEF Once, ExactlyOnceWithoutFaults
<1> QED BY <1>1, <1>2, <1>3, PTL DEF Spec
=============================================================================
