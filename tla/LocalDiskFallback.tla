-------------------------- MODULE LocalDiskFallback --------------------------
(***************************************************************************)
(* The collector's on-disk write-ahead log                                 *)
(* (infrastructure/local-disk-fallback.ts).                                *)
(*                                                                         *)
(* On disk: the active file that appends go to, the .flushing file a flush *)
(* pass rotated out, and the sidecar holding the number of lines of the    *)
(* .flushing file that are already on the log.  In memory: byte accounts   *)
(* for both files, the pending-entry gauge, the lock shared by appends and *)
(* rotation, and one flush pass at a time.                                 *)
(*                                                                         *)
(* A file is the sequence of its lines; <<>> is the absent file, and an    *)
(* absent, truncated or unreadable sidecar reads as 0, so 0 stands for all *)
(* three.  One line is one unit of "bytes".  A line is a message, or Torn: *)
(* bytes that JSON.parse rejects.                                          *)
(***************************************************************************)
EXTENDS LogProducer

CONSTANTS Torn,         \* an unparseable line
          MaxBytes,     \* INGEST_FALLBACK_MAX_BYTES, in lines
          BatchLines,   \* flushProduceBatchLines
          IoFaults      \* the I/O failures that may happen, see IoFaultKinds

\* "crash": a crash tears the write in progress; "error": write() or datasync()
\* of an append throws; "short": write() stores less than it was given and
\* returns normally; "sidecar", "unlink": a sidecar write, an unlink fails.
IoFaultKinds == {"crash", "error", "short", "sidecar", "unlink"}

ASSUME WalAssumption ==
  /\ Torn \notin Msgs
  /\ MaxBytes \in Nat
  /\ BatchLines \in Nat \ {0}
  /\ IoFaults \subseteq IoFaultKinds

VARIABLES activeFile,     \* collector-fallback.wal
          activeOpen,     \* TRUE if its last line lacks the newline
          flushingFile,   \* collector-fallback.flushing.wal
          offset,         \* collector-fallback.flushing.wal.offset
          activeBytes, flushingBytes,   \* the accounts pendingBytes() adds up
          flushingEvents, \* gauge: lines of the flushing file not yet on the log
          walLocked,      \* the promise-chain mutex
          flushPc,        \* where the flush pass is; "idle" = flag `flushing` is false
          from, to,       \* the pass is about lines from+1 .. to of flushingFile
          lastBatch,      \* the batch in hand is the file's last
          producedUpTo,   \* history: lines of flushingFile acknowledged by the log
          tornWrites      \* history: appends that left a partial line

diskVars == <<activeFile, activeOpen, flushingFile, offset, producedUpTo, tornWrites>>
accountVars == <<activeBytes, flushingBytes, flushingEvents>>
passVars == <<flushPc, from, to, lastBatch>>
walVars == <<diskVars, accountVars, passVars, walLocked>>

Lines == Msgs \cup {Torn}
FlushPcs == {"idle", "rotate", "rename", "connect", "read", "send", "truncate",
             "advance", "unlink", "unlinkOffset"}

WalTypeOK ==
  /\ activeFile \in Seq(Lines)
  /\ activeOpen \in BOOLEAN
  /\ flushingFile \in Seq(Lines)
  /\ offset \in Nat
  /\ activeBytes \in Nat /\ flushingBytes \in Nat /\ flushingEvents \in Nat
  /\ walLocked \in BOOLEAN
  /\ flushPc \in FlushPcs
  /\ from \in Nat /\ to \in Nat /\ lastBatch \in BOOLEAN
  /\ producedUpTo \in Nat
  /\ tornWrites \in 0..MaxFaults

WalInit ==
  /\ activeFile = <<>> /\ activeOpen = FALSE
  /\ flushingFile = <<>> /\ offset = 0
  /\ activeBytes = 0 /\ flushingBytes = 0 /\ flushingEvents = 0
  /\ walLocked = FALSE
  /\ flushPc = "idle" /\ from = 0 /\ to = 0 /\ lastBatch = FALSE
  /\ producedUpTo = 0 /\ tornWrites = 0

-----------------------------------------------------------------------------
\* Messages (torn lines left out) that file f holds on lines a+1 .. b.
MsgsIn(f, a, b) == {f[k] : k \in {i \in 1..Len(f) : a < i /\ i <= b /\ f[i] # Torn}}

PendingBytes == activeBytes + flushingBytes
Saturated == PendingBytes >= MaxBytes
\* walStats().pendingEvents; the active file's entry count moves with activeBytes.
PendingEvents == activeBytes + flushingEvents

\* The bytes of w written after what the file holds: on an unterminated last
\* line the first message is glued to it and both become unparseable.
Extend(f, open, w) ==
  IF open /\ w # <<>> THEN [f EXCEPT ![Len(f)] = Torn] \o Tail(w) ELSE f \o w


-----------------------------------------------------------------------------
\* append(w), in the critical section.  The caller holds the answer back until
\* AppendAccount.
AppendRefused(w) == ~ walLocked /\ PendingBytes + Len(w) > MaxBytes

\* Mutant: the cap check forgets the rotated file.
AppendWriteActiveCap(w) ==
  /\ ~ walLocked
  /\ activeBytes + Len(w) <= MaxBytes
  /\ walLocked' = TRUE
  /\ activeFile' = Extend(activeFile, activeOpen, w)
  /\ activeOpen' = FALSE
  /\ UNCHANGED <<flushingFile, offset, producedUpTo, tornWrites>>

AppendWrite(w) ==
  /\ ~ walLocked
  /\ PendingBytes + Len(w) <= MaxBytes
  /\ walLocked' = TRUE
  /\ activeFile' = Extend(activeFile, activeOpen, w)
  /\ activeOpen' = FALSE
  /\ UNCHANGED <<flushingFile, offset, producedUpTo, tornWrites>>

\* write() stops early: some whole lines of w are stored, and then nothing,
\* or part of the next line, or all of it but the newline.
AppendTorn(w) ==
  /\ ~ walLocked
  /\ PendingBytes + Len(w) <= MaxBytes
  /\ \E j \in 1..Len(w) :
       \/ /\ activeFile' = Extend(activeFile, activeOpen, SubSeq(w, 1, j - 1))
          /\ activeOpen' = (activeOpen /\ j = 1)
       \/ /\ \E last \in {Torn, w[j]} :
               activeFile' = Extend(activeFile, activeOpen, SubSeq(w, 1, j - 1) \o <<last>>)
          /\ activeOpen' = TRUE
  /\ SpendFault
  /\ tornWrites' = tornWrites + 1
  /\ UNCHANGED <<flushingFile, offset, producedUpTo>>

\* datasync() returned: the bytes are accounted and the lock is released.
AppendAccount(w) ==
  /\ activeBytes' = activeBytes + Len(w)
  /\ walLocked' = FALSE
  /\ UNCHANGED <<flushingBytes, flushingEvents>>

-----------------------------------------------------------------------------
\* flushOnce().  The pass is adopted, rotated or skipped on the accounts.
\* Mutant: a leftover .flushing file is not adopted.
PassNeedsActive == flushPc = "idle" /\ flushingBytes = 0 /\ activeBytes > 0

PassCanStart == flushPc = "idle" /\ (flushingBytes > 0 \/ activeBytes > 0)

FlushBegin ==
  /\ PassCanStart
  /\ flushPc' = IF flushingBytes = 0 THEN "rotate" ELSE "connect"
  /\ UNCHANGED <<from, to, lastBatch>>
  /\ UNCHANGED <<diskVars, accountVars, walLocked>>

\* Mutant: rotation leaves the sidecar alone.
FlushRotateKeepSidecar ==
  /\ flushPc = "rotate" /\ ~ walLocked
  /\ walLocked' = TRUE
  /\ flushPc' = "rename"
  /\ UNCHANGED <<diskVars, from, to, lastBatch, accountVars>>

\* Rotation: the stale sidecar goes first, so that it cannot pair with the
\* new file.  (Its unlink is taken to succeed; see the README.)
FlushRotate ==
  /\ flushPc = "rotate" /\ ~ walLocked
  /\ walLocked' = TRUE
  /\ offset' = 0
  /\ flushPc' = "rename"
  /\ UNCHANGED <<activeFile, activeOpen, flushingFile, producedUpTo, tornWrites>>
  /\ UNCHANGED <<from, to, lastBatch>> /\ UNCHANGED accountVars

FlushRename ==
  /\ flushPc = "rename"
  /\ flushingFile' = activeFile /\ producedUpTo' = 0
  /\ activeFile' = <<>> /\ activeOpen' = FALSE
  /\ flushingBytes' = activeBytes /\ flushingEvents' = activeBytes
  /\ activeBytes' = 0
  /\ walLocked' = FALSE
  /\ flushPc' = "connect"
  /\ UNCHANGED <<offset, tornWrites, from, to, lastBatch>>

\* The pass is over; whatever is left waits for the next tick.
FlushGiveUp ==
  /\ flushPc' = "idle" /\ from' = 0 /\ to' = 0 /\ lastBatch' = FALSE
  /\ UNCHANGED <<diskVars, accountVars, walLocked>>

\* Mutant: every pass starts at the top of the file.
FlushStartFromTop ==
  /\ flushPc' = "read" /\ from' = 0 /\ to' = 0
  /\ UNCHANGED lastBatch
  /\ UNCHANGED <<diskVars, accountVars, walLocked>>

\* produceFile() starts after the line the sidecar names.
FlushStartReading ==
  /\ flushPc' = "read" /\ from' = offset /\ to' = offset
  /\ UNCHANGED lastBatch
  /\ UNCHANGED <<diskVars, accountVars, walLocked>>

FlushConnect ==
  /\ flushPc = "connect"
  /\ \/ connected /\ FlushStartReading /\ UNCHANGED producerVars
     \/ ConnectOk /\ FlushStartReading
     \/ ConnectFail /\ FlushGiveUp
  /\ UNCHANGED <<brokerUp, onLog, faults>>

\* Line n completes a batch read from line from+1 on.
Completes(n) ==
  /\ flushingFile[n] # Torn
  /\ Cardinality({k \in from+1..n : flushingFile[k] # Torn}) = BatchLines

\* Mutant: the sidecar is advanced before the batch is produced.
FlushReadAdvancing ==
  /\ flushPc = "read"
  /\ \/ \E n \in from+1..Len(flushingFile) :
          Completes(n) /\ flushPc' = "send" /\ to' = n /\ lastBatch' = FALSE
     \/ /\ ~ \E n \in from+1..Len(flushingFile) : Completes(n)
        /\ to' = Len(flushingFile) /\ lastBatch' = TRUE
        /\ flushPc' = IF MsgsIn(flushingFile, from, Len(flushingFile)) = {}
                      THEN "unlink" ELSE "send"
  /\ offset' = to'
  /\ UNCHANGED <<activeFile, activeOpen, flushingFile, producedUpTo, tornWrites>>
  /\ UNCHANGED <<from, accountVars, walLocked>>

\* The next batch: BatchLines messages, or what the file still has.
FlushRead ==
  /\ flushPc = "read"
  /\ \/ \E n \in from+1..Len(flushingFile) :
          Completes(n) /\ flushPc' = "send" /\ to' = n /\ lastBatch' = FALSE
     \/ /\ ~ \E n \in from+1..Len(flushingFile) : Completes(n)
        /\ to' = Len(flushingFile) /\ lastBatch' = TRUE
        /\ flushPc' = IF MsgsIn(flushingFile, from, Len(flushingFile)) = {}
                      THEN "unlink" ELSE "send"
  /\ UNCHANGED <<from, diskVars, accountVars, walLocked>>

BatchSize == Cardinality({k \in from+1..to : flushingFile[k] # Torn})

\* countFlushed(): the gauge drops by the messages of the batch, not below 0.
CountFlushed ==
  /\ flushingEvents' = IF flushingEvents > BatchSize THEN flushingEvents - BatchSize ELSE 0
  /\ UNCHANGED <<activeBytes, flushingBytes>>

\* The batch is acknowledged.  Only a batch that is not the last one is
\* followed by a sidecar write.
FlushSendOk ==
  /\ flushPc = "send"
  /\ SendOk(MsgsIn(flushingFile, from, to))
  /\ producedUpTo' = to
  /\ \/ lastBatch /\ flushPc' = "unlink" /\ CountFlushed
     \/ ~ lastBatch /\ flushPc' = "truncate" /\ UNCHANGED accountVars
  /\ UNCHANGED <<from, to, lastBatch, walLocked, brokerUp>>
  /\ UNCHANGED <<activeFile, activeOpen, flushingFile, offset, tornWrites>>

\* Mutant: a failed produce does not end the pass.
FlushSendFailIgnored ==
  /\ flushPc = "send"
  /\ SendFail(MsgsIn(flushingFile, from, to))
  /\ flushPc' = IF lastBatch THEN "unlink" ELSE "truncate"
  /\ UNCHANGED <<brokerUp, from, to, lastBatch, diskVars, accountVars, walLocked>>

FlushSendFail ==
  /\ flushPc = "send"
  /\ SendFail(MsgsIn(flushingFile, from, to))
  /\ FlushGiveUp
  /\ UNCHANGED brokerUp

\* open(path, 'w') truncates the sidecar ...
FlushTruncate ==
  /\ flushPc = "truncate"
  /\ offset' = 0
  /\ flushPc' = "advance"
  /\ UNCHANGED <<activeFile, activeOpen, flushingFile, producedUpTo, tornWrites>>
  /\ UNCHANGED <<from, to, lastBatch, accountVars, walLocked>>

\* ... and the number is written and fsync'd; the next batch follows.
FlushAdvance ==
  /\ flushPc = "advance"
  /\ offset' = to
  /\ CountFlushed
  /\ flushPc' = "read" /\ from' = to
  /\ UNCHANGED <<to, lastBatch, walLocked>>
  /\ UNCHANGED <<activeFile, activeOpen, flushingFile, producedUpTo, tornWrites>>

\* An I/O error: the sidecar could not be written or the file not unlinked.
FlushIoError ==
  /\ \/ flushPc = "advance" /\ "sidecar" \in IoFaults
     \/ flushPc = "unlink" /\ "unlink" \in IoFaults
  /\ SpendFault
  /\ FlushGiveUp

\* Every line is on the log: the file goes first, then the sidecar.
FlushUnlink ==
  /\ flushPc = "unlink"
  /\ flushingFile' = <<>> /\ producedUpTo' = 0
  /\ flushPc' = "unlinkOffset"
  /\ UNCHANGED <<activeFile, activeOpen, offset, tornWrites>>
  /\ UNCHANGED <<from, to, lastBatch, accountVars, walLocked>>

\* Mutant: the account of the unlinked file is not cleared.
FlushUnlinkOffsetKeepBytes ==
  /\ flushPc = "unlinkOffset"
  /\ offset' = 0
  /\ flushPc' = "idle" /\ from' = 0 /\ to' = 0 /\ lastBatch' = FALSE
  /\ UNCHANGED <<activeFile, activeOpen, flushingFile, producedUpTo, tornWrites>>
  /\ UNCHANGED <<faults, accountVars, walLocked>>

\* A failing unlink of the sidecar is swallowed: the stale sidecar stays.
FlushUnlinkOffset ==
  /\ flushPc = "unlinkOffset"
  /\ \/ offset' = 0 /\ UNCHANGED faults
     \/ "unlink" \in IoFaults /\ SpendFault /\ UNCHANGED offset
  /\ flushingBytes' = 0 /\ flushingEvents' = 0
  /\ flushPc' = "idle" /\ from' = 0 /\ to' = 0 /\ lastBatch' = FALSE
  /\ UNCHANGED <<activeFile, activeOpen, flushingFile, producedUpTo, tornWrites>>
  /\ UNCHANGED <<activeBytes, walLocked>>

-----------------------------------------------------------------------------
\* Mutant: the pending gauge of an adopted file is not floored at 0.
AdoptUnfloored ==
  /\ activeBytes' = Len(activeFile)
  /\ flushingBytes' = Len(flushingFile)
  /\ flushingEvents' = Len(flushingFile) - offset
  /\ UNCHANGED <<diskVars, faults>>

\* Mutant: the entries of an adopted .flushing file are not counted.
AdoptUncounted ==
  /\ activeBytes' = Len(activeFile)
  /\ flushingBytes' = Len(flushingFile)
  /\ flushingEvents' = 0
  /\ offset' = IF flushingFile = <<>> THEN 0 ELSE offset
  /\ UNCHANGED <<activeFile, activeOpen, flushingFile, producedUpTo, tornWrites, faults>>

\* init(): the accounts are read back from the files; a sidecar without its
\* file is unlinked (best effort).
Adopt ==
  /\ activeBytes' = Len(activeFile)
  /\ flushingBytes' = Len(flushingFile)
  /\ flushingEvents' = IF Len(flushingFile) > offset THEN Len(flushingFile) - offset ELSE 0
  /\ \/ flushingFile # <<>> /\ UNCHANGED <<offset, faults>>
     \/ flushingFile = <<>> /\ offset' = 0 /\ UNCHANGED faults
     \/ flushingFile = <<>> /\ "unlink" \in IoFaults /\ SpendFault /\ UNCHANGED offset
  /\ UNCHANGED <<activeFile, activeOpen, flushingFile, producedUpTo, tornWrites>>

\* The process dies: files stay, everything in memory is gone.
ForgetMemory ==
  /\ activeBytes' = 0 /\ flushingBytes' = 0 /\ flushingEvents' = 0
  /\ walLocked' = FALSE
  /\ flushPc' = "idle" /\ from' = 0 /\ to' = 0 /\ lastBatch' = FALSE

-----------------------------------------------------------------------------
\* A message that a restart and a working broker would still bring to the log.
Recoverable(m) ==
  \/ \E k \in 1..Len(activeFile) : activeFile[k] = m
  \/ \E k \in 1..Len(flushingFile) : k > offset /\ flushingFile[k] = m

Durable(m) == Logged(m) \/ Recoverable(m)
=============================================================================
