---------------------------- MODULE ServedPixel ----------------------------
(***************************************************************************)
(* The pixel the collector serves (pixel-sdk/src/asset/runtime.ts).  One    *)
(* flush at a time; it reads the queue from storage for every send and      *)
(* removes the head of whatever storage holds when the answer comes.        *)
(***************************************************************************)
EXTENDS PixelStorage

\* flush(), given what storage holds.
ServedFlush(m, q) ==
  IF m.flushes /= <<>> THEN m
  ELSE IF q = <<>> THEN ResetRetry(m)
  ELSE [m EXCEPT !.flushes = << <<Head(q)>> >>]

\* emitRaw(): the event, and a critical marker if drops are unreported.
ServedEmit(t, m, critical) ==
  LET marker == m.dropped > 0
      minted == IF marker THEN <<critical, TRUE>> ELSE <<critical>>
      l == log \o [i \in DOMAIN minted |-> [critical |-> minted[i], by |-> t]]
      q == queue \o [i \in DOMAIN minted |-> Len(log) + i]
      counted == [m EXCEPT !.dropped = (IF marker THEN 0 ELSE @) + Excess(q, l)]
  IN /\ Len(l) <= MaxEvents
     /\ log' = l
     /\ Write(q, l)
     /\ memory' = [memory EXCEPT ![t] = ServedFlush(counted, queue')]

\* Mutant: a good send empties the queue.
ServedAnswerClears(t) ==
  /\ memory[t].flushes /= <<>>
  /\ sent' = sent \cup {memory[t].flushes[1][1]}
  /\ Write(<<>>, log)
  /\ memory' = [memory EXCEPT ![t] = ServedFlush(ResetRetry([@ EXCEPT !.flushes = <<>>]), queue')]
  /\ UNCHANGED <<log, faults>>

\* The head of what storage holds now goes, and the next one is sent.
ServedAnswerOk(t) ==
  /\ memory[t].flushes /= <<>>
  /\ sent' = sent \cup {memory[t].flushes[1][1]}
  /\ Write(IF queue = <<>> THEN <<>> ELSE Tail(queue), log)
  /\ memory' = [memory EXCEPT ![t] = ServedFlush(ResetRetry([@ EXCEPT !.flushes = <<>>]), queue')]
  /\ UNCHANGED <<log, faults>>

\* Mutants: the head is removed before the answer is looked at; it is put last.
ServedFailDrops(t) ==
  /\ memory[t].flushes /= <<>>
  /\ Fault
  /\ Write(IF queue = <<>> THEN <<>> ELSE Tail(queue), log)
  /\ memory' = [memory EXCEPT ![t] = ScheduleRetry([@ EXCEPT !.flushes = <<>>])]
  /\ UNCHANGED <<log, sent>>
ServedFailRequeues(t) ==
  /\ memory[t].flushes /= <<>>
  /\ Fault
  /\ Write(IF queue = <<>> THEN <<>> ELSE Append(Tail(queue), Head(queue)), log)
  /\ memory' = [memory EXCEPT ![t] = ScheduleRetry([@ EXCEPT !.flushes = <<>>])]
  /\ UNCHANGED <<log, sent>>

\* The queue stays as it is until the retry.
ServedAnswerFail(t) ==
  /\ memory[t].flushes /= <<>>
  /\ Fault
  /\ memory' = [memory EXCEPT ![t] = ScheduleRetry([@ EXCEPT !.flushes = <<>>])]
  /\ UNCHANGED <<queue, log, sent, evicted>>
=============================================================================
