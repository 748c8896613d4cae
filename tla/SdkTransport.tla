--------------------------- MODULE SdkTransport ---------------------------
(***************************************************************************)
(* The transport of the npm SDK (pixel-sdk/src/transport.ts).  flush()      *)
(* reads the queue once and works on that copy; flushes of one tab overlap, *)
(* since every enqueue starts one, and each writes its own copy back after  *)
(* every answer.                                                            *)
(***************************************************************************)
EXTENDS PixelStorage

SdkFlush(m, q) == IF q = <<>> THEN m ELSE [m EXCEPT !.flushes = Append(@, q)]

\* enqueue().
SdkEmit(t, m, critical) ==
  LET l == Append(log, [critical |-> critical, by |-> t])
      q == Append(queue, Len(l))
  IN /\ Len(l) <= MaxEvents
     /\ log' = l
     /\ Write(q, l)
     /\ memory' = [memory EXCEPT ![t] = SdkFlush([m EXCEPT !.dropped = @ + Excess(q, l)], queue')]

\* The rest of the copy is written back, and its head sent next.
SdkAnswerOk(t, i) ==
  LET q == memory[t].flushes[i]
      left == IF Len(q) = 1 THEN RemoveAt(memory[t].flushes, i)
              ELSE [memory[t].flushes EXCEPT ![i] = Tail(@)]
  IN /\ sent' = sent \cup {Head(q)}
     /\ Write(Tail(q), log)
     /\ memory' = [memory EXCEPT ![t] = ResetRetry([@ EXCEPT !.flushes = left])]
     /\ UNCHANGED <<log, faults>>

\* The whole copy is written back; this flush is over.
SdkAnswerFail(t, i) ==
  LET left == RemoveAt(memory[t].flushes, i)
  IN /\ Fault
     /\ Write(memory[t].flushes[i], log)
     /\ memory' = [memory EXCEPT ![t] = ScheduleRetry([@ EXCEPT !.flushes = left])]
     /\ UNCHANGED <<log, sent>>
=============================================================================
