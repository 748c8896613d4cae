--------------------------- MODULE IngestContract ---------------------------
(***************************************************************************)
(* What the collector promises a client, without its means: a 200 means    *)
(* the message is safe (on the log, or where a later flush will find it),  *)
(* what is safe stays safe, and what is on the log stays on the log.       *)
(* Collector.tla implements it (Contract there names the mapping).         *)
(***************************************************************************)
CONSTANT Msgs

VARIABLES acked,   \* messages whose client was told 200
          safe,    \* messages that survive any crash
          log      \* messages on the topic

Init == acked = {} /\ safe = {} /\ log = {}

\* Messages reach stable storage, nobody is told yet.
Persist(S) == safe' = safe \cup S /\ UNCHANGED <<acked, log>>

\* Messages reach the log, known to the collector or not.
Publish(S) == log' = log \cup S /\ safe' = safe \cup S /\ UNCHANGED acked

\* Clients of safe messages are told.
Acknowledge(S) == S \subseteq safe /\ acked' = acked \cup S /\ UNCHANGED <<safe, log>>

\* A produce is acknowledged, and with it the requests.
PublishAndAcknowledge(S) ==
  log' = log \cup S /\ safe' = safe \cup S /\ acked' = acked \cup S

Next ==
  \E S \in SUBSET Msgs :
    Persist(S) \/ Publish(S) \/ Acknowledge(S) \/ PublishAndAcknowledge(S)

Spec == Init /\ [][Next]_<<acked, safe, log>>
=============================================================================
