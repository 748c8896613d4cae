----------------------------- MODULE LogProducer -----------------------------
(***************************************************************************)
(* The collector's Kafka producer (infrastructure/kafka-producer.ts) and   *)
(* the broker behind it.  The producer keeps its own opinion of its health *)
(* (connected, produceFailures, eventDisconnected), which may lag behind   *)
(* the broker (brokerUp): a caller learns of an outage by a failed send.   *)
(*                                                                         *)
(* A send has three outcomes: every message lands and the caller is told;  *)
(* nothing lands and the caller is told; or the caller is told of a        *)
(* failure (deadline expired, one partition refused) although some of the  *)
(* messages landed or will land.  The last one is a fault, and faults are  *)
(* rationed by MaxFaults; an outage is not a fault and is unrationed.      *)
(*                                                                         *)
(* The module has operators for its callers (LocalDiskFallback, Collector) *)
(* and no specification of its own.                                        *)
(***************************************************************************)
EXTENDS Integers, Sequences, FiniteSets

CONSTANTS Msgs,       \* the messages clients may send
          MaxFaults   \* bound: crashes, late or partial produces, I/O errors

VARIABLES brokerUp,           \* is the broker reachable? (environment)
          onLog,              \* [Msgs -> 0..2]: copies on the topic, 2 = "several"
          connected,          \* this.producer # null
          produceFailures,    \* consecutiveProduceFailures, saturating at the threshold
          eventDisconnected,  \* a kafkajs DISCONNECT event was seen
          faults              \* faults spent so far

producerVars == <<connected, produceFailures, eventDisconnected>>

\* The one spelling of PRODUCE_FAILURE_UNHEALTHY_THRESHOLD.
UnhealthyThreshold == 3

ASSUME FaultAssumption == MaxFaults \in Nat

ProducerTypeOK ==
  /\ brokerUp \in BOOLEAN
  /\ onLog \in [Msgs -> 0..2]
  /\ connected \in BOOLEAN
  /\ produceFailures \in 0..UnhealthyThreshold
  /\ eventDisconnected \in BOOLEAN
  /\ faults \in 0..MaxFaults

ProducerInit ==
  /\ brokerUp = TRUE
  /\ onLog = [m \in Msgs |-> 0]
  /\ connected = FALSE
  /\ produceFailures = 0
  /\ eventDisconnected = FALSE
  /\ faults = 0

Logged(m) == onLog[m] > 0

\* isHealthy(): what the admission gate and /readyz read.
Healthy ==
  /\ connected
  /\ ~ eventDisconnected
  /\ produceFailures < UnhealthyThreshold

\* One more copy of each message of S; further copies of the same message are
\* indistinguishable, so the count stops at 2.
Land(S) ==
  onLog' = [m \in Msgs |-> IF m \in S /\ onLog[m] < 2 THEN onLog[m] + 1 ELSE onLog[m]]

SpendFault == faults < MaxFaults /\ faults' = faults + 1

-----------------------------------------------------------------------------
\* connect() resolved: the producer is assigned and starts with a clean slate.
ConnectOk ==
  /\ ~ connected
  /\ brokerUp
  /\ connected' = TRUE
  /\ produceFailures' = 0
  /\ eventDisconnected' = FALSE

\* connect() threw: the half-open client is disconnected (which emits the
\* DISCONNECT event) and this.producer stays null.
ConnectFail ==
  /\ ~ connected
  /\ ~ brokerUp
  /\ eventDisconnected' = TRUE
  /\ UNCHANGED <<connected, produceFailures>>

\* disconnect(): only the shutdown sequence calls it.
Disconnect ==
  /\ connected' = FALSE
  /\ eventDisconnected' = (connected \/ eventDisconnected)
  /\ UNCHANGED produceFailures

\* produceBatch(S) resolved: acks = -1, every message is on the log.
SendOk(S) ==
  /\ connected
  /\ brokerUp
  /\ Land(S)
  /\ produceFailures' = 0
  /\ eventDisconnected' = FALSE
  /\ UNCHANGED <<connected, faults>>

\* produceBatch(S) threw.  With no producer nothing is counted; otherwise the
\* failure is counted.  Messages that landed all the same cost a fault, and so
\* does a failure while the broker is up.
SendFail(S) ==
  \/ /\ ~ connected
     /\ UNCHANGED <<onLog, produceFailures, faults>>
     /\ UNCHANGED <<connected, eventDisconnected>>
  \/ /\ connected
     /\ produceFailures' = IF produceFailures < UnhealthyThreshold
                           THEN produceFailures + 1 ELSE produceFailures
     /\ UNCHANGED <<connected, eventDisconnected>>
     /\ \/ ~ brokerUp /\ UNCHANGED <<onLog, faults>>
        \/ SpendFault /\ \E landed \in SUBSET S : Land(landed)

-----------------------------------------------------------------------------
\* Environment: an outage begins or ends; kafkajs reports a broken socket.
BrokerFlip ==
  /\ brokerUp' = ~ brokerUp
  /\ UNCHANGED <<onLog, faults>> /\ UNCHANGED producerVars

SocketDropped ==
  /\ connected
  /\ ~ brokerUp
  /\ eventDisconnected' = TRUE
  /\ UNCHANGED <<brokerUp, onLog, faults, connected, produceFailures>>
=============================================================================
