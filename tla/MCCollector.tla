----------------------------- MODULE MCCollector -----------------------------
(* Instances of Collector for TLC. *)
EXTENDS Collector
CONSTANTS m1, m2, m3

\* One single-message request and one /batch of two.
SingleAndPair == {<<m1>>, <<m2, m3>>}
=============================================================================
