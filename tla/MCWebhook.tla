----------------------------- MODULE MCWebhook -----------------------------
(* Instances of WebhookPipeline for TLC. *)
EXTENDS WebhookPipeline, TLC
CONSTANTS e1, d1, d2, d3

\* One event is enough: events share no state but the budget of faults.
OfE1 == [d \in Deliveries |-> e1]

\* What the strategies return: an order, a captured payment, a settlement, a
\* resource, a topic nobody maps, an envelope that does not parse.
Mapped == {{"loose"}, {"aged", "blocking"}, {"aged"}, {}, {"skip"}, {"malformed"}}

\* customers/redact and app/uninstalled of Shopify.
Redact == {{"skip", "loose"}}

\* payment.captured of Razorpay.
Payment == {{"aged", "blocking"}}

\* Deliveries are alike.
SameDeliveries == Permutations({d1, d2, d3})
=============================================================================
