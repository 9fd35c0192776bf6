----------------------------- MODULE MC_LFQueue -----------------------------
(* Model-checking instance of LFQueue: threads are model values.           *)
EXTENDS LFQueue

CONSTANTS p1, p2, c1, c2

\* One producer against two consumers racing on head_.
OneProducer == {p1}
TwoConsumers == {c1, c2}

\* Two producers racing on tail_ against one consumer.
TwoProducers == {p1, p2}
OneConsumer == {c1}
=============================================================================
