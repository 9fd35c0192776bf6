---------------------------- MODULE MC_MPMCQueue ----------------------------
(* Model-checking instance of MPMCQueue: threads are model values.         *)
EXTENDS MPMCQueue

CONSTANTS p1, p2, c1, c2

\* Two producers racing on the tail against one consumer: the setting of
\* AsyncLogger (many loggers, one writer thread).
TwoProducers == {p1, p2}
OneConsumer == {c1}

\* One producer against two consumers racing on the head.
OneProducer == {p1}
TwoConsumers == {c1, c2}
=============================================================================
