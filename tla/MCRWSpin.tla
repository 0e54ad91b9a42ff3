------------------------------ MODULE MCRWSpin ------------------------------
EXTENDS RWSpin, TLC

CONSTANTS a, b, c, k, l

\* Two coroutines share a carrier, the third has one of its own.
Queues == k :> <<a, b>> @@ l :> <<c>>
=============================================================================
