------------------------- MODULE MCProducerConsumer -------------------------
(***************************************************************************)
(* Two producers and two consumers over a buffer of two slots: the         *)
(* smallest instance in which both semaphores block somebody, a slot is    *)
(* reused, and two threads of a kind compete for the last slot or item.    *)
(***************************************************************************)
EXTENDS ProducerConsumer

CONSTANTS p1, p2, c1, c2

MCProducers == {p1, p2}
MCConsumers == {c1, c2}
MCItems == 1 .. 2
=============================================================================
