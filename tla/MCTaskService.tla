---------------------------- MODULE MCTaskService -----------------------------
(* A small instance of TaskService for TLC.                                *)
EXTENDS TaskService

CONSTANTS t1, k1, k2, k3, k4

SomeOrder == <<k1, k2, k3, k4>>

Named(keys) == [keys |-> keys, prefix |-> NoPrefix, located |-> FALSE]
Prefixed(matches) ==
    [Named(<<>>) EXCEPT !.prefix = [given |-> TRUE, matches |-> matches]]

\* Three keys in disorder and twice, all four by their prefix, and what is
\* never accepted: nothing, both ways at once, a location of several keys.
SomeRequests ==
    {Named(<<k3, k1, k2, k1>>), Prefixed({k1, k2, k3, k4}), Named(<<>>), Prefixed({}),
     [Prefixed({k1}) EXCEPT !.keys = <<k2>>],
     [Named(<<k1, k2>>) EXCEPT !.located = TRUE]}

=============================================================================
