--------------------------------- MODULE MCPlan --------------------------------
(* A small instance of Plan for TLC: one key with up to two candidates, the *)
(* assets 1 and 2, and the containers 3 and 4, in graphs with sharing and   *)
(* cycles.                                                                 *)
EXTENDS Plan, TLC

Assets ==
    {[type |-> t, provider |-> p, internal |-> "a", remote |-> FALSE, options |-> FALSE] :
       t \in {"texture", "font", "cri", "other"}, p \in {"bundled", "cri"}}

Containers ==
    {[type |-> "bundle", provider |-> p, internal |-> "b", remote |-> r, options |-> TRUE] :
       p \in {"plain", "cri", "legacy"}, r \in BOOLEAN}

WithDeps(location, deps) == location @@ "deps" :> deps

SomeFiles ==
    {1 :> WithDeps(a, i) @@ 2 :> WithDeps(b, IF same THEN i ELSE {1, 4})
       @@ 3 :> WithDeps(c, j) @@ 4 :> WithDeps(d, k) :
       a \in Assets, b \in Assets \cup {x \in Containers : x.provider = "plain"},
       c \in Containers, d \in {x \in Containers : x.remote},
       i \in {{}, {3, 4}, {2, 3}}, same \in BOOLEAN, j \in {{4}, {1}}, k \in {{}, {3}}}

SomeKeys == {"k" :> <<1>>, "k" :> <<2, 1>>}

SomeRequests ==
    [key : {"k"}, type : {Anything, "texture"}, id : {Anything, 1}, archive : BOOLEAN]

=============================================================================
