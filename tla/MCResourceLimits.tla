--------------------------- MODULE MCResourceLimits ---------------------------
(* Small instances of ResourceLimits for TLC: e1 and e2 share a location,  *)
(* e2 and e3 video permits; the payloads of all leave no room to run in    *)
(* the smallest configuration.                                             *)
EXTENDS ResourceLimits, TLC

CONSTANTS e1, e2, e3, l1, l2, l3

SomeNeeds == e1 :> {l1} @@ e2 :> {l1, l2} @@ e3 :> {l3}
Sizes == l1 :> 1 @@ l2 :> 1 @@ l3 :> 3

Smallest == [downloads |-> 1, workers |-> 1, videos |-> 1,
             input |-> 3, output |-> 1, expanded |-> 1, temp |-> 6]

\* Valid ones, and ones with nothing of something or too little room.
SomeConfigs ==
    {Smallest, [Smallest EXCEPT !.workers = 2, !.temp = 8],
     [Smallest EXCEPT !.downloads = 2, !.videos = 2, !.input = 1]}
    \cup {[Smallest EXCEPT !.downloads = 0], [Smallest EXCEPT !.videos = 0],
          [Smallest EXCEPT !.workers = 0], [Smallest EXCEPT !.temp = 5],
          [Smallest EXCEPT !.temp = 3]}

=============================================================================
