----------------------------- MODULE MCThingQueue -----------------------------
(* Two threads that put things in and two that take them out, with and       *)
(* without the operations that disturb them.                                 *)
EXTENDS ThingQueue, TLC

MCThreads == {"p1", "p2", "c1", "c2"}

Calling(p1, p2, c1, c2) == "p1" :> p1 @@ "p2" :> p2 @@ "c1" :> c1 @@ "c2" :> c2
Put == <<"Enqueue">>
Get == <<"Dequeue">>
Look == <<"IsQueue">>

MCScripts ==
    {Calling(Put \o Put, Put, Get \o Get, Get),             \* as many as are asked for
     Calling(Put \o Put, Put, Look \o Get, Look \o Get),    \* the way the managers poll
     Calling(Put \o Put, <<"Clear">>, Get, Get),
     Calling(Put, <<"Destory">>, Get, Get)}

=============================================================================
