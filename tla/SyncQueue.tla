------------------------------ MODULE SyncQueue ------------------------------
(***************************************************************************)
(* The promise of a synchronous FIFO: a bounded queue that ignores both    *)
(* ports in the first cycle after reset, drops a write when it is full and *)
(* ignores a read when it is empty.                                        *)
(***************************************************************************)
EXTENDS BoundedQueue

CONSTANTS Depth,   \* number of entries
          Data     \* values an entry can hold

VARIABLES queue,     \* the entries, oldest first
          under_rst  \* TRUE in the first cycle after reset

vars == <<queue, under_rst>>

Offers == {<< >>} \cup {<<d>> : d \in Data}

Init == queue = << >> /\ under_rst = TRUE

Edge(offer, pop) ==
  /\ queue' = IF under_rst THEN queue ELSE AfterEdge(queue, Depth, offer, pop)
  /\ under_rst' = FALSE

Reset == queue' = << >> /\ under_rst' = TRUE

Next == Reset \/ \E offer \in Offers, pop \in BOOLEAN : Edge(offer, pop)

Spec == Init /\ [][Next]_vars

=============================================================================
