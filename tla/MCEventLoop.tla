----------------------------- MODULE MCEventLoop -----------------------------
(***************************************************************************)
(* Small instances of EventLoop: a pool loop to which its creator, another *)
(* thread and its own callbacks hand functors; a main loop with one pool   *)
(* thread (what TCPServer with work_thread_num = 1 builds) plus a thread   *)
(* that owns no loop; and two pool loops that post to each other.          *)
(***************************************************************************)
EXTENDS EventLoop, TLC

CONSTANTS main, worker, other, client, a, b, c, d

\* Every loop belongs to the pool of the thread client.
PoolCreator == [l \in Loops |-> client]

\* Functors for one loop, handed over by whoever comes first; a ends
\* with a call that hands c to the loop a runs in.
OwnTarget == [k \in Tasks |-> worker]
OwnFollow == [k \in Tasks |-> IF k = a THEN c ELSE None]

\* A server: the main thread constructs the pool's loop.
ServerCreator == [l \in Loops |-> main]
ServerTarget == [k \in Tasks |-> worker]
ServerFollow == [k \in Tasks |-> None]

\* Two loops of one pool whose functors post to each other.
CrossTarget == (a :> worker) @@ (b :> other) @@ (c :> other) @@ (d :> worker)
CrossFollow == (a :> b) @@ (b :> None) @@ (c :> d) @@ (d :> None)
=============================================================================
