--------------------------- MODULE MCSessionLocks ---------------------------
(***************************************************************************)
(* SessionLocks for model checking: two sessions on the smallest tree that *)
(* has every level and two keys, the stores lock over one store over one   *)
(* chunk over the keys k1 and k2.                                          *)
(***************************************************************************)
EXTENDS SessionLocks, TLC

CONSTANTS stores, store, chunk, k1, k2

MCNodes == {stores, store, chunk, k1, k2}

MCParent == (store :> stores) @@ (chunk :> store) @@ (k1 :> chunk)
                @@ (k2 :> chunk)

\* The canonical order, the levels from the top.
MCRank == (stores :> 0) @@ (store :> 1) @@ (chunk :> 2) @@ (k1 :> 3)
              @@ (k2 :> 4)

\* The stores lock and the chunk on one shard, the rest on the other.
MCHash == (stores :> 0) @@ (store :> 1) @@ (chunk :> 2) @@ (k1 :> 3)
              @@ (k2 :> 5)

\* Commands on one key, on both keys in either order as the client wrote
\* them, on the chunk (a migration), the store and all stores (flushall).
MCRequests ==
    [targets : {<<k1>>, <<k2>>, <<k1, k2>>, <<k2, k1>>, <<chunk>>, <<store>>,
                <<stores>>},
     mode : {"S", "X"}]

=============================================================================
