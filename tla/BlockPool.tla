------------------------------ MODULE BlockPool ------------------------------
(***************************************************************************)
(* What the free-space manager of fulfs promises to the layers above it:   *)
(* the data blocks of a formatted device are a pool.  A block is taken     *)
(* from the pool by exactly one owner, and comes back when that owner      *)
(* gives it back.  Blocks vanish only at format time and once the device   *)
(* has reported an error.                                                  *)
(*                                                                         *)
(* FreeBlocks (data_block.c, the grouped free list kept inside the free    *)
(* blocks themselves) is shown to implement this module.                   *)
(***************************************************************************)
CONSTANT Blocks     \* block numbers the pool may hold

VARIABLES
    open,           \* the device is formatted and in service
    pool,           \* blocks nobody owns
    held,           \* blocks that are part of some file
    lost,           \* blocks neither free nor reachable from a file
    faulty          \* the device has reported an I/O error

vars == <<open, pool, held, lost, faulty>>

Init ==
    /\ open = FALSE
    /\ pool = {}
    /\ held = {}
    /\ lost = {}
    /\ faulty = FALSE

\* The device goes into service with every block in the pool, except at most
\* one that the format does not list.
Open ==
    /\ ~open
    /\ open' = TRUE
    /\ \E missing \in {{b} : b \in Blocks} \cup {{}} :
          /\ pool' = Blocks \ missing
          /\ lost' = missing
    /\ UNCHANGED <<held, faulty>>

\* A block changes hands: from the pool to one owner ...
Take(b) ==
    /\ open
    /\ b \in pool
    /\ pool' = pool \ {b}
    /\ held' = held \cup {b}
    /\ UNCHANGED <<open, lost, faulty>>

\* ... and from its owner back to the pool.
Give(b) ==
    /\ open
    /\ b \in held
    /\ held' = held \ {b}
    /\ pool' = pool \cup {b}
    /\ UNCHANGED <<open, lost, faulty>>

\* A transfer during which the device reports an error: the block may end up
\* with the owner giving it up, in the pool, or nowhere; never in two places.
Falter ==
    /\ open
    /\ faulty' = TRUE
    /\ \/ UNCHANGED <<pool, held, lost>>
       \/ \E b \in pool :
             /\ pool' = pool \ {b}
             /\ lost' = lost \cup {b}
             /\ UNCHANGED held
       \/ \E b \in held :
             /\ held' = held \ {b}
             /\ \/ pool' = pool \cup {b} /\ UNCHANGED lost
                \/ lost' = lost \cup {b} /\ UNCHANGED pool
    /\ UNCHANGED open

\* The device fails before it is in service.
FailToOpen == ~open /\ faulty' = TRUE /\ UNCHANGED <<open, pool, held, lost>>

Next ==
    \/ Open
    \/ \E b \in Blocks : Take(b) \/ Give(b)
    \/ Falter
    \/ FailToOpen

Spec == Init /\ [][Next]_vars
=============================================================================
