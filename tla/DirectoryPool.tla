---------------------------- MODULE DirectoryPool ----------------------------
(***************************************************************************)
(* What a session's managed temporary directories promise, however many    *)
(* processes share the session and wherever they die: a directory appears  *)
(* and exists only under a reservation, a reservation ends only after its  *)
(* directory is gone, and no more than Capacity are held at any time.      *)
(***************************************************************************)
EXTENDS Integers, FiniteSets

CONSTANTS
  Ids,       \* identities of directories
  Capacity   \* how many a session may hold, MAX_DIRECTORIES in the code

VARIABLES
  held,      \* identities that hold a reservation
  present    \* identities whose directory exists

poolVars == <<held, present>>

PoolInit ==
  /\ held = {}
  /\ present = {}

Reserve(id) ==
  /\ id \notin held
  /\ Cardinality(held) < Capacity
  /\ held' = held \cup {id}
  /\ UNCHANGED present

Appear(id) ==
  /\ id \in held
  /\ present' = present \cup {id}
  /\ UNCHANGED held

Vanish(id) ==
  /\ present' = present \ {id}
  /\ UNCHANGED held

Free(id) ==
  /\ id \in held \ present
  /\ held' = held \ {id}
  /\ UNCHANGED present

PoolNext == \E id \in Ids : Reserve(id) \/ Appear(id) \/ Vanish(id) \/ Free(id)

PoolSpec == PoolInit /\ [][PoolNext]_poolVars

=============================================================================
