------------------------------ MODULE BlockStore ------------------------------
(***************************************************************************)
(* What a BlockCachePool promises its readers, with no cache in sight: a   *)
(* reader that asks for a block is given that block's bytes or nothing,    *)
(* and the bytes it holds do not change until it lets go of them.          *)
(***************************************************************************)
CONSTANTS
  Clients,   \* the readers
  Blocks,    \* what they may ask for
  Nothing    \* no request, no page

VARIABLES
  want,      \* the block a client has asked for
  got        \* the bytes a client holds, named by the block they belong to

storeVars == <<want, got>>

StoreInit ==
  /\ want = [c \in Clients |-> Nothing]
  /\ got  = [c \in Clients |-> Nothing]

Ask(c, b) ==
  /\ want[c] = Nothing
  /\ got[c] = Nothing
  /\ want' = [want EXCEPT ![c] = b]
  /\ UNCHANGED got

Deliver(c) ==
  /\ want[c] # Nothing
  /\ got'  = [got EXCEPT ![c] = want[c]]
  /\ want' = [want EXCEPT ![c] = Nothing]

Decline(c) ==
  /\ want[c] # Nothing
  /\ want' = [want EXCEPT ![c] = Nothing]
  /\ UNCHANGED got

LetGo(c) ==
  /\ got[c] # Nothing
  /\ got' = [got EXCEPT ![c] = Nothing]
  /\ UNCHANGED want

StoreNext ==
  \E c \in Clients :
    \/ \E b \in Blocks : Ask(c, b)
    \/ Deliver(c)
    \/ Decline(c)
    \/ LetGo(c)

StoreSpec == StoreInit /\ [][StoreNext]_storeVars
=============================================================================
