-------------------------- MODULE ConsenterChange ---------------------------
(***************************************************************************)
(* What FabricOps promises about reviewed Raft changes: a channel grows by *)
(* blocks, its orderers replicate them, and an operation is announced only *)
(* for a block that carries the change it asks for and that every desired  *)
(* consenter has.  Nothing is said of how the change gets into the         *)
(* channel.  RaftUpdate implements this specification.                     *)
(***************************************************************************)
EXTENDS Naturals, Sequences

CONSTANTS
    Operation,   \* the operations that may be announced
    wanted,      \* the consenter list an operation asks for
    since,       \* the config sequence it was planned at
    Start,       \* the blocks of the channel at the beginning
    Joined       \* how many of them each orderer has

VARIABLES
    chain,       \* the blocks, each with the config in force
    height,      \* the number of blocks an orderer has
    announced    \* the block an operation has been announced for; 0 for none

vars == <<chain, height, announced>>

\* Block h carries what operation k asks for.
Carries(k, h) ==
    /\ h \in DOMAIN chain
    /\ chain[h].config.mode = "normal"
    /\ chain[h].config.consenters = wanted[k]
    /\ chain[h].config.sequence > since[k]

Earned(k, h) ==
    /\ Carries(k, h)
    /\ \A i \in DOMAIN wanted[k] : height[wanted[k][i]] >= h

Init ==
    /\ chain = Start
    /\ height = Joined
    /\ announced = [k \in Operation |-> 0]

\* One block is added and the old ones stay.
Extend ==
    /\ Len(chain') = Len(chain) + 1
    /\ \A h \in DOMAIN chain : chain'[h] = chain[h]
    /\ UNCHANGED <<height, announced>>

Replicate ==
    /\ \E o \in DOMAIN height :
           /\ height[o] < Len(chain)
           /\ height' = [height EXCEPT ![o] = @ + 1]
    /\ UNCHANGED <<chain, announced>>

Announce ==
    /\ \E k \in Operation, h \in DOMAIN chain :
           /\ Earned(k, h)
           /\ announced' = [announced EXCEPT ![k] = h]
    /\ UNCHANGED <<chain, height>>

Next == Extend \/ Replicate \/ Announce

Spec == Init /\ [][Next]_vars
=============================================================================
