------------------------------ MODULE Conveyor ------------------------------
(***************************************************************************)
(* What the driver promises of the frames of each lidar: they wait in a    *)
(* bounded queue and are published in the order they came, each of them    *)
(* once.  A frame that finds the queue full is lost, which changes nothing *)
(* here.                                                                   *)
(***************************************************************************)
EXTENDS Sequences, Naturals

CONSTANTS Lidars, Capacity, Packets

VARIABLES held, published

conveyor == <<held, published>>

Init ==
  /\ held = [l \in Lidars |-> <<>>]
  /\ published = [l \in Lidars |-> <<>>]

Put(l, p) ==
  /\ Len(held[l]) < Capacity
  /\ held' = [held EXCEPT ![l] = Append(@, p)]
  /\ UNCHANGED published

Take(l) ==
  /\ held[l] # <<>>
  /\ held' = [held EXCEPT ![l] = Tail(@)]
  /\ published' = [published EXCEPT ![l] = Head(held[l])]

Next == \E l \in Lidars : Take(l) \/ \E p \in Packets : Put(l, p)

Spec == Init /\ [][Next]_conveyor
=============================================================================
