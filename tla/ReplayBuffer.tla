---------------------------- MODULE ReplayBuffer ----------------------------
(***************************************************************************)
(* The learner's replay buffer with optimize_memory: a ring of             *)
(* transitions that stores no next state and takes the state of the        *)
(* following slot for it.                                                  *)
(***************************************************************************)
EXTENDS Integers, Sequences

CONSTANTS
  Capacity,      \* capacity
  Unset          \* a slot of torch.empty that was never written

\* A capacity of 0 raises an error.
ASSUME CapacityAssumption == Capacity \in Nat \ {0}

Slots == 0 .. Capacity - 1

Buffer(T) ==
  [ring : [Slots -> T \cup {Unset}],
   position : Slots, size : 0 .. Capacity]

EmptyBuffer ==
  [ring |-> [i \in Slots |-> Unset], position |-> 0, size |-> 0]

Following(i) == (i + 1) % Capacity

AddUnwrapped(b, t) ==   \* mutant: the position is not taken modulo capacity
  [ring     |-> [b.ring EXCEPT ![b.position] = t],
   position |-> b.position + 1,
   size     |-> IF b.size < Capacity THEN b.size + 1 ELSE Capacity]

\* add, under the lock.
Add(b, t) ==
  [ring     |-> [b.ring EXCEPT ![b.position] = t],
   position |-> Following(b.position),
   size     |-> IF b.size < Capacity THEN b.size + 1 ELSE Capacity]

SampledTooFar(b) == {i \in Slots : i < b.size}   \* mutant: high = size

\* The slots that sample draws from: all but the newest while the ring is not
\* full, all of them once it is.
Sampled(b) == IF b.size < Capacity THEN {i \in Slots : i + 1 < b.size} ELSE Slots

\* The oldest transition first: the order in which to_lerobot_dataset writes.
InOrder(b) ==
  [k \in 1 .. b.size |->
     b.ring[(b.position + Capacity - b.size + k - 1) % Capacity]]

\* from_lerobot_dataset on a dataset that fits.
FromDataset(d) ==
  [ring     |-> [i \in Slots |-> IF i < Len(d) THEN d[i + 1] ELSE Unset],
   position |-> Len(d) % Capacity,
   size     |-> Len(d)]
=============================================================================
