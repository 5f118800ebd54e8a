------------------------- MODULE ActorLearnerProofs -------------------------
(***************************************************************************)
(* What is proved of the replay buffer, the actor and the learner, for     *)
(* every number of steps, optimizations, breaks, signals and restarts: the *)
(* ring holds the newest transitions in order, the newest parameters       *)
(* pushed are never dropped, transitions arrive once and in order, a       *)
(* sample's next state is its own but at the seams, and the chunks that    *)
(* messages are cut into are put together as they were.                    *)
(***************************************************************************)
EXTENDS MCActorLearner, FlattenProofs

-----------------------------------------------------------------------------
(***************************************************************************)
(* The ring of the replay buffer, for every capacity and every sequence of *)
(* transitions it is given: it holds the newest of them, in order, and the *)
(* slot that follows one it samples is the transition that was given next, *)
(* but at the seam of a full ring.                                         *)
(***************************************************************************)
\* b is what a buffer given the sequence g holds.
Holds(b, T, g) ==
  /\ b \in Buffer(T)
  /\ b.size = IF Len(g) < Capacity THEN Len(g) ELSE Capacity
  /\ b.size < Capacity => b.position = b.size
  /\ InOrder(b) = SubSeq(g, Len(g) - b.size + 1, Len(g))

(***************************************************************************)
(* Arithmetic modulo the capacity, below twice the capacity.               *)
(***************************************************************************)
LEMMA Below ==
  ASSUME NEW C \in Nat \ {0}, NEW x \in 0 .. C - 1
  PROVE  x % C = x
OBVIOUS

LEMMA BelowTwice ==
  ASSUME NEW C \in Nat \ {0}, NEW x \in C .. 2 * C - 1
  PROVE  x % C = x - C
OBVIOUS

LEMMA Wraps ==
  ASSUME NEW x \in 0 .. 2 * Capacity - 1
  PROVE  x % Capacity = IF x < Capacity THEN x ELSE x - Capacity
BY CapacityAssumption, Below, BelowTwice DEF CapacityAssumption

LEMMA FollowingIs ==
  ASSUME NEW i \in Slots
  PROVE  /\ Following(i) = IF i + 1 < Capacity THEN i + 1 ELSE 0
         /\ Following(i) \in Slots
BY CapacityAssumption, Wraps DEF CapacityAssumption, Following, Slots

(***************************************************************************)
(* Where the transitions are: Place(b, k) is the slot of the k-th oldest.  *)
(***************************************************************************)
Place(b, k) ==
  IF b.size < Capacity THEN k - 1
  ELSE IF b.position + k - 1 < Capacity THEN b.position + k - 1
  ELSE b.position + k - 1 - Capacity

Shaped(b, T) == b \in Buffer(T) /\ (b.size < Capacity => b.position = b.size)

LEMMA OldestFirst ==
  ASSUME NEW T, NEW b, Shaped(b, T)
  PROVE  /\ \A k \in 1 .. b.size : Place(b, k) \in Slots
         /\ InOrder(b) = [k \in 1 .. b.size |-> b.ring[Place(b, k)]]
<1> USE CapacityAssumption DEF CapacityAssumption
<1>1. /\ b.size \in 0 .. Capacity /\ b.position \in 0 .. Capacity - 1
      /\ b.size < Capacity => b.position = b.size
      BY DEF Shaped, Buffer, Slots
<1>2. ASSUME NEW k \in 1 .. b.size
      PROVE  /\ Place(b, k) \in Slots
             /\ (b.position + Capacity - b.size + k - 1) % Capacity = Place(b, k)
  <2> DEFINE x == b.position + Capacity - b.size + k - 1
  <2>1. x \in 0 .. 2 * Capacity - 1
        BY <1>1
  <2>2. x % Capacity = IF x < Capacity THEN x ELSE x - Capacity
        BY <2>1, Wraps
  <2>3. Place(b, k) = IF x < Capacity THEN x ELSE x - Capacity
        BY <1>1 DEF Place
  <2>4. Place(b, k) \in Slots
        BY <2>1, <2>3 DEF Slots
  <2>5. QED
        BY <2>2, <2>3, <2>4
<1>3. QED
      BY <1>2 DEF InOrder

\* Every slot that is in use has a place.
LEMMA PlaceOf ==
  ASSUME NEW T, NEW b, Shaped(b, T), NEW i \in Slots,
         b.size < Capacity => i < b.size
  PROVE  \E k \in 1 .. b.size : Place(b, k) = i
<1> USE CapacityAssumption DEF CapacityAssumption
<1>1. /\ b.size \in 0 .. Capacity /\ b.position \in 0 .. Capacity - 1
      /\ i \in 0 .. Capacity - 1
      BY DEF Shaped, Buffer, Slots
<1>2. CASE b.size < Capacity
  <2>1. i + 1 \in 1 .. b.size /\ Place(b, i + 1) = i
        BY <1>1, <1>2 DEF Place
  <2>2. QED
        BY <2>1
<1>3. CASE b.size = Capacity /\ i >= b.position
  <2>1. /\ i - b.position + 1 \in 1 .. b.size
        /\ Place(b, i - b.position + 1) = i
        BY <1>1, <1>3 DEF Place
  <2>2. QED
        BY <2>1
<1>4. CASE b.size = Capacity /\ i < b.position
  <2>1. /\ i + Capacity - b.position + 1 \in 1 .. b.size
        /\ Place(b, i + Capacity - b.position + 1) = i
        BY <1>1, <1>4 DEF Place
  <2>2. QED
        BY <2>1
<1>5. QED
      BY <1>1, <1>2, <1>3, <1>4

\* The slot after the k-th oldest is that of the next, but after the newest.
LEMMA PlaceAfter ==
  ASSUME NEW T, NEW b, Shaped(b, T), NEW k \in 1 .. b.size, k < b.size
  PROVE  Following(Place(b, k)) = Place(b, k + 1)
<1> USE CapacityAssumption DEF CapacityAssumption
<1>1. b.size \in 0 .. Capacity /\ b.position \in 0 .. Capacity - 1
      BY DEF Shaped, Buffer, Slots
<1>2. Place(b, k) \in Slots
      BY OldestFirst
<1>3. QED
      BY <1>1, <1>2, FollowingIs DEF Place, Slots

(***************************************************************************)
(* add.                                                                    *)
(***************************************************************************)
LEMMA AddShaped ==
  ASSUME NEW T, NEW b, Shaped(b, T), NEW t \in T
  PROVE  /\ Shaped(Add(b, t), T)
         /\ Add(b, t).size = IF b.size < Capacity THEN b.size + 1 ELSE Capacity
         /\ Add(b, t).position = Following(b.position)
         /\ \A i \in Slots : Add(b, t).ring[i] =
              IF i = b.position THEN t ELSE b.ring[i]
<1> USE CapacityAssumption DEF CapacityAssumption
<1>1. /\ b.size \in 0 .. Capacity /\ b.position \in Slots
      /\ b.ring \in [Slots -> T \cup {Unset}]
      /\ b.size < Capacity => b.position = b.size
      BY DEF Shaped, Buffer
<1>2. /\ Add(b, t).size = IF b.size < Capacity THEN b.size + 1 ELSE Capacity
      /\ Add(b, t).position = Following(b.position)
      /\ Add(b, t).ring = [b.ring EXCEPT ![b.position] = t]
      BY DEF Add
<1>3. /\ [b.ring EXCEPT ![b.position] = t] \in [Slots -> T \cup {Unset}]
      /\ \A i \in Slots : [b.ring EXCEPT ![b.position] = t][i] =
           IF i = b.position THEN t ELSE b.ring[i]
      BY <1>1
<1>4. Add(b, t).size \in 0 .. Capacity
      BY <1>1, <1>2
<1>5. Add(b, t) \in Buffer(T)
      BY <1>1, <1>2, <1>3, <1>4, FollowingIs DEF Add, Buffer
<1>6. Add(b, t).size < Capacity => Add(b, t).position = Add(b, t).size
      BY <1>1, <1>2, FollowingIs
<1>7. QED
      BY <1>2, <1>3, <1>5, <1>6 DEF Shaped

\* The newest transition is the last in order, and the others keep theirs, but
\* for the oldest of a full ring, which is gone.
LEMMA AddOrder ==
  ASSUME NEW T, NEW b, Shaped(b, T), NEW t \in T
  PROVE  LET n == Add(b, t).size IN
         /\ InOrder(Add(b, t))[n] = t
         /\ \A k \in 1 .. n - 1 :
              InOrder(Add(b, t))[k] = InOrder(b)[k + b.size + 1 - n]
<1> USE CapacityAssumption DEF CapacityAssumption
<1> DEFINE c == Add(b, t)
<1>1. /\ b.size \in 0 .. Capacity /\ b.position \in Slots
      /\ b.size < Capacity => b.position = b.size
      BY DEF Shaped, Buffer
<1>2. /\ Shaped(c, T)
      /\ c.size = IF b.size < Capacity THEN b.size + 1 ELSE Capacity
      /\ c.position = Following(b.position)
      /\ \A i \in Slots : c.ring[i] = IF i = b.position THEN t ELSE b.ring[i]
      BY AddShaped
<1>3. /\ \A k \in 1 .. b.size : Place(b, k) \in Slots
      /\ \A k \in 1 .. b.size : InOrder(b)[k] = b.ring[Place(b, k)]
  <2>1. /\ \A k \in 1 .. b.size : Place(b, k) \in Slots
        /\ InOrder(b) = [k \in 1 .. b.size |-> b.ring[Place(b, k)]]
        BY OldestFirst
  <2>2. QED
        BY <2>1
<1> HIDE DEF c
<1>4. /\ \A k \in 1 .. c.size : Place(c, k) \in Slots
      /\ \A k \in 1 .. c.size : InOrder(c)[k] = c.ring[Place(c, k)]
  <2>1. /\ \A k \in 1 .. c.size : Place(c, k) \in Slots
        /\ InOrder(c) = [k \in 1 .. c.size |-> c.ring[Place(c, k)]]
        BY <1>2, OldestFirst
  <2>2. QED
        BY <2>1
<1>5. Following(b.position) = IF b.position + 1 < Capacity THEN b.position + 1
                              ELSE 0
      BY <1>1, FollowingIs
<1>6. Place(c, c.size) = b.position
      BY <1>1, <1>2, <1>5 DEF Place, Slots
<1>7. InOrder(c)[c.size] = t
  <2>1. c.size \in 1 .. c.size
        BY <1>1, <1>2
  <2>2. QED
        BY <1>1, <1>2, <1>6, <1>4, <2>1
<1>8. ASSUME NEW k \in 1 .. c.size - 1
      PROVE  InOrder(c)[k] = InOrder(b)[k + b.size + 1 - c.size]
  <2> DEFINE j == k + b.size + 1 - c.size
  <2>1. j \in 1 .. b.size /\ k \in 1 .. c.size
        BY <1>1, <1>2
  <2>2. Place(c, k) = Place(b, j) /\ Place(c, k) # b.position
        BY <1>1, <1>2, <1>5 DEF Place, Slots
  <2>3. QED
        BY <1>2, <1>3, <1>4, <2>1, <2>2
<1>9. QED
      BY <1>7, <1>8 DEF c

LEMMA NewestIs ==
  ASSUME NEW T, NEW g \in Seq(T), NEW n \in 0 .. Len(g)
  PROVE  SubSeq(g, Len(g) - n + 1, Len(g))
           = [k \in 1 .. n |-> g[Len(g) - n + k]]
<1> DEFINE d == SubSeq(g, Len(g) - n + 1, Len(g))
<1>1. Len(g) \in Nat /\ \A i \in 1 .. Len(g) : g[i] \in T
      OBVIOUS
<1>2. \A i \in (Len(g) - n + 1) .. Len(g) : g[i] \in T
      BY <1>1
<1>3. /\ d \in Seq(T)
      /\ Len(d) = IF Len(g) - n + 1 <= Len(g) THEN Len(g) - (Len(g) - n + 1) + 1
                  ELSE 0
      /\ \A i \in 1 .. Len(g) - (Len(g) - n + 1) + 1 :
           d[i] = g[(Len(g) - n + 1) + i - 1]
      BY <1>1, <1>2, SubSeqProperties
<1> HIDE DEF d
<1>4. Len(d) = n /\ \A i \in 1 .. n : d[i] = g[Len(g) - n + i]
      BY <1>1, <1>3
<1>5. d = [i \in 1 .. Len(d) |-> d[i]]
      BY <1>3
<1>6. d = [k \in 1 .. n |-> g[Len(g) - n + k]]
      BY <1>4, <1>5
<1>7. QED
      BY <1>6 DEF d

\* The buffer holds the transitions it was given last, in the order it was given
\* them, whatever its capacity: add overwrites the oldest and no other.
THEOREM AddKeepsNewest ==
  ASSUME NEW T, NEW b, NEW g \in Seq(T), Holds(b, T, g), NEW t \in T
  PROVE  Holds(Add(b, t), T, Append(g, t))
<1> USE CapacityAssumption DEF CapacityAssumption
<1> DEFINE c == Add(b, t)
           h == Append(g, t)
<1>1. Shaped(b, T) /\ b.size \in 0 .. Capacity
      BY DEF Holds, Shaped, Buffer
<1>2. /\ Shaped(c, T)
      /\ c.size = IF b.size < Capacity THEN b.size + 1 ELSE Capacity
      BY <1>1, AddShaped
<1>3. /\ Len(g) \in Nat /\ Len(h) = Len(g) + 1 /\ h[Len(h)] = t
      /\ \A i \in 1 .. Len(g) : h[i] = g[i]
      OBVIOUS
<1>4. /\ InOrder(c)[c.size] = t
      /\ \A k \in 1 .. c.size - 1 :
           InOrder(c)[k] = InOrder(b)[k + b.size + 1 - c.size]
      BY <1>1, AddOrder
<1>5. InOrder(c) = [k \in 1 .. c.size |-> InOrder(c)[k]]
      BY DEF InOrder
<1>6. /\ b.size = IF Len(g) < Capacity THEN Len(g) ELSE Capacity
      /\ \A k \in 1 .. b.size : InOrder(b)[k] = g[Len(g) - b.size + k]
  <2>1. /\ InOrder(b) = SubSeq(g, Len(g) - b.size + 1, Len(g))
        /\ b.size = IF Len(g) < Capacity THEN Len(g) ELSE Capacity
        BY DEF Holds
  <2>2. SubSeq(g, Len(g) - b.size + 1, Len(g))
          = [k \in 1 .. b.size |-> g[Len(g) - b.size + k]]
    <3>1. b.size \in 0 .. Len(g)
          BY <1>1, <1>3, <2>1
    <3>2. QED
          BY <3>1, NewestIs, Zenon
  <2>3. QED
        BY <2>1, <2>2
<1> HIDE DEF c, h
<1>7. c.size = IF Len(h) < Capacity THEN Len(h) ELSE Capacity
      BY <1>1, <1>2, <1>3, <1>6
<1>8. ASSUME NEW k \in 1 .. c.size
      PROVE  InOrder(c)[k] = h[Len(h) - c.size + k]
  <2>1. CASE k = c.size
    <3>1. Len(h) - c.size + k = Len(h)
          BY <1>1, <1>2, <1>3, <2>1
    <3>2. QED
          BY <1>3, <1>4, <2>1, <3>1
  <2>2. CASE k # c.size
    <3>1. Len(g) \in Int /\ b.size \in Int /\ c.size \in Int /\ k \in Int
          BY <1>1, <1>2, <1>3
    <3>2. k \in 1 .. c.size - 1
          BY <2>2, <3>1
    <3>3. b.size <= c.size /\ c.size <= b.size + 1
          BY <1>1, <1>2
    <3>4. k + b.size + 1 - c.size \in 1 .. b.size
          BY <3>1, <3>2, <3>3
    <3>5. InOrder(c)[k] = g[Len(g) + k + 1 - c.size]
      <4>1. InOrder(c)[k] = InOrder(b)[k + b.size + 1 - c.size]
            BY <1>4, <3>2
      <4>2. InOrder(b)[k + b.size + 1 - c.size]
              = g[Len(g) - b.size + (k + b.size + 1 - c.size)]
            BY <1>6, <3>4
      <4>3. Len(g) - b.size + (k + b.size + 1 - c.size) = Len(g) + k + 1 - c.size
            BY <3>1
      <4>4. QED
            BY <4>1, <4>2, <4>3
    <3>6. Len(g) + k + 1 - c.size \in 1 .. Len(g)
      <4>1. c.size <= Len(g) + 1
            BY <1>1, <1>2, <1>3, <1>6
      <4>2. 1 <= k /\ k + 1 <= c.size
            BY <3>1, <3>2
      <4>3. 1 <= Len(g) + k + 1 - c.size /\ Len(g) + k + 1 - c.size <= Len(g)
            BY <3>1, <4>1, <4>2
      <4>4. QED
            BY <3>1, <4>3
    <3>7. Len(h) - c.size + k = Len(g) + k + 1 - c.size
      <4>1. Len(h) = Len(g) + 1
            BY <1>3
      <4>2. QED
            BY <3>1, <4>1
    <3>8. h[Len(g) + k + 1 - c.size] = g[Len(g) + k + 1 - c.size]
          BY <1>3, <3>6
    <3>9. QED
          BY <3>5, <3>7, <3>8
  <2>3. QED
        BY <2>1, <2>2
<1>9. InOrder(c) = SubSeq(h, Len(h) - c.size + 1, Len(h))
  <2>1. SubSeq(h, Len(h) - c.size + 1, Len(h))
          = [k \in 1 .. c.size |-> h[Len(h) - c.size + k]]
    <3>1. c.size \in 0 .. Len(h) /\ h \in Seq(T)
          BY <1>1, <1>2, <1>3, <1>7 DEF h
    <3>2. QED
          BY <3>1, NewestIs, Zenon
  <2>2. QED
        BY <1>5, <1>8, <2>1
<1>10. QED
       BY <1>2, <1>7, <1>9 DEF Holds, Shaped, c, h

\* A buffer made from a dataset that fits (from_lerobot_dataset) holds it in
\* the dataset's order, and goes on from where the dataset ends; a new buffer
\* holds nothing.
THEOREM ReloadKeepsOrder ==
  ASSUME NEW T, NEW d \in Seq(T), Len(d) <= Capacity
  PROVE  Holds(FromDataset(d), T, d) /\ Holds(EmptyBuffer, T, <<>>)
<1> USE CapacityAssumption DEF CapacityAssumption
<1>1. ASSUME NEW b, NEW e \in Seq(T), Shaped(b, T), b.size = Len(e),
             b.size = Capacity => b.position = 0,
             \A i \in 0 .. b.size - 1 : b.ring[i] = e[i + 1]
      PROVE  Holds(b, T, e)
  <2>1. /\ InOrder(b) = [k \in 1 .. b.size |-> b.ring[Place(b, k)]]
        /\ b.size \in 0 .. Capacity /\ b.position \in Slots
    <3>1. /\ \A k \in 1 .. b.size : Place(b, k) \in Slots
          /\ InOrder(b) = [k \in 1 .. b.size |-> b.ring[Place(b, k)]]
          BY <1>1, OldestFirst, Zenon
    <3>2. b.size \in 0 .. Capacity /\ b.position \in Slots
          BY <1>1 DEF Shaped, Buffer
    <3>3. QED
          BY <3>1, <3>2
  <2>2. ASSUME NEW k \in 1 .. b.size
        PROVE  Place(b, k) = k - 1 /\ k - 1 \in 0 .. b.size - 1
    <3>1. b.size \in Nat /\ k \in Nat /\ 1 <= k /\ k <= b.size
          BY <2>1
    <3>2. b.position + (k - 1) = k - 1 \/ b.size < Capacity
          BY <1>1, <2>1, <3>1 DEF Slots
    <3>3. Place(b, k) = k - 1
          BY <1>1, <2>1, <3>1, <3>2 DEF Place, Slots
    <3>4. QED
          BY <3>1, <3>3
  <2>3. InOrder(b) = [k \in 1 .. b.size |-> e[k]]
        BY <1>1, <2>1, <2>2
  <2>4. SubSeq(e, 1, Len(e)) = [k \in 1 .. Len(e) |-> e[k]]
        BY <1>1, SubSeqFull
  <2>5. Len(e) - b.size + 1 = 1
        BY <1>1
  <2>6. InOrder(b) = SubSeq(e, Len(e) - b.size + 1, Len(e))
        BY <1>1, <2>3, <2>4, <2>5
  <2>7. QED
        BY <1>1, <2>1, <2>6 DEF Holds, Shaped
<1>2. Holds(FromDataset(d), T, d)
  <2> DEFINE b == FromDataset(d)
  <2>1. Len(d) \in 0 .. Capacity /\ \A i \in 1 .. Len(d) : d[i] \in T
        OBVIOUS
  <2>2. Len(d) % Capacity = IF Len(d) < Capacity THEN Len(d) ELSE 0
        BY <2>1, Wraps
  <2>3. /\ b.ring = [i \in Slots |-> IF i < Len(d) THEN d[i + 1] ELSE Unset]
        /\ b.position = Len(d) % Capacity /\ b.size = Len(d)
        BY DEF FromDataset
  <2>4. b.ring \in [Slots -> T \cup {Unset}]
        BY <2>1, <2>3 DEF Slots
  <2>5. b.position \in Slots /\ b.size \in 0 .. Capacity
        BY <2>1, <2>2, <2>3 DEF Slots
  <2>6. Shaped(b, T)
        BY <2>2, <2>3, <2>4, <2>5 DEF Shaped, Buffer, FromDataset
  <2>7. \A i \in 0 .. b.size - 1 : b.ring[i] = d[i + 1]
        BY <2>1, <2>3 DEF Slots
  <2> HIDE DEF b
  <2>8. Holds(b, T, d)
        BY <1>1, <2>2, <2>3, <2>6, <2>7
  <2>9. QED
        BY <2>8 DEF b
<1>3. Holds(EmptyBuffer, T, <<>>)
  <2>1. /\ EmptyBuffer.ring = [i \in Slots |-> Unset]
        /\ EmptyBuffer.position = 0 /\ EmptyBuffer.size = 0
        BY DEF EmptyBuffer
  <2>2. Shaped(EmptyBuffer, T)
        BY <2>1 DEF Shaped, Buffer, EmptyBuffer, Slots
  <2>3. /\ <<>> \in Seq(T) /\ Len(<<>>) = 0
        OBVIOUS
  <2>4. /\ EmptyBuffer.size # Capacity
        /\ \A i \in 0 .. EmptyBuffer.size - 1 : EmptyBuffer.ring[i] = <<>>[i + 1]
        BY <2>1
  <2>5. EmptyBuffer.size = Len(<<>>)
        BY <2>1, <2>3
  <2>6. <<>> \in Seq(T)
        BY <2>3
  <2> HIDE DEF EmptyBuffer
  <2>7. QED
        BY <1>1, <2>2, <2>4, <2>5, <2>6
<1>4. QED
      BY <1>2, <1>3

(***************************************************************************)
(* sample.                                                                 *)
(***************************************************************************)
\* A sampled slot holds a transition, and the slot that sample reads its next
\* state from holds the one that was given next: never a slot that was not
\* written, and never another transition's, but that of the newest slot of a
\* full ring, which is followed by the oldest.
THEOREM SamplesFollow ==
  ASSUME NEW T, NEW b, NEW g \in Seq(T), Holds(b, T, g),
         NEW i \in Sampled(b)
  PROVE  \E m \in 1 .. Len(g) :
           /\ b.ring[i] = g[m]
           /\ \/ m < Len(g) /\ b.ring[Following(i)] = g[m + 1]
              \/ /\ m = Len(g) /\ b.size = Capacity
                 /\ Following(i) = b.position
                 /\ b.ring[Following(i)] = g[Len(g) - Capacity + 1]
<1> USE CapacityAssumption DEF CapacityAssumption
<1>1. /\ Shaped(b, T) /\ b.size \in 0 .. Capacity /\ b.position \in Slots
      /\ b.size = IF Len(g) < Capacity THEN Len(g) ELSE Capacity
      /\ Len(g) \in Nat /\ b.size \in 0 .. Len(g)
      BY DEF Holds, Shaped, Buffer
<1>2. i \in Slots /\ (b.size < Capacity => i + 1 < b.size)
      BY DEF Sampled, Slots
<1>3. PICK k \in 1 .. b.size : Place(b, k) = i
  <2>1. b.size < Capacity => i < b.size
        BY <1>1, <1>2 DEF Slots
  <2>2. QED
        BY <1>1, <1>2, <2>1, PlaceOf
<1>4. \A j \in 1 .. b.size : b.ring[Place(b, j)] = g[Len(g) - b.size + j]
  <2>1. InOrder(b) = [j \in 1 .. b.size |-> b.ring[Place(b, j)]]
        BY <1>1, OldestFirst
  <2>2. InOrder(b) = [j \in 1 .. b.size |-> g[Len(g) - b.size + j]]
    <3>1. InOrder(b) = SubSeq(g, Len(g) - b.size + 1, Len(g))
          BY DEF Holds
    <3>2. SubSeq(g, Len(g) - b.size + 1, Len(g))
            = [j \in 1 .. b.size |-> g[Len(g) - b.size + j]]
          BY <1>1, NewestIs, Zenon
    <3>3. QED
          BY <3>1, <3>2
  <2>3. QED
        BY <2>1, <2>2
<1>5. CASE k < b.size
  <2>1. Following(i) = Place(b, k + 1) /\ k + 1 \in 1 .. b.size
        BY <1>1, <1>3, <1>5, PlaceAfter
  <2>2. PICK m : m = Len(g) - b.size + k
        OBVIOUS
  <2>3. m \in 1 .. Len(g) /\ m < Len(g)
    <3>1. b.size \in Nat /\ b.size <= Len(g) /\ Len(g) \in Nat
          BY <1>1
    <3>2. k \in Nat /\ 1 <= k
          BY <3>1
    <3>3. QED
          BY <1>5, <2>2, <3>1, <3>2
  <2>4. b.ring[i] = g[m]
        BY <1>3, <1>4, <2>2
  <2>5. b.ring[Following(i)] = g[m + 1]
    <3>1. b.ring[Place(b, k + 1)] = g[Len(g) - b.size + (k + 1)]
          BY <1>4, <2>1
    <3>2. Len(g) - b.size + (k + 1) = m + 1
          BY <1>1, <2>2
    <3>3. QED
          BY <2>1, <3>1, <3>2
  <2>6. QED
        BY <2>3, <2>4, <2>5
<1>6. CASE k = b.size
  <2>1. b.size = Capacity
        BY <1>1, <1>2, <1>3, <1>6 DEF Place, Slots
  <2>2. Following(i) = b.position /\ b.position = Place(b, 1)
    <3>1. i = IF b.position = 0 THEN Capacity - 1 ELSE b.position - 1
          BY <1>1, <1>3, <1>6, <2>1 DEF Place, Slots
    <3>2. Following(i) = IF i + 1 < Capacity THEN i + 1 ELSE 0
          BY <1>2, FollowingIs
    <3>3. Place(b, 1) = b.position
          BY <1>1, <2>1 DEF Place, Slots
    <3>4. QED
          BY <1>1, <3>1, <3>2, <3>3 DEF Slots
  <2>3. b.ring[i] = g[Len(g)]
    <3>1. b.ring[Place(b, k)] = g[Len(g) - b.size + k]
          BY <1>4
    <3>2. Len(g) - b.size + k = Len(g)
          BY <1>1, <1>6
    <3>3. QED
          BY <1>3, <3>1, <3>2
  <2>4. b.ring[Following(i)] = g[Len(g) - Capacity + 1]
    <3>1. 1 \in 1 .. b.size
          BY <1>1, <2>1
    <3>2. b.ring[Place(b, 1)] = g[Len(g) - b.size + 1]
          BY <1>4, <3>1
    <3>3. QED
          BY <2>1, <2>2, <3>2
  <2>5. Len(g) \in 1 .. Len(g)
        BY <1>1, <2>1
  <2>6. QED
        BY <2>1, <2>2, <2>3, <2>4, <2>5
<1>7. QED
      BY <1>1, <1>3, <1>5, <1>6

-----------------------------------------------------------------------------
(***************************************************************************)
(* The newest parameters are never dropped on their way to the actor.      *)
(***************************************************************************)
P == "parameters"

\* The parameters the actor would end up with if nothing more were pushed.
Newest ==
  IF queue[P] # <<>> THEN Last(queue[P])
  ELSE IF wire[P] # <<>> THEN Last(wire[P])
  ELSE IF out[P] # <<>> THEN Last(out[P])
  ELSE loaded

StreamShape ==
  /\ queue = [s \in Streams |-> queue[s]]
  /\ wire = [s \in Streams |-> wire[s]]
  /\ out = [s \in Streams |-> out[s]]
  /\ call = [s \in Streams |-> call[s]]
  /\ queue[P] \in Seq(Nat) /\ wire[P] \in Seq(Nat) /\ out[P] \in Seq(Nat)

Versions == weights \in Nat

ParameterInv ==
  /\ StreamShape /\ Versions
  /\ call[P] # "over" => Newest = pushed

LEMMA InvImpliesSurvives ==
  ASSUME ParameterInv
  PROVE  NewestSurvives
<1> USE DEF ParameterInv, StreamShape, P
<1> DEFINE q == queue[P]  w == wire[P]  o == out[P]
           waiting == q \o w \o o
<1>1. q \in Seq(Nat) /\ w \in Seq(Nat) /\ o \in Seq(Nat)
      OBVIOUS
<1>2. SUFFICES ASSUME call[P] # "over", loaded # pushed
               PROVE  \E i \in 1 .. Len(waiting) : waiting[i] = pushed
      BY DEF NewestSurvives, Contains
<1>3. Newest = pushed
      BY <1>2
<1> HIDE DEF q, w, o
<1>4. CASE q # <<>> /\ pushed = q[Len(q)]
  <2>1. Len(q) \in 1 .. Len(waiting) /\ waiting[Len(q)] = q[Len(q)]
        BY <1>1, <1>4
  <2>2. QED
        BY <1>4, <2>1
<1>5. CASE w # <<>> /\ pushed = w[Len(w)]
  <2>1. /\ Len(q) + Len(w) \in 1 .. Len(waiting)
        /\ waiting[Len(q) + Len(w)] = w[Len(w)]
        BY <1>1, <1>5
  <2>2. QED
        BY <1>5, <2>1
<1>6. CASE o # <<>> /\ pushed = o[Len(o)]
  <2>1. /\ Len(waiting) \in 1 .. Len(waiting)
        /\ waiting[Len(waiting)] = o[Len(o)]
        BY <1>1, <1>6
  <2>2. QED
        BY <1>6, <2>1
<1>7. QED
      BY <1>2, <1>3, <1>4, <1>5, <1>6 DEF Newest, Last, q, w, o

LEMMA ParameterInit ==
  ASSUME Init
  PROVE  ParameterInv
<1>1. StreamShape
      BY DEF Init, StreamShape, Streams, P
<1>2. Versions
      BY DEF Init, Versions
<1>3. Newest = pushed
      BY DEF Init, Newest, Last, Streams, P
<1>4. QED
      BY <1>1, <1>2, <1>3 DEF ParameterInv

\* A step that leaves the parameters where they are.
LEMMA Elsewhere ==
  ASSUME ParameterInv, StreamShape', Versions',
         UNCHANGED <<loaded, pushed>>,
         queue'[P] = queue[P], wire'[P] = wire[P], out'[P] = out[P],
         call'[P] = call[P]
  PROVE  ParameterInv'
BY DEF ParameterInv, Newest

LEMMA LastIs ==
  /\ \A q \in Seq(Nat), x \in Nat :
       Append(q, x) \in Seq(Nat) /\ Append(q, x) # <<>> /\ Last(Append(q, x)) = x
  /\ \A q \in Seq(Nat) : q # <<>> => Last(q) \in Nat /\ Head(q) \in Nat
  /\ \A q \in Seq(Nat) : q # <<>> =>
       /\ Tail(q) \in Seq(Nat)
       /\ Last(q) = IF Tail(q) # <<>> THEN Last(Tail(q)) ELSE Head(q)
<1>1. ASSUME NEW q \in Seq(Nat), q # <<>>
      PROVE  Last(q) = IF Tail(q) # <<>> THEN Last(Tail(q)) ELSE Head(q)
  <2>1. Len(q) \in Nat \ {0} /\ Tail(q) \in Seq(Nat) /\ Len(Tail(q)) = Len(q) - 1
        BY <1>1
  <2>2. CASE Tail(q) # <<>>
    <3>1. Len(q) - 1 \in 1 .. Len(Tail(q))
          BY <2>1, <2>2
    <3>2. Tail(q)[Len(q) - 1] = q[Len(q) - 1 + 1]
          BY <1>1, <3>1, HeadTailProperties
    <3>3. QED
          BY <2>1, <2>2, <3>2 DEF Last
  <2>3. CASE Tail(q) = <<>>
    <3>1. Len(<<>>) = 0
          OBVIOUS
    <3>2. Len(q) = 1
      <4>1. Len(q) - 1 = 0
            BY <2>1, <2>3, <3>1, Zenon
      <4>2. Len(q) \in Nat
            BY <2>1, Zenon
      <4>3. QED
            BY <4>1, <4>2
    <3>3. Head(q) = q[1]
          BY <1>1
    <3>4. QED
          BY <2>3, <3>2, <3>3 DEF Last
  <2>4. QED
        BY <2>2, <2>3
<1>2. QED
      BY <1>1 DEF Last

LEMMA StreamKeeps ==
  ASSUME ParameterInv, NEW s \in Streams, Stream(s) \/ Break(s)
  PROVE  ParameterInv'
<1> USE DEF ParameterInv
<1>1. /\ Versions' /\ UNCHANGED <<loaded, pushed>>
  <2>1. UNCHANGED <<loaded, pushed, weights>>
        BY DEF Stream, Break, Take, CloseStream, TakeFromClosed, Receive,
           ReturnEarly, EndOfStream, ServerGone, Over, actorVars, learnerVars,
           diskVars, history
  <2>2. QED
        BY <2>1 DEF Versions
<1>2. P \in Streams /\ StreamShape
      BY DEF P, Streams
<1>3. CASE Over(s)
  <2>1. /\ UNCHANGED <<queue, out>> /\ call' = [call EXCEPT ![s] = "over"]
        /\ wire' = [wire EXCEPT ![s] = <<>>]
        BY <1>3 DEF Over
  <2>2. StreamShape'
    <3>1. /\ wire' = [t \in Streams |-> wire'[t]]
          /\ wire'[P] = IF s = P THEN <<>> ELSE wire[P]
          BY <1>2, <2>1 DEF StreamShape
    <3>2. call' = [t \in Streams |-> call'[t]]
          BY <1>2, <2>1 DEF StreamShape
    <3>3. wire'[P] \in Seq(Nat)
          BY <1>2, <3>1 DEF StreamShape
    <3>4. QED
          BY <1>2, <2>1, <3>1, <3>2, <3>3 DEF StreamShape
  <2>3. CASE s = P
    <3>1. call'[P] = "over"
          BY <1>2, <2>1, <2>3 DEF StreamShape
    <3>2. QED
          BY <1>1, <2>2, <3>1
  <2>4. CASE s # P
        BY <1>1, <1>2, <2>1, <2>2, <2>4, Elsewhere DEF StreamShape
  <2>5. QED
        BY <2>3, <2>4
<1>4. CASE CloseStream(s)
  <2>1. /\ UNCHANGED <<queue, wire, out>> /\ call[s] = "up"
        /\ call' = [call EXCEPT ![s] = "draining"]
        BY <1>4 DEF CloseStream
  <2>2. StreamShape' /\ (call'[P] # "over" => call[P] # "over")
        BY <1>2, <2>1 DEF StreamShape
  <2>3. Newest' = Newest
        BY <1>1, <2>1 DEF Newest
  <2>4. QED
        BY <1>1, <2>2, <2>3
<1>5. CASE Take(s) /\ s # P
  <2>1. /\ UNCHANGED <<out, call>> /\ queue'[P] = queue[P] /\ wire'[P] = wire[P]
        /\ queue' = [t \in Streams |-> queue'[t]]
        /\ wire' = [t \in Streams |-> wire'[t]]
        BY <1>2, <1>5 DEF Take, StreamShape
  <2>2. StreamShape'
        BY <1>2, <2>1 DEF StreamShape
  <2>3. QED
        BY <1>1, <2>1, <2>2, Elsewhere
<1>6. CASE Take(s) /\ s = P
  <2>1. /\ UNCHANGED <<out, call>> /\ queue[P] # <<>> /\ call[P] = "up"
        /\ queue' = [queue EXCEPT ![P] = <<>>]
        /\ wire' = [wire EXCEPT ![P] = Append(wire[P], Last(queue[P]))]
        BY <1>2, <1>6 DEF Take, P, ToLearner, StreamShape
  <2>2. /\ queue' = [t \in Streams |-> queue'[t]] /\ queue'[P] = <<>>
        /\ wire' = [t \in Streams |-> wire'[t]]
        /\ wire'[P] = Append(wire[P], Last(queue[P]))
        BY <1>2, <2>1 DEF StreamShape
  <2>3. /\ Append(wire[P], Last(queue[P])) \in Seq(Nat)
        /\ Append(wire[P], Last(queue[P])) # <<>>
        /\ Last(Append(wire[P], Last(queue[P]))) = Last(queue[P])
        BY <1>2, <2>1, LastIs DEF StreamShape
  <2>4. StreamShape'
        BY <1>2, <2>1, <2>2, <2>3 DEF StreamShape
  <2>5. Newest' = Newest
        BY <2>1, <2>2, <2>3 DEF Newest
  <2>6. QED
        BY <1>1, <2>1, <2>4, <2>5
<1>7. CASE Receive(s) /\ s # P
  <2>1. /\ UNCHANGED <<queue, call>> /\ wire'[P] = wire[P] /\ out'[P] = out[P]
        /\ wire' = [t \in Streams |-> wire'[t]]
        /\ out' = [t \in Streams |-> out'[t]]
        BY <1>2, <1>7 DEF Receive, StreamShape
  <2>2. StreamShape'
        BY <1>2, <2>1 DEF StreamShape
  <2>3. QED
        BY <1>1, <2>1, <2>2, Elsewhere
<1>8. CASE Receive(s) /\ s = P
  <2>1. /\ UNCHANGED <<queue, call>> /\ wire[P] # <<>> /\ call[P] # "over"
        /\ wire' = [wire EXCEPT ![P] = Tail(wire[P])]
        /\ out' = [out EXCEPT ![P] = Append(out[P], Head(wire[P]))]
        BY <1>2, <1>8 DEF Receive, StreamShape
  <2>2. /\ wire' = [t \in Streams |-> wire'[t]] /\ wire'[P] = Tail(wire[P])
        /\ out' = [t \in Streams |-> out'[t]]
        /\ out'[P] = Append(out[P], Head(wire[P]))
        BY <1>2, <2>1 DEF StreamShape
  <2>3. /\ Tail(wire[P]) \in Seq(Nat)
        /\ Last(wire[P]) = IF Tail(wire[P]) # <<>> THEN Last(Tail(wire[P]))
                           ELSE Head(wire[P])
        /\ Append(out[P], Head(wire[P])) \in Seq(Nat)
        /\ Append(out[P], Head(wire[P])) # <<>>
        /\ Last(Append(out[P], Head(wire[P]))) = Head(wire[P])
        BY <1>2, <2>1, LastIs DEF StreamShape
  <2>4. StreamShape'
        BY <1>2, <2>1, <2>2, <2>3 DEF StreamShape
  <2>5. Newest' = Newest
        BY <2>1, <2>2, <2>3 DEF Newest
  <2>6. QED
        BY <1>1, <2>1, <2>4, <2>5
<1>9. QED
      BY <1>3, <1>4, <1>5, <1>6, <1>7, <1>8
         DEF Stream, Break, TakeFromClosed, ReturnEarly, EndOfStream, ServerGone

LEMMA ActorKeeps ==
  ASSUME ParameterInv, Actor
  PROVE  ParameterInv'
<1> USE DEF ParameterInv
<1>1. UNCHANGED <<pushed, wire, call>> /\ Versions'
  <2>1. UNCHANGED <<pushed, wire, call, weights>>
        BY DEF Actor, Act, EndEpisode, StopActing, Joined, streamVars,
           learnerVars, diskVars, history
  <2>2. QED
        BY <2>1 DEF Versions
<1>2. CASE UNCHANGED streamVars /\ UNCHANGED loaded
  <2>1. UNCHANGED <<queue, wire, out, call>>
        BY <1>2 DEF streamVars
  <2>2. QED
        BY <1>1, <1>2, <2>1 DEF StreamShape, Newest
<1>3. CASE EndEpisode
  <2>1. /\ loaded' = IF out[P] = <<>> THEN loaded ELSE Last(out[P])
        /\ out' = [out EXCEPT ![P] = <<>>]
        /\ queue' = [queue EXCEPT !["transitions"] = Append(@, trace),
                                  !["interactions"] = Append(@, Len(acted) - 1)]
        BY <1>3 DEF EndEpisode, P
  <2>2. P \in Streams /\ P # "transitions" /\ P # "interactions"
        BY DEF P, Streams
  <2>3. /\ out' = [t \in Streams |-> out'[t]] /\ out'[P] = <<>>
        /\ queue' = [t \in Streams |-> queue'[t]] /\ queue'[P] = queue[P]
        BY <2>1, <2>2 DEF StreamShape
  <2>4. StreamShape'
        BY <1>1, <2>3 DEF StreamShape
  <2>5. Newest' = Newest
    <3>1. wire'[P] = wire[P]
          BY <1>1
    <3>2. Newest' = IF queue[P] # <<>> THEN Last(queue[P])
                    ELSE IF wire[P] # <<>> THEN Last(wire[P])
                    ELSE loaded'
          BY <2>3, <3>1 DEF Newest
    <3>3. QED
          BY <2>1, <3>2 DEF Newest
  <2>6. QED
        BY <1>1, <2>4, <2>5
<1>4. QED
      BY <1>2, <1>3 DEF Actor, Act, StopActing, Joined

LEMMA LearnerKeeps ==
  ASSUME ParameterInv, Learner
  PROVE  ParameterInv'
<1> USE DEF ParameterInv
<1>1. UNCHANGED <<wire, call, loaded>>
      BY DEF Learner, Top, TakeTransitions, AddTransition,
         TransitionsDone,
         ProcessInteraction, InteractionsDone, Train, TrainFails, Unlink, Link,
         Clear, Write, streamVars, actorVars
<1>2. ASSUME UNCHANGED <<queue, out, pushed>>, Versions'
      PROVE  ParameterInv'
      BY <1>1, <1>2 DEF StreamShape, Newest
<1>3. CASE Train
  <2>1. /\ UNCHANGED out /\ weights' = weights + 1
        /\ \/ /\ queue' = [queue EXCEPT ![P] = Append(queue[P], weights')]
              /\ pushed' = weights'
           \/ UNCHANGED <<queue, pushed>>
        BY <1>3 DEF Train, P, diskVars, StreamShape, Streams
  <2>2. Versions' /\ weights' \in Nat
        BY <2>1 DEF Versions
  <2>3. CASE UNCHANGED <<queue, pushed>>
        BY <1>2, <2>1, <2>2, <2>3
  <2>4. CASE /\ queue' = [queue EXCEPT ![P] = Append(queue[P], weights')]
             /\ pushed' = weights'
    <3>1. P \in Streams
          BY DEF P, Streams
    <3>2. /\ queue' = [t \in Streams |-> queue'[t]]
          /\ queue'[P] = Append(queue[P], weights')
          BY <2>4, <3>1 DEF StreamShape
    <3>3. /\ Append(queue[P], weights') \in Seq(Nat) /\ Append(queue[P], weights') # <<>>
          /\ Last(Append(queue[P], weights')) = weights'
          BY <2>2, LastIs DEF StreamShape
    <3>4. StreamShape'
          BY <1>1, <2>1, <3>2, <3>3 DEF StreamShape
    <3>5. Newest' = pushed'
          BY <2>4, <3>2, <3>3 DEF Newest
    <3>6. QED
          BY <2>2, <3>4, <3>5
  <2>5. QED
        BY <2>1, <2>3, <2>4
<1>4. CASE Top \/ AddTransition \/ TransitionsDone \/ InteractionsDone
           \/ TrainFails \/ Unlink \/ Link \/ Clear \/ Write
  <2>1. UNCHANGED <<queue, out, pushed, weights>>
        BY <1>4 DEF Top, AddTransition, TransitionsDone, InteractionsDone, TrainFails,
           Unlink, Link, Clear, Write, streamVars, history
  <2>2. QED
        BY <1>2, <2>1 DEF Versions
<1>5. CASE TakeTransitions \/ ProcessInteraction
  <2>1. /\ UNCHANGED <<queue, pushed, weights>>
        /\ \/ out' = [out EXCEPT !["transitions"] = Tail(@)]
           \/ out' = [out EXCEPT !["interactions"] = Tail(@)]
        BY <1>5 DEF TakeTransitions, ProcessInteraction, diskVars, history
  <2>2. P \in Streams /\ P # "transitions" /\ P # "interactions"
        BY DEF P, Streams
  <2>3. out' = [t \in Streams |-> out'[t]] /\ out'[P] = out[P]
        BY <2>1, <2>2 DEF StreamShape
  <2>4. StreamShape' /\ Versions'
        BY <1>1, <2>1, <2>3 DEF StreamShape, Versions
  <2>5. QED
        BY <1>1, <2>1, <2>3, <2>4, Elsewhere
<1>6. QED
      BY <1>3, <1>4, <1>5 DEF Learner

LEMMA ParameterStep ==
  ASSUME ParameterInv, [Next]_vars
  PROVE  ParameterInv'
<1>1. CASE Actor
      BY <1>1, ActorKeeps
<1>2. CASE Learner
      BY <1>2, LearnerKeeps
<1>3. ASSUME NEW s \in Streams, Stream(s) \/ Break(s)
      PROVE  ParameterInv'
      BY <1>3, StreamKeeps
<1>4. CASE InterruptActor \/ InterruptLearner \/ UNCHANGED vars
  <2>1. UNCHANGED <<queue, wire, out, call, loaded, pushed, weights>>
        BY <1>4 DEF InterruptActor, InterruptLearner, vars, streamVars,
           actorVars, learnerVars, diskVars, history
  <2>2. QED
        BY <2>1 DEF ParameterInv, StreamShape, Versions, Newest
<1>5. CASE Resume
  <2>1. /\ queue' = [s \in Streams |-> IF s = P THEN <<0>> ELSE <<>>]
        /\ wire' = [s \in Streams |-> <<>>] /\ out' = [s \in Streams |-> <<>>]
        /\ call' = [s \in Streams |-> "up"]
        /\ weights' = 0 /\ pushed' = 0
        BY <1>5 DEF Resume, FreshStreams, P
  <2>2. P \in Streams
        BY DEF P, Streams
  <2>3. /\ queue'[P] = <<0>> /\ wire'[P] = <<>> /\ out'[P] = <<>>
        BY <2>1, <2>2
  <2>4. StreamShape'
        BY <2>1, <2>2, <2>3 DEF StreamShape
  <2>5. Versions'
        BY <2>1 DEF Versions
  <2>6. Newest' = pushed'
        BY <2>1, <2>2, <2>3 DEF Newest, Last
  <2>7. QED
        BY <2>4, <2>5, <2>6 DEF ParameterInv
<1>6. QED
      BY <1>1, <1>2, <1>3, <1>4, <1>5 DEF Next

\* Whatever breaks, stops or is restarted, the newest parameters the learner
\* pushed are in the stream, with the actor or loaded, as long as the stream is
\* up: neither get_last_item_from_queue on the learner's side nor that on the
\* actor's drops them.
THEOREM NewestIsNeverDropped == Spec => []NewestSurvives
<1>1. Init => ParameterInv
      BY ParameterInit
<1>2. ParameterInv /\ [Next]_vars => ParameterInv'
      BY ParameterStep
<1>3. ParameterInv => NewestSurvives
      BY InvImpliesSurvives
<1>4. QED
      BY <1>1, <1>2, <1>3, PTL DEF Spec

-----------------------------------------------------------------------------
(***************************************************************************)
(* Types.  Two facts about the counters, one about the checkpoint under    *)
(* way and what the ring holds make them inductive: a dataset is what the  *)
(* ring reads out, and fits into it again.                                 *)
(***************************************************************************)
StreamTypes ==
  /\ Carries(queue) /\ Carries(wire) /\ Carries(out)
  /\ call \in [Streams -> {"up", "draining", "over"}]
  /\ breaks \in 0 .. MaxBreaks

ActorTypes ==
  /\ apc \in {"acting", "ended_episode", "joining", "ended"}
  /\ acted \in Seq(Transition) /\ trace \in Seq(Transition)
  /\ here \in [episode : 0 .. MaxSteps, step : 0 .. MaxSteps]
  /\ loaded \in 0 .. MaxVer /\ actorShut \in BOOLEAN
  /\ Len(acted) <= MaxSteps /\ here.episode + here.step <= Len(acted)
  /\ apc = "ended_episode" => acted # <<>>

LearnerTypes ==
  /\ lpc \in {"top", "transitions", "interactions", "train", "unlink",
              "link", "clear", "write", "stopped"}
  /\ list \in Seq(Transition) /\ buffer \in Buffer(Transition)
  /\ ver \in 0 .. MaxVer /\ weights \in 0 .. ver /\ shift \in Nat
  /\ message \in Nat \cup {None} /\ learnerShut \in BOOLEAN
  /\ saving \in Checkpoint \cup {None} /\ last \in Checkpoint \cup {None}
  /\ dataset \in Seq(Transition) \cup {None}
  /\ lpc = "train" => ver < MaxVer
  /\ lpc = "link" => saving \in Checkpoint
  /\ dataset # None => Len(dataset) <= Capacity

HistoryTypes ==
  /\ {processed, given, earlier, archived} \subseteq Seq(Transition)
  /\ pushed \in 0 .. MaxVer /\ session \in 1 .. MaxSessions

\* A buffer made from the dataset would hold the last of all that was given
\* when the dataset was written.
Reloads ==
  dataset # None => Holds(FromDataset(dataset), Transition, archived)

TypeInv ==
  /\ StreamTypes /\ ActorTypes /\ LearnerTypes /\ HistoryTypes
  /\ Holds(buffer, Transition, given) /\ Reloads

LEMMA TypeInvImplies == TypeInv => TypeOK /\ KeepsNewest
<1>1. ASSUME TypeInv PROVE KeepsNewest
      BY <1>1 DEF TypeInv, Holds, KeepsNewest
<1>2. ASSUME TypeInv PROVE TypeOK
      BY <1>2 DEF TypeInv, StreamTypes, ActorTypes, LearnerTypes, HistoryTypes,
         TypeOK
<1>3. QED
      BY <1>1, <1>2

LEMMA Bounds ==
  /\ MaxSteps \in Nat /\ Before \in Nat /\ MaxVer \in Nat /\ MaxBreaks \in Nat
  /\ MaxSignals \in Nat /\ SaveFreq \in Nat \ {0} /\ MaxSessions \in Nat \ {0}
  /\ Capacity \in Nat \ {0} /\ Kinds \subseteq AllKinds
BY LearningAssumption, CapacityAssumption
   DEF LearningAssumption, CapacityAssumption

\* What a step leaves alone keeps its types.
LEMMA SameStreams == StreamTypes /\ UNCHANGED streamVars => StreamTypes'
BY DEF StreamTypes, streamVars

LEMMA SameActor == ActorTypes /\ UNCHANGED actorVars => ActorTypes'
BY DEF ActorTypes, actorVars

LEMMA SameLearner ==
  LearnerTypes /\ UNCHANGED <<learnerVars, diskVars>> => LearnerTypes'
BY DEF LearnerTypes, learnerVars, diskVars

LEMMA SameHistory ==
  /\ HistoryTypes /\ UNCHANGED history => HistoryTypes'
  /\ Holds(buffer, Transition, given) /\ UNCHANGED <<buffer, given>> =>
       Holds(buffer', Transition, given')
BY DEF HistoryTypes, history

LEMMA SameRing ==
  UNCHANGED <<learnerVars, history>> => UNCHANGED <<buffer, given>>
BY DEF learnerVars, history

LEMMA SameArchive ==
  /\ Reloads /\ UNCHANGED <<dataset, archived>> => Reloads'
  /\ UNCHANGED <<diskVars, history>> => UNCHANGED <<dataset, archived>>
BY DEF Reloads, diskVars, history

LEMMA TypeInit ==
  ASSUME Init
  PROVE  TypeInv
<1> USE Bounds
<1>0. <<>> \in Seq(Transition) /\ Len(<<>>) = 0
      OBVIOUS
<1>1. StreamTypes
      BY DEF Init, StreamTypes, Carries, Payload, Streams, ToLearner
<1>2. ActorTypes
  <2>1. here \in [episode : 0 .. MaxSteps, step : 0 .. MaxSteps]
        BY DEF Init
  <2>2. here.episode + here.step <= Len(acted)
        BY <1>0 DEF Init
  <2>3. QED
    <3>1. 0 \in 0 .. MaxVer /\ Len(acted) <= MaxSteps
          BY <1>0 DEF Init
    <3>2. QED
          BY <1>0, <2>1, <2>2, <3>1, Zenon DEF Init, ActorTypes
<1>3. HistoryTypes
      BY DEF Init, HistoryTypes
<1>4. Holds(buffer, Transition, given)
  <2>1. <<>> \in Seq(Transition) /\ Len(<<>>) <= Capacity
        OBVIOUS
  <2>2. QED
        BY <2>1, ReloadKeepsOrder DEF Init
<1>5. LearnerTypes
  <2>1. buffer \in Buffer(Transition)
        BY <1>4 DEF Holds
  <2>2. 0 \in Nat /\ 0 \in 0 .. MaxVer /\ 0 \in 0 .. 0
        OBVIOUS
  <2>3. QED
        BY <1>0, <2>1, <2>2, Zenon DEF Init, LearnerTypes
<1>6. Reloads
      BY DEF Init, Reloads
<1>7. QED
      BY <1>1, <1>2, <1>3, <1>4, <1>5, <1>6 DEF TypeInv

LEMMA CarriesExcept ==
  ASSUME NEW f, Carries(f), NEW s \in Streams, NEW x \in Seq(Payload(s))
  PROVE  Carries([f EXCEPT ![s] = x])
BY DEF Carries

LEMMA EmptyCarried == \A s \in Streams : <<>> \in Seq(Payload(s))
OBVIOUS

LEMMA TypeStream ==
  ASSUME TypeInv, NEW s \in Streams, Stream(s) \/ Break(s)
  PROVE  TypeInv'
<1> USE Bounds
<1>1. UNCHANGED <<actorVars, learnerVars, diskVars, history>>
      BY DEF Stream, Break, Take, CloseStream, TakeFromClosed, Receive,
         ReturnEarly, EndOfStream, ServerGone, Over
<1>2. StreamTypes
      BY DEF TypeInv
<1>0. StreamTypes' => TypeInv'
      BY <1>1, SameActor, SameLearner, SameHistory, SameRing, SameArchive
         DEF TypeInv
<1>3. CASE Over(s) /\ breaks' \in 0 .. MaxBreaks
  <2>1. Carries(wire')
        BY <1>2, <1>3, CarriesExcept, EmptyCarried DEF Over, StreamTypes
  <2>2. StreamTypes'
        BY <1>2, <1>3, <2>1 DEF Over, StreamTypes
  <2>3. QED
        BY <1>0, <2>2
<1>4. ASSUME CloseStream(s) \/ Take(s) \/ Receive(s)
      PROVE  StreamTypes'
  <2>1. CASE CloseStream(s)
        BY <1>2, <2>1 DEF CloseStream, StreamTypes
  <2>2. CASE Take(s)
    <3> DEFINE x == IF s \in ToLearner THEN Head(queue[s]) ELSE Last(queue[s])
               r == IF s \in ToLearner THEN Tail(queue[s]) ELSE <<>>
    <3>1. queue[s] \in Seq(Payload(s)) /\ queue[s] # <<>> /\ wire[s] \in Seq(Payload(s))
          BY <1>2, <2>2 DEF Take, StreamTypes, Carries
    <3>2. x \in Payload(s) /\ r \in Seq(Payload(s))
          BY <3>1 DEF Last
    <3>3. /\ wire' = [wire EXCEPT ![s] = Append(wire[s], x)]
          /\ queue' = [queue EXCEPT ![s] = r]
          BY <2>2 DEF Take
    <3>4. Append(wire[s], x) \in Seq(Payload(s))
          BY <3>1, <3>2
    <3> HIDE DEF x, r
    <3>5. Carries(wire') /\ Carries(queue')
          BY <1>2, <3>2, <3>3, <3>4, CarriesExcept DEF StreamTypes
    <3>6. QED
          BY <1>2, <2>2, <3>5 DEF Take, StreamTypes
  <2>3. CASE Receive(s)
    <3>1. wire[s] \in Seq(Payload(s)) /\ wire[s] # <<>> /\ out[s] \in Seq(Payload(s))
          BY <1>2, <2>3 DEF Receive, StreamTypes, Carries
    <3>2. /\ Tail(wire[s]) \in Seq(Payload(s))
          /\ Append(out[s], Head(wire[s])) \in Seq(Payload(s))
          BY <3>1
    <3>3. Carries(wire') /\ Carries(out')
          BY <1>2, <2>3, <3>2, CarriesExcept DEF Receive, StreamTypes
    <3>4. QED
          BY <1>2, <2>3, <3>3 DEF Receive, StreamTypes
  <2>4. QED
        BY <1>4, <2>1, <2>2, <2>3
<1>5. QED
      BY <1>0, <1>2, <1>3, <1>4 DEF Stream, Break, TakeFromClosed, ReturnEarly,
         EndOfStream, ServerGone, StreamTypes

LEMMA TypeActor ==
  ASSUME TypeInv, Actor
  PROVE  TypeInv'
<1> USE Bounds
<1>1. UNCHANGED <<learnerVars, diskVars, history>> /\ ActorTypes /\ StreamTypes
      BY DEF Actor, Act, EndEpisode, StopActing, Joined, TypeInv
<1>2. /\ (LearnerTypes /\ HistoryTypes /\ Holds(buffer, Transition, given))'
      /\ Reloads'
      BY <1>1, SameArchive
         DEF TypeInv, LearnerTypes, HistoryTypes, learnerVars, diskVars, history
<1>3. CASE Act
  <2>1. StreamTypes'
        BY <1>1, <1>3 DEF Act, streamVars, StreamTypes
  <2>2. PICK k \in Kinds :
          LET t == [session |-> session, episode |-> here.episode,
                    step |-> here.step, kind |-> k]
          IN
          /\ acted' = Append(acted, t) /\ trace' = Append(trace, t)
          /\ here' = IF k \in {"done", "truncated"}
                     THEN [episode |-> here.episode + 1, step |-> 0]
                     ELSE [here EXCEPT !.step = @ + 1]
        BY <1>3 DEF Act
  <2> DEFINE t == [session |-> session, episode |-> here.episode,
                   step |-> here.step, kind |-> k]
  <2>3. /\ Len(acted) < MaxSteps /\ Len(acted) \in Nat
        /\ here.episode \in 0 .. MaxSteps /\ here.step \in 0 .. MaxSteps
        /\ here.episode + here.step <= Len(acted)
        /\ session \in 1 .. MaxSessions /\ k \in AllKinds
        BY <1>1, <1>3, <2>2 DEF Act, ActorTypes, TypeInv, HistoryTypes
  <2>4. t \in Transition
        BY <2>3 DEF Transition
  <2>5. /\ acted' \in Seq(Transition) /\ trace' \in Seq(Transition)
        /\ Len(acted') = Len(acted) + 1 /\ acted' # <<>>
    <3> HIDE DEF t
    <3>1. acted' = Append(acted, t) /\ trace' = Append(trace, t)
          BY <2>2 DEF t
    <3>2. QED
          BY <1>1, <2>4, <3>1, AppendProperties DEF ActorTypes
  <2>6. /\ here' \in [episode : 0 .. MaxSteps, step : 0 .. MaxSteps]
        /\ here'.episode + here'.step <= Len(acted) + 1
    <3>1. CASE k \in {"done", "truncated"}
      <4>1. here' = [episode |-> here.episode + 1, step |-> 0]
            BY <2>2, <3>1
      <4>2. QED
            BY <2>3, <4>1
    <3>2. CASE k \notin {"done", "truncated"}
      <4>1. here' = [here EXCEPT !.step = @ + 1]
            BY <2>2, <3>2
      <4>2. here \in [episode : 0 .. MaxSteps, step : 0 .. MaxSteps]
            BY <1>1 DEF ActorTypes
      <4>3. here' = [episode |-> here.episode, step |-> here.step + 1]
            BY <4>1, <4>2
      <4>4. QED
            BY <2>3, <4>3
    <3>3. QED
          BY <3>1, <3>2
  <2>7. ActorTypes'
    <3>1. /\ UNCHANGED <<loaded, actorShut>>
          /\ apc' \in {"acting", "ended_episode", "joining", "ended"}
          BY <1>3 DEF Act
    <3>2. Len(acted') <= MaxSteps /\ here'.episode + here'.step <= Len(acted')
          BY <2>3, <2>5, <2>6
    <3>3. QED
          BY <1>1, <2>5, <2>6, <3>1, <3>2, Zenon DEF ActorTypes
  <2>8. QED
        BY <1>2, <2>1, <2>7 DEF TypeInv
<1>4. CASE EndEpisode
  <2> DEFINE T == "transitions"  I == "interactions"
  <2>1. /\ T \in Streams /\ I \in Streams /\ P \in Streams /\ T # I
        /\ Payload(T) = Seq(Transition) /\ Payload(I) = Nat
        /\ Payload(P) = 0 .. MaxVer
        BY DEF Streams, ToLearner, Payload, P
  <2>2. /\ queue[T] \in Seq(Payload(T)) /\ queue[I] \in Seq(Payload(I))
        /\ out[P] \in Seq(0 .. MaxVer)
        BY <1>1, <2>1 DEF StreamTypes, Carries
  <2>3. Len(acted) - 1 \in Nat /\ trace \in Seq(Transition)
        BY <1>1, <1>4 DEF EndEpisode, ActorTypes
  <2>4. /\ Append(queue[T], trace) \in Seq(Payload(T))
        /\ Append(queue[I], Len(acted) - 1) \in Seq(Payload(I))
    <3> DEFINE q == queue[T]  n == Len(acted) - 1
    <3>1. q \in Seq(Seq(Transition)) /\ queue[I] \in Seq(Nat)
          BY <2>1, <2>2, Zenon
    <3>2. Append(q, trace) \in Seq(Seq(Transition))
      <4> HIDE DEF q
      <4>1. QED BY <2>3, <3>1, AppendProperties
    <3>3. Append(queue[I], n) \in Seq(Nat)
      <4> HIDE DEF n
      <4>1. n \in Nat
            BY <2>3 DEF n
      <4>2. QED BY <3>1, <4>1, AppendProperties
    <3>4. QED
          BY <2>1, <3>2, <3>3, Zenon
  <2>5. queue' = [[queue EXCEPT ![T] = Append(queue[T], trace)]
                    EXCEPT ![I] = Append(queue[I], Len(acted) - 1)]
        BY <1>4 DEF EndEpisode
  <2>6. Carries([queue EXCEPT ![T] = Append(queue[T], trace)])
        BY <1>1, <2>1, <2>4, CarriesExcept DEF StreamTypes
  <2>7. Carries(queue')
        BY <2>1, <2>4, <2>5, <2>6, CarriesExcept
  <2>8. Carries(out')
        BY <1>1, <1>4, <2>1, CarriesExcept, EmptyCarried
           DEF EndEpisode, StreamTypes, P
  <2>9. loaded' \in 0 .. MaxVer
    <3>1. out[P] # <<>> => Last(out[P]) \in 0 .. MaxVer
          BY <2>2 DEF Last
    <3>2. QED
          BY <1>1, <1>4, <3>1 DEF EndEpisode, ActorTypes, P
  <2>10. StreamTypes' /\ ActorTypes'
    <3>1. /\ wire' = wire /\ call' = call /\ breaks' = breaks /\ acted' = acted
          /\ here' = here /\ actorShut' = actorShut /\ trace' = <<>>
          /\ apc' \in {"acting", "ended_episode", "joining", "ended"}
          /\ apc' # "ended_episode"
          BY <1>4 DEF EndEpisode
    <3>2. <<>> \in Seq(Transition)
          OBVIOUS
    <3>3. QED
          BY <1>1, <2>7, <2>8, <2>9, <3>1, <3>2 DEF StreamTypes, ActorTypes
  <2>11. QED
        BY <1>2, <2>10 DEF TypeInv
<1>5. CASE StopActing \/ Joined
  <2>1. StreamTypes'
        BY <1>1, <1>5, SameStreams DEF StopActing, Joined
  <2>2. /\ UNCHANGED <<acted, trace, here, loaded, actorShut>>
        /\ apc' \in {"joining", "ended"}
        BY <1>5 DEF StopActing, Joined
  <2>3. ActorTypes'
        BY <1>1, <2>2 DEF ActorTypes
  <2>4. QED
        BY <1>2, <2>1, <2>3 DEF TypeInv
<1>6. QED
      BY <1>3, <1>4, <1>5 DEF Actor

LEMMA StoredType == \A t \in Transition : Stored(t) \in Transition
BY DEF Stored, Transition, AllKinds

\* What the ring reads out is of transitions only, and a ring made from it holds
\* the last of all that was given.
LEMMA WrittenType ==
  ASSUME TypeInv
  PROVE  LET e == StoredAll(InOrder(buffer))  a == StoredAll(given)
         IN  /\ e \in Seq(Transition) /\ Len(e) <= Capacity
             /\ a \in Seq(Transition) /\ Len(a) = Len(given)
             /\ \A k \in 1 .. Len(a) : a[k] = Stored(given[k])
             /\ Holds(FromDataset(e), Transition, a)
<1> DEFINE d == InOrder(buffer)  z == buffer.size  n == Len(given)
           e == StoredAll(d)  a == StoredAll(given)
<1>1. /\ given \in Seq(Transition) /\ Holds(buffer, Transition, given)
      /\ z \in 0 .. Capacity
      BY DEF TypeInv, HistoryTypes, Holds, Buffer
<1>2. n \in Nat /\ z \in 0 .. n /\ z = IF n < Capacity THEN n ELSE Capacity
      BY <1>1, Bounds DEF Holds
<1>3. d = [k \in 1 .. z |-> given[n - z + k]]
      BY <1>1, <1>2, NewestIs DEF Holds
<1> HIDE DEF d, z, n
<1>4. \A k \in 1 .. z : n - z + k \in 1 .. n
      BY <1>2
<1>5. /\ a = [k \in 1 .. n |-> Stored(given[k])] /\ DOMAIN given = 1 .. n
      /\ \A k \in 1 .. n : given[k] \in Transition
      BY <1>1 DEF n, StoredAll
<1>6. e = [k \in 1 .. z |-> Stored(given[n - z + k])]
      BY <1>3 DEF StoredAll
<1> HIDE DEF e, a
<1>7. a \in Seq(Transition) /\ Len(a) = n
      BY <1>2, <1>5, StoredType
<1>8. e \in Seq(Transition) /\ Len(e) = z
      BY <1>2, <1>4, <1>5, <1>6, StoredType
<1>9. Holds(FromDataset(e), Transition, e)
      BY <1>2, <1>8, Bounds, ReloadKeepsOrder
<1>10. Holds(FromDataset(e), Transition, a)
  <2>1. SubSeq(a, n - z + 1, n) = [k \in 1 .. z |-> a[n - z + k]]
    <3>1. z \in 0 .. Len(a)
          BY <1>2, <1>7
    <3>2. SubSeq(a, Len(a) - z + 1, Len(a)) = [k \in 1 .. z |-> a[Len(a) - z + k]]
          BY <1>7, <3>1, NewestIs, Zenon
    <3>3. QED
          BY <1>7, <3>2
  <2>2. [k \in 1 .. z |-> a[n - z + k]] = e
        BY <1>4, <1>5, <1>6
  <2>3. SubSeq(e, Len(e) - z + 1, Len(e)) = e
    <3>1. SubSeq(e, Len(e) - z + 1, Len(e)) = [k \in 1 .. z |-> e[Len(e) - z + k]]
      <4>1. z \in 0 .. Len(e)
            BY <1>2, <1>8
      <4>2. QED
            BY <1>8, <4>1, NewestIs, Zenon
    <3>2. \A k \in 1 .. z : Len(e) - z + k = k
          BY <1>2, <1>8
    <3>3. e = [k \in 1 .. z |-> e[k]]
          BY <1>6
    <3>4. QED
          BY <3>1, <3>2, <3>3
  <2> DEFINE b == FromDataset(e)
  <2>4. /\ b \in Buffer(Transition) /\ b.size = z
        /\ b.size < Capacity => b.position = b.size
        /\ InOrder(b) = SubSeq(e, Len(e) - b.size + 1, Len(e))
        BY <1>2, <1>8, <1>9, Bounds DEF Holds
  <2> HIDE DEF b
  <2>5. InOrder(b) = SubSeq(a, Len(a) - b.size + 1, Len(a))
        BY <1>7, <2>1, <2>2, <2>3, <2>4
  <2>6. QED
        BY <1>2, <1>7, <2>4, <2>5 DEF Holds, b
<1>11. Len(e) <= Capacity /\ \A k \in 1 .. Len(a) : a[k] = Stored(given[k])
       BY <1>2, <1>5, <1>7, <1>8, Bounds
<1>12. QED
       BY <1>7, <1>8, <1>10, <1>11, Zenon DEF d, e, a, n

LEMMA TypeLearner ==
  ASSUME TypeInv, Learner
  PROVE  TypeInv'
<1> USE Bounds
<1>1. /\ UNCHANGED <<actorVars, wire, call, breaks, session, earlier>>
      /\ ActorTypes /\ StreamTypes /\ LearnerTypes /\ HistoryTypes
      /\ Holds(buffer, Transition, given) /\ Reloads
      BY DEF Learner, Top, TakeTransitions, AddTransition, TransitionsDone,
         ProcessInteraction, InteractionsDone, Train, TrainFails, Unlink, Link,
         Clear, Write, streamVars, history, TypeInv
<1>2. ActorTypes'
      BY <1>1, SameActor
<1>3. CASE \/ Top \/ TransitionsDone \/ InteractionsDone \/ TrainFails
           \/ Unlink \/ Link \/ Clear \/ Write
  <2>0. /\ UNCHANGED <<streamVars, buffer, processed, given, earlier, pushed,
                       session>>
        /\ \/ UNCHANGED archived /\ (UNCHANGED dataset \/ dataset' = None)
           \/ /\ dataset' = StoredAll(InOrder(buffer))
              /\ archived' = StoredAll(given)
        BY <1>3 DEF Top, TransitionsDone, InteractionsDone, TrainFails, Unlink,
           Link, Clear, Write, history, diskVars
  <2>1. archived' \in Seq(Transition) /\ Reloads'
        BY <1>1, <2>0, WrittenType DEF HistoryTypes, Reloads
  <2>8. StreamTypes' /\ HistoryTypes' /\ Holds(buffer', Transition, given')
        BY <1>1, <2>0, <2>1, SameStreams, SameHistory DEF HistoryTypes
  <2>2. SUFFICES LearnerTypes'
        BY <1>2, <2>1, <2>8 DEF TypeInv
  <2>3. CASE Top \/ TransitionsDone \/ InteractionsDone \/ TrainFails
    <3>1. /\ UNCHANGED <<list, buffer, ver, weights, shift, saving, last, dataset>>
          /\ message' \in Nat \cup {None} /\ learnerShut' \in BOOLEAN
          /\ lpc' \in {"stopped", "transitions", "interactions", "top", "train"}
          /\ lpc' = "train" => ver # MaxVer
          BY <1>1, <2>3 DEF Top, TransitionsDone, InteractionsDone, TrainFails,
             LearnerTypes, diskVars
    <3>2. QED
          BY <1>1, <3>1 DEF LearnerTypes
  <2>4. CASE Unlink
    <3>1. saving' \in Checkpoint
          BY <1>1, <2>4 DEF Unlink, LearnerTypes, Checkpoint
    <3>2. QED
          BY <1>1, <2>4, <3>1 DEF Unlink, LearnerTypes
  <2>5. CASE Link \/ Clear
        BY <1>1, <2>5 DEF Link, Clear, LearnerTypes
  <2>6. CASE Write
    <3>1. dataset' \in Seq(Transition) /\ Len(dataset') <= Capacity
          BY <2>6, WrittenType DEF Write
    <3>2. QED
          BY <1>1, <2>6, <3>1 DEF Write, LearnerTypes
  <2>7. QED
        BY <1>3, <2>3, <2>4, <2>5, <2>6
<1>9. TakeTransitions \/ AddTransition \/ ProcessInteraction \/ Train => Reloads'
      BY <1>1, SameArchive DEF TakeTransitions, AddTransition,
         ProcessInteraction, Train, diskVars, history
<1>4. CASE TakeTransitions
  <2> DEFINE T == "transitions"
  <2>1. T \in Streams /\ Payload(T) = Seq(Transition)
        BY DEF Streams, ToLearner, Payload
  <2>2. out[T] \in Seq(Payload(T)) /\ out[T] # <<>>
        BY <1>1, <1>4, <2>1 DEF StreamTypes, Carries, TakeTransitions
  <2>3. Head(out[T]) \in Seq(Transition) /\ Tail(out[T]) \in Seq(Payload(T))
        BY <2>1, <2>2
  <2>4. Carries(out')
        BY <1>1, <1>4, <2>1, <2>3, CarriesExcept DEF TakeTransitions, StreamTypes
  <2>5. StreamTypes'
        BY <1>1, <1>4, <2>4 DEF TakeTransitions, StreamTypes
  <2>6. LearnerTypes'
        BY <1>1, <1>4, <2>3 DEF TakeTransitions, LearnerTypes, diskVars
  <2>7. HistoryTypes' /\ Holds(buffer', Transition, given')
        BY <1>1, <1>4, SameHistory DEF TakeTransitions, history
  <2>8. QED
        BY <1>2, <1>9, <2>5, <2>6, <2>7, <1>4 DEF TypeInv
<1>5. CASE AddTransition
  <2> DEFINE t == Head(list)
  <2>1. t \in Transition /\ Tail(list) \in Seq(Transition)
        BY <1>1, <1>5 DEF AddTransition, LearnerTypes
  <2>2. /\ list' = Tail(list) /\ processed' = Append(processed, t)
        /\ \/ UNCHANGED <<buffer, given>>
           \/ buffer' = Add(buffer, t) /\ given' = Append(given, t)
        BY <1>5 DEF AddTransition
  <2> HIDE DEF t
  <2>3. Holds(buffer', Transition, given') /\ given' \in Seq(Transition)
    <3>1. given \in Seq(Transition)
          BY <1>1 DEF HistoryTypes
    <3>2. Holds(Add(buffer, t), Transition, Append(given, t))
          BY <1>1, <2>1, <3>1, AddKeepsNewest
    <3>3. Append(given, t) \in Seq(Transition)
          BY <2>1, <3>1, AppendProperties
    <3>4. CASE UNCHANGED <<buffer, given>>
          BY <1>1, <3>1, <3>4, SameHistory
    <3>5. CASE buffer' = Add(buffer, t) /\ given' = Append(given, t)
          BY <3>2, <3>3, <3>5
    <3>6. QED
          BY <2>2, <3>4, <3>5
  <2>4. processed' \in Seq(Transition)
        BY <1>1, <2>1, <2>2, AppendProperties DEF HistoryTypes
  <2>5. HistoryTypes'
        BY <1>1, <1>5, <2>3, <2>4 DEF AddTransition, HistoryTypes
  <2>6. LearnerTypes'
    <3>1. buffer' \in Buffer(Transition)
          BY <2>3 DEF Holds
    <3>2. QED
          BY <1>1, <1>5, <2>1, <2>2, <3>1 DEF AddTransition, LearnerTypes, diskVars
  <2>7. StreamTypes'
        BY <1>1, <1>5, SameStreams DEF AddTransition
  <2>8. QED
        BY <1>2, <1>5, <1>9, <2>3, <2>5, <2>6, <2>7 DEF TypeInv
<1>6. CASE ProcessInteraction
  <2> DEFINE I == "interactions"
  <2>1. I \in Streams /\ Payload(I) = Nat
        BY DEF Streams, ToLearner, Payload
  <2>2. out[I] \in Seq(Nat) /\ out[I] # <<>>
        BY <1>1, <1>6, <2>1 DEF StreamTypes, Carries, ProcessInteraction
  <2>3. Head(out[I]) \in Nat /\ Tail(out[I]) \in Seq(Payload(I))
        BY <2>1, <2>2
  <2>4. Carries(out')
        BY <1>1, <1>6, <2>1, <2>3, CarriesExcept
           DEF ProcessInteraction, StreamTypes
  <2>5. StreamTypes'
        BY <1>1, <1>6, <2>4 DEF ProcessInteraction, StreamTypes
  <2>6. LearnerTypes'
    <3>1. message' \in Nat
          BY <1>1, <1>6, <2>3 DEF ProcessInteraction, LearnerTypes
    <3>2. QED
          BY <1>1, <1>6, <3>1 DEF ProcessInteraction, LearnerTypes, diskVars
  <2>7. HistoryTypes' /\ Holds(buffer', Transition, given')
        BY <1>1, <1>6, SameHistory DEF ProcessInteraction, HistoryTypes
  <2>8. QED
        BY <1>2, <1>9, <2>5, <2>6, <2>7, <1>6 DEF TypeInv
<1>7. CASE Train
  <2>1. P \in Streams /\ Payload(P) = 0 .. MaxVer
        BY DEF Streams, ToLearner, Payload, P
  <2>2. /\ queue[P] \in Seq(Payload(P)) /\ ver' \in 0 .. MaxVer
        /\ weights' \in 0 .. ver' /\ weights' \in 0 .. MaxVer
        BY <1>1, <1>7, <2>1 DEF StreamTypes, Carries, Train, LearnerTypes
  <2>3. Append(queue[P], weights') \in Seq(Payload(P))
        BY <2>1, <2>2
  <2>4. Carries(queue') /\ pushed' \in 0 .. MaxVer
    <3>1. \/ /\ queue' = [queue EXCEPT ![P] = Append(queue[P], weights')]
             /\ pushed' = weights'
          \/ UNCHANGED <<queue, pushed>>
          BY <1>7 DEF Train, P
    <3>2. Carries(queue) /\ pushed \in 0 .. MaxVer
          BY <1>1 DEF StreamTypes, HistoryTypes
    <3>3. Carries([queue EXCEPT ![P] = Append(queue[P], weights')])
          BY <2>1, <2>3, <3>2, CarriesExcept
    <3>4. QED
          BY <2>2, <3>1, <3>2, <3>3
  <2>5. StreamTypes'
        BY <1>1, <1>7, <2>4 DEF Train, StreamTypes
  <2>6. LearnerTypes'
        BY <1>1, <1>7, <2>2 DEF Train, LearnerTypes, diskVars
  <2>7. HistoryTypes' /\ Holds(buffer', Transition, given')
        BY <1>1, <1>7, <2>4, SameHistory DEF Train, HistoryTypes
  <2>8. QED
        BY <1>2, <1>9, <2>5, <2>6, <2>7, <1>7 DEF TypeInv
<1>8. QED
      BY <1>3, <1>4, <1>5, <1>6, <1>7 DEF Learner

LEMMA TypeResume ==
  ASSUME TypeInv, Resume
  PROVE  TypeInv'
<1> USE Bounds
<1>1. /\ last \in Checkpoint /\ dataset \in Seq(Transition)
      /\ Len(dataset) <= Capacity
      /\ StreamTypes /\ ActorTypes /\ LearnerTypes /\ HistoryTypes
      BY DEF Resume, TypeInv, LearnerTypes
<1>2. last.ver \in 0 .. MaxVer /\ last.interaction \in Nat
      BY <1>1 DEF Checkpoint
<1>3. StreamTypes'
  <2>1. /\ queue' = [s \in Streams |-> IF s = "parameters" THEN <<0>> ELSE <<>>]
        /\ wire' = [s \in Streams |-> <<>>] /\ out' = [s \in Streams |-> <<>>]
        /\ call' = [s \in Streams |-> "up"] /\ breaks' = breaks
        BY DEF Resume, FreshStreams
  <2>2. Payload("parameters") = 0 .. MaxVer
        BY DEF Payload
  <2>3. <<0>> \in Seq(Payload("parameters"))
        BY <2>2
  <2>4. Carries(queue') /\ Carries(wire') /\ Carries(out')
        BY <2>1, <2>3, EmptyCarried DEF Carries
  <2>5. QED
        BY <1>1, <2>1, <2>4 DEF StreamTypes
<1>4. <<>> \in Seq(Transition) /\ Len(<<>>) = 0
      OBVIOUS
<1>5. ActorTypes'
  <2>1. /\ apc' = "acting" /\ acted' = <<>> /\ trace' = <<>>
        /\ here' = [episode |-> 0, step |-> 0] /\ loaded' = 0
        /\ actorShut' = FALSE
        BY DEF Resume
  <2>2. /\ here' \in [episode : 0 .. MaxSteps, step : 0 .. MaxSteps]
        /\ here'.episode + here'.step <= 0 /\ 0 <= MaxSteps /\ 0 \in 0 .. MaxVer
        BY <2>1
  <2>3. Len(acted') = 0
        BY <1>4, <2>1
  <2>4. Len(acted') <= MaxSteps /\ here'.episode + here'.step <= Len(acted')
        BY <2>2, <2>3
  <2>5. QED
        BY <1>4, <2>1, <2>2, <2>4, Zenon DEF ActorTypes
<1>6. Holds(buffer', Transition, given') /\ Reloads'
      BY SameArchive DEF Resume, TypeInv, Reloads, diskVars
<1>7. LearnerTypes'
  <2>1. buffer' \in Buffer(Transition)
        BY <1>6 DEF Holds
  <2>2. /\ lpc' = "top" /\ list' = <<>> /\ ver' = last.ver /\ weights' = 0
        /\ shift' = last.interaction /\ message' = None /\ learnerShut' = FALSE
        /\ saving' = None /\ last' = last /\ dataset' = dataset
        BY DEF Resume, diskVars
  <2>3. QED
    <3>1. weights' \in 0 .. ver'
          BY <1>2, <2>2
    <3>2. QED
          BY <1>1, <1>2, <1>4, <2>1, <2>2, <3>1 DEF LearnerTypes
<1>8. HistoryTypes'
  <2>1. earlier \o acted \in Seq(Transition)
        BY <1>1, ConcatProperties DEF HistoryTypes, ActorTypes
  <2>2. QED
        BY <1>1, <1>2, <1>4, <2>1 DEF Resume, HistoryTypes
<1>9. QED
      BY <1>3, <1>5, <1>6, <1>7, <1>8 DEF TypeInv

LEMMA TypeInterrupt ==
  ASSUME TypeInv, InterruptActor \/ InterruptLearner \/ UNCHANGED vars
  PROVE  TypeInv'
<1>1. /\ UNCHANGED <<streamVars, diskVars, history, buffer>>
      /\ StreamTypes /\ ActorTypes /\ LearnerTypes /\ HistoryTypes
      /\ Holds(buffer, Transition, given) /\ Reloads
      BY DEF InterruptActor, InterruptLearner, vars, learnerVars, TypeInv
<1>2. /\ StreamTypes' /\ HistoryTypes' /\ Holds(buffer', Transition, given')
      /\ Reloads'
      BY <1>1, SameStreams, SameHistory, SameArchive DEF history
<1>3. ActorTypes'
      BY <1>1, SameActor DEF InterruptActor, InterruptLearner, vars, ActorTypes
<1>4. LearnerTypes'
      BY <1>1, SameLearner
         DEF InterruptActor, InterruptLearner, vars, LearnerTypes, diskVars
<1>5. QED
      BY <1>2, <1>3, <1>4 DEF TypeInv

LEMMA TypeStep ==
  ASSUME TypeInv, [Next]_vars
  PROVE  TypeInv'
BY TypeStream, TypeActor, TypeLearner, TypeResume, TypeInterrupt DEF Next

\* The actor, the learner and what is between them and on disk keep their types,
\* through breaks, signals and restarts.
THEOREM TypeCorrect == Spec => []TypeOK
<1>1. Spec => []TypeInv
      BY TypeInit, TypeStep, PTL DEF Spec
<1>2. QED
      BY <1>1, TypeInvImplies, PTL

\* The ring holds what the buffer was given last and reads it out in this order,
\* for every capacity, over any number of lists and checkpoints; and after any
\* number of restarts, with what all sessions before had given it up to the
\* dataset that each was resumed from.
THEOREM NewestKept == Spec => []KeepsNewest
<1>1. Spec => []TypeInv
      BY TypeInit, TypeStep, PTL DEF Spec
<1>2. QED
      BY <1>1, TypeInvImplies, PTL

-----------------------------------------------------------------------------
(***************************************************************************)
(* The transitions: nothing is lost, repeated or overtaken on the way from *)
(* the actor to the learner.  Lists are sent, so the order is that of the  *)
(* lists, one after the other (FlattenSeq).                                *)
(***************************************************************************)
Ts == "transitions"

Delivered == processed \o list \o FlattenSeq(out[Ts])
OnItsWay == FlattenSeq(wire[Ts]) \o FlattenSeq(queue[Ts]) \o trace

OrderInv ==
  /\ \E rest \in Seq(Transition) : acted = Delivered \o rest
  /\ call[Ts] # "over" => acted = Delivered \o OnItsWay

LEMMA OrderTypes ==
  ASSUME TypeInv
  PROVE  /\ Ts \in Streams /\ Payload(Ts) = Seq(Transition)
         /\ \A f \in {queue, wire, out} :
              f[Ts] \in Seq(Seq(Transition)) /\ FlattenSeq(f[Ts]) \in Seq(Transition)
         /\ {processed, list, trace, acted} \subseteq Seq(Transition)
         /\ Delivered \in Seq(Transition) /\ OnItsWay \in Seq(Transition)
<1>1. Ts \in Streams /\ Payload(Ts) = Seq(Transition)
      BY DEF Ts, Streams, ToLearner, Payload
<1>2. \A f \in {queue, wire, out} : f[Ts] \in Seq(Seq(Transition))
      BY <1>1 DEF TypeInv, StreamTypes, Carries
<1>3. /\ FlattenSeq(queue[Ts]) \in Seq(Transition)
      /\ FlattenSeq(wire[Ts]) \in Seq(Transition)
      /\ FlattenSeq(out[Ts]) \in Seq(Transition)
      BY <1>2, FlattenType
<1>4. {processed, list, trace, acted} \subseteq Seq(Transition)
      BY DEF TypeInv, ActorTypes, LearnerTypes, HistoryTypes
<1>5. Delivered \in Seq(Transition) /\ OnItsWay \in Seq(Transition)
      BY <1>3, <1>4, ConcatProperties DEF Delivered, OnItsWay
<1>6. QED
      BY <1>1, <1>2, <1>3, <1>4, <1>5

LEMMA OrderImplies ==
  ASSUME TypeInv, OrderInv
  PROVE  TransitionsInOrder /\ IsPrefix(Delivered, acted)
<1>1. /\ Delivered \in Seq(Transition) /\ trace \in Seq(Transition)
      /\ FlattenSeq(wire[Ts]) \in Seq(Transition)
      /\ FlattenSeq(queue[Ts]) \in Seq(Transition)
      BY OrderTypes
<1>2. IsPrefix(Delivered, acted)
  <2>1. PICK rest \in Seq(Transition) : acted = Delivered \o rest
        BY DEF OrderInv
  <2> DEFINE n == Len(Delivered)
  <2>2. n \in Nat /\ n <= Len(acted) /\ \A i \in 1 .. n : acted[i] = Delivered[i]
        BY <1>1, <2>1, ConcatProperties
  <2>3. SubSeq(Delivered, 1, n) = SubSeq(acted, 1, n)
        BY <1>1, <2>2
  <2>4. QED
        BY <2>2, <2>3 DEF IsPrefix
<1>3. Delivered \o OnItsWay
        = ((Delivered \o FlattenSeq(wire[Ts])) \o FlattenSeq(queue[Ts])) \o trace
  <2> DEFINE d == Delivered  w == FlattenSeq(wire[Ts])  q == FlattenSeq(queue[Ts])
  <2>1. d \in Seq(Transition) /\ w \in Seq(Transition) /\ q \in Seq(Transition)
        BY <1>1
  <2>2. OnItsWay = (w \o q) \o trace
        BY DEF OnItsWay
  <2> HIDE DEF d, w, q
  <2>3. d \o ((w \o q) \o trace) = ((d \o w) \o q) \o trace
    <3>1. d \o ((w \o q) \o trace) = (d \o (w \o q)) \o trace
          BY <1>1, <2>1
    <3>2. d \o (w \o q) = (d \o w) \o q
          BY <2>1
    <3>3. QED
          BY <3>1, <3>2, Zenon
  <2>4. QED
        BY <2>2, <2>3 DEF d, w, q
<1>4. QED
      BY <1>2, <1>3 DEF TransitionsInOrder, OrderInv, Delivered, Ts

LEMMA OrderInit ==
  ASSUME Init
  PROVE  OrderInv
<1>1. /\ processed = <<>> /\ list = <<>> /\ trace = <<>> /\ acted = <<>>
      /\ out[Ts] = <<>> /\ wire[Ts] = <<>> /\ queue[Ts] = <<>>
      BY DEF Init, Ts, Streams, ToLearner
<1>2. Delivered = <<>> /\ OnItsWay = <<>>
      BY <1>1, FlattenEmpty DEF Delivered, OnItsWay
<1>3. QED
  <2>1. <<>> = <<>> \o <<>> /\ <<>> \in Seq(Transition)
        OBVIOUS
  <2>2. QED
        BY <1>1, <1>2, <2>1, Zenon DEF OrderInv

\* A step that moves transitions along, or takes them off a stream that is over.
LEMMA MovedAlong ==
  ASSUME OrderInv, acted' = acted, Delivered' = Delivered,
         call'[Ts] # "over" => call[Ts] # "over" /\ OnItsWay' = OnItsWay
  PROVE  OrderInv'
BY DEF OrderInv

\* The head of a list of lists joins what is before it.
LEMMA HeadJoins ==
  ASSUME NEW a \in Seq(Seq(Transition)), NEW b \in Seq(Seq(Transition)), b # <<>>
  PROVE  /\ FlattenSeq(Append(a, Head(b))) \o FlattenSeq(Tail(b))
              = FlattenSeq(a) \o FlattenSeq(b)
         /\ Append(a, Head(b)) \in Seq(Seq(Transition))
         /\ Head(b) \in Seq(Transition) /\ Tail(b) \in Seq(Seq(Transition))
<1>1. Head(b) \in Seq(Transition) /\ Tail(b) \in Seq(Seq(Transition))
      BY HeadTailProperties
<1>2. FlattenSeq(Append(a, Head(b))) = FlattenSeq(a) \o Head(b)
      BY <1>1, FlattenAppend
<1>3. FlattenSeq(b) = Head(b) \o FlattenSeq(Tail(b))
      BY FlattenTail
<1>4. (FlattenSeq(a) \o Head(b)) \o FlattenSeq(Tail(b))
        = FlattenSeq(a) \o (Head(b) \o FlattenSeq(Tail(b)))
  <2> DEFINE h == Head(b)  f == FlattenSeq(a)  t == FlattenSeq(Tail(b))
  <2>1. h \in Seq(Transition) /\ f \in Seq(Transition) /\ t \in Seq(Transition)
        BY <1>1, FlattenType
  <2> HIDE DEF h, f, t
  <2>2. (f \o h) \o t = f \o (h \o t)
        BY <2>1
  <2>3. QED
        BY <2>2 DEF h, f, t
<1>5. QED
      BY <1>1, <1>2, <1>3, <1>4, AppendProperties

LEMMA MiddleRegrouped ==
  \A a, b, c, d, e \in Seq(Transition) :
    (a \o b) \o ((c \o d) \o e) = (a \o ((b \o c) \o d)) \o e
<1> SUFFICES ASSUME NEW a \in Seq(Transition), NEW b \in Seq(Transition),
                    NEW c \in Seq(Transition), NEW d \in Seq(Transition),
                    NEW e \in Seq(Transition)
             PROVE  (a \o b) \o ((c \o d) \o e) = (a \o ((b \o c) \o d)) \o e
    OBVIOUS
<1>1. (a \o b) \o ((c \o d) \o e) = ((a \o b) \o (c \o d)) \o e
      OBVIOUS
<1>2. (a \o b) \o (c \o d) = a \o (b \o (c \o d))
      OBVIOUS
<1>3. b \o (c \o d) = (b \o c) \o d
      OBVIOUS
<1>4. QED
      BY <1>1, <1>2, <1>3, Zenon

LEMMA OrderStream ==
  ASSUME TypeInv, OrderInv, NEW s \in Streams, Stream(s) \/ Break(s)
  PROVE  OrderInv'
<1>1. UNCHANGED <<acted, trace, processed, list>>
      BY DEF Stream, Break, Take, CloseStream, TakeFromClosed, Receive,
         ReturnEarly, EndOfStream, ServerGone, Over, actorVars, learnerVars,
         history
<1>2. /\ Ts \in Streams /\ DOMAIN queue = Streams /\ DOMAIN wire = Streams
      /\ DOMAIN out = Streams /\ call \in [Streams -> {"up", "draining", "over"}]
      /\ queue[Ts] \in Seq(Seq(Transition)) /\ wire[Ts] \in Seq(Seq(Transition))
      /\ out[Ts] \in Seq(Seq(Transition))
      BY OrderTypes DEF TypeInv, StreamTypes, Carries
<1>3. CASE Over(s)
  <2>1. UNCHANGED <<queue, out>> /\ call' = [call EXCEPT ![s] = "over"]
        /\ wire' = [wire EXCEPT ![s] = <<>>]
        BY <1>3 DEF Over
  <2>2. call'[Ts] # "over" => call[Ts] # "over" /\ wire'[Ts] = wire[Ts]
        BY <1>2, <2>1
  <2>3. QED
        BY <1>1, <2>1, <2>2, MovedAlong DEF Delivered, OnItsWay
<1>4. CASE CloseStream(s)
  <2>1. UNCHANGED <<queue, wire, out>> /\ (call'[Ts] # "over" => call[Ts] # "over")
        BY <1>2, <1>4 DEF CloseStream
  <2>2. QED
        BY <1>1, <2>1, MovedAlong DEF Delivered, OnItsWay
<1>5. CASE Take(s) \/ Receive(s)
  <2>1. UNCHANGED call /\ call[s] # "over"
        BY <1>5 DEF Take, Receive
  <2>2. CASE s # Ts
    <3>1. queue'[Ts] = queue[Ts] /\ wire'[Ts] = wire[Ts] /\ out'[Ts] = out[Ts]
          BY <1>2, <1>5, <2>2 DEF Take, Receive
    <3>2. QED
          BY <1>1, <2>1, <3>1, MovedAlong DEF Delivered, OnItsWay
  <2>3. CASE s = Ts /\ Take(s)
    <3>1. /\ queue[Ts] # <<>> /\ out' = out
          /\ wire'[Ts] = Append(wire[Ts], Head(queue[Ts]))
          /\ queue'[Ts] = Tail(queue[Ts])
          BY <1>2, <2>3 DEF Take, Ts, ToLearner
    <3>2. FlattenSeq(wire'[Ts]) \o FlattenSeq(queue'[Ts])
            = FlattenSeq(wire[Ts]) \o FlattenSeq(queue[Ts])
          BY <1>2, <3>1, HeadJoins
    <3>3. QED
          BY <1>1, <2>1, <3>1, <3>2, MovedAlong DEF Delivered, OnItsWay
  <2>4. CASE s = Ts /\ Receive(s)
    <3>1. /\ wire[Ts] # <<>> /\ queue' = queue
          /\ out'[Ts] = Append(out[Ts], Head(wire[Ts]))
          /\ wire'[Ts] = Tail(wire[Ts])
          BY <1>2, <2>4 DEF Receive
    <3> DEFINE p == processed \o list  q == FlattenSeq(queue[Ts])
               o == FlattenSeq(out[Ts])  w == FlattenSeq(wire[Ts])
               o2 == FlattenSeq(out'[Ts])  w2 == FlattenSeq(wire'[Ts])
    <3>2. o2 \o w2 = o \o w
          BY <1>2, <3>1, HeadJoins
    <3>3. /\ Delivered = p \o o /\ OnItsWay = (w \o q) \o trace
          /\ Delivered' = p \o o2 /\ OnItsWay' = (w2 \o q) \o trace
          BY <1>1, <3>1 DEF Delivered, OnItsWay
    <3>4. /\ p \in Seq(Transition) /\ q \in Seq(Transition) /\ o \in Seq(Transition)
          /\ w \in Seq(Transition) /\ trace \in Seq(Transition)
          /\ o2 \in Seq(Transition) /\ w2 \in Seq(Transition)
      <4>1. out'[Ts] \in Seq(Seq(Transition)) /\ wire'[Ts] \in Seq(Seq(Transition))
            BY <1>2, <3>1, HeadJoins
      <4>2. QED
            BY <4>1, OrderTypes, FlattenType, ConcatProperties
    <3> HIDE DEF p, q, o, w, o2, w2
    <3>6. acted' = Delivered' \o OnItsWay'
      <4>1. acted = (p \o o) \o ((w \o q) \o trace)
            BY <2>1, <2>4, <3>3 DEF OrderInv
      <4>2. (p \o o) \o ((w \o q) \o trace) = (p \o o2) \o ((w2 \o q) \o trace)
        <5>1. \A b, c, d, e \in Seq(Transition) :
                (p \o b) \o ((c \o d) \o e) = (p \o ((b \o c) \o d)) \o e
              BY <3>4, MiddleRegrouped, Zenon
        <5>2. ASSUME NEW b \in Seq(Transition), NEW c \in Seq(Transition)
              PROVE  (p \o b) \o ((c \o q) \o trace)
                       = (p \o ((b \o c) \o q)) \o trace
          <6>1. \A d, e \in Seq(Transition) :
                  (p \o b) \o ((c \o d) \o e) = (p \o ((b \o c) \o d)) \o e
                BY <5>1, Zenon
          <6>2. QED
                BY <3>4, <6>1, Zenon
        <5>3. (p \o o) \o ((w \o q) \o trace) = (p \o ((o \o w) \o q)) \o trace
              BY <3>4, <5>2, Zenon
        <5>4. (p \o o2) \o ((w2 \o q) \o trace) = (p \o ((o2 \o w2) \o q)) \o trace
              BY <3>4, <5>2, Zenon
        <5>5. QED
              BY <3>2, <5>3, <5>4, Zenon
      <4>3. QED
            BY <1>1, <3>3, <4>1, <4>2
    <3>7. OnItsWay' \in Seq(Transition)
          BY <3>3, <3>4, ConcatProperties
    <3>8. QED
          BY <3>6, <3>7 DEF OrderInv
  <2>5. QED
        BY <1>5, <2>2, <2>3, <2>4
<1>6. QED
      BY <1>3, <1>4, <1>5 DEF Stream, Break, TakeFromClosed, ReturnEarly,
         EndOfStream, ServerGone

LEMMA OrderActor ==
  ASSUME TypeInv, OrderInv, Actor
  PROVE  OrderInv'
<1>0. /\ Ts \in Streams /\ DOMAIN queue = Streams
      /\ queue[Ts] \in Seq(Seq(Transition)) /\ acted \in Seq(Transition)
      /\ trace \in Seq(Transition) /\ OnItsWay \in Seq(Transition)
      /\ Delivered \in Seq(Transition)
      /\ FlattenSeq(wire[Ts]) \in Seq(Transition)
      /\ FlattenSeq(queue[Ts]) \in Seq(Transition)
      BY OrderTypes DEF TypeInv, StreamTypes, Carries
<1>1. UNCHANGED <<processed, list, call, wire>> /\ out'[Ts] = out[Ts]
  <2>1. DOMAIN out = Streams
        BY DEF TypeInv, StreamTypes, Carries
  <2>2. QED
        BY <1>0, <2>1 DEF Actor, Act, EndEpisode, StopActing, Joined, streamVars,
           learnerVars, history, Ts
<1>2. Delivered' = Delivered
      BY <1>1 DEF Delivered
<1>3. CASE Act
  <2>1. PICK k \in Kinds :
          LET t == [session |-> session, episode |-> here.episode,
                    step |-> here.step, kind |-> k]
          IN acted' = Append(acted, t) /\ trace' = Append(trace, t)
        BY <1>3 DEF Act
  <2> DEFINE t == [session |-> session, episode |-> here.episode,
                   step |-> here.step, kind |-> k]
             d == Delivered  m == OnItsWay
             h == FlattenSeq(wire[Ts]) \o FlattenSeq(queue[Ts])
  <2>2. acted' = Append(acted, t) /\ trace' = Append(trace, t) /\ queue' = queue
        BY <1>3, <2>1 DEF Act, streamVars
  <2>3. trace' \in Seq(Transition) /\ acted' \in Seq(Transition)
    <3>1. TypeInv'
          BY TypeActor
    <3>2. QED
          BY <3>1 DEF TypeInv, ActorTypes
  <2>4. t \in Transition
    <3>1. trace'[Len(trace')] = t /\ Len(trace') \in 1 .. Len(trace')
          BY <1>0, <2>2 DEF t
    <3>2. QED
          BY <2>3, <3>1
  <2>5. /\ h \in Seq(Transition) /\ OnItsWay = h \o trace
        /\ OnItsWay' = h \o Append(trace, t)
        BY <1>0, <1>1, <2>2, ConcatProperties DEF OnItsWay
  <2> HIDE DEF t, d, h, m
  <2>6. OnItsWay' = Append(m, t)
        BY <1>0, <2>4, <2>5, ConcatOfAppend DEF m
  <2>7. d \in Seq(Transition) /\ m \in Seq(Transition)
        BY <1>0 DEF d, m
  <2>8. \A rest \in Seq(Transition) :
          Append(d \o rest, t) = d \o Append(rest, t)
          /\ Append(rest, t) \in Seq(Transition)
    <3>1. ASSUME NEW rest \in Seq(Transition)
          PROVE  d \o Append(rest, t) = Append(d \o rest, t)
          BY <2>4, <2>7, ConcatOfAppend
    <3>2. QED
          BY <2>4, <3>1, AppendProperties
  <2>9. \E rest \in Seq(Transition) : acted' = Delivered' \o rest
        BY <1>2, <2>2, <2>8 DEF OrderInv, d
  <2>10. call'[Ts] # "over" => acted' = Delivered' \o OnItsWay'
        BY <1>1, <1>2, <2>2, <2>6, <2>7, <2>8 DEF OrderInv, d, m
  <2>11. QED
        BY <2>9, <2>10 DEF OrderInv
<1>4. CASE EndEpisode
  <2>1. queue'[Ts] = Append(queue[Ts], trace) /\ trace' = <<>> /\ acted' = acted
        BY <1>0, <1>4 DEF EndEpisode, Ts
  <2> DEFINE w == FlattenSeq(wire[Ts])  q == FlattenSeq(queue[Ts])
  <2>2. FlattenSeq(queue'[Ts]) = q \o trace
        BY <1>0, <2>1, FlattenAppend
  <2>3. OnItsWay' = (w \o (q \o trace)) \o <<>> /\ OnItsWay = (w \o q) \o trace
        BY <1>1, <2>1, <2>2 DEF OnItsWay
  <2>4. w \in Seq(Transition) /\ q \in Seq(Transition)
        BY <1>0
  <2> HIDE DEF w, q
  <2>5. (w \o (q \o trace)) \o <<>> = (w \o q) \o trace
    <3>1. w \o (q \o trace) = (w \o q) \o trace
      <4>1. trace \in Seq(Transition)
            BY <1>0
      <4>2. QED
            BY <2>4, <4>1
    <3>2. w \o q \in Seq(Transition)
          BY <2>4
    <3>3. (w \o q) \o trace \in Seq(Transition)
          BY <1>0, <3>2
    <3>4. ((w \o q) \o trace) \o <<>> = (w \o q) \o trace
          BY <3>3, ConcatEmptySeq, Zenon
    <3>5. QED
          BY <3>1, <3>4, Zenon
  <2>6. QED
        BY <1>1, <1>2, <2>1, <2>3, <2>5, MovedAlong
<1>5. CASE StopActing \/ Joined
      BY <1>1, <1>2, <1>5, MovedAlong
         DEF StopActing, Joined, streamVars, OnItsWay
<1>6. QED
      BY <1>3, <1>4, <1>5 DEF Actor

\* The list taken, and each of its transitions, stays where it was in the order.
LEMMA OrderLearner ==
  ASSUME TypeInv, OrderInv, Learner
  PROVE  OrderInv'
<1>1. UNCHANGED <<acted, trace, wire, call>> /\ queue'[Ts] = queue[Ts]
  <2>1. DOMAIN queue = Streams /\ Ts \in Streams /\ Ts # "parameters"
        BY OrderTypes DEF TypeInv, StreamTypes, Carries, Ts
  <2>2. QED
        BY <2>1 DEF Learner, Top, TakeTransitions, AddTransition,
           TransitionsDone, ProcessInteraction, InteractionsDone, Train,
           TrainFails, Unlink, Link, Clear, Write, streamVars, actorVars
<1>2. OnItsWay' = OnItsWay
      BY <1>1 DEF OnItsWay
<1>3. SUFFICES Delivered' = Delivered
      BY <1>1, <1>2, MovedAlong
<1>4. /\ processed \in Seq(Transition) /\ list \in Seq(Transition)
      /\ out[Ts] \in Seq(Seq(Transition)) /\ DOMAIN out = Streams /\ Ts \in Streams
      BY OrderTypes DEF TypeInv, StreamTypes, Carries
<1>5. CASE TakeTransitions
  <2>1. /\ out[Ts] # <<>> /\ list = <<>> /\ list' = Head(out[Ts])
        /\ out'[Ts] = Tail(out[Ts]) /\ processed' = processed
        BY <1>4, <1>5 DEF TakeTransitions, Ts, history
  <2> DEFINE h == Head(out[Ts])  t == FlattenSeq(Tail(out[Ts]))  p == processed
  <2>2. FlattenSeq(out[Ts]) = h \o t /\ h \in Seq(Transition) /\ t \in Seq(Transition)
        BY <1>4, <2>1, FlattenTail, FlattenType, HeadTailProperties
  <2>3. Delivered = (p \o <<>>) \o (h \o t) /\ Delivered' = (p \o h) \o t
        BY <2>1, <2>2 DEF Delivered
  <2>4. p \in Seq(Transition)
        BY <1>4
  <2> HIDE DEF h, t, p
  <2>5. (p \o <<>>) \o (h \o t) = (p \o h) \o t
    <3>1. p \o <<>> = p
          BY <2>4
    <3>2. p \o (h \o t) = (p \o h) \o t
          BY <2>2, <2>4
    <3>3. QED
          BY <3>1, <3>2, Zenon
  <2>6. QED
        BY <2>3, <2>5
<1>6. CASE AddTransition
  <2>1. /\ list # <<>> /\ list' = Tail(list) /\ out' = out
        /\ processed' = Append(processed, Head(list))
        BY <1>6 DEF AddTransition, streamVars
  <2>2. Append(processed, Head(list)) \o Tail(list) = processed \o list
        BY <1>4, <2>1
  <2>3. QED
        BY <2>1, <2>2 DEF Delivered
<1>7. CASE ProcessInteraction
  <2>1. out'[Ts] = out[Ts] /\ UNCHANGED <<processed, list>>
        BY <1>4, <1>7 DEF ProcessInteraction, Ts
  <2>2. QED
        BY <2>1 DEF Delivered
<1>8. CASE \/ Top \/ TransitionsDone \/ InteractionsDone \/ Train \/ TrainFails
           \/ Unlink \/ Link \/ Clear \/ Write
      BY <1>8 DEF Top, TransitionsDone, InteractionsDone, Train, TrainFails,
         Unlink, Link, Clear, Write, streamVars, history, Delivered
<1>9. QED
      BY <1>5, <1>6, <1>7, <1>8 DEF Learner

LEMMA OrderStep ==
  ASSUME TypeInv, OrderInv, [Next]_vars
  PROVE  OrderInv'
<1>1. CASE Resume
  <2>1. /\ processed' = <<>> /\ list' = <<>> /\ trace' = <<>> /\ acted' = <<>>
        /\ out'[Ts] = <<>> /\ wire'[Ts] = <<>> /\ queue'[Ts] = <<>>
        BY <1>1 DEF Resume, FreshStreams, Ts, Streams, ToLearner
  <2>2. Delivered' = <<>> /\ OnItsWay' = <<>>
        BY <2>1, FlattenEmpty DEF Delivered, OnItsWay
  <2>3. <<>> = <<>> \o <<>> /\ <<>> \in Seq(Transition)
        OBVIOUS
  <2>4. QED
        BY <2>1, <2>2, <2>3, Zenon DEF OrderInv
<1>2. CASE InterruptActor \/ InterruptLearner \/ UNCHANGED vars
  <2>1. UNCHANGED <<processed, list, trace, acted, out, wire, queue, call>>
        BY <1>2 DEF InterruptActor, InterruptLearner, vars, streamVars,
           actorVars, learnerVars, history
  <2>2. QED
        BY <2>1 DEF OrderInv, Delivered, OnItsWay
<1>3. QED
      BY <1>1, <1>2, OrderStream, OrderActor, OrderLearner DEF Next

\* No transition is lost, repeated or overtaken on its way to the learner as long
\* as its stream is up, and never behind one that has arrived, whatever breaks,
\* is told to stop or is started again.
THEOREM TransitionsKeepOrder == Spec => []TransitionsInOrder
<1>1. TypeInv /\ OrderInv /\ [Next]_vars => (TypeInv /\ OrderInv)'
      BY TypeStep, OrderStep
<1>2. Init => TypeInv /\ OrderInv
      BY TypeInit, OrderInit
<1>3. TypeInv /\ OrderInv => TransitionsInOrder
      BY OrderImplies
<1>4. QED
      BY <1>1, <1>2, <1>3, PTL DEF Spec

-----------------------------------------------------------------------------
(***************************************************************************)
(* The seams.  A transition is followed by that of the next step, unless   *)
(* its episode is over; a list is one whole episode or more, so that when  *)
(* none is in hand the last one given ends its episode, and so does the    *)
(* last one of a dataset, which is written when none is in hand.           *)
(***************************************************************************)
Ended(t) == t.kind \in {"done", "truncated"}
Whole(l) == l # <<>> /\ Ended(Last(l))
Wholes(f) == \A i \in 1 .. Len(f) : Whole(f[i])

ListsInv ==
  /\ Wholes(queue[Ts]) /\ Wholes(wire[Ts]) /\ Wholes(out[Ts])
  /\ lpc # "transitions" => list = <<>>
  /\ list # <<>> => Ended(Last(list))

Awaited(t) ==
  Ended(t) \/ (t.session = session
               /\ here = [episode |-> t.episode, step |-> t.step + 1])

EpisodeInv ==
  /\ \A i \in 1 .. Len(acted) - 1 :
       Ended(acted[i]) \/ Succeeds(acted[i + 1], acted[i])
  /\ acted # <<>> => Awaited(Last(acted))
  /\ apc = "ended_episode" => Whole(trace)

Past == ToSet(earlier \o acted)
Over1(t) == Truly(t, {"done", "truncated"})
Gap(t) == Truly([t EXCEPT !.step = @ + 1], {"nan"})
Seam(t, next) == Succeeds(next, t) \/ Over1(t) \/ Gap(t)
Chain(g) == \A m \in 1 .. Len(g) - 1 : Seam(g[m], g[m + 1])
Closed(g) == g # <<>> => Over1(Last(g))

GivenInv ==
  /\ Chain(given)
  /\ list = <<>> \/ processed = <<>> => Closed(given)
  /\ processed # <<>> =>
       IF HasNaN(Last(processed))
       THEN given = <<>> \/ Over1(Last(given)) \/ Gap(Last(given))
       ELSE given # <<>> /\ Last(given) = Last(processed)
  /\ Chain(archived) /\ Closed(archived)

SeamInv == ListsInv /\ EpisodeInv /\ GivenInv

\* What follows a sampled slot follows it in what the buffer was given.
LEMMA SeamImplies ==
  ASSUME TypeInv, SeamInv
  PROVE  WrongOnlyAtSeams
<1> SUFFICES ASSUME NEW i \in Sampled(buffer)
             PROVE  LET t == buffer.ring[i]
                        next == buffer.ring[Following(i)]
                    IN
                    /\ Unset \notin {t, next}
                    /\ \/ Succeeds(next, t) \/ Over1(t) \/ Gap(t)
                       \/ buffer.size = Capacity /\ Following(i) = buffer.position
    BY Zenon DEF WrongOnlyAtSeams, Over1, Gap
<1>1. given \in Seq(Transition) /\ Holds(buffer, Transition, given)
      BY DEF TypeInv, HistoryTypes
<1>2. PICK m \in 1 .. Len(given) :
        /\ buffer.ring[i] = given[m]
        /\ \/ m < Len(given) /\ buffer.ring[Following(i)] = given[m + 1]
           \/ /\ m = Len(given) /\ buffer.size = Capacity
              /\ Following(i) = buffer.position
              /\ buffer.ring[Following(i)] = given[Len(given) - Capacity + 1]
      BY <1>1, SamplesFollow
<1>3. \A k \in 1 .. Len(given) : given[k] \in Transition
      BY <1>1
<1>4. buffer.size = Capacity => Len(given) - Capacity + 1 \in 1 .. Len(given)
      BY <1>1, Bounds DEF Holds
<1>5. Unset \notin {buffer.ring[i], buffer.ring[Following(i)]}
      BY <1>1, <1>2, <1>3, <1>4, UnsetAssumption DEF UnsetAssumption
<1>6. m < Len(given) => Seam(given[m], given[m + 1])
      BY <1>1, <1>2 DEF SeamInv, GivenInv, Chain
<1>7. QED
      BY <1>2, <1>5, <1>6 DEF Seam

LEMMA SeamInit ==
  ASSUME Init
  PROVE  SeamInv
<1>0. Len(<<>>) = 0
      OBVIOUS
<1>1. /\ list = <<>> /\ acted = <<>> /\ given = <<>> /\ processed = <<>>
      /\ queue[Ts] = <<>> /\ wire[Ts] = <<>> /\ out[Ts] = <<>>
      /\ apc = "acting" /\ archived = <<>>
      BY DEF Init, Ts, Streams, ToLearner
<1>2. ListsInv
      BY <1>0, <1>1 DEF ListsInv, Wholes
<1>3. EpisodeInv
      BY <1>0, <1>1 DEF EpisodeInv
<1>4. GivenInv
      BY <1>0, <1>1 DEF GivenInv, Chain, Closed
<1>5. QED
      BY <1>2, <1>3, <1>4 DEF SeamInv

(***************************************************************************)
(* Every list on the way is of whole episodes.                             *)
(***************************************************************************)
LEMMA WholesAppend ==
  ASSUME NEW f \in Seq(Seq(Transition)), NEW l \in Seq(Transition),
         Wholes(f), Whole(l)
  PROVE  Wholes(Append(f, l))
<1> DEFINE g == Append(f, l)
<1>1. /\ Len(g) = Len(f) + 1 /\ Len(f) \in Nat
      /\ \A i \in 1 .. Len(f) : g[i] = f[i]
      /\ g[Len(f) + 1] = l
      BY AppendProperties
<1> HIDE DEF g
<1>2. ASSUME NEW i \in 1 .. Len(g) PROVE Whole(g[i])
  <2>1. CASE i = Len(f) + 1
        BY <1>1, <2>1
  <2>2. CASE i # Len(f) + 1
    <3>1. i \in 1 .. Len(f) /\ g[i] = f[i]
          BY <1>1, <2>2
    <3>2. Whole(f[i])
          BY <3>1 DEF Wholes
    <3>3. QED
          BY <3>1, <3>2
  <2>3. QED
        BY <2>1, <2>2
<1>3. QED
      BY <1>2 DEF Wholes, g

LEMMA WholesHead ==
  ASSUME NEW f \in Seq(Seq(Transition)), Wholes(f), f # <<>>
  PROVE  Whole(Head(f)) /\ Wholes(Tail(f))
<1>1. /\ Len(f) \in Nat /\ Len(f) # 0 /\ Head(f) = f[1]
      /\ Len(Tail(f)) = Len(f) - 1
      /\ \A i \in 1 .. Len(f) - 1 : Tail(f)[i] = f[i + 1]
      BY EmptySeq, HeadTailProperties
<1>2. QED
      BY <1>1 DEF Wholes

LEMMA ListsStream ==
  ASSUME TypeInv, ListsInv, NEW s \in Streams, Stream(s) \/ Break(s)
  PROVE  ListsInv'
<1>1. UNCHANGED <<lpc, list>>
      BY DEF Stream, Break, Take, CloseStream, TakeFromClosed, Receive,
         ReturnEarly, EndOfStream, ServerGone, Over, learnerVars
<1>2. /\ Ts \in Streams /\ Ts \in ToLearner
      /\ DOMAIN queue = Streams /\ DOMAIN wire = Streams /\ DOMAIN out = Streams
      /\ queue[Ts] \in Seq(Seq(Transition)) /\ wire[Ts] \in Seq(Seq(Transition))
      /\ out[Ts] \in Seq(Seq(Transition))
      BY OrderTypes DEF TypeInv, StreamTypes, Carries, Ts, ToLearner
<1>3. Wholes(queue[Ts]) /\ Wholes(wire[Ts]) /\ Wholes(out[Ts])
      BY DEF ListsInv
<1>4. SUFFICES Wholes(queue'[Ts]) /\ Wholes(wire'[Ts]) /\ Wholes(out'[Ts])
      BY <1>1 DEF ListsInv
<1>5. CASE Over(s)
  <2>1. Wholes(<<>>)
    <3>1. Len(<<>>) = 0
          OBVIOUS
    <3>2. QED
          BY <3>1 DEF Wholes
  <2>2. queue' = queue /\ out' = out /\ (wire'[Ts] = wire[Ts] \/ wire'[Ts] = <<>>)
        BY <1>2, <1>5 DEF Over
  <2>3. QED
        BY <1>3, <2>1, <2>2
<1>6. CASE CloseStream(s)
      BY <1>3, <1>6 DEF CloseStream
<1>7. CASE (Take(s) \/ Receive(s)) /\ s # Ts
  <2>1. queue'[Ts] = queue[Ts] /\ wire'[Ts] = wire[Ts] /\ out'[Ts] = out[Ts]
        BY <1>2, <1>7 DEF Take, Receive
  <2>2. QED
        BY <1>3, <2>1
<1>8. CASE Take(s) /\ s = Ts
  <2>1. /\ queue[Ts] # <<>> /\ out' = out
        /\ wire'[Ts] = Append(wire[Ts], Head(queue[Ts]))
        /\ queue'[Ts] = Tail(queue[Ts])
        BY <1>2, <1>8 DEF Take
  <2>2. Whole(Head(queue[Ts])) /\ Wholes(Tail(queue[Ts]))
        BY <1>2, <1>3, <2>1, WholesHead
  <2>3. Wholes(Append(wire[Ts], Head(queue[Ts])))
        BY <1>2, <1>3, <2>1, <2>2, HeadTailProperties, WholesAppend
  <2>4. QED
        BY <1>3, <2>1, <2>2, <2>3
<1>9. CASE Receive(s) /\ s = Ts
  <2>1. /\ wire[Ts] # <<>> /\ queue' = queue
        /\ out'[Ts] = Append(out[Ts], Head(wire[Ts]))
        /\ wire'[Ts] = Tail(wire[Ts])
        BY <1>2, <1>9 DEF Receive
  <2>2. Whole(Head(wire[Ts])) /\ Wholes(Tail(wire[Ts]))
        BY <1>2, <1>3, <2>1, WholesHead
  <2>3. Wholes(Append(out[Ts], Head(wire[Ts])))
        BY <1>2, <1>3, <2>1, <2>2, HeadTailProperties, WholesAppend
  <2>4. QED
        BY <1>3, <2>1, <2>2, <2>3
<1>10. QED
      BY <1>5, <1>6, <1>7, <1>8, <1>9 DEF Stream, Break, TakeFromClosed,
         ReturnEarly, EndOfStream, ServerGone

LEMMA ListsActor ==
  ASSUME TypeInv, ListsInv, EpisodeInv, Actor
  PROVE  ListsInv'
<1>1. /\ Ts \in Streams /\ DOMAIN queue = Streams /\ DOMAIN out = Streams
      /\ queue[Ts] \in Seq(Seq(Transition)) /\ trace \in Seq(Transition)
      BY OrderTypes DEF TypeInv, StreamTypes, Carries
<1>2. UNCHANGED <<lpc, list, wire>> /\ out'[Ts] = out[Ts]
      BY <1>1 DEF Actor, Act, EndEpisode, StopActing, Joined, streamVars,
         learnerVars, Ts
<1>3. Wholes(queue'[Ts])
  <2>1. CASE EndEpisode
    <3>1. queue'[Ts] = Append(queue[Ts], trace) /\ apc = "ended_episode"
          BY <1>1, <2>1 DEF EndEpisode, Ts
    <3>2. QED
          BY <1>1, <3>1, WholesAppend DEF ListsInv, EpisodeInv
  <2>2. CASE Act \/ StopActing \/ Joined
    <3>1. queue' = queue
          BY <2>2 DEF Act, StopActing, Joined, streamVars
    <3>2. QED
          BY <3>1 DEF ListsInv
  <2>3. QED
        BY <2>1, <2>2 DEF Actor
<1>4. QED
      BY <1>2, <1>3 DEF ListsInv

LEMMA ListsLearner ==
  ASSUME TypeInv, ListsInv, Learner
  PROVE  ListsInv'
<1>1. /\ Ts \in Streams /\ Ts # "parameters" /\ Ts # "interactions"
      /\ DOMAIN queue = Streams /\ DOMAIN out = Streams
      /\ out[Ts] \in Seq(Seq(Transition)) /\ list \in Seq(Transition)
      BY OrderTypes DEF TypeInv, StreamTypes, Carries, Ts
<1>2. UNCHANGED wire /\ queue'[Ts] = queue[Ts]
      BY <1>1 DEF Learner, Top, TakeTransitions, AddTransition, TransitionsDone,
         ProcessInteraction, InteractionsDone, Train, TrainFails, Unlink, Link,
         Clear, Write, streamVars
<1>3. CASE TakeTransitions
  <2>1. /\ out[Ts] # <<>> /\ list' = Head(out[Ts]) /\ out'[Ts] = Tail(out[Ts])
        /\ lpc = "transitions" /\ lpc' = lpc
        BY <1>1, <1>3 DEF TakeTransitions, Ts
  <2>2. Whole(Head(out[Ts])) /\ Wholes(Tail(out[Ts]))
        BY <1>1, <2>1, WholesHead DEF ListsInv
  <2>3. QED
        BY <1>2, <2>1, <2>2 DEF ListsInv, Whole
<1>4. CASE AddTransition
  <2>1. /\ list # <<>> /\ list' = Tail(list) /\ out' = out
        /\ lpc = "transitions" /\ lpc' = lpc
        BY <1>4 DEF AddTransition, streamVars
  <2>2. Tail(list) # <<>> => Last(Tail(list)) = Last(list)
        BY <1>1, <2>1 DEF Last
  <2>3. QED
        BY <1>2, <2>1, <2>2 DEF ListsInv
<1>5. CASE TransitionsDone \/ ProcessInteraction
  <2>1. /\ list = <<>> \/ lpc' = "transitions" \/ lpc = "interactions"
        /\ list' = list /\ out'[Ts] = out[Ts]
        BY <1>1, <1>5 DEF TransitionsDone, ProcessInteraction, streamVars
  <2>2. list' = <<>>
        BY <1>5, <2>1 DEF ListsInv, TransitionsDone, ProcessInteraction
  <2>3. QED
        BY <1>2, <2>1, <2>2 DEF ListsInv
<1>6. CASE \/ Top \/ InteractionsDone \/ Train \/ TrainFails
           \/ Unlink \/ Link \/ Clear \/ Write
  <2>1. lpc # "transitions" /\ list' = list /\ out' = out
        BY <1>6 DEF Top, InteractionsDone, Train, TrainFails, Unlink, Link, Clear,
           Write, streamVars
  <2>2. QED
        BY <1>2, <2>1 DEF ListsInv
<1>7. QED
      BY <1>3, <1>4, <1>5, <1>6 DEF Learner

(***************************************************************************)
(* What was acted, step after step.                                        *)
(***************************************************************************)
LEMMA EpisodeActor ==
  ASSUME TypeInv, EpisodeInv, Actor
  PROVE  EpisodeInv'
<1>1. /\ session' = session /\ acted \in Seq(Transition) /\ trace \in Seq(Transition)
      BY DEF Actor, Act, EndEpisode, StopActing, Joined, history, TypeInv,
         ActorTypes
<1>2. CASE Act
  <2>1. PICK k \in Kinds :
          LET t == [session |-> session, episode |-> here.episode,
                    step |-> here.step, kind |-> k]
              over == k \in {"done", "truncated"}
          IN /\ acted' = Append(acted, t) /\ trace' = Append(trace, t)
             /\ apc' = IF over THEN "ended_episode" ELSE apc
             /\ here' = IF over THEN [episode |-> here.episode + 1, step |-> 0]
                        ELSE [here EXCEPT !.step = @ + 1]
        BY <1>2 DEF Act
  <2> DEFINE t == [session |-> session, episode |-> here.episode,
                   step |-> here.step, kind |-> k]
             n == Len(acted)
  <2>2. acted' = Append(acted, t) /\ trace' = Append(trace, t)
        BY <2>1
  <2>3. /\ n \in Nat /\ Len(acted') = n + 1 /\ acted'[n + 1] = t
        /\ \A i \in 1 .. n : acted'[i] = acted[i]
        /\ Last(acted') = t /\ Last(trace') = t /\ trace' # <<>>
        BY <1>1, <2>2 DEF Last
  <2>4. Ended(t) <=> k \in {"done", "truncated"}
        BY DEF Ended
  <2>5. \/ Ended(t)
        \/ t.session = session' /\ here' = [episode |-> t.episode, step |-> t.step + 1]
    <3>1. CASE Ended(t)
          BY <3>1
    <3>2. CASE ~Ended(t)
      <4>1. here' = [here EXCEPT !.step = @ + 1]
            BY <2>1, <2>4, <3>2
      <4>2. here \in [episode : 0 .. MaxSteps, step : 0 .. MaxSteps]
            BY DEF TypeInv, ActorTypes
      <4>3. here' = [episode |-> t.episode, step |-> t.step + 1]
            BY <4>1, <4>2
      <4>4. t.session = session'
            BY <1>1
      <4>5. QED
            BY <4>3, <4>4
    <3>3. QED
          BY <3>1, <3>2
  <2>6. apc' = "ended_episode" => Ended(t)
        BY <1>2, <2>1, <2>4 DEF Act
  <2>7. n # 0 => Ended(acted[n]) \/ Succeeds(t, acted[n])
    <3>1. n # 0 => Last(acted) = acted[n] /\ acted # <<>>
          BY <1>1 DEF Last
    <3>2. n # 0 => Awaited(acted[n])
          BY <3>1 DEF EpisodeInv
    <3>3. Awaited(acted[n]) => Ended(acted[n]) \/ Succeeds(t, acted[n])
          BY DEF Awaited, Succeeds
    <3>4. QED
          BY <3>2, <3>3
  <2> HIDE DEF t, n
  <2>8. ASSUME NEW i \in 1 .. Len(acted') - 1
        PROVE  Ended(acted'[i]) \/ Succeeds(acted'[i + 1], acted'[i])
    <3>1. i \in 1 .. n /\ acted'[i] = acted[i]
          BY <2>3
    <3>2. CASE i = n
          BY <2>3, <2>7, <3>1, <3>2
    <3>3. CASE i # n
      <4>1. i \in 1 .. Len(acted) - 1 /\ acted'[i + 1] = acted[i + 1]
            BY <2>3, <3>1, <3>3 DEF n
      <4>2. QED
            BY <3>1, <4>1 DEF EpisodeInv
    <3>4. QED
          BY <3>2, <3>3
  <2>9. Awaited(Last(acted))'
        BY <2>3, <2>5 DEF Awaited
  <2>10. QED
        BY <2>3, <2>6, <2>8, <2>9 DEF EpisodeInv, Whole
<1>3. CASE EndEpisode \/ StopActing \/ Joined
  <2>1. acted' = acted /\ here' = here /\ apc' # "ended_episode"
        BY <1>3 DEF EndEpisode, StopActing, Joined
  <2>2. QED
        BY <1>1, <2>1 DEF EpisodeInv, Awaited
<1>4. QED
      BY <1>2, <1>3 DEF Actor

\* Nobody else touches what the actor has.
LEMMA EpisodeOthers ==
  ASSUME EpisodeInv, UNCHANGED <<apc, acted, trace, here, session>>
  PROVE  EpisodeInv'
BY DEF EpisodeInv, Awaited, Whole

(***************************************************************************)
(* What the buffer was given.  The past only grows, so a seam stays one.   *)
(***************************************************************************)
LEMMA PastGrows ==
  ASSUME TypeInv, [Next]_vars
  PROVE  Past \subseteq Past'
<1>1. earlier \in Seq(Transition) /\ acted \in Seq(Transition)
      BY DEF TypeInv, ActorTypes, HistoryTypes
<1>2. CASE UNCHANGED <<acted, earlier>>
      BY <1>2 DEF Past
<1>3. CASE Act
  <2>1. PICK t : acted' = Append(acted, t) /\ earlier' = earlier
        BY <1>3 DEF Act, history
  <2>2. TypeInv'
        BY <1>3, TypeStep
  <2>3. t \in Transition
    <3>1. acted' \in Seq(Transition)
          BY <2>2 DEF TypeInv, ActorTypes
    <3>2. Len(acted') \in 1 .. Len(acted') /\ acted'[Len(acted')] = t
          BY <1>1, <2>1
    <3>3. QED
          BY <3>1, <3>2
  <2>4. earlier' \o acted' = Append(earlier \o acted, t)
        BY <1>1, <2>1, <2>3, ConcatOfAppend
  <2>5. earlier \o acted \in Seq(Transition)
        BY <1>1, ConcatProperties
  <2> DEFINE p == earlier \o acted
  <2> HIDE DEF p
  <2>6. \A i \in DOMAIN p : i \in DOMAIN Append(p, t) /\ Append(p, t)[i] = p[i]
        BY <2>3, <2>5 DEF p
  <2>7. QED
        BY <2>4, <2>6 DEF Past, ToSet, p
<1>4. CASE Resume
  <2>1. earlier' = earlier \o acted /\ acted' = <<>>
        BY <1>4 DEF Resume
  <2>2. earlier' \o acted' = earlier \o acted
    <3>1. earlier \o acted \in Seq(Transition)
          BY <1>1, ConcatProperties
    <3>2. (earlier \o acted) \o <<>> = earlier \o acted
          BY <3>1, ConcatEmptySeq, Zenon
    <3>3. QED
          BY <2>1, <3>2, Zenon
  <2>3. QED
        BY <2>2 DEF Past
<1>5. QED
  <2>1. CASE EndEpisode \/ StopActing \/ Joined
        BY <1>2, <2>1 DEF EndEpisode, StopActing, Joined, history
  <2>2. CASE Learner
        BY <1>2, <2>2 DEF Learner, Top, TakeTransitions, AddTransition,
           TransitionsDone, ProcessInteraction, InteractionsDone, Train,
           TrainFails, Unlink, Link, Clear, Write, actorVars, history
  <2>3. CASE InterruptActor \/ InterruptLearner \/ UNCHANGED vars
        BY <1>2, <2>3 DEF InterruptActor, InterruptLearner, vars, actorVars,
           history
  <2>4. ASSUME NEW s \in Streams, Stream(s) \/ Break(s)
        PROVE  UNCHANGED <<acted, earlier>>
        BY <2>4 DEF Stream, Break, Take, CloseStream, TakeFromClosed, Receive,
           ReturnEarly, EndOfStream, ServerGone, Over, actorVars, history
  <2>5. QED
        BY <1>2, <1>3, <1>4, <2>1, <2>2, <2>3, <2>4 DEF Next, Actor

LEMMA SeamsStay ==
  ASSUME Past \subseteq Past'
  PROVE  /\ \A t : Over1(t) => Over1(t)'
         /\ \A t : Gap(t) => Gap(t)'
         /\ \A g : Chain(g) => Chain(g)'
         /\ \A g : Closed(g) => Closed(g)'
<1>1. \A t, kinds : Truly(t, kinds) => Truly(t, kinds)'
      BY DEF Truly, Past
<1>2. /\ \A t : Over1(t) => Over1(t)'
      /\ \A t : Gap(t) => Gap(t)'
      BY <1>1 DEF Over1, Gap
<1>3. \A t, u : Seam(t, u) => Seam(t, u)'
      BY <1>2 DEF Seam, Succeeds
<1>4. QED
      BY <1>2, <1>3 DEF Chain, Closed

LEMMA GivenStays ==
  ASSUME GivenInv, Past \subseteq Past',
         UNCHANGED <<given, processed, list, archived>>
  PROVE  GivenInv'
<1>1. Chain(given)' /\ (list' = <<>> \/ processed' = <<>> => Closed(given)')
      BY SeamsStay DEF GivenInv
<1>2. processed' # <<>> => 
       IF HasNaN(Last(processed'))
       THEN given' = <<>> \/ Over1(Last(given))' \/ Gap(Last(given))'
       ELSE given' # <<>> /\ Last(given') = Last(processed')
      BY SeamsStay DEF GivenInv
<1>3. Chain(archived)' /\ Closed(archived)'
      BY SeamsStay DEF GivenInv
<1>4. QED
      BY <1>1, <1>2, <1>3 DEF GivenInv

\* What was acted is past.
LEMMA ActedIsPast ==
  ASSUME TypeInv, NEW i \in 1 .. Len(acted)
  PROVE  acted[i] \in Past /\ acted[i] \in Transition
<1>1. earlier \in Seq(Transition) /\ acted \in Seq(Transition)
      BY DEF TypeInv, ActorTypes, HistoryTypes
<1>2. /\ Len(earlier) + i \in DOMAIN (earlier \o acted)
      /\ (earlier \o acted)[Len(earlier) + i] = acted[i]
      BY <1>1
<1>3. QED
      BY <1>1, <1>2 DEF Past, ToSet

\* The transition in hand is the one acted after those processed.
LEMMA InHand ==
  ASSUME TypeInv, OrderInv, list # <<>>
  PROVE  LET n == Len(processed) IN
         /\ n \in Nat /\ n + 1 \in 1 .. Len(acted)
         /\ Head(list) = acted[n + 1]
         /\ processed # <<>> => n # 0 /\ Last(processed) = acted[n]
<1>1. /\ processed \in Seq(Transition) /\ list \in Seq(Transition)
      /\ acted \in Seq(Transition) /\ FlattenSeq(out[Ts]) \in Seq(Transition)
      BY OrderTypes
<1>2. PICK rest \in Seq(Transition) : acted = Delivered \o rest
      BY DEF OrderInv
<1> DEFINE f == FlattenSeq(out[Ts])
<1>3. acted = ((processed \o list) \o f) \o rest /\ f \in Seq(Transition)
      BY <1>1, <1>2 DEF Delivered
<1> HIDE DEF f
<1> DEFINE a == processed \o list  b == a \o f
<1>4. /\ a \in Seq(Transition) /\ Len(a) = Len(processed) + Len(list)
      /\ \A i \in 1 .. Len(processed) : a[i] = processed[i]
      /\ a[Len(processed) + 1] = Head(list)
      /\ Len(list) \in Nat /\ Len(list) # 0 /\ Len(processed) \in Nat
      BY <1>1
<1> HIDE DEF a
<1>5. /\ b \in Seq(Transition) /\ Len(b) >= Len(a)
      /\ \A i \in 1 .. Len(a) : b[i] = a[i]
      BY <1>3, <1>4
<1> HIDE DEF b
<1>6. /\ Len(acted) >= Len(b) /\ \A i \in 1 .. Len(b) : acted[i] = b[i]
  <2>1. acted = b \o rest
        BY <1>3 DEF a, b
  <2>2. QED
        BY <1>2, <1>5, <2>1
<1>7. \A i \in 1 .. Len(a) : acted[i] = a[i]
  <2>1. Len(a) \in Nat /\ Len(b) \in Nat
        BY <1>4, <1>5
  <2>2. QED
        BY <1>5, <1>6, <2>1
<1>8. processed # <<>> => Len(processed) # 0
      BY <1>1
<1>9. QED
  <2>1. Len(processed) + 1 \in 1 .. Len(a) /\ Len(acted) \in Nat
        BY <1>1, <1>4
  <2>2. Len(a) <= Len(acted)
        BY <1>4, <1>5, <1>6
  <2>3. QED
        BY <1>4, <1>5, <1>6, <1>7, <1>8, <2>1, <2>2 DEF Last

LEMMA AppendIs ==
  ASSUME NEW T, NEW q \in Seq(T), NEW x \in T
  PROVE  /\ Append(q, x) # <<>> /\ Last(Append(q, x)) = x
         /\ Len(q) \in Nat /\ Len(Append(q, x)) = Len(q) + 1
         /\ Append(q, x)[Len(q) + 1] = x
         /\ \A i \in 1 .. Len(q) : Append(q, x)[i] = q[i]
         /\ Len(q) # 0 => q # <<>> /\ Last(q) = q[Len(q)]
BY DEF Last

\* The transition added follows the last one given, or there is a seam.
LEMMA GivenAdd ==
  ASSUME TypeInv, OrderInv, SeamInv, AddTransition, [Next]_vars
  PROVE  GivenInv'
<1> DEFINE t == Head(list)  n == Len(processed)  p == acted[n]
<1>1. /\ list # <<>> /\ list' = Tail(list) /\ processed' = Append(processed, t)
      /\ IF HasNaN(t) THEN given' = given ELSE given' = Append(given, t)
      /\ UNCHANGED <<acted, archived, earlier>>
      BY DEF AddTransition, actorVars
<1>2. /\ n \in Nat /\ n + 1 \in 1 .. Len(acted) /\ t = acted[n + 1]
      /\ processed # <<>> => n # 0 /\ Last(processed) = p
      BY <1>1, InHand
<1>3. /\ processed \in Seq(Transition) /\ given \in Seq(Transition)
      /\ list \in Seq(Transition) /\ acted \in Seq(Transition)
      BY DEF TypeInv, HistoryTypes, LearnerTypes, ActorTypes
<1>4. t \in Transition /\ t \in Past
      BY <1>2, ActedIsPast
<1>5. n # 0 => p \in Transition /\ p \in Past
  <2>1. n # 0 => n \in 1 .. Len(acted)
        BY <1>2, <1>3
  <2>2. QED
        BY <2>1, ActedIsPast
<1>6. n # 0 => Ended(p) \/ Succeeds(t, p)
  <2>1. n # 0 => n \in 1 .. Len(acted) - 1
        BY <1>2, <1>3
  <2>2. QED
        BY <1>2, <2>1 DEF SeamInv, EpisodeInv
<1>7. processed' # <<>> /\ Last(processed') = t
  <2>1. Append(processed, t) # <<>> /\ Last(Append(processed, t)) = t
        BY <1>3, <1>4, AppendIs, Zenon
  <2>2. QED
        BY <1>1, <2>1
<1>8. Past \subseteq Past'
      BY PastGrows
<1>9. \A u \in Past \cap Transition : Ended(u) => Over1(u)
  <2>1. \A u \in Transition : u = [u EXCEPT !.kind = u.kind]
        BY DEF Transition
  <2>2. QED
        BY <2>1 DEF Over1, Truly, Past, Ended
<1> HIDE DEF t, p, n
\* The last one given before, and the transition in hand.
<1>10. given # <<>> =>
         LET g == Last(given) IN
         /\ Seam(g, t)
         /\ HasNaN(t) => Over1(g) \/ Gap(g)
  <2> SUFFICES ASSUME given # <<>>
               PROVE  LET g == Last(given) IN
                      /\ Seam(g, t)
                      /\ HasNaN(t) => Over1(g) \/ Gap(g)
      OBVIOUS
  <2>1. CASE Over1(Last(given)) \/ Gap(Last(given))
        BY <2>1 DEF Seam
  <2>2. CASE ~Over1(Last(given)) /\ ~Gap(Last(given))
    <3>1. processed # <<>>
          BY <2>2 DEF SeamInv, GivenInv, Closed
    <3>2. Last(given) = p /\ n # 0
          BY <1>2, <2>2, <3>1 DEF SeamInv, GivenInv
    <3>3. Succeeds(t, p)
          BY <1>5, <1>6, <1>9, <2>2, <3>2
    <3>4. HasNaN(t) => Gap(p)
      <4>1. t = [[p EXCEPT !.step = @ + 1] EXCEPT !.kind = t.kind]
            BY <1>4, <1>5, <3>2, <3>3 DEF Transition, Succeeds
      <4>2. QED
            BY <1>4, <4>1 DEF Gap, Truly, HasNaN, Past
    <3>5. QED
          BY <3>2, <3>3, <3>4 DEF Seam
  <2>3. QED
        BY <2>1, <2>2
<1>11. Chain(given') /\ (HasNaN(t) \/ (given' # <<>> /\ Last(given') = t))
  <2>1. CASE HasNaN(t)
        BY <1>1, <2>1 DEF SeamInv, GivenInv, t
  <2>2. CASE ~HasNaN(t)
    <3>1. given' = Append(given, t)
          BY <1>1, <2>2 DEF t
    <3> DEFINE m == Len(given)
    <3>2. /\ m \in Nat /\ Len(given') = m + 1 /\ given'[m + 1] = t
          /\ \A i \in 1 .. m : given'[i] = given[i]
          /\ given' # <<>> /\ Last(given') = t
          /\ m # 0 => given # <<>> /\ Last(given) = given[m]
      <4>1. /\ Append(given, t) # <<>> /\ Last(Append(given, t)) = t
            /\ m \in Nat /\ Len(Append(given, t)) = m + 1
            /\ Append(given, t)[m + 1] = t
            /\ \A i \in 1 .. m : Append(given, t)[i] = given[i]
            /\ m # 0 => given # <<>> /\ Last(given) = given[m]
            BY <1>3, <1>4, AppendIs, Zenon
      <4>2. QED
            BY <3>1, <4>1, Zenon
    <3> HIDE DEF m
    <3>3. ASSUME NEW i \in 1 .. Len(given') - 1
          PROVE  Seam(given'[i], given'[i + 1])
      <4>1. i \in 1 .. m /\ given'[i] = given[i]
            BY <3>2
      <4>2. CASE i = m
            BY <1>10, <3>2, <4>1, <4>2
      <4>3. CASE i # m
        <5>1. i \in 1 .. Len(given) - 1 /\ given'[i + 1] = given[i + 1]
              BY <3>2, <4>1, <4>3 DEF m
        <5>2. QED
              BY <4>1, <5>1 DEF SeamInv, GivenInv, Chain
      <4>4. QED
            BY <4>2, <4>3
    <3>4. QED
          BY <3>2, <3>3 DEF Chain
  <2>3. QED
        BY <2>1, <2>2
<1>12. HasNaN(t) => given' = <<>> \/ Over1(Last(given')) \/ Gap(Last(given'))
      BY <1>1, <1>10 DEF t
<1>13. list' = <<>> => Closed(given')
  <2> SUFFICES ASSUME list' = <<>> PROVE Closed(given')
      OBVIOUS
  <2>1. Last(list) = t
    <3>1. Len(list) \in Nat /\ Len(Tail(list)) = Len(list) - 1 /\ Len(<<>>) = 0
          BY <1>1, <1>3
    <3>2. Len(list) = 1
          BY <1>1, <3>1
    <3>3. QED
          BY <3>2 DEF Last, t
  <2>2. Ended(t)
        BY <1>1, <2>1 DEF SeamInv, ListsInv
  <2>3. ~HasNaN(t)
        BY <2>2 DEF Ended, HasNaN
  <2>4. QED
        BY <1>4, <1>9, <1>11, <2>2, <2>3 DEF Closed
<1>14. QED
  <2>1. Chain(given)' /\ (list' = <<>> => Closed(given)')
    <3>1. (\A g : Chain(g) => Chain(g)') /\ (\A g : Closed(g) => Closed(g)')
          BY <1>8, SeamsStay
    <3>2. QED
          BY <1>11, <1>13, <3>1 DEF Chain, Closed
  <2>2. HasNaN(t) =>
          given' = <<>> \/ Over1(Last(given))' \/ Gap(Last(given))'
        BY <1>8, <1>12, SeamsStay
  <2>3. Chain(archived)' /\ Closed(archived)'
        BY <1>1, <1>8, SeamsStay DEF SeamInv, GivenInv
  <2>4. QED
        BY <1>7, <1>11, <2>1, <2>2, <2>3 DEF GivenInv

\* A dataset has the seams of what it is written from.
LEMMA StoredSeams ==
  ASSUME NEW t \in Transition, NEW next \in Transition
  PROVE  /\ Over1(t) => Over1(Stored(t))
         /\ Seam(t, next) => Seam(Stored(t), Stored(next))
<1>1. /\ \A kind : [Stored(t) EXCEPT !.kind = kind] = [t EXCEPT !.kind = kind]
      /\ \A kind : [[Stored(t) EXCEPT !.step = @ + 1] EXCEPT !.kind = kind]
                  = [[t EXCEPT !.step = @ + 1] EXCEPT !.kind = kind]
      BY DEF Stored, Transition
<1>2. Over1(t) => Over1(Stored(t))
      BY <1>1 DEF Over1, Truly
<1>3. Gap(t) => Gap(Stored(t))
      BY <1>1 DEF Gap, Truly
<1>4. Succeeds(next, t) => Succeeds(Stored(next), Stored(t))
      BY DEF Succeeds, Stored, Transition
<1>5. QED
      BY <1>2, <1>3, <1>4 DEF Seam

LEMMA GivenWrite ==
  ASSUME TypeInv, SeamInv, Write, [Next]_vars
  PROVE  GivenInv'
<1> DEFINE a == StoredAll(given)  n == Len(given)
<1>1. /\ lpc = "write" /\ list = <<>> /\ UNCHANGED <<given, processed, list>>
      /\ archived' = a
      BY DEF Write, SeamInv, ListsInv
<1>2. /\ a \in Seq(Transition) /\ Len(a) = n
      /\ \A k \in 1 .. Len(a) : a[k] = Stored(given[k])
      BY WrittenType
<1>3. given \in Seq(Transition) /\ n \in Nat
      BY DEF TypeInv, HistoryTypes
<1>4. Past \subseteq Past'
      BY PastGrows
<1> HIDE DEF a, n
<1>5. ASSUME NEW k \in 1 .. Len(a) - 1
      PROVE  Seam(a[k], a[k + 1])
  <2>1. k \in 1 .. n - 1 /\ k \in 1 .. Len(a) /\ k + 1 \in 1 .. Len(a)
        BY <1>2, <1>3
  <2>2. Seam(given[k], given[k + 1])
        BY <2>1 DEF SeamInv, GivenInv, Chain, n
  <2>3. given[k] \in Transition /\ given[k + 1] \in Transition
        BY <1>3, <2>1 DEF n
  <2>4. QED
        BY <1>2, <2>1, <2>2, <2>3, StoredSeams
<1>6. a # <<>> => Over1(Last(a))
  <2> SUFFICES ASSUME a # <<>> PROVE Over1(Last(a))
      OBVIOUS
  <2>1. Len(a) # 0 /\ Last(a) = a[Len(a)]
        BY <1>2 DEF Last
  <2>2. Last(a) = Stored(Last(given)) /\ given # <<>> /\ Last(given) \in Transition
        BY <1>2, <1>3, <2>1 DEF Last, n
  <2>3. Over1(Last(given))
        BY <1>1, <2>2 DEF SeamInv, GivenInv, Closed
  <2>4. QED
        BY <2>2, <2>3, StoredSeams
<1>7. Chain(a) /\ Closed(a)
      BY <1>5, <1>6 DEF Chain, Closed
<1>8. Chain(archived)' /\ Closed(archived)'
  <2>1. /\ \A g : Chain(g) => Chain(g)'
        /\ \A g : Closed(g) => Closed(g)'
        BY <1>4, SeamsStay
  <2>2. QED
        BY <1>1, <1>7, <2>1 DEF Chain, Closed
<1>9. /\ Chain(given)' /\ (list' = <<>> \/ processed' = <<>> => Closed(given)')
      /\ processed' # <<>> =>
           IF HasNaN(Last(processed'))
           THEN given' = <<>> \/ Over1(Last(given))' \/ Gap(Last(given))'
           ELSE given' # <<>> /\ Last(given') = Last(processed')
      BY <1>1, <1>4, SeamsStay DEF SeamInv, GivenInv
<1>10. QED
      BY <1>8, <1>9 DEF GivenInv

(***************************************************************************)
(* Every step.                                                             *)
(***************************************************************************)
LEMMA SeamStep ==
  ASSUME TypeInv, OrderInv, SeamInv, [Next]_vars
  PROVE  SeamInv'
<1>1. Past \subseteq Past'
      BY PastGrows
<1>2. CASE \E s \in Streams : Stream(s) \/ Break(s)
  <2>1. UNCHANGED <<actorVars, learnerVars, diskVars, history>>
        BY <1>2 DEF Stream, Break, Take, CloseStream, TakeFromClosed, Receive,
           ReturnEarly, EndOfStream, ServerGone, Over
  <2>2. EpisodeInv' /\ GivenInv'
        BY <1>1, <2>1, EpisodeOthers, GivenStays
           DEF SeamInv, actorVars, learnerVars, diskVars, history
  <2>3. QED
        BY <1>2, <2>2, ListsStream DEF SeamInv
<1>3. CASE Actor
  <2>1. UNCHANGED <<given, processed, list, archived>>
        BY <1>3 DEF Actor, Act, EndEpisode, StopActing, Joined, learnerVars,
           diskVars, history
  <2>2. QED
        BY <1>1, <1>3, <2>1, ListsActor, EpisodeActor, GivenStays DEF SeamInv
<1>4. CASE Learner
  <2>1. UNCHANGED <<apc, acted, trace, here, session>>
        BY <1>4 DEF Learner, Top, TakeTransitions, AddTransition,
           TransitionsDone, ProcessInteraction, InteractionsDone, Train,
           TrainFails, Unlink, Link, Clear, Write, actorVars, history
  <2>2. ListsInv' /\ EpisodeInv'
        BY <1>4, <2>1, ListsLearner, EpisodeOthers DEF SeamInv
  <2>3. CASE AddTransition
        BY <2>2, <2>3, GivenAdd DEF SeamInv
  <2>4. CASE Write
        BY <2>2, <2>4, GivenWrite DEF SeamInv
  <2>5. CASE TakeTransitions
    <3>1. UNCHANGED <<given, processed, archived>> /\ list = <<>>
          BY <2>5 DEF TakeTransitions, history
    <3>2. Closed(given)
          BY <3>1 DEF SeamInv, GivenInv
    <3>3. Chain(given)' /\ Closed(given)'
          BY <1>1, <3>1, <3>2, SeamsStay DEF SeamInv, GivenInv
    <3>4. processed' # <<>> =>
            IF HasNaN(Last(processed'))
            THEN given' = <<>> \/ Over1(Last(given))' \/ Gap(Last(given))'
            ELSE given' # <<>> /\ Last(given') = Last(processed')
          BY <1>1, <3>1, SeamsStay DEF SeamInv, GivenInv
    <3>5. Chain(archived)' /\ Closed(archived)'
          BY <1>1, <3>1, SeamsStay DEF SeamInv, GivenInv
    <3>6. QED
          BY <2>2, <3>3, <3>4, <3>5 DEF SeamInv, GivenInv
  <2>6. CASE \/ Top \/ TransitionsDone \/ ProcessInteraction
             \/ InteractionsDone \/ Train \/ TrainFails \/ Unlink \/ Link
             \/ Clear
    <3>1. UNCHANGED <<given, processed, list, archived>>
          BY <2>6 DEF Top, TransitionsDone, ProcessInteraction,
             InteractionsDone, Train, TrainFails, Unlink, Link, Clear, history
    <3>2. QED
          BY <1>1, <2>2, <3>1, GivenStays DEF SeamInv
  <2>7. QED
        BY <1>4, <2>3, <2>4, <2>5, <2>6 DEF Learner
<1>5. CASE Resume
  <2>0. Len(<<>>) = 0
        OBVIOUS
  <2>1. /\ list' = <<>> /\ acted' = <<>> /\ processed' = <<>>
        /\ given' = archived /\ archived' = archived
        /\ queue'[Ts] = <<>> /\ wire'[Ts] = <<>> /\ out'[Ts] = <<>>
        /\ apc' = "acting"
        BY <1>5 DEF Resume, FreshStreams, Ts, Streams, ToLearner
  <2>2. ListsInv' /\ EpisodeInv'
        BY <2>0, <2>1 DEF ListsInv, Wholes, EpisodeInv
  <2>3. Chain(archived)' /\ Closed(archived)'
        BY <1>1, <2>1, SeamsStay DEF SeamInv, GivenInv
  <2>4. GivenInv'
        BY <2>1, <2>3 DEF GivenInv
  <2>5. QED
        BY <2>2, <2>4 DEF SeamInv
<1>6. CASE InterruptActor \/ InterruptLearner \/ UNCHANGED vars
  <2>1. UNCHANGED <<queue, wire, out, lpc, list, apc, acted, trace, here,
                    session, given, processed, archived>>
        BY <1>6 DEF InterruptActor, InterruptLearner, vars, streamVars,
           actorVars, learnerVars, diskVars, history
  <2>2. ListsInv' /\ EpisodeInv' /\ GivenInv'
        BY <1>1, <2>1, EpisodeOthers, GivenStays DEF SeamInv, ListsInv
  <2>3. QED
        BY <2>2 DEF SeamInv
<1>7. QED
      BY <1>2, <1>3, <1>4, <1>5, <1>6 DEF Next

\* A sample's next state is its own but at the seams, for every capacity and any
\* number of episodes, lists, checkpoints and restarts.
THEOREM NextIsOwn == Spec => []WrongOnlyAtSeams
<1>1. /\ Init => TypeInv /\ OrderInv /\ SeamInv
      /\ TypeInv /\ OrderInv /\ SeamInv /\ [Next]_vars
           => (TypeInv /\ OrderInv /\ SeamInv)'
      BY TypeInit, OrderInit, SeamInit, TypeStep, OrderStep, SeamStep
<1>2. TypeInv /\ SeamInv => WrongOnlyAtSeams
      BY SeamImplies
<1>3. QED
      BY <1>1, <1>2, PTL DEF Spec

-----------------------------------------------------------------------------
(***************************************************************************)
(* What Received computes, chunk by chunk.                                 *)
(***************************************************************************)
Receives(r, n, chunks) ==
  r = [i \in 0 .. n |-> IF i = 0 THEN Waiting ELSE WithChunk(r[i - 1], chunks[i])]

Agree(f, g, m, n) == \A i \in m .. n : f[i] = g[i]

LEMMA ReceivesUnique ==
  ASSUME NEW c, NEW d, NEW m \in Nat, NEW n \in Nat, m <= n,
         Agree(c, d, 1, m), NEW f, Receives(f, m, c), NEW g, Receives(g, n, d)
  PROVE  Agree(f, g, 0, m)
<1> DEFINE T == {i \in Nat : i \in 0 .. m /\ f[i] # g[i]}
<1> SUFFICES ASSUME T # {} PROVE FALSE
    BY m \in Nat DEF Agree
<1>1. PICK j \in T : \A k \in T : j <= k
      BY LeastElement
<1>2. CASE j = 0
      BY <1>1, <1>2 DEF Receives
<1>3. CASE j > 0
  <2>1. /\ j - 1 \in 0 .. m /\ j \in 1 .. m /\ j \in 0 .. m /\ j \in 0 .. n
        /\ j # 0 /\ f[j] # g[j]
        BY <1>3
  <2>2. f[j - 1] = g[j - 1]
    <3>1. j - 1 \in Nat /\ ~(j <= j - 1)
          BY <2>1
    <3>2. QED
          BY <1>1, <2>1, <3>1
  <2>3. f[j] = WithChunk(f[j - 1], c[j])
        BY <2>1 DEF Receives
  <2>4. g[j] = WithChunk(g[j - 1], d[j])
        BY <2>1 DEF Receives
  <2>5. c[j] = d[j]
        BY <2>1 DEF Agree
  <2>6. QED
        BY <2>1, <2>2, <2>3, <2>4, <2>5
<1>4. QED
      BY <1>1, <1>2, <1>3

LEMMA ReceivesExists ==
  ASSUME NEW chunks, NEW n \in Nat
  PROVE  \E r : Receives(r, n, chunks)
<1> DEFINE Q(k) == \E r : Receives(r, k, chunks)
           T == {k \in Nat : ~Q(k)}
<1> SUFFICES ASSUME T # {} PROVE FALSE
    OBVIOUS
<1>1. PICK j \in T : \A k \in T : j <= k
      <2> HIDE DEF T
      <2>1. T \in SUBSET Nat BY DEF T
      <2> QED BY <2>1, LeastElement
<1>2. CASE j = 0
  <2> DEFINE f == [i \in 0 .. 0 |-> Waiting]
  <2>1. Receives(f, 0, chunks)
        BY DEF Receives
  <2>2. QED
        BY <1>1, <1>2, <2>1
<1>3. CASE j > 0
  <2>1. j - 1 \in Nat /\ j \in Nat /\ ~Q(j) /\ ~(j <= j - 1)
        BY <1>1, <1>3
  <2>2. PICK f : Receives(f, j - 1, chunks)
    <3>1. Q(j - 1)
          BY <1>1, <2>1
    <3>2. QED
          BY <3>1
  <2> DEFINE g == [i \in 0 .. j |->
                     IF i = j THEN WithChunk(f[j - 1], chunks[j]) ELSE f[i]]
  <2>3. ASSUME NEW i \in 0 .. j
        PROVE  g[i] = IF i = 0 THEN Waiting ELSE WithChunk(g[i - 1], chunks[i])
    <3>1. CASE i = j
      <4>1. j # 0 /\ i - 1 # j /\ i - 1 \in 0 .. j
            BY <1>3, <2>1, <3>1
      <4>2. g[i] = WithChunk(f[j - 1], chunks[j]) /\ g[i - 1] = f[i - 1]
            BY <2>1, <3>1, <4>1
      <4>3. QED
            BY <3>1, <4>1, <4>2
    <3>2. CASE i # j
      <4>1. f[i] = IF i = 0 THEN Waiting ELSE WithChunk(f[i - 1], chunks[i])
        <5>1. i \in 0 .. j - 1
              BY <2>1, <3>2
        <5>2. QED
              BY <2>2, <5>1, Zenon DEF Receives
      <4>2. g[i] = f[i] /\ (i # 0 => g[i - 1] = f[i - 1])
            BY <2>1, <3>2
      <4>3. QED
            BY <4>1, <4>2
    <3>3. QED
          BY <3>1, <3>2
  <2>4. Receives(g, j, chunks)
        BY <2>3 DEF Receives
  <2>5. QED
        BY <2>1, <2>4
<1>4. QED
      BY <1>1, <1>2, <1>3

LEMMA ReceivedIs ==
  ASSUME NEW S, NEW chunks \in Seq(S), NEW r, Receives(r, Len(chunks), chunks)
  PROVE  Received(chunks) = r[Len(chunks)]
<1> DEFINE g == CHOOSE h : Receives(h, Len(chunks), chunks)
<1>1. Len(chunks) \in Nat
      BY LenProperties
<1>2. Receives(g, Len(chunks), chunks)
      BY Zenon
<1>3. Received(chunks) = g[Len(chunks)]
      BY DEF Received, Receives
<1>4. g[Len(chunks)] = r[Len(chunks)]
  <2> HIDE DEF g
  <2>1. QED
    <3>1. Agree(chunks, chunks, 1, Len(chunks))
          BY DEF Agree
    <3>2. Agree(g, r, 0, Len(chunks))
          BY <1>1, <1>2, <3>1, ReceivesUnique
    <3>3. QED
          BY <1>1, <3>2 DEF Agree
<1>5. QED
      BY <1>3, <1>4

LEMMA ReceivedEmpty == Received(<<>>) = Waiting
<1> DEFINE e == <<>>
<1>1. e \in Seq({}) /\ Len(e) = 0
      OBVIOUS
<1>2. PICK r : Receives(r, 0, e)
      BY ReceivesExists
<1>3. r[0] = Waiting
      BY <1>2 DEF Receives
<1> HIDE DEF e
<1>4. Received(e) = r[Len(e)]
      BY <1>1, <1>2, ReceivedIs
<1>5. QED
      BY <1>1, <1>3, <1>4 DEF e

LEMMA ReceivedAppend ==
  ASSUME NEW S, NEW chunks \in Seq(S), NEW c \in S
  PROVE  Received(Append(chunks, c)) = WithChunk(Received(chunks), c)
<1> DEFINE n == Len(chunks)  more == Append(chunks, c)
<1>1. /\ n \in Nat /\ more \in Seq(S) /\ Len(more) = n + 1
      /\ \A i \in 1 .. n : chunks[i] = more[i]
      /\ more[n + 1] = c
      BY AppendProperties, LenProperties
<1> HIDE DEF more
<1>2. PICK f : Receives(f, n, chunks)
      BY <1>1, ReceivesExists
<1>3. PICK g : Receives(g, n + 1, more)
  <2> DEFINE m == n + 1
  <2>1. m \in Nat
        BY <1>1
  <2> HIDE DEF m
  <2>2. \E g : Receives(g, m, more)
        BY <2>1, ReceivesExists
  <2>3. QED
        BY <2>2 DEF m
<1>4. Received(chunks) = f[n] /\ Received(more) = g[n + 1]
      BY <1>1, <1>2, <1>3, ReceivedIs
<1>5. f[n] = g[n]
  <2> DEFINE m == n + 1
  <2>1. n \in Nat /\ m \in Nat /\ n <= m /\ n \in 0 .. n
        BY <1>1
  <2>0. Receives(f, n, chunks) /\ Receives(g, m, more)
        BY <1>2, <1>3
  <2>3. Agree(chunks, more, 1, n)
        BY <1>1 DEF Agree
  <2> HIDE DEF n, m
  <2>2. Agree(f, g, 0, n)
        BY <2>0, <2>1, <2>3, ReceivesUnique
  <2>4. QED
        BY <2>1, <2>2 DEF Agree
<1>6. g[n + 1] = WithChunk(g[n], more[n + 1])
  <2>1. n + 1 \in 0 .. n + 1 /\ n + 1 # 0 /\ (n + 1) - 1 = n
        BY <1>1
  <2> HIDE DEF n
  <2>2. g[n + 1] = WithChunk(g[(n + 1) - 1], more[n + 1])
        BY <1>3, <2>1, Zenon DEF Receives
  <2>3. QED
        BY <2>1, <2>2
<1>7. QED
      BY <1>1, <1>4, <1>5, <1>6 DEF more

\* The beginning of two sequences one after the other.
LEMMA CutConcat ==
  ASSUME NEW S, NEW s \in Seq(S), NEW t \in Seq(S)
  PROVE  /\ \A n \in 0 .. Len(s) : SubSeq(s \o t, 1, n) = SubSeq(s, 1, n)
         /\ \A j \in 0 .. Len(t) :
              SubSeq(s \o t, 1, Len(s) + j) = s \o SubSeq(t, 1, j)
<1> DEFINE st == s \o t
<1>1. /\ st \in Seq(S) /\ Len(st) = Len(s) + Len(t)
      /\ \A i \in 1 .. Len(s) + Len(t) :
           st[i] = IF i <= Len(s) THEN s[i] ELSE t[i - Len(s)]
      /\ Len(s) \in Nat /\ Len(t) \in Nat
      BY ConcatProperties, LenProperties
<1> HIDE DEF st
<1>2. ASSUME NEW n \in 0 .. Len(s) PROVE SubSeq(st, 1, n) = SubSeq(s, 1, n)
  <2> DEFINE a == SubSeq(st, 1, n)  b == SubSeq(s, 1, n)
  <2>1. /\ a \in Seq(S) /\ Len(a) = n /\ \A i \in 1 .. n : a[i] = st[i]
        BY <1>1, SubSeqProperties
  <2>2. /\ b \in Seq(S) /\ Len(b) = n /\ \A i \in 1 .. n : b[i] = s[i]
        BY <1>1, SubSeqProperties
  <2> HIDE DEF a, b
  <2>3. ASSUME NEW i \in 1 .. n PROVE a[i] = b[i]
        BY <1>1, <2>1, <2>2
  <2>4. a = b
        BY <2>1, <2>2, <2>3, SeqEqual
  <2>5. QED
        BY <2>4 DEF a, b
<1>3. ASSUME NEW j \in 0 .. Len(t)
      PROVE  SubSeq(st, 1, Len(s) + j) = s \o SubSeq(t, 1, j)
  <2> DEFINE u == SubSeq(t, 1, j)  a == SubSeq(st, 1, Len(s) + j)  b == s \o u
  <2>1. /\ u \in Seq(S) /\ Len(u) = j /\ \A i \in 1 .. j : u[i] = t[i]
        BY <1>1, SubSeqProperties
  <2>2. /\ a \in Seq(S) /\ Len(a) = Len(s) + j
        /\ \A i \in 1 .. Len(s) + j : a[i] = st[i]
        BY <1>1, SubSeqProperties
  <2> HIDE DEF a, u
  <2>3. /\ b \in Seq(S) /\ Len(b) = Len(s) + j
        /\ \A i \in 1 .. Len(s) + j : b[i] = IF i <= Len(s) THEN s[i] ELSE u[i - Len(s)]
        BY <2>1, ConcatProperties
  <2> HIDE DEF b
  <2>4. ASSUME NEW i \in 1 .. Len(s) + j PROVE a[i] = b[i]
    <3>1. i \in 1 .. Len(s) + Len(t) /\ i \in Nat
          BY <1>1
    <3>2. a[i] = st[i]
          BY <2>2
    <3>3. CASE i <= Len(s)
          BY <1>1, <2>3, <3>1, <3>2, <3>3
    <3>4. CASE ~(i <= Len(s))
      <4>1. i - Len(s) \in 1 .. j
            BY <1>1, <3>1, <3>4
      <4>2. u[i - Len(s)] = t[i - Len(s)]
            BY <2>1, <4>1
      <4>3. QED
            BY <1>1, <2>3, <3>1, <3>2, <3>4, <4>2
    <3>5. QED
          BY <3>3, <3>4
  <2>5. a = b
        BY <2>2, <2>3, <2>4, SeqEqual
  <2>6. QED
        BY <2>5 DEF a, b, u
<1>4. QED
      BY <1>2, <1>3 DEF st

\* A sequence up to its n-th element is the one before and that element.
LEMMA CutAppend ==
  ASSUME NEW S, NEW s \in Seq(S), NEW n \in 1 .. Len(s)
  PROVE  /\ SubSeq(s, 1, n) = Append(SubSeq(s, 1, n - 1), s[n])
         /\ SubSeq(s, 1, n - 1) \in Seq(S) /\ s[n] \in S
<1> DEFINE a == SubSeq(s, 1, n)  b == SubSeq(s, 1, n - 1)
<1>1. /\ a \in Seq(S) /\ Len(a) = n /\ \A i \in 1 .. n : a[i] = s[i]
      BY SubSeqProperties
<1>2. /\ b \in Seq(S) /\ Len(b) = n - 1 /\ \A i \in 1 .. n - 1 : b[i] = s[i]
      BY SubSeqProperties
<1>3. s[n] \in S /\ n \in Nat
      OBVIOUS
<1> HIDE DEF a, b
<1> DEFINE c == Append(b, s[n])
<1>4. /\ c \in Seq(S) /\ Len(c) = Len(b) + 1
      /\ \A i \in 1 .. Len(b) : c[i] = b[i]
      /\ c[Len(b) + 1] = s[n]
      BY <1>2, <1>3, AppendProperties
<1> HIDE DEF c
<1>5. ASSUME NEW i \in 1 .. n PROVE a[i] = c[i]
  <2>1. CASE i = n
        BY <1>1, <1>2, <1>3, <1>4, <2>1
  <2>2. CASE i # n
        BY <1>1, <1>2, <1>3, <1>4, <2>2
  <2>3. QED
        BY <2>1, <2>2
<1>6. a = c
      BY <1>1, <1>2, <1>3, <1>4, <1>5, SeqEqual
<1>7. QED
      BY <1>2, <1>3, <1>6 DEF a, b, c

-----------------------------------------------------------------------------
(***************************************************************************)
(* One message, behind others that were received whole.                    *)
(***************************************************************************)
Chunk(D) == [state : TransferState, data : D]

LEMMA ChunksType ==
  ASSUME NEW D, NEW x \in Seq(D)
  PROVE  /\ Chunks(x) \in Seq(Chunk(D)) /\ Len(Chunks(x)) = Len(x)
         /\ \A i \in 1 .. Len(x) :
              /\ Chunks(x)[i].data = x[i]
              /\ Chunks(x)[i].state = IF i = Len(x) THEN "end"
                                      ELSE IF i = 1 THEN "begin" ELSE "middle"
<1> DEFINE state(i) == IF i = Len(x) THEN "end" ELSE IF i = 1 THEN "begin" ELSE "middle"
<1>1. Len(x) \in Nat /\ \A i \in 1 .. Len(x) : x[i] \in D
      BY LenProperties
<1>2. \A i \in 1 .. Len(x) : state(i) \in TransferState
      BY DEF TransferState
<1>3. Chunks(x) = [i \in 1 .. Len(x) |-> [state |-> state(i), data |-> x[i]]]
      BY DEF Chunks
<1> HIDE DEF state
<1>4. Chunks(x) \in [1 .. Len(x) -> Chunk(D)]
      BY <1>1, <1>2, <1>3 DEF Chunk
<1>5. Chunks(x) \in Seq(Chunk(D)) /\ Len(Chunks(x)) = Len(x)
      BY <1>1, <1>4
<1>6. \A i \in 1 .. Len(x) : Chunks(x)[i].data = x[i] /\ Chunks(x)[i].state = state(i)
      BY <1>3
<1>7. QED
      BY <1>5, <1>6 DEF state

\* The state after j pieces of x.
Within(ms, x, j) ==
  IF j = Len(x) THEN [buf |-> <<>>, out |-> Append(ms, x)]
  ELSE [buf |-> SubSeq(x, 1, j), out |-> ms]

LEMMA PieceReceived ==
  ASSUME NEW D, NEW ms \in Seq(Seq(D)), NEW x \in Seq(D), NEW j \in 1 .. Len(x)
  PROVE  WithChunk(Within(ms, x, j - 1), Chunks(x)[j]) = Within(ms, x, j)
<1> DEFINE r == Within(ms, x, j - 1)  c == Chunks(x)[j]
<1>1. j \in Nat /\ Len(x) \in Nat /\ j - 1 # Len(x)
      OBVIOUS
<1>2. r.buf = SubSeq(x, 1, j - 1) /\ r.out = ms
      BY <1>1 DEF Within
<1>3. /\ c.data = x[j]
      /\ c.state = IF j = Len(x) THEN "end" ELSE IF j = 1 THEN "begin" ELSE "middle"
      BY ChunksType
<1>4. Buffered(r.buf, c) = SubSeq(x, 1, j)
  <2>1. SubSeq(x, 1, j) = Append(SubSeq(x, 1, j - 1), x[j])
        BY CutAppend
  <2>2. CASE c.state = "begin"
    <3>1. j = 1 /\ SubSeq(x, 1, j - 1) = <<>>
          BY <1>1, <1>3, <2>2
    <3>2. Append(<<>>, x[j]) = <<x[j]>>
          OBVIOUS
    <3> HIDE DEF r, c
    <3>3. QED
          BY <1>3, <2>1, <2>2, <3>1, <3>2 DEF Buffered
  <2>3. CASE c.state # "begin"
    <3> HIDE DEF r, c
    <3>1. QED
          BY <1>2, <1>3, <2>1, <2>3 DEF Buffered
  <2>4. QED
        BY <2>2, <2>3
<1> HIDE DEF r, c
<1>5. CASE j = Len(x)
  <2>1. SubSeq(x, 1, j) = x
        BY <1>5, SubSeqFull
  <2>2. WithChunk(r, c) = [buf |-> <<>>, out |-> ms \o <<x>>]
        BY <1>2, <1>3, <1>4, <1>5, <2>1 DEF WithChunk, Rest, Completed
  <2>3. ms \o <<x>> = Append(ms, x)
        BY AppendIsConcat
  <2>4. QED
        BY <1>5, <2>2, <2>3 DEF Within, r, c
<1>6. CASE j # Len(x)
  <2>1. c.state # "end"
        BY <1>3, <1>6
  <2>2. WithChunk(r, c) = [buf |-> SubSeq(x, 1, j), out |-> ms \o <<>>]
        BY <1>2, <1>4, <2>1 DEF WithChunk, Rest, Completed
  <2>3. ms \o <<>> = ms
        BY ConcatEmptySeq
  <2>4. QED
        BY <1>6, <2>2, <2>3 DEF Within, r, c
<1>7. QED
      BY <1>5, <1>6

LEMMA MessageReceived ==
  ASSUME NEW D, NEW cs \in Seq(Chunk(D)), NEW ms \in Seq(Seq(D)),
         NEW x \in Seq(D), x # <<>>,
         Received(cs) = [buf |-> <<>>, out |-> ms], NEW n \in 0 .. Len(x)
  PROVE  Received(cs \o SubSeq(Chunks(x), 1, n)) = Within(ms, x, n)
<1> DEFINE cx == Chunks(x)
           Q(j) == Received(cs \o SubSeq(cx, 1, j)) = Within(ms, x, j)
           T == {j \in Nat : j \in 0 .. Len(x) /\ ~Q(j)}
<1>0. SUFFICES ASSUME ~Q(n) PROVE FALSE
      OBVIOUS
<1>1. n \in T
      BY <1>0
<1>2. PICK j \in T : \A k \in T : j <= k
  <2> HIDE DEF T
  <2>1. T \in SUBSET Nat BY DEF T
  <2>2. QED BY <1>1, <2>1, LeastElement
<1>3. j \in Nat /\ j \in 0 .. Len(x) /\ ~Q(j)
      OBVIOUS
<1>4. cx \in Seq(Chunk(D)) /\ Len(cx) = Len(x) /\ Len(x) \in Nat \ {0}
      BY ChunksType, EmptySeq
<1> HIDE DEF cx
<1>5. CASE j = 0
  <2>1. SubSeq(cx, 1, 0) = <<>> /\ SubSeq(x, 1, 0) = <<>>
        BY SubSeqEmpty
  <2>2. cs \o <<>> = cs
        BY ConcatEmptySeq
  <2>3. Within(ms, x, 0) = [buf |-> <<>>, out |-> ms]
        BY <1>4, <2>1 DEF Within
  <2>4. QED
        BY <1>3, <1>5, <2>1, <2>2, <2>3
<1>6. CASE j # 0
  <2>1. /\ j \in 1 .. Len(cx) /\ j \in 1 .. Len(x) /\ j - 1 \in Nat
        /\ j - 1 \in 0 .. Len(x) /\ ~(j <= j - 1)
        BY <1>3, <1>4, <1>6
  <2>2. Q(j - 1)
        BY <1>2, <2>1
  <2> DEFINE t == SubSeq(cx, 1, j - 1)  c == cx[j]
  <2>3. SubSeq(cx, 1, j) = Append(t, c) /\ t \in Seq(Chunk(D)) /\ c \in Chunk(D)
        BY <1>4, <2>1, CutAppend
  <2>4. WithChunk(Within(ms, x, j - 1), c) = Within(ms, x, j)
        BY <2>1, PieceReceived DEF cx
  <2>5. Received(cs \o t) = Within(ms, x, j - 1)
        BY <2>2
  <2> HIDE DEF t, c, T, Q
  <2>6. cs \o t \in Seq(Chunk(D)) /\ cs \o Append(t, c) = Append(cs \o t, c)
        BY <2>3, ConcatOfAppend
  <2>7. Received(Append(cs \o t, c)) = WithChunk(Received(cs \o t), c)
        BY <2>3, <2>6, ReceivedAppend
  <2>8. QED
        BY <1>3, <2>3, <2>4, <2>5, <2>6, <2>7 DEF Q
<1>7. QED
      BY <1>5, <1>6

-----------------------------------------------------------------------------
(***************************************************************************)
(* Any number of messages, none of them empty, one after the other.        *)
(***************************************************************************)
Messages(D) == Seq(Seq(D) \ {<<>>})

LEMMA SentAppend ==
  ASSUME NEW D, NEW ms \in Seq(Seq(D)), NEW x \in Seq(D)
  PROVE  /\ Sent(Append(ms, x)) = Sent(ms) \o Chunks(x)
         /\ Sent(ms) \in Seq(Chunk(D))
<1> DEFINE c == [v \in DOMAIN ms |-> Chunks(ms[v])]
           d == [v \in DOMAIN Append(ms, x) |-> Chunks(Append(ms, x)[v])]
           y == Chunks(x)
<1>1. /\ Len(ms) \in Nat /\ DOMAIN ms = 1 .. Len(ms)
      /\ \A v \in 1 .. Len(ms) : ms[v] \in Seq(D)
      BY LenProperties
<1>2. c \in Seq(Seq(Chunk(D))) /\ Len(c) = Len(ms)
  <2>1. \A v \in 1 .. Len(ms) : Chunks(ms[v]) \in Seq(Chunk(D))
        BY <1>1, ChunksType
  <2>2. c \in [1 .. Len(ms) -> Seq(Chunk(D))]
        BY <1>1, <2>1
  <2>3. QED
        BY <1>1, <2>2
<1>3. y \in Seq(Chunk(D))
      BY ChunksType
<1>4. d = Append(c, y)
  <2> DEFINE m == Append(ms, x)  a == Append(c, y)
  <2>1. /\ m \in Seq(Seq(D)) /\ Len(m) = Len(ms) + 1
        /\ \A v \in 1 .. Len(ms) : m[v] = ms[v]
        /\ m[Len(ms) + 1] = x
        BY AppendProperties
  <2>2. /\ a \in Seq(Seq(Chunk(D))) /\ Len(a) = Len(ms) + 1
        /\ \A v \in 1 .. Len(ms) : a[v] = c[v]
        /\ a[Len(ms) + 1] = y
        BY <1>2, <1>3, AppendProperties
  <2>3. \A v \in 1 .. Len(ms) : c[v] = Chunks(ms[v])
        BY <1>1
  <2>4. /\ DOMAIN m = 1 .. Len(ms) + 1 /\ \A v \in DOMAIN m : m[v] \in Seq(D)
        /\ d = [v \in DOMAIN m |-> Chunks(m[v])]
        BY <1>1, <2>1, LenProperties
  <2> HIDE DEF m, a, c, d
  <2>5. d \in [1 .. Len(ms) + 1 -> Seq(Chunk(D))]
        BY <2>4, ChunksType
  <2>6. d \in Seq(Seq(Chunk(D))) /\ Len(d) = Len(ms) + 1
        BY <1>1, <2>5
  <2>7. ASSUME NEW v \in 1 .. Len(ms) + 1 PROVE d[v] = a[v]
    <3>1. d[v] = Chunks(m[v])
          BY <2>4
    <3>2. CASE v = Len(ms) + 1
          BY <2>1, <2>2, <3>1, <3>2
    <3>3. CASE v # Len(ms) + 1
      <4>1. v \in 1 .. Len(ms)
            BY <1>1, <3>3
      <4>2. QED
            BY <2>1, <2>2, <2>3, <3>1, <4>1
    <3>4. QED
          BY <3>2, <3>3
  <2>8. d = a
        BY <2>2, <2>6, <2>7, SeqEqual
  <2>9. QED
        BY <2>8 DEF a
<1>5. Sent(ms) = FlattenSeq(c) /\ Sent(Append(ms, x)) = FlattenSeq(d)
      BY DEF Sent
<1> HIDE DEF c, d, y
<1>6. FlattenSeq(Append(c, y)) = FlattenSeq(c) \o y /\ FlattenSeq(c) \in Seq(Chunk(D))
      BY <1>2, <1>3, FlattenAppend, FlattenType
<1>7. QED
      BY <1>4, <1>5, <1>6 DEF y

\* What is received of ms once n of their chunks have been: a beginning of
\* ms, and the pieces of one that is not complete.
WholeSoFar(ms, got, n) ==
  /\ \E v \in 0 .. Len(ms) : got.out = SubSeq(ms, 1, v)
  /\ FlattenSeq(got.out) \o got.buf = SubSeq(FlattenSeq(ms), 1, n)

ReceivesWhole(D, ms) ==
  /\ Sent(ms) \in Seq(Chunk(D)) /\ Len(Sent(ms)) = Len(FlattenSeq(ms))
  /\ Received(Sent(ms)) = [buf |-> <<>>, out |-> ms]
  /\ \A n \in 0 .. Len(Sent(ms)) : WholeSoFar(ms, Received(SubSeq(Sent(ms), 1, n)), n)

LEMMA NoneReceived == ASSUME NEW D PROVE ReceivesWhole(D, <<>>)
<1> DEFINE e == <<>>
<1>1. Sent(e) = <<>>
  <2>1. [v \in DOMAIN e |-> Chunks(e[v])] = <<>>
        OBVIOUS
  <2>2. QED
        BY <2>1, FlattenEmpty DEF Sent
<1>2. FlattenSeq(e) = <<>>
      BY FlattenEmpty
<1>3. e \in Seq(Chunk(D)) /\ Len(e) = 0 /\ SubSeq(e, 1, 0) = e /\ e \o e = e
      OBVIOUS
<1> DEFINE r == [buf |-> e, out |-> e]
<1>4. Received(e) = r
      BY ReceivedEmpty DEF Waiting
<1>5. r.buf = e /\ r.out = e
      OBVIOUS
<1>6. Sent(e) = e /\ FlattenSeq(e) = e
      BY <1>1, <1>2
<1> HIDE DEF e, r
<1>7. WholeSoFar(e, r, 0)
  <2>1. 0 \in 0 .. 0
        OBVIOUS
  <2>2. QED
        BY <1>3, <1>5, <1>6, <2>1 DEF WholeSoFar
<1>8. \A n \in 0 .. Len(Sent(e)) : WholeSoFar(e, Received(SubSeq(Sent(e), 1, n)), n)
  <2>1. \A n \in 0 .. 0 : n = 0
        OBVIOUS
  <2>2. QED
        BY <1>3, <1>4, <1>6, <1>7, <2>1
<1>9. ReceivesWhole(D, e)
      BY <1>3, <1>4, <1>6, <1>8 DEF ReceivesWhole, r
<1>10. QED
       BY <1>9 DEF e

LEMMA OneMoreReceived ==
  ASSUME NEW D, NEW ms \in Seq(Seq(D)), NEW x \in Seq(D), x # <<>>,
         ReceivesWhole(D, ms)
  PROVE  ReceivesWhole(D, Append(ms, x))
<1> DEFINE more == Append(ms, x)  cs == Sent(ms)  cx == Chunks(x)
           f == FlattenSeq(ms)  L == Len(cs)
<1>1. /\ cs \in Seq(Chunk(D)) /\ L = Len(f) /\ L = Len(cs)
      /\ Received(cs) = [buf |-> <<>>, out |-> ms]
      /\ \A n \in 0 .. L : WholeSoFar(ms, Received(SubSeq(cs, 1, n)), n)
      BY DEF ReceivesWhole
<1>2. /\ cx \in Seq(Chunk(D)) /\ Len(cx) = Len(x) /\ Len(x) \in Nat
      /\ L \in Nat /\ Len(ms) \in Nat
      BY <1>1, ChunksType, LenProperties
<1>3. f \in Seq(D) /\ FlattenSeq(more) = f \o x
      BY FlattenType, FlattenAppend
<1>4. Sent(more) = cs \o cx
      BY SentAppend
<1>5. /\ more \in Seq(Seq(D)) /\ Len(more) = Len(ms) + 1
      /\ more = ms \o <<x>> /\ <<x>> \in Seq(Seq(D))
      BY AppendProperties, AppendIsConcat
<1>6. ASSUME NEW j \in 0 .. Len(x)
      PROVE  Received(cs \o SubSeq(cx, 1, j)) = Within(ms, x, j)
      BY <1>1, MessageReceived
<1> HIDE DEF more, cs, cx, f, L
<1>7. cs \o cx \in Seq(Chunk(D)) /\ Len(cs \o cx) = L + Len(x)
  <2>1. cs \in Seq(Chunk(D)) /\ cx \in Seq(Chunk(D))
        BY <1>1, <1>2
  <2>2. cs \o cx \in Seq(Chunk(D)) /\ Len(cs \o cx) = Len(cs) + Len(cx)
        BY <2>1, ConcatProperties
  <2>3. QED
        BY <1>1, <1>2, <2>2
<1>8. f \o x \in Seq(D) /\ Len(f \o x) = L + Len(x)
      BY <1>1, <1>3, ConcatProperties
<1>9. Received(cs \o cx) = [buf |-> <<>>, out |-> more]
  <2>1. SubSeq(cx, 1, Len(x)) = cx
        BY <1>2, SubSeqFull
  <2>2. Received(cs \o SubSeq(cx, 1, Len(x))) = Within(ms, x, Len(x))
        BY <1>2, <1>6
  <2>3. QED
        BY <2>1, <2>2 DEF Within, more
<1>10. ASSUME NEW n \in 0 .. L + Len(x)
       PROVE  WholeSoFar(more, Received(SubSeq(cs \o cx, 1, n)), n)
  <2>1. CASE n <= L
    <3>1. n \in 0 .. L
          BY <2>1
    <3> DEFINE got == Received(SubSeq(cs, 1, n))
    <3>2. SubSeq(cs \o cx, 1, n) = SubSeq(cs, 1, n)
          BY <1>1, <1>2, <3>1, CutConcat
    <3>3. SubSeq(f \o x, 1, n) = SubSeq(f, 1, n)
      <4>1. f \in Seq(D) /\ n \in 0 .. Len(f)
            BY <1>1, <1>3, <3>1
      <4>2. QED
            BY <4>1, CutConcat
    <3>4. WholeSoFar(ms, got, n)
          BY <1>1, <3>1
    <3> HIDE DEF got
    <3>5. PICK v \in 0 .. Len(ms) : got.out = SubSeq(ms, 1, v)
          BY <3>4 DEF WholeSoFar
    <3>6. SubSeq(more, 1, v) = SubSeq(ms, 1, v)
          BY <1>5, CutConcat
    <3>7. v \in 0 .. Len(more)
          BY <1>2, <1>5
    <3>8. FlattenSeq(got.out) \o got.buf = SubSeq(f, 1, n)
          BY <3>4 DEF WholeSoFar, f
    <3>9. WholeSoFar(more, got, n)
          BY <1>3, <3>3, <3>5, <3>6, <3>7, <3>8 DEF WholeSoFar
    <3>10. QED
          BY <3>2, <3>9 DEF got
  <2>2. CASE n > L
    <3> DEFINE j == n - L  u == SubSeq(cx, 1, j)  got == Within(ms, x, j)
    <3>1. j \in 0 .. Len(x) /\ n = L + j /\ j \in Nat
          BY <1>2, <2>2
    <3> HIDE DEF j
    <3>2. SubSeq(cs \o cx, 1, n) = cs \o u
      <4>1. /\ cs \in Seq(Chunk(D)) /\ cx \in Seq(Chunk(D))
            /\ j \in 0 .. Len(cx) /\ n = Len(cs) + j
            BY <1>1, <1>2, <3>1
      <4>2. QED
            BY <4>1, CutConcat
    <3>3. Received(cs \o u) = got
          BY <1>6, <3>1
    <3>4. SubSeq(f \o x, 1, n) = f \o SubSeq(x, 1, j)
      <4>1. f \in Seq(D) /\ j \in 0 .. Len(x) /\ n = Len(f) + j
            BY <1>1, <1>3, <3>1
      <4>2. QED
            BY <4>1, CutConcat
    <3>5. CASE j = Len(x)
      <4>1. got = [buf |-> <<>>, out |-> more]
            BY <3>5 DEF Within, more
      <4>2. more = SubSeq(more, 1, Len(more)) /\ Len(more) \in 0 .. Len(more)
            BY <1>5, SubSeqFull, LenProperties
      <4>3. (f \o x) \o <<>> = SubSeq(f \o x, 1, n)
            BY <1>8, <3>1, <3>5, SubSeqFull, ConcatEmptySeq
      <4> HIDE DEF got
      <4>4. got.out = more /\ got.buf = <<>>
            BY <4>1
      <4>5. WholeSoFar(more, got, n)
            BY <1>3, <4>2, <4>3, <4>4 DEF WholeSoFar
      <4>6. QED
            BY <3>2, <3>3, <4>5 DEF got
    <3>6. CASE j # Len(x)
      <4>1. got = [buf |-> SubSeq(x, 1, j), out |-> ms]
            BY <3>6 DEF Within
      <4>2. SubSeq(more, 1, Len(ms)) = ms
        <5>1. SubSeq(more, 1, Len(ms)) = SubSeq(ms, 1, Len(ms))
              BY <1>2, <1>5, CutConcat
        <5>2. QED
              BY <5>1, SubSeqFull
      <4>3. Len(ms) \in 0 .. Len(more)
            BY <1>2, <1>5
      <4> HIDE DEF got
      <4>4. got.out = ms /\ got.buf = SubSeq(x, 1, j)
            BY <4>1
      <4>5. FlattenSeq(got.out) \o got.buf = SubSeq(FlattenSeq(more), 1, n)
            BY <1>3, <3>4, <4>4 DEF f
      <4>6. WholeSoFar(more, got, n)
            BY <4>2, <4>3, <4>4, <4>5 DEF WholeSoFar
      <4>7. QED
            BY <3>2, <3>3, <4>6 DEF got
    <3>7. QED
          BY <3>5, <3>6
  <2>3. QED
        BY <1>2, <2>1, <2>2
<1>11. ReceivesWhole(D, more)
       BY <1>3, <1>4, <1>7, <1>8, <1>9, <1>10 DEF ReceivesWhole
<1>12. QED
       BY <1>11 DEF more

LEMMA AllReceived ==
  ASSUME NEW D, NEW ms \in Messages(D)
  PROVE  ReceivesWhole(D, ms) /\ ms \in Seq(Seq(D))
<1> DEFINE M == Seq(D) \ {<<>>}
           T == {n \in Nat : \E d \in Seq(M) : Len(d) = n /\ ~ReceivesWhole(D, d)}
<1>0. \A d \in Seq(M) : Len(d) \in Nat /\ d \in Seq(Seq(D))
      OBVIOUS
<1>1. ms \in Seq(M)
      BY DEF Messages
<1>2. SUFFICES ASSUME ~ReceivesWhole(D, ms) PROVE FALSE
      BY <1>0, <1>1
<1>3. Len(ms) \in T
      BY <1>0, <1>1, <1>2
<1>4. PICK n \in T : \A k \in T : n <= k
  <2> HIDE DEF T
  <2>1. T \in SUBSET Nat BY DEF T
  <2>2. QED BY <1>3, <2>1, LeastElement
<1>5. PICK d \in Seq(M) : Len(d) = n /\ ~ReceivesWhole(D, d)
      OBVIOUS
<1>6. d # <<>>
      BY <1>5, NoneReceived
<1>7. PICK c \in Seq(M), x \in M : d = Append(c, x)
  <2> HIDE DEF M, T
  <2>1. QED BY <1>6, SequenceEmptyOrAppend
<1>8. Len(c) \in Nat /\ ~(n <= Len(c))
  <2>1. n \in Nat /\ n = Len(c) + 1 /\ Len(c) \in Nat
    <3>1. Len(d) = Len(c) + 1 /\ Len(c) \in Nat
      <4> HIDE DEF M, T
      <4>1. QED BY <1>7, AppendProperties, LenProperties
    <3>2. QED BY <1>5, <3>1
  <2>2. QED
        BY <2>1
<1>9. ReceivesWhole(D, c)
      BY <1>4, <1>8
<1>10. c \in Seq(Seq(D)) /\ x \in Seq(D) /\ x # <<>>
       BY <1>0
<1> HIDE DEF T, M
<1>11. QED
       BY <1>5, <1>7, <1>9, <1>10, OneMoreReceived

-----------------------------------------------------------------------------
(***************************************************************************)
(* The lists of transitions between the two sides are such messages.       *)
(***************************************************************************)
LEMMA SentWhole ==
  ASSUME NEW S, NEW lists \in Seq(S), NEW cut \in [DOMAIN lists -> 1 .. 3]
  PROVE  LET msgs == [v \in DOMAIN lists |-> Message(lists[v], cut[v])] IN
         \A n \in 0 .. Len(Sent(msgs)) :
           LET got == Received(SubSeq(Sent(msgs), 1, n)) IN
           /\ IsPrefix(got.out, msgs)
           /\ FlattenSeq(got.out) \o got.buf = SubSeq(FlattenSeq(msgs), 1, n)
<1> DEFINE msgs == [v \in DOMAIN lists |-> Message(lists[v], cut[v])]
           D == S \X (1 .. 3)
<1>1. msgs \in Messages(D)
  <2>1. /\ Len(lists) \in Nat /\ DOMAIN lists = 1 .. Len(lists)
        /\ \A v \in DOMAIN lists : lists[v] \in S
        BY LenProperties
  <2>2. ASSUME NEW v \in DOMAIN lists
        PROVE  Message(lists[v], cut[v]) \in Seq(D) \ {<<>>}
    <3> DEFINE m == Message(lists[v], cut[v])
    <3>1. cut[v] \in 1 .. 3 /\ cut[v] \in Nat
          OBVIOUS
    <3>2. m \in [1 .. cut[v] -> D]
      <4>1. \A i \in 1 .. cut[v] : <<lists[v], i>> \in D
            BY <2>1, <3>1
      <4>2. QED
            BY <4>1 DEF Message
    <3>3. m \in Seq(D) /\ Len(m) = cut[v]
          BY <3>1, <3>2
    <3> HIDE DEF m
    <3>4. m # <<>>
          BY <3>1, <3>3
    <3>5. QED
          BY <3>3, <3>4 DEF m
  <2> DEFINE M == Seq(D) \ {<<>>}
  <2>3. msgs \in [1 .. Len(lists) -> M]
        BY <2>1, <2>2
  <2> HIDE DEF M, msgs
  <2>4. msgs \in Seq(M)
        BY <2>1, <2>3
  <2>5. QED
        BY <2>4 DEF M, Messages
<1> HIDE DEF msgs, D
<1>2. ReceivesWhole(D, msgs) /\ msgs \in Seq(Seq(D))
      BY <1>1, AllReceived
<1>3. ASSUME NEW n \in 0 .. Len(Sent(msgs)), NEW got,
             got = Received(SubSeq(Sent(msgs), 1, n))
      PROVE  /\ IsPrefix(got.out, msgs)
             /\ FlattenSeq(got.out) \o got.buf = SubSeq(FlattenSeq(msgs), 1, n)
  <2>1. WholeSoFar(msgs, got, n)
        BY <1>2, <1>3 DEF ReceivesWhole
  <2>2. PICK v \in 0 .. Len(msgs) : got.out = SubSeq(msgs, 1, v)
        BY <2>1 DEF WholeSoFar
  <2>3. Len(got.out) = v /\ Len(msgs) \in Nat
    <3>1. msgs \in Seq(Seq(D)) /\ Len(msgs) \in Nat /\ v \in Nat
          BY <1>2, LenProperties
    <3> DEFINE u == SubSeq(msgs, 1, v)
    <3>2. Len(u) = v
          BY <3>1, <2>2, SubSeqProperties
    <3>3. QED
          BY <2>2, <3>1, <3>2
  <2>4. SubSeq(got.out, 1, v) = got.out
    <3>1. got.out \in Seq(Seq(D))
          BY <1>2, <2>2, SubSeqProperties
    <3>2. QED
          BY <2>3, <3>1, SubSeqFull
  <2>5. IsPrefix(got.out, msgs)
        BY <2>2, <2>3, <2>4 DEF IsPrefix
  <2>6. QED
        BY <2>1, <2>5 DEF WholeSoFar
<1>4. QED
      BY <1>3 DEF msgs

LEMMA TypeImpliesWhole == TypeInv => NoTornMessage
<1> SUFFICES ASSUME TypeInv PROVE NoTornMessage
    OBVIOUS
<1> DEFINE w == wire["transitions"]  q == queue["transitions"]
           S == Seq(Transition)
<1>1. w \in Seq(S) /\ q \in Seq(S)
  <2>1. Carries(wire) /\ Carries(queue)
        BY TypeInvImplies DEF TypeOK
  <2>2. "transitions" \in Streams /\ Payload("transitions") = S
        BY DEF Payload, Streams, ToLearner
  <2>3. QED
        BY <2>1, <2>2 DEF Carries
<1>2. w \o q \in Seq(S)
      BY <1>1, ConcatProperties
<1>3. QED
      BY <1>2, SentWhole DEF NoTornMessage

\* Whatever the lists of transitions under way, their order and their cuts into
\* chunks, what arrives is a beginning of them, each whole.
THEOREM NothingIsTorn == Spec => []NoTornMessage
<1>1. /\ Init => TypeInv
      /\ TypeInv /\ [Next]_vars => TypeInv'
      BY TypeInit, TypeStep
<1>2. TypeInv => NoTornMessage
      BY TypeImpliesWhole
<1>3. QED
      BY <1>1, <1>2, PTL DEF Spec
=============================================================================
