-------------------------- MODULE MCMovementOrders --------------------------
(* Instances of MovementOrders for TLC: identities are model values. *)
EXTENDS MovementOrders, TLC

\* A bound: cancellations or the administrator's actions, not both in one
\* behaviour; MCRecovery.cfg mixes them.
OneTrouble == overrides = 0 \/ \A o \in Orders : cancelPosts[o] = 0

\* Orders, racks and cells are interchangeable.
Symmetry == Permutations(Orders) \cup Permutations(Racks) \cup Permutations(Cells)
=============================================================================
