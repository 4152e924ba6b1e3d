-------------------------- MODULE MCRuntimeChannel --------------------------
(* Instances of RuntimeChannel for TLC: what the behaviours may meet. *)
EXTENDS RuntimeChannel

Undisturbed ==
    [others |-> TRUE, changes |-> 4, attempts |-> 2, robots |-> 0, failures |-> 0,
     loads |-> 0, losses |-> 0, restarts |-> 0, reloads |-> 0]

\* Other browsers keep the loop publishing, robots report from threads of their
\* own, and the connection is lost once.
Shared == [Undisturbed EXCEPT !.attempts = 1, !.robots = 1, !.losses = 1]

\* One browser alone, a loop's queue of one item, and everything that fails.
Alone == [Undisturbed EXCEPT !.others = FALSE, !.changes = 1, !.failures = 1,
                             !.loads = 1, !.restarts = 1, !.reloads = 1]

SharedOrAlone == {Shared, Alone}
=============================================================================
