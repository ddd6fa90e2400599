--------------------------- MODULE MCActivityFeed ---------------------------
(* A small instance of ActivityFeed for TLC. *)
EXTENDS ActivityFeed, TLC

Symmetry == Permutations(Users) \cup Permutations(Groups)
            \cup Permutations(Writers) \cup Permutations(Sessions)
            \cup Permutations(Clients)

(* Bound: a client walks only while no mark statement is in flight (what a  *)
(* walk shows does not depend on what is read), and two of them are in     *)
(* flight at once only as long as one user acted.                          *)
RaceBound ==
    /\ (\E c \in Clients : walk[c] # Idle) => \A i \in Sessions : stmt[i] = Idle
    /\ (\E i, j \in Sessions : i # j /\ stmt[i] # Idle /\ stmt[j] # Idle) =>
          \A s, t \in Seqs : event[s] # NoEvent /\ event[t] # NoEvent
                             => event[s].actor = event[t].actor
=============================================================================
