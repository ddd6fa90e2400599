----------------------------- MODULE Membership -----------------------------
(***************************************************************************)
(* What the rest of the system may rely on about groups: who owns a group, *)
(* who is in it and whether it is deleted, changing one membership at a    *)
(* time.  A live group keeps its owner as a member, and a deleted group    *)
(* stays deleted.                                                          *)
(***************************************************************************)
CONSTANTS Users, Groups,
          NoOwner  \* the owner of a group that does not exist yet

VARIABLES owner, members, deleted
vars == <<owner, members, deleted>>

Init == /\ owner = [g \in Groups |-> NoOwner]
        /\ members = [g \in Groups |-> {}]
        /\ deleted = {}

Live(g) == owner[g] # NoOwner /\ g \notin deleted

Found(g, u) ==
    /\ owner[g] = NoOwner
    /\ owner' = [owner EXCEPT ![g] = u]
    /\ members' = [members EXCEPT ![g] = {u}]
    /\ UNCHANGED deleted

Join(g, u) ==
    /\ owner[g] # NoOwner
    /\ members' = [members EXCEPT ![g] = @ \cup {u}]
    /\ UNCHANGED <<owner, deleted>>

(* Of a live group, everyone but the owner may leave. *)
Leave(g, u) ==
    /\ Live(g) => u # owner[g]
    /\ members' = [members EXCEPT ![g] = @ \ {u}]
    /\ UNCHANGED <<owner, deleted>>

Delete(g) ==
    /\ Live(g)
    /\ deleted' = deleted \cup {g}
    /\ UNCHANGED <<owner, members>>

Next == \E g \in Groups : \/ \E u \in Users : Found(g, u) \/ Join(g, u) \/ Leave(g, u)
                          \/ Delete(g)

Spec == Init /\ [][Next]_vars
=============================================================================
