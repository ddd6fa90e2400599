---------------------------- MODULE GroupStream ----------------------------
(***************************************************************************)
(* The live stream on top of the group service.  A handler reads its       *)
(* user's groups once, when the stream opens, and the snapshot joins       *)
(* group_members and groups; so all the stream knows of memberships are    *)
(* those of the groups that are not deleted, which ActivityStream lets     *)
(* change as they like and the transactions of GroupMembership change      *)
(* here.                                                                   *)
(***************************************************************************)
EXTENDS GroupMembership, Integers

CONSTANTS Conns, FairConns, Actors, MaxEvents, MaxRestarts, BufferSize,
          MinBackoff, MaxBackoff, NoUser  \* as in ActivityStream

VARIABLES log,
          link, notes, loop, delay, cur,         \* the LISTEN loop
          todo, subs, buffer, closed, panicked,  \* the hub
          pc, user, groups, client,              \* the connections
          owed, gap, dropped, restarts           \* the ledger

Shown == [g \in Groups |-> IF g \in Deleted THEN {} ELSE members[g]]

L == INSTANCE ActivityStream WITH members <- Shown, Movers <- Users, Dying <- Groups

groupStreamVars == <<vars, log, link, notes, loop, delay, cur, todo, subs, buffer, closed,
                     panicked, pc, user, groups, client, owed, gap, dropped, restarts>>

GroupStreamInit == Init /\ L!Init

-----------------------------------------------------------------------------
(* A transaction of the group service does nothing to the stream but that  *)
(* a connection is no longer owed what its user cannot see any more.       *)
Lost(c) == {g \in Groups : user[c] \in Shown[g] \ Shown'[g]}
Loses   == \E g \in Groups : Shown[g] \ Shown'[g] # {}

StreamFollows ==
    /\ owed' = IF Loses THEN [c \in Conns |-> owed[c] \ Lost(c)] ELSE owed
    /\ UNCHANGED <<log, link, notes, loop, delay, cur, todo, subs, buffer, closed, panicked,
                   pc, user, groups, client, gap, dropped, restarts>>

GroupStreamNext ==
    \/ Next /\ StreamFollows
    \/ UNCHANGED vars /\ L!Next

GroupStreamSpec == GroupStreamInit /\ [][GroupStreamNext]_groupStreamVars

-----------------------------------------------------------------------------
(* Property *)

(* The stream's assumptions about memberships are what the group service   *)
(* does: a behaviour of the two together is one of the stream.             *)
StreamSpec == L!Spec
=============================================================================
