----------------------------- MODULE GroupFeed -----------------------------
(***************************************************************************)
(* The activity feed on top of the group service.  The feed's queries join *)
(* group_members and groups and filter by nothing else, so the two meet in *)
(* these tables only: ActivityFeed lets memberships change as they like,   *)
(* and here it is the transactions of GroupMembership that change them.    *)
(***************************************************************************)
EXTENDS GroupMembership, Integers

CONSTANTS Writers, Sessions, Clients, MaxSeq, PageLimit,
          NoEvent, Idle  \* as in ActivityFeed

VARIABLES lastSeq, event, open, committed,  \* the log
          floor, exceptions,                \* read state
          stmt, walk                        \* statements and walks in flight

F == INSTANCE ActivityFeed WITH deleted <- Deleted

feedVars      == <<lastSeq, event, open, committed, floor, exceptions, stmt, walk>>
groupFeedVars == <<vars, feedVars>>

GroupFeedInit == Init /\ F!Init

-----------------------------------------------------------------------------
(* Somebody, or a whole group, disappears from a feed in this step. *)
Hides == Deleted' # Deleted \/ \E g \in Groups : members[g] \ members'[g] # {}

(* What a transaction of the group service does to the feed: a deleted     *)
(* account takes its floor and its exception rows with it, and a walk is   *)
(* no longer owed what its reader cannot see any more.                     *)
FeedFollows ==
    /\ \/ accounts' = accounts /\ UNCHANGED <<floor, exceptions>>
       \/ \E u \in accounts \ accounts' : /\ floor' = [floor EXCEPT ![u] = 0]
                                          /\ exceptions' = [exceptions EXCEPT ![u] = {}]
    /\ walk' = IF Hides THEN F!StillVisible(members', Deleted') ELSE walk
    /\ UNCHANGED <<lastSeq, event, open, committed, stmt>>

(* activity_events.group_id is a foreign key: no event without a group.    *)
EventsHaveGroups == \A s \in F!Seqs : event[s] # NoEvent => group[event[s].group] # NoGroup

GroupFeedNext ==
    \/ Next /\ FeedFollows
    \/ UNCHANGED vars /\ F!Next /\ EventsHaveGroups'

GroupFeedSpec == GroupFeedInit /\ [][GroupFeedNext]_groupFeedVars

-----------------------------------------------------------------------------
(* Properties *)

(* The feed's assumptions about its surroundings are what the group        *)
(* service does: a behaviour of the two together is one of the feed.       *)
FeedSpec == F!Spec

(* A group that does not exist yet has no members, so founding it shows    *)
(* its feed to its owner and to nobody else.                               *)
NobodyIsInNoGroup == \A g \in Groups : group[g] = NoGroup => members[g] = {}
=============================================================================
