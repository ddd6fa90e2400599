-------------------------- MODULE GroupMembership --------------------------
(***************************************************************************)
(* Groups and who is in them, as the group service changes them: create,   *)
(* rename, invite, leave and soft-delete.  Each request reads the group,   *)
(* decides, and then runs one or more transactions of its own; a request   *)
(* may end after any of them, with what it has done left standing.         *)
(***************************************************************************)
EXTENDS FiniteSets

CONSTANTS Users, Groups, Names,
          Requests,   \* requests in flight
          NoGroup,    \* a group id that is not drawn yet
          NoRequest,  \* a request slot that is free
          NoOwner     \* the owner, to the abstract specification, of no group

Group == [owner : Users, name : Names, deleted : BOOLEAN]

ASSUME GroupsAssumption == NoGroup \notin Group /\ NoOwner \notin Users

VARIABLES
    group,     \* groups, by id
    members,   \* group_members
    accounts,  \* the rows of users
    request    \* the requests in flight

vars == <<group, members, accounts, request>>

Request == [at : {"rename", "check", "invite", "join", "list", "mark", "sweep",
                  "leave", "unlist"},
            by : Users,             \* who asks
            group : Groups,
            user : Users,           \* who is invited or leaves
            name : Names,
            members : SUBSET Users] \* whom a delete has yet to remove

ASSUME RequestAssumption == NoRequest \notin Request

TypeOK ==
    /\ group \in [Groups -> Group \cup {NoGroup}]
    /\ members \in [Groups -> SUBSET Users]
    /\ accounts \in SUBSET Users
    /\ request \in [Requests -> Request \cup {NoRequest}]

-----------------------------------------------------------------------------
Live(g) == group[g] # NoGroup /\ ~group[g].deleted

(* GetGroupById, GroupExists: a live group the caller is a member of *)
Sees(u, g) == Live(g) /\ u \in members[g]

(* The partial unique index on (owner_id, name) WHERE NOT deleted, for a   *)
(* row about to be written under id g                                      *)
NameIsTaken(g, owner, name) ==
    \E h \in Groups \ {g} : Live(h) /\ group[h].owner = owner /\ group[h].name = name

At(r, step)   == request[r] # NoRequest /\ request[r].at = step
Free(r)       == request[r] = NoRequest
End(r)        == request' = [request EXCEPT ![r] = NoRequest]
GoTo(r, step) == request' = [request EXCEPT ![r].at = step]

Begin(r, step, by, g, user, name) ==
    request' = [request EXCEPT ![r] = [at |-> step, by |-> by, group |-> g, user |-> user,
                                       name |-> name, members |-> {}]]

Init == /\ group = [g \in Groups |-> NoGroup]
        /\ members = [g \in Groups |-> {}]
        /\ accounts = Users
        /\ request = [r \in Requests |-> NoRequest]

-----------------------------------------------------------------------------
(* CreateGroup: the row and the owner's membership in one transaction, then *)
(* the owner's group list, which is the same table, again.                  *)
CreateGroup(r, u, g, name) ==
    /\ Free(r) /\ u \in accounts
    /\ group[g] = NoGroup
    /\ ~NameIsTaken(g, u, name)
    /\ group' = [group EXCEPT ![g] = [owner |-> u, name |-> name, deleted |-> FALSE]]
    /\ members' = [members EXCEPT ![g] = {u}]
    /\ Begin(r, "join", u, g, u, name)
    /\ UNCHANGED accounts

(* UpdateUserGroup: inserts the membership whatever became of the group or *)
(* of the user since.                                                      *)
UpdateUserGroup(r) ==
    /\ At(r, "join")
    /\ members' = [members EXCEPT ![request[r].group] = @ \cup {request[r].user}]
    /\ End(r)
    /\ UNCHANGED <<group, accounts>>

-----------------------------------------------------------------------------
(* UpdateGroupInfo: the owner is checked on what was read. *)
StartRename(r, u, g, name) ==
    /\ Free(r) /\ u \in accounts
    /\ Sees(u, g) /\ group[g].owner = u
    /\ Begin(r, "rename", u, g, u, name)
    /\ UNCHANGED <<group, members, accounts>>

(* Wrong on purpose: the name was seen free when the request began. *)
RenameUnchecked(r) ==
    /\ At(r, "rename")
    /\ LET g == request[r].group
       IN  group' = IF Live(g) THEN [group EXCEPT ![g].name = request[r].name] ELSE group
    /\ End(r)
    /\ UNCHANGED <<members, accounts>>

(* The write, if the group is still there and the name is free. *)
UpdateGroupInfoRow(r) ==
    /\ At(r, "rename")
    /\ LET g == request[r].group
           ok == Live(g) /\ ~NameIsTaken(g, group[g].owner, request[r].name)
       IN  group' = IF ok THEN [group EXCEPT ![g].name = request[r].name] ELSE group
    /\ End(r)
    /\ UNCHANGED <<members, accounts>>

-----------------------------------------------------------------------------
(* AddUserToGroup: the handler looks for the group and the user, the       *)
(* service for the owner ...                                               *)
StartInvite(r, u, g, v) ==
    /\ Free(r) /\ u \in accounts /\ v \in accounts
    /\ Sees(u, g) /\ group[g].owner = u
    /\ Begin(r, "check", u, g, v, group[g].name)
    /\ UNCHANGED <<group, members, accounts>>

(* ... and the transaction only that the owner is a member, deleted or not. *)
GroupHasMember(r) ==
    /\ At(r, "check")
    /\ IF request[r].by \in members[request[r].group] THEN GoTo(r, "invite") ELSE End(r)
    /\ UNCHANGED <<group, members, accounts>>

AddGroupMember(r) ==
    /\ At(r, "invite")
    /\ members' = [members EXCEPT ![request[r].group] = @ \cup {request[r].user}]
    /\ GoTo(r, "join")
    /\ UNCHANGED <<group, accounts>>

-----------------------------------------------------------------------------
(* SoftDeleteGroup: the group is read, its members by a second query ... *)
StartDelete(r, u, g) ==
    /\ Free(r) /\ u \in accounts
    /\ Sees(u, g)
    /\ Begin(r, "list", u, g, u, group[g].name)
    /\ UNCHANGED <<group, members, accounts>>

(* Wrong on purpose: the members are removed before the group is marked. *)
SweepBeforeMark(r) ==
    /\ At(r, "list")
    /\ LET g == request[r].group
       IN  IF group[g].owner = request[r].by
           THEN request' = [request EXCEPT ![r].at = "sweep", ![r].members = members[g]]
           ELSE End(r)
    /\ UNCHANGED <<group, members, accounts>>

GetGroupMemberIds(r) ==
    /\ At(r, "list")
    /\ LET g == request[r].group
       IN  IF group[g].owner = request[r].by
           THEN request' = [request EXCEPT ![r].at = "mark", ![r].members = members[g]]
           ELSE End(r)
    /\ UNCHANGED <<group, members, accounts>>

(* ... it is marked, unless someone else marked it first ... *)
SoftDeleteGroupRow(r) ==
    /\ At(r, "mark")
    /\ LET g == request[r].group
       IN  IF Live(g)
           THEN group' = [group EXCEPT ![g].deleted = TRUE] /\ GoTo(r, "sweep")
           ELSE UNCHANGED group /\ End(r)
    /\ UNCHANGED <<members, accounts>>

(* ... and the members it had when it was read are removed one by one. *)
RemoveGroupFromUser(r, u) ==
    /\ At(r, "sweep") /\ u \in request[r].members
    /\ members' = [members EXCEPT ![request[r].group] = @ \ {u}]
    /\ IF request[r].members = {u} THEN End(r)
       ELSE request' = [request EXCEPT ![r].members = @ \ {u}]
    /\ UNCHANGED <<group, accounts>>

-----------------------------------------------------------------------------
(* Wrong on purpose: the owner may leave. *)
AnyoneLeaves(r, u, g) ==
    /\ Free(r) /\ u \in accounts
    /\ Sees(u, g)
    /\ Begin(r, "leave", u, g, u, group[g].name)
    /\ UNCHANGED <<group, members, accounts>>

(* LeaveGroup: the owner cannot. *)
StartLeave(r, u, g) ==
    /\ Free(r) /\ u \in accounts
    /\ Sees(u, g) /\ group[g].owner # u
    /\ Begin(r, "leave", u, g, u, group[g].name)
    /\ UNCHANGED <<group, members, accounts>>

(* RemoveUserFromGroup: refused once the group is deleted; then the same   *)
(* row again, from the user's group list.                                  *)
RemoveUserFromGroup(r) ==
    /\ At(r, "leave")
    /\ IF Live(request[r].group)
       THEN /\ members' = [members EXCEPT ![request[r].group] = @ \ {request[r].user}]
            /\ GoTo(r, "unlist")
       ELSE UNCHANGED members /\ End(r)
    /\ UNCHANGED <<group, accounts>>

UnlistGroup(r) ==
    /\ At(r, "unlist")
    /\ members' = [members EXCEPT ![request[r].group] = @ \ {request[r].user}]
    /\ End(r)
    /\ UNCHANGED <<group, accounts>>

-----------------------------------------------------------------------------
(* A statement fails, the client goes or the server stops between two of   *)
(* the request's transactions.                                             *)
Abandon(r) ==
    /\ ~Free(r)
    /\ End(r)
    /\ UNCHANGED <<group, members, accounts>>

(* Users delete their account: memberships and groups carry no foreign    *)
(* key to it and stay.                                                     *)
DeleteUserById(u) ==
    /\ u \in accounts
    /\ accounts' = accounts \ {u}
    /\ UNCHANGED <<group, members, request>>

Next == \/ \E r \in Requests :
              \/ \E u \in Users, g \in Groups :
                    \/ \E name \in Names : CreateGroup(r, u, g, name) \/ StartRename(r, u, g, name)
                    \/ \E v \in Users : StartInvite(r, u, g, v)
                    \/ StartDelete(r, u, g) \/ StartLeave(r, u, g)
              \/ UpdateUserGroup(r) \/ UpdateGroupInfoRow(r)
              \/ GroupHasMember(r) \/ AddGroupMember(r)
              \/ GetGroupMemberIds(r) \/ SoftDeleteGroupRow(r)
              \/ \E u \in Users : RemoveGroupFromUser(r, u)
              \/ RemoveUserFromGroup(r) \/ UnlistGroup(r) \/ Abandon(r)
        \/ \E u \in Users : DeleteUserById(u)

Spec == Init /\ [][Next]_vars

-----------------------------------------------------------------------------
(* Properties *)

(* The owner of a live group is in it, so it can always be seen, renamed   *)
(* and deleted by someone: no leave, no half done create or delete and no  *)
(* race between them orphans it.                                           *)
OwnerIsMember == \A g \in Groups : Live(g) => group[g].owner \in members[g]

(* What a request in flight has established stays true while others run:   *)
(* its group exists, a group whose members are being removed is deleted,   *)
(* and who is about to leave does so of their own accord and is not the    *)
(* owner.                                                                  *)
Sound(r) ==
    request[r] # NoRequest =>
       /\ group[request[r].group] # NoGroup
       /\ At(r, "sweep") => group[request[r].group].deleted
       /\ At(r, "leave") \/ At(r, "unlist") =>
             /\ request[r].by = request[r].user
             /\ request[r].user # group[request[r].group].owner
RequestsAreSound == \A r \in Requests : Sound(r)

(* No two live groups of an owner share a name, whichever creates and      *)
(* renames race.                                                           *)
NamesUniquePerOwner ==
    \A g, h \in Groups :
       Live(g) /\ Live(h) /\ group[g].owner = group[h].owner /\ group[g].name = group[h].name
       => g = h

(* A deleted group's row never changes again: a rename or a second delete  *)
(* that read it before it was deleted writes nothing.                      *)
DeletedGroupIsFrozen ==
    [][\A g \in Groups : group[g] # NoGroup /\ group[g].deleted => group'[g] = group[g]]_vars

(* A member of a live group is removed only by a leave of their own, never *)
(* by a delete that has not taken effect or by someone else's request.     *)
LiveMembersLeaveThemselves ==
    [][\A g \in Groups : \A u \in members[g] \ members'[g] :
         Live(g) => \E r \in Requests :
                       /\ At(r, "leave") \/ At(r, "unlist")
                       /\ request[r].by = u /\ request[r].group = g]_vars

(* The service implements the abstract membership the other components     *)
(* rely on: every step changes at most one membership, no live group loses *)
(* its owner, none is half created and none is deleted twice.              *)
Owners  == [g \in Groups |-> IF group[g] = NoGroup THEN NoOwner ELSE group[g].owner]
Deleted == {g \in Groups : group[g] # NoGroup /\ group[g].deleted}
M == INSTANCE Membership WITH owner <- Owners, deleted <- Deleted
MembershipSpec == M!Spec
=============================================================================
