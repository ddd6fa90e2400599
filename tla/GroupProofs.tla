----------------------------- MODULE GroupProofs -----------------------------
(***************************************************************************)
(* Theorems about groups: GroupMembership, for every set of users, groups, *)
(* names and requests, its types, its safety and that it implements        *)
(* Membership; GroupFeed and GroupStream, that the feed and the stream     *)
(* find the surroundings they assume; GroupTitles, for every set of        *)
(* titles, seasons and calls and every bound on dates, that it finds them  *)
(* too, and that what a group has watched survives the races of its        *)
(* updates.                                                                *)
(***************************************************************************)
EXTENDS GroupFeed, GroupStream, GroupTitles, WellFoundedInduction, TLAPS

(* Whatever a request does next, it stays a request or its slot is freed.  *)
LEMMA RequestType ==
    ASSUME TypeOK, NEW r \in Requests
    PROVE  LET Requested == request' \in [Requests -> Request \cup {NoRequest}]
           IN  /\ End(r) => Requested
               /\ \A step \in {"invite", "join", "sweep", "unlist"} :
                     ~Free(r) /\ GoTo(r, step) => Requested
               /\ \A step \in {"rename", "check", "join", "list", "leave"} :
                     \A u, v \in Users, g \in Groups, name \in Names :
                        Begin(r, step, u, g, v, name) => Requested
  <1>1. End(r) => request' \in [Requests -> Request \cup {NoRequest}]
    BY DEF End, TypeOK
  <1>2. ASSUME NEW step \in {"invite", "join", "sweep", "unlist"}, ~Free(r), GoTo(r, step)
        PROVE  request' \in [Requests -> Request \cup {NoRequest}]
    BY <1>2 DEF GoTo, Free, TypeOK, Request
  <1>3. ASSUME NEW step \in {"rename", "check", "join", "list", "leave"},
               NEW u \in Users, NEW v \in Users, NEW g \in Groups, NEW name \in Names,
               Begin(r, step, u, g, v, name)
        PROVE  request' \in [Requests -> Request \cup {NoRequest}]
    BY <1>3 DEF Begin, TypeOK, Request
  <1> QED
    BY <1>1, <1>2, <1>3

(* Every step keeps the types. *)
LEMMA TypeStep == TypeOK /\ [Next]_vars => TypeOK'
  <1> SUFFICES ASSUME TypeOK, [Next]_vars PROVE TypeOK'
    OBVIOUS
  <1> USE GroupsAssumption, RequestAssumption
  <1>1. ASSUME NEW r \in Requests, NEW u \in Users, NEW g \in Groups, NEW name \in Names,
               CreateGroup(r, u, g, name)
        PROVE  TypeOK'
    BY <1>1, RequestType DEF CreateGroup, TypeOK, Group
  <1>2. ASSUME NEW r \in Requests, NEW u \in Users, NEW g \in Groups, NEW name \in Names,
               StartRename(r, u, g, name)
        PROVE  TypeOK'
    BY <1>2, RequestType DEF StartRename, TypeOK
  <1>3. ASSUME NEW r \in Requests, NEW u \in Users, NEW g \in Groups, NEW v \in Users,
               StartInvite(r, u, g, v)
        PROVE  TypeOK'
    <2>1. group[g].name \in Names
      BY <1>3 DEF StartInvite, Sees, Live, TypeOK, Group
    <2> QED
      BY <1>3, <2>1, RequestType DEF StartInvite, TypeOK
  <1>4. ASSUME NEW r \in Requests, NEW u \in Users, NEW g \in Groups,
               StartDelete(r, u, g) \/ StartLeave(r, u, g)
        PROVE  TypeOK'
    <2>1. group[g].name \in Names
      BY <1>4 DEF StartDelete, StartLeave, Sees, Live, TypeOK, Group
    <2> QED
      BY <1>4, <2>1, RequestType DEF StartDelete, StartLeave, TypeOK
  <1>5. ASSUME NEW r \in Requests, UpdateUserGroup(r) PROVE TypeOK'
    BY <1>5, RequestType DEF UpdateUserGroup, At, TypeOK, Request
  <1>6. ASSUME NEW r \in Requests, UpdateGroupInfoRow(r) PROVE TypeOK'
    BY <1>6, RequestType DEF UpdateGroupInfoRow, At, Live, TypeOK, Request, Group
  <1>7. ASSUME NEW r \in Requests, GroupHasMember(r) PROVE TypeOK'
    BY <1>7, RequestType DEF GroupHasMember, At, Free, TypeOK
  <1>8. ASSUME NEW r \in Requests, AddGroupMember(r) PROVE TypeOK'
    BY <1>8, RequestType DEF AddGroupMember, At, Free, TypeOK, Request
  <1>9. ASSUME NEW r \in Requests, GetGroupMemberIds(r) PROVE TypeOK'
    <2> DEFINE g == request[r].group
    <2>1. request[r] \in Request /\ members[g] \in SUBSET Users
      BY <1>9 DEF GetGroupMemberIds, At, TypeOK, Request
    <2>2. CASE request' = [request EXCEPT ![r].at = "mark", ![r].members = members[g]]
      <3>1. [request[r] EXCEPT !.at = "mark", !.members = members[g]] \in Request
        BY <2>1 DEF Request
      <3>2. request' \in [Requests -> Request \cup {NoRequest}]
        BY <2>2, <3>1 DEF TypeOK
      <3> QED
        BY <1>9, <3>2 DEF GetGroupMemberIds, TypeOK
    <2>3. CASE End(r)
      BY <1>9, <2>3, RequestType DEF GetGroupMemberIds, TypeOK
    <2> QED
      BY <1>9, <2>2, <2>3 DEF GetGroupMemberIds
  <1>10. ASSUME NEW r \in Requests, SoftDeleteGroupRow(r) PROVE TypeOK'
    <2> DEFINE g == request[r].group
    <2>1. g \in Groups /\ ~Free(r)
      BY <1>10 DEF SoftDeleteGroupRow, At, Free, TypeOK, Request
    <2>2. CASE Live(g)
      <3>1. group' = [group EXCEPT ![g].deleted = TRUE] /\ GoTo(r, "sweep")
        BY <1>10, <2>2 DEF SoftDeleteGroupRow
      <3>2. group' \in [Groups -> Group \cup {NoGroup}]
        BY <2>1, <2>2, <3>1 DEF Live, TypeOK, Group
      <3> QED
        BY <1>10, <2>1, <3>1, <3>2, RequestType DEF SoftDeleteGroupRow, TypeOK
    <2>3. CASE ~Live(g)
      BY <1>10, <2>3, RequestType DEF SoftDeleteGroupRow, TypeOK
    <2> QED
      BY <2>2, <2>3
  <1>11. ASSUME NEW r \in Requests, NEW u \in Users, RemoveGroupFromUser(r, u) PROVE TypeOK'
    <2>1. request[r] \in Request
      BY <1>11 DEF RemoveGroupFromUser, At, TypeOK
    <2>2. members' \in [Groups -> SUBSET Users]
      BY <1>11, <2>1 DEF RemoveGroupFromUser, TypeOK, Request
    <2>3. request' \in [Requests -> Request \cup {NoRequest}]
      <3>1. CASE End(r)
        BY <3>1, RequestType
      <3>2. CASE request' = [request EXCEPT ![r].members = @ \ {u}]
        BY <2>1, <3>2 DEF TypeOK, Request
      <3> QED
        BY <1>11, <3>1, <3>2 DEF RemoveGroupFromUser
    <2> QED
      BY <1>11, <2>2, <2>3 DEF RemoveGroupFromUser, TypeOK
  <1>12. ASSUME NEW r \in Requests, RemoveUserFromGroup(r) PROVE TypeOK'
    BY <1>12, RequestType DEF RemoveUserFromGroup, At, Free, TypeOK, Request
  <1>13. ASSUME NEW r \in Requests, UnlistGroup(r) PROVE TypeOK'
    BY <1>13, RequestType DEF UnlistGroup, At, TypeOK, Request
  <1>14. ASSUME NEW r \in Requests, Abandon(r) PROVE TypeOK'
    BY <1>14, RequestType DEF Abandon, TypeOK
  <1>15. ASSUME NEW u \in Users, DeleteUserById(u) PROVE TypeOK'
    BY <1>15 DEF DeleteUserById, TypeOK
  <1>16. CASE UNCHANGED vars
    BY <1>16 DEF vars, TypeOK
  <1> QED
    BY <1>1, <1>2, <1>3, <1>4, <1>5, <1>6, <1>7, <1>8, <1>9, <1>10, <1>11, <1>12, <1>13,
       <1>14, <1>15, <1>16
    DEF Next

(* GroupMembership is type correct: its tables and the requests in flight  *)
(* hold what the schema and the handlers say they hold.                    *)
THEOREM GroupTypesCorrect == Spec => []TypeOK
  <1>1. Init => TypeOK
    BY DEF Init, TypeOK
  <1> QED
    BY <1>1, TypeStep, PTL DEF Spec

-----------------------------------------------------------------------------
(* The inductive invariant.  That the owner of a live group is a member    *)
(* rests on what the requests in flight have established: a sweep removes  *)
(* members of a deleted group only, and a leave is never the owner's.      *)
IInv == TypeOK /\ OwnerIsMember /\ RequestsAreSound

(* A group that exists stays, keeps its owner, and a deleted one is not    *)
(* written again.                                                          *)
Persists(g) ==
    group[g] # NoGroup =>
       /\ group'[g] # NoGroup
       /\ group'[g].owner = group[g].owner
       /\ group[g].deleted => group'[g] = group[g]

(* Every step lets every group persist. *)
LEMMA GroupsPersist ==
    ASSUME TypeOK, [Next]_vars, NEW g \in Groups
    PROVE  Persists(g)
  <1> USE GroupsAssumption
  <1>1. CASE UNCHANGED group
    BY <1>1 DEF Persists
  <1>2. ASSUME NEW r \in Requests, NEW u \in Users, NEW h \in Groups, NEW name \in Names,
               CreateGroup(r, u, h, name)
        PROVE  Persists(g)
    BY <1>2 DEF CreateGroup, Persists, TypeOK
  <1>3. ASSUME NEW r \in Requests, UpdateGroupInfoRow(r)
        PROVE  Persists(g)
    <2> DEFINE h == request[r].group
    <2>1. request[r].name \in Names
      BY <1>3 DEF UpdateGroupInfoRow, At, TypeOK, Request
    <2>2. CASE Live(h) /\ group' = [group EXCEPT ![h].name = request[r].name]
      BY <2>1, <2>2 DEF Live, Persists, TypeOK, Group
    <2> QED
      BY <1>1, <1>3, <2>2 DEF UpdateGroupInfoRow
  <1>4. ASSUME NEW r \in Requests, SoftDeleteGroupRow(r)
        PROVE  Persists(g)
    <2> DEFINE h == request[r].group
    <2>1. CASE Live(h) /\ group' = [group EXCEPT ![h].deleted = TRUE]
      BY <2>1 DEF Live, Persists, TypeOK, Group
    <2> QED
      BY <1>1, <1>4, <2>1 DEF SoftDeleteGroupRow
  <1>5. ASSUME NEW r \in Requests,
               UpdateUserGroup(r) \/ GroupHasMember(r) \/ AddGroupMember(r)
                  \/ GetGroupMemberIds(r) \/ RemoveUserFromGroup(r) \/ UnlistGroup(r)
                  \/ Abandon(r) \/ \E u \in Users : RemoveGroupFromUser(r, u)
        PROVE  UNCHANGED group
    BY <1>5 DEF UpdateUserGroup, GroupHasMember, AddGroupMember, GetGroupMemberIds,
       RemoveUserFromGroup, UnlistGroup, Abandon, RemoveGroupFromUser
  <1>6. ASSUME NEW r \in Requests, NEW u \in Users, NEW h \in Groups,
               \/ \E name \in Names : StartRename(r, u, h, name)
               \/ \E v \in Users : StartInvite(r, u, h, v)
               \/ StartDelete(r, u, h) \/ StartLeave(r, u, h)
        PROVE  UNCHANGED group
    BY <1>6 DEF StartRename, StartInvite, StartDelete, StartLeave
  <1>7. ASSUME (\E u \in Users : DeleteUserById(u)) \/ UNCHANGED vars
        PROVE  UNCHANGED group
    BY <1>7 DEF DeleteUserById, vars
  <1> QED
    BY <1>1, <1>2, <1>3, <1>4, <1>5, <1>6, <1>7 DEF Next

(* So the requests stay sound when a step changes the request of one slot  *)
(* at most, and leaves that one sound.                                     *)
LEMMA SoundStep ==
    ASSUME IInv, [Next]_vars, NEW r \in Requests,
           \A q \in Requests \ {r} : request'[q] = request[q],
           Sound(r)'
    PROVE  RequestsAreSound'
  <1> SUFFICES ASSUME NEW q \in Requests \ {r}, request[q] # NoRequest
               PROVE  Sound(q)'
    BY DEF RequestsAreSound, Sound
  <1>1. request[q] \in Request /\ request'[q] = request[q]
    BY DEF IInv, TypeOK
  <1>2. Persists(request[q].group)
    BY <1>1, GroupsPersist DEF IInv, Request
  <1> QED
    BY <1>1, <1>2 DEF Persists, IInv, RequestsAreSound, Sound, At

(* A request that ends, or moves to a step of which nothing special is     *)
(* asked, is sound.                                                        *)
LEMMA SoundMove ==
    ASSUME IInv, [Next]_vars, NEW r \in Requests
    PROVE  /\ End(r) => RequestsAreSound'
           /\ \A step \in {"invite", "join"} : ~Free(r) /\ GoTo(r, step) => RequestsAreSound'
           /\ \A step \in {"rename", "check", "join", "list"} :
                 \A u, v \in Users, g \in Groups, name \in Names :
                    group'[g] # NoGroup /\ Begin(r, step, u, g, v, name) => RequestsAreSound'
  <1>1. ASSUME End(r) PROVE RequestsAreSound'
    <2>1. Sound(r)' /\ \A q \in Requests \ {r} : request'[q] = request[q]
      BY <1>1 DEF End, Sound, IInv, TypeOK
    <2> QED
      BY <2>1, SoundStep
  <1>2. ASSUME NEW step \in {"invite", "join"}, ~Free(r), GoTo(r, step)
        PROVE  RequestsAreSound'
    <2>1. /\ request[r] \in Request
          /\ request'[r] = [request[r] EXCEPT !.at = step]
          /\ \A q \in Requests \ {r} : request'[q] = request[q]
      BY <1>2 DEF GoTo, Free, IInv, TypeOK
    <2>2. request'[r].group = request[r].group /\ request'[r].at = step
      BY <2>1 DEF Request
    <2>3. Persists(request[r].group) /\ group[request[r].group] # NoGroup
      BY <1>2, <2>1, GroupsPersist DEF Free, IInv, Request, RequestsAreSound, Sound
    <2>4. Sound(r)'
      BY <2>2, <2>3 DEF Persists, Sound, At
    <2> QED
      BY <2>1, <2>4, SoundStep
  <1>3. ASSUME NEW step \in {"rename", "check", "join", "list"},
               NEW u \in Users, NEW v \in Users, NEW g \in Groups, NEW name \in Names,
               group'[g] # NoGroup, Begin(r, step, u, g, v, name)
        PROVE  RequestsAreSound'
    <2>1. /\ request'[r].group = g /\ request'[r].at = step
          /\ \A q \in Requests \ {r} : request'[q] = request[q]
      BY <1>3 DEF Begin, IInv, TypeOK
    <2>2. Sound(r)'
      BY <1>3, <2>1 DEF Sound, At
    <2> QED
      BY <2>1, <2>2, SoundStep
  <1> QED
    BY <1>1, <1>2, <1>3

(* Every step keeps the requests in flight sound. *)
LEMMA RequestsStep == IInv /\ [Next]_vars => RequestsAreSound'
  <1> SUFFICES ASSUME IInv, [Next]_vars PROVE RequestsAreSound'
    OBVIOUS
  <1> USE GroupsAssumption
  <1>1. ASSUME NEW r \in Requests, NEW u \in Users, NEW g \in Groups, NEW name \in Names,
               CreateGroup(r, u, g, name)
        PROVE  RequestsAreSound'
    <2>1. group'[g] = [owner |-> u, name |-> name, deleted |-> FALSE]
      BY <1>1 DEF CreateGroup, IInv, TypeOK
    <2>2. group'[g] \in Group
      BY <2>1 DEF Group
    <2> QED
      BY <1>1, <2>2, SoundMove DEF CreateGroup
  <1>2. ASSUME NEW r \in Requests, NEW u \in Users, NEW g \in Groups, NEW name \in Names,
               StartRename(r, u, g, name)
        PROVE  RequestsAreSound'
    BY <1>2, SoundMove DEF StartRename, Sees, Live
  <1>3. ASSUME NEW r \in Requests, NEW u \in Users, NEW g \in Groups, NEW v \in Users,
               StartInvite(r, u, g, v)
        PROVE  RequestsAreSound'
    <2>1. group'[g] # NoGroup /\ group[g].name \in Names
      BY <1>3 DEF StartInvite, Sees, Live, IInv, TypeOK, Group
    <2> QED
      BY <1>3, <2>1, SoundMove DEF StartInvite
  <1>4. ASSUME NEW r \in Requests, NEW u \in Users, NEW g \in Groups, StartDelete(r, u, g)
        PROVE  RequestsAreSound'
    <2>1. group'[g] # NoGroup /\ group[g].name \in Names
      BY <1>4 DEF StartDelete, Sees, Live, IInv, TypeOK, Group
    <2> QED
      BY <1>4, <2>1, SoundMove DEF StartDelete
  <1>5. ASSUME NEW r \in Requests, NEW u \in Users, NEW g \in Groups, StartLeave(r, u, g)
        PROVE  RequestsAreSound'
    <2>1. /\ request'[r].group = g /\ request'[r].by = u /\ request'[r].user = u
          /\ request'[r].at = "leave"
          /\ \A q \in Requests \ {r} : request'[q] = request[q]
      BY <1>5 DEF StartLeave, Begin, IInv, TypeOK
    <2>2. group' = group /\ group[g] # NoGroup /\ group[g].owner # u
      BY <1>5 DEF StartLeave, Sees, Live
    <2>3. Sound(r)'
      BY <2>1, <2>2 DEF Sound, At
    <2> QED
      BY <2>1, <2>3, SoundStep
  <1>6. ASSUME NEW r \in Requests,
               \/ UpdateUserGroup(r) \/ UpdateGroupInfoRow(r) \/ UnlistGroup(r) \/ Abandon(r)
               \/ GroupHasMember(r) \/ AddGroupMember(r)
        PROVE  RequestsAreSound'
    BY <1>6, SoundMove DEF UpdateUserGroup, UpdateGroupInfoRow, UnlistGroup, Abandon,
       GroupHasMember, AddGroupMember, At, Free
  <1>7. ASSUME NEW r \in Requests, GetGroupMemberIds(r) PROVE RequestsAreSound'
    <2> DEFINE g == request[r].group
    <2>1. CASE request' = [request EXCEPT ![r].at = "mark", ![r].members = members[g]]
      <3>1. request[r] \in Request
        BY <1>7 DEF GetGroupMemberIds, At, IInv, TypeOK
      <3>2. /\ request'[r].group = g /\ request'[r].at = "mark"
            /\ \A q \in Requests \ {r} : request'[q] = request[q]
        BY <2>1, <3>1 DEF IInv, TypeOK, Request
      <3>3. group' = group /\ group[g] # NoGroup
        BY <1>7 DEF GetGroupMemberIds, At, IInv, RequestsAreSound, Sound
      <3>4. Sound(r)'
        BY <3>2, <3>3 DEF Sound, At
      <3> QED
        BY <3>2, <3>4, SoundStep
    <2>2. CASE End(r)
      BY <2>2, SoundMove
    <2> QED
      BY <1>7, <2>1, <2>2 DEF GetGroupMemberIds
  <1>8. ASSUME NEW r \in Requests, SoftDeleteGroupRow(r) PROVE RequestsAreSound'
    <2> DEFINE g == request[r].group
    <2>1. CASE Live(g)
      <3>1. request[r] \in Request /\ g \in Groups
        BY <1>8 DEF SoftDeleteGroupRow, At, IInv, TypeOK, Request
      <3>2. /\ request'[r].group = g /\ request'[r].at = "sweep"
            /\ \A q \in Requests \ {r} : request'[q] = request[q]
        BY <1>8, <2>1, <3>1 DEF SoftDeleteGroupRow, GoTo, IInv, TypeOK, Request
      <3>3. group[g] \in Group /\ group'[g] = [group[g] EXCEPT !.deleted = TRUE]
        BY <1>8, <2>1, <3>1 DEF SoftDeleteGroupRow, Live, IInv, TypeOK
      <3>4. group'[g] \in Group /\ group'[g].deleted
        BY <3>3 DEF Group
      <3>5. Sound(r)'
        BY <3>2, <3>4 DEF Sound, At
      <3> QED
        BY <3>2, <3>5, SoundStep
    <2>2. CASE ~Live(g)
      BY <1>8, <2>2, SoundMove DEF SoftDeleteGroupRow
    <2> QED
      BY <2>1, <2>2
  <1>9. ASSUME NEW r \in Requests, NEW u \in Users, RemoveGroupFromUser(r, u)
        PROVE  RequestsAreSound'
    <2>1. CASE request' = [request EXCEPT ![r].members = @ \ {u}]
      <3>1. request[r] \in Request
        BY <1>9 DEF RemoveGroupFromUser, At, IInv, TypeOK
      <3>2. /\ request'[r].group = request[r].group /\ request'[r].at = "sweep"
            /\ \A q \in Requests \ {r} : request'[q] = request[q]
        BY <1>9, <2>1, <3>1 DEF RemoveGroupFromUser, At, IInv, TypeOK, Request
      <3>3. group' = group /\ group[request[r].group] # NoGroup
            /\ group[request[r].group].deleted
        BY <1>9 DEF RemoveGroupFromUser, At, IInv, RequestsAreSound, Sound
      <3>4. Sound(r)'
        BY <3>2, <3>3 DEF Sound, At
      <3> QED
        BY <3>2, <3>4, SoundStep
    <2>2. CASE End(r)
      BY <2>2, SoundMove
    <2> QED
      BY <1>9, <2>1, <2>2 DEF RemoveGroupFromUser
  <1>10. ASSUME NEW r \in Requests, RemoveUserFromGroup(r) PROVE RequestsAreSound'
    <2>1. CASE GoTo(r, "unlist")
      <3>1. request[r] \in Request
        BY <1>10 DEF RemoveUserFromGroup, At, IInv, TypeOK
      <3>2. /\ request'[r].group = request[r].group /\ request'[r].at = "unlist"
            /\ request'[r].by = request[r].by /\ request'[r].user = request[r].user
            /\ \A q \in Requests \ {r} : request'[q] = request[q]
        BY <2>1, <3>1 DEF GoTo, IInv, TypeOK, Request
      <3>3. /\ group' = group /\ group[request[r].group] # NoGroup
            /\ request[r].by = request[r].user
            /\ request[r].user # group[request[r].group].owner
        BY <1>10 DEF RemoveUserFromGroup, At, IInv, RequestsAreSound, Sound
      <3>4. Sound(r)'
        BY <3>2, <3>3 DEF Sound, At
      <3> QED
        BY <3>2, <3>4, SoundStep
    <2>2. CASE End(r)
      BY <2>2, SoundMove
    <2> QED
      BY <1>10, <2>1, <2>2 DEF RemoveUserFromGroup
  <1>11. CASE (\E u \in Users : DeleteUserById(u)) \/ UNCHANGED vars
    BY <1>11 DEF DeleteUserById, vars, IInv, RequestsAreSound, Sound, At
  <1> QED
    BY <1>1, <1>2, <1>3, <1>4, <1>5, <1>6, <1>7, <1>8, <1>9, <1>10, <1>11 DEF Next

(* Which members a step removes: those of a deleted group, and those who   *)
(* leave.                                                                  *)
LEMMA WhoIsRemoved ==
    ASSUME IInv, [Next]_vars, NEW g \in Groups, NEW u \in members[g] \ members'[g]
    PROVE  Live(g) => /\ u # group[g].owner
                      /\ \E r \in Requests : /\ At(r, "leave") \/ At(r, "unlist")
                                             /\ request[r].by = u /\ request[r].group = g
  <1>1. ASSUME UNCHANGED members PROVE FALSE
    BY <1>1
  <1>2. ASSUME NEW r \in Requests, NEW v \in Users, NEW h \in Groups, NEW name \in Names,
               CreateGroup(r, v, h, name)
        PROVE  ~Live(g)
    BY <1>2 DEF CreateGroup, Live, IInv, TypeOK
  <1>3. ASSUME NEW r \in Requests, UpdateUserGroup(r) \/ AddGroupMember(r)
        PROVE  FALSE
    BY <1>3 DEF UpdateUserGroup, AddGroupMember, IInv, TypeOK
  <1>4. ASSUME NEW r \in Requests, NEW v \in Users, RemoveGroupFromUser(r, v)
        PROVE  ~Live(g)
    <2>1. request[r].group = g
      BY <1>4 DEF RemoveGroupFromUser, IInv, TypeOK
    <2> QED
      BY <1>4, <2>1 DEF RemoveGroupFromUser, At, Live, IInv, RequestsAreSound, Sound
  <1>5. ASSUME NEW r \in Requests, RemoveUserFromGroup(r) \/ UnlistGroup(r)
        PROVE  /\ u # group[g].owner
               /\ At(r, "leave") \/ At(r, "unlist")
               /\ request[r].by = u /\ request[r].group = g
    <2>1. At(r, "leave") \/ At(r, "unlist")
      BY <1>5 DEF RemoveUserFromGroup, UnlistGroup
    <2>2. request[r].group = g /\ request[r].user = u
      BY <1>5 DEF RemoveUserFromGroup, UnlistGroup, IInv, TypeOK
    <2> QED
      BY <2>1, <2>2 DEF At, IInv, RequestsAreSound, Sound
  <1>6. ASSUME NEW r \in Requests,
               \/ UpdateGroupInfoRow(r) \/ GroupHasMember(r) \/ GetGroupMemberIds(r)
               \/ SoftDeleteGroupRow(r) \/ Abandon(r)
               \/ \E v \in Users, h \in Groups :
                     \/ \E name \in Names : StartRename(r, v, h, name)
                     \/ \E w \in Users : StartInvite(r, v, h, w)
                     \/ StartDelete(r, v, h) \/ StartLeave(r, v, h)
        PROVE  UNCHANGED members
    BY <1>6 DEF UpdateGroupInfoRow, GroupHasMember, GetGroupMemberIds, SoftDeleteGroupRow,
       Abandon, StartRename, StartInvite, StartDelete, StartLeave
  <1>7. ASSUME (\E v \in Users : DeleteUserById(v)) \/ UNCHANGED vars
        PROVE  UNCHANGED members
    BY <1>7 DEF DeleteUserById, vars
  <1> QED
    BY <1>1, <1>2, <1>3, <1>4, <1>5, <1>6, <1>7 DEF Next

(* A group comes into being with its owner in it. *)
LEMMA BornWithOwner ==
    ASSUME TypeOK, [Next]_vars, NEW g \in Groups, group[g] = NoGroup, group'[g] # NoGroup
    PROVE  group'[g].owner \in members'[g]
  <1>1. ASSUME UNCHANGED group PROVE FALSE
    BY <1>1
  <1>2. ASSUME NEW r \in Requests, NEW u \in Users, NEW h \in Groups, NEW name \in Names,
               CreateGroup(r, u, h, name)
        PROVE  group'[g].owner \in members'[g]
    BY <1>2 DEF CreateGroup, TypeOK
  <1>3. ASSUME NEW r \in Requests, UpdateGroupInfoRow(r) \/ SoftDeleteGroupRow(r)
        PROVE  FALSE
    BY <1>3 DEF UpdateGroupInfoRow, SoftDeleteGroupRow, Live, TypeOK
  <1>4. ASSUME NEW r \in Requests,
               \/ UpdateUserGroup(r) \/ GroupHasMember(r) \/ AddGroupMember(r)
               \/ GetGroupMemberIds(r) \/ RemoveUserFromGroup(r) \/ UnlistGroup(r)
               \/ Abandon(r) \/ \E u \in Users : RemoveGroupFromUser(r, u)
        PROVE  UNCHANGED group
    BY <1>4 DEF UpdateUserGroup, GroupHasMember, AddGroupMember, GetGroupMemberIds,
       RemoveUserFromGroup, UnlistGroup, Abandon, RemoveGroupFromUser
  <1>5. ASSUME NEW r \in Requests, NEW u \in Users, NEW h \in Groups,
               \/ \E name \in Names : StartRename(r, u, h, name)
               \/ \E v \in Users : StartInvite(r, u, h, v)
               \/ StartDelete(r, u, h) \/ StartLeave(r, u, h)
        PROVE  UNCHANGED group
    BY <1>5 DEF StartRename, StartInvite, StartDelete, StartLeave
  <1>6. ASSUME (\E u \in Users : DeleteUserById(u)) \/ UNCHANGED vars
        PROVE  UNCHANGED group
    BY <1>6 DEF DeleteUserById, vars
  <1> QED
    BY <1>1, <1>2, <1>3, <1>4, <1>5, <1>6 DEF Next

(* Every step keeps the invariant. *)
LEMMA InvStep == IInv /\ [Next]_vars => IInv'
  <1> SUFFICES ASSUME IInv, [Next]_vars PROVE OwnerIsMember'
    BY TypeStep, RequestsStep DEF IInv
  <1> SUFFICES ASSUME NEW g \in Groups, Live(g)' PROVE group'[g].owner \in members'[g]
    BY DEF OwnerIsMember
  <1>1. CASE group[g] = NoGroup
    BY <1>1, BornWithOwner DEF Live, IInv
  <1>2. CASE group[g] # NoGroup
    <2>1. Persists(g)
      BY GroupsPersist DEF IInv
    <2>2. Live(g) /\ group'[g].owner = group[g].owner
      BY <1>2, <2>1 DEF Live, Persists
    <2>3. group[g].owner \in members[g]
      BY <2>2 DEF IInv, OwnerIsMember
    <2> QED
      BY <2>2, <2>3, WhoIsRemoved
  <1> QED
    BY <1>1, <1>2

(* So the invariant holds in every state. *)
LEMMA InvAlways == Spec => []IInv
  <1>1. Init => IInv
    BY DEF Init, IInv, TypeOK, OwnerIsMember, RequestsAreSound, Sound, Live
  <1> QED
    BY <1>1, InvStep, PTL DEF Spec

(* The owner of a live group is a member of it, whatever requests race and *)
(* wherever one of them stops.                                             *)
THEOREM OwnerStaysMember == Spec => []OwnerIsMember
  <1>1. IInv => OwnerIsMember
    BY DEF IInv
  <1> QED
    BY <1>1, InvAlways, PTL

(* What a request has read and relies on is still so when it acts on it.   *)
THEOREM RequestsStaySound == Spec => []RequestsAreSound
  <1>1. IInv => RequestsAreSound
    BY DEF IInv
  <1> QED
    BY <1>1, InvAlways, PTL

(* A member of a live group is removed by their own leave only. *)
THEOREM MembersLeaveThemselves == Spec => LiveMembersLeaveThemselves
  <1>1. IInv /\ [Next]_vars =>
          [\A g \in Groups : \A u \in members[g] \ members'[g] :
             Live(g) => \E r \in Requests :
                           /\ At(r, "leave") \/ At(r, "unlist")
                           /\ request[r].by = u /\ request[r].group = g]_vars
    BY WhoIsRemoved
  <1> QED
    BY <1>1, InvAlways, PTL DEF Spec, LiveMembersLeaveThemselves

(* The row of a deleted group never changes. *)
THEOREM DeletedStaysFrozen == Spec => DeletedGroupIsFrozen
  <1>1. TypeOK /\ [Next]_vars =>
          [\A g \in Groups : group[g] # NoGroup /\ group[g].deleted => group'[g] = group[g]]_vars
    BY GroupsPersist DEF Persists
  <1> QED
    BY <1>1, GroupTypesCorrect, PTL DEF Spec, DeletedGroupIsFrozen

-----------------------------------------------------------------------------
(* A row that is written under a free name clashes with no other; a step   *)
(* writes one name at most.                                                *)
LEMMA NamesStep == TypeOK /\ NamesUniquePerOwner /\ [Next]_vars => NamesUniquePerOwner'
  <1> SUFFICES ASSUME TypeOK, NamesUniquePerOwner, [Next]_vars
               PROVE  NamesUniquePerOwner'
    OBVIOUS
  <1> USE GroupsAssumption
  <1>1. ASSUME NEW k \in Groups, NEW owner \in Users, NEW name \in Names,
               ~NameIsTaken(k, owner, name),
               group'[k].owner = owner, group'[k].name = name,
               \A g \in Groups \ {k} : group'[g] = group[g]
        PROVE  NamesUniquePerOwner'
    BY <1>1 DEF NamesUniquePerOwner, NameIsTaken, Live
  <1>2. ASSUME \A g \in Groups :
                  Live(g)' => /\ Live(g)
                              /\ group'[g].owner = group[g].owner
                              /\ group'[g].name = group[g].name
        PROVE  NamesUniquePerOwner'
    BY <1>2 DEF NamesUniquePerOwner
  <1>3. ASSUME UNCHANGED group PROVE NamesUniquePerOwner'
    BY <1>3 DEF NamesUniquePerOwner, Live
  <1>4. ASSUME NEW r \in Requests, NEW u \in Users, NEW k \in Groups, NEW name \in Names,
               CreateGroup(r, u, k, name)
        PROVE  NamesUniquePerOwner'
    <2>1. /\ ~NameIsTaken(k, u, name)
          /\ group'[k] = [owner |-> u, name |-> name, deleted |-> FALSE]
          /\ \A g \in Groups \ {k} : group'[g] = group[g]
      BY <1>4 DEF CreateGroup, TypeOK
    <2> QED
      BY <1>1, <2>1
  <1>5. ASSUME NEW r \in Requests, UpdateGroupInfoRow(r)
        PROVE  NamesUniquePerOwner'
    <2> DEFINE k    == request[r].group
               name == request[r].name
    <2>1. k \in Groups /\ name \in Names
      BY <1>5 DEF UpdateGroupInfoRow, At, TypeOK, Request
    <2>2. CASE Live(k) /\ ~NameIsTaken(k, group[k].owner, name)
      <3>1. /\ group[k] \in Group /\ group'[k] = [group[k] EXCEPT !.name = name]
            /\ \A g \in Groups \ {k} : group'[g] = group[g]
        BY <1>5, <2>1, <2>2 DEF UpdateGroupInfoRow, Live, TypeOK
      <3>2. group'[k].owner = group[k].owner /\ group'[k].name = name /\ group[k].owner \in Users
        BY <3>1 DEF Group
      <3> QED
        BY <1>1, <2>1, <2>2, <3>1, <3>2
    <2>3. CASE ~(Live(k) /\ ~NameIsTaken(k, group[k].owner, name))
      BY <1>3, <1>5, <2>3 DEF UpdateGroupInfoRow
    <2> QED
      BY <2>2, <2>3
  <1>6. ASSUME NEW r \in Requests, SoftDeleteGroupRow(r)
        PROVE  NamesUniquePerOwner'
    <2>1. PICK k \in Groups : k = request[r].group
      BY <1>6 DEF SoftDeleteGroupRow, At, TypeOK, Request
    <2>2. CASE Live(k)
      <3>1. \A g \in Groups : group'[g] = IF g = k THEN [group[k] EXCEPT !.deleted = TRUE]
                                                   ELSE group[g]
        BY <1>6, <2>1, <2>2 DEF SoftDeleteGroupRow, TypeOK
      <3>2. group[k] \in Group
        BY <2>2 DEF Live, TypeOK
      <3>3. ~Live(k)'
        BY <3>1, <3>2 DEF Live, Group
      <3>4. \A g \in Groups : Live(g)' => g # k /\ Live(g) /\ group'[g] = group[g]
        BY <3>1, <3>3 DEF Live
      <3> QED
        BY <1>2, <3>4
    <2>3. CASE ~Live(k)
      BY <1>3, <1>6, <2>1, <2>3 DEF SoftDeleteGroupRow
    <2> QED
      BY <2>2, <2>3
  <1>7. ASSUME NEW r \in Requests,
               \/ UpdateUserGroup(r) \/ GroupHasMember(r) \/ AddGroupMember(r)
               \/ GetGroupMemberIds(r) \/ RemoveUserFromGroup(r) \/ UnlistGroup(r)
               \/ Abandon(r) \/ \E u \in Users : RemoveGroupFromUser(r, u)
               \/ \E u \in Users, h \in Groups :
                     \/ \E name \in Names : StartRename(r, u, h, name)
                     \/ \E v \in Users : StartInvite(r, u, h, v)
                     \/ StartDelete(r, u, h) \/ StartLeave(r, u, h)
        PROVE  UNCHANGED group
    BY <1>7 DEF UpdateUserGroup, GroupHasMember, AddGroupMember, GetGroupMemberIds,
       RemoveUserFromGroup, UnlistGroup, Abandon, RemoveGroupFromUser,
       StartRename, StartInvite, StartDelete, StartLeave
  <1>8. ASSUME (\E u \in Users : DeleteUserById(u)) \/ UNCHANGED vars
        PROVE  UNCHANGED group
    BY <1>8 DEF DeleteUserById, vars
  <1> QED
    BY <1>3, <1>4, <1>5, <1>6, <1>7, <1>8 DEF Next

(* No two live groups of an owner ever share a name. *)
THEOREM NamesStayUnique == Spec => []NamesUniquePerOwner
  <1>1. Init => NamesUniquePerOwner
    BY DEF Init, NamesUniquePerOwner, Live
  <1> QED
    BY <1>1, NamesStep, GroupTypesCorrect, PTL DEF Spec

-----------------------------------------------------------------------------
(* The refinement of Membership, step by step *)

(* A group exists to the abstract specification exactly if its row does. *)
LEMMA OwnersMeanRows ==
    ASSUME TypeOK, NEW g \in Groups
    PROVE  /\ Owners[g] = NoOwner <=> group[g] = NoGroup
           /\ M!Live(g) <=> Live(g)
  <1>1. group[g] # NoGroup => group[g].owner \in Users
    BY DEF TypeOK, Group
  <1>2. Owners[g] = NoOwner <=> group[g] = NoGroup
    BY <1>1, GroupsAssumption DEF Owners
  <1> QED
    BY <1>2 DEF M!Live, Live, Deleted

(* Creating the row and the owner's membership founds the group. *)
LEMMA CreateRefines ==
    ASSUME TypeOK, NEW r \in Requests, NEW u \in Users, NEW g \in Groups, NEW name \in Names,
           CreateGroup(r, u, g, name)
    PROVE  M!Found(g, u)
  <1>1. \A h \in Groups : group'[h] = IF h = g THEN [owner |-> u, name |-> name, deleted |-> FALSE]
                                              ELSE group[h]
    BY DEF CreateGroup, TypeOK
  <1>2. [owner |-> u, name |-> name, deleted |-> FALSE] # NoGroup
    <2>1. [owner |-> u, name |-> name, deleted |-> FALSE] \in Group
      BY DEF Group
    <2> QED
      BY <2>1, GroupsAssumption
  <1>3. Owners' = [Owners EXCEPT ![g] = u]
    <2>1. \A h \in Groups : Owners'[h] = IF h = g THEN u ELSE Owners[h]
      BY <1>1, <1>2 DEF Owners
    <2> QED
      BY <2>1 DEF Owners
  <1>4. Deleted' = Deleted
    <2>1. group[g] = NoGroup /\ ~group'[g].deleted
      BY <1>1 DEF CreateGroup
    <2> QED
      BY <1>1, <2>1 DEF Deleted
  <1>5. Owners[g] = NoOwner /\ members' = [members EXCEPT ![g] = {u}]
    BY DEF CreateGroup, Owners
  <1> QED
    BY <1>3, <1>4, <1>5 DEF M!Found

(* Inviting, and adding the group to the user's list, is a join. *)
LEMMA JoinRefines ==
    ASSUME IInv, NEW r \in Requests, UpdateUserGroup(r) \/ AddGroupMember(r)
    PROVE  \E g \in Groups, u \in Users : M!Join(g, u)
  <1> DEFINE g == request[r].group
             u == request[r].user
  <1>1. g \in Groups /\ u \in Users
    BY DEF UpdateUserGroup, AddGroupMember, At, IInv, TypeOK, Request
  <1>2. Owners[g] # NoOwner
    BY <1>1, OwnersMeanRows
    DEF UpdateUserGroup, AddGroupMember, At, IInv, RequestsAreSound, Sound
  <1>3. /\ members' = [members EXCEPT ![g] = @ \cup {u}]
        /\ Owners' = Owners /\ Deleted' = Deleted
    BY DEF UpdateUserGroup, AddGroupMember, Owners, Deleted
  <1> QED
    BY <1>1, <1>2, <1>3 DEF M!Join

(* Whoever is removed leaves a deleted group or is not its owner. *)
LEMMA LeaveRefines ==
    ASSUME IInv, NEW r \in Requests, NEW u \in Users,
           \/ (RemoveUserFromGroup(r) \/ UnlistGroup(r)) /\ u = request[r].user
           \/ RemoveGroupFromUser(r, u)
    PROVE  [M!Next]_(M!vars)
  <1> DEFINE g == request[r].group
  <1>1. g \in Groups
    BY DEF RemoveUserFromGroup, UnlistGroup, RemoveGroupFromUser, At, IInv, TypeOK, Request
  <1>2. Owners' = Owners /\ Deleted' = Deleted
    BY DEF RemoveUserFromGroup, UnlistGroup, RemoveGroupFromUser, Owners, Deleted
  <1>3. CASE UNCHANGED members
    BY <1>2, <1>3 DEF M!vars
  <1>4. CASE members' = [members EXCEPT ![g] = @ \ {u}]
    <2>1. ASSUME M!Live(g) PROVE u # Owners[g]
      <3>1. Live(g)
        BY <1>1, <2>1, OwnersMeanRows DEF IInv
      <3>2. ~At(r, "sweep")
        BY <3>1 DEF At, Live, IInv, RequestsAreSound, Sound
      <3>3. u = request[r].user /\ (At(r, "leave") \/ At(r, "unlist"))
        BY <3>2 DEF RemoveUserFromGroup, UnlistGroup, RemoveGroupFromUser
      <3> QED
        BY <1>1, <3>1, <3>3 DEF At, Live, Owners, IInv, RequestsAreSound, Sound
    <2> QED
      BY <1>1, <1>2, <1>4, <2>1 DEF M!Leave, M!Next
  <1> QED
    BY <1>3, <1>4 DEF RemoveUserFromGroup, UnlistGroup, RemoveGroupFromUser

(* Marking the row deletes the group, once. *)
LEMMA MarkRefines ==
    ASSUME TypeOK, NEW r \in Requests, SoftDeleteGroupRow(r)
    PROVE  [M!Next]_(M!vars)
  <1> DEFINE g == request[r].group
  <1>1. g \in Groups /\ members' = members
    BY DEF SoftDeleteGroupRow, At, TypeOK, Request
  <1>2. CASE Live(g)
    <2>1. /\ group[g] \in Group
          /\ \A h \in Groups : group'[h] = IF h = g THEN [group[g] EXCEPT !.deleted = TRUE]
                                                     ELSE group[h]
      BY <1>1, <1>2 DEF SoftDeleteGroupRow, Live, TypeOK
    <2>2. group'[g] \in Group /\ group'[g].owner = group[g].owner /\ group'[g].deleted
      BY <1>1, <2>1 DEF Group
    <2>3. group'[g] # NoGroup /\ group[g] # NoGroup
      BY <2>1, <2>2, GroupsAssumption
    <2>4. Owners' = Owners
      BY <2>1, <2>2, <2>3 DEF Owners
    <2>5. Deleted' = Deleted \cup {g}
      BY <1>1, <2>1, <2>2, <2>3 DEF Deleted
    <2> QED
      BY <1>1, <1>2, <2>4, <2>5, OwnersMeanRows DEF M!Delete, M!Next
  <1>3. CASE ~Live(g)
    BY <1>1, <1>3 DEF SoftDeleteGroupRow, Owners, Deleted, M!vars
  <1> QED
    BY <1>2, <1>3

(* A rename, and every step that only reads, is a stutter. *)
LEMMA RenameRefines ==
    ASSUME TypeOK, NEW r \in Requests, UpdateGroupInfoRow(r)
    PROVE  UNCHANGED M!vars
  <1> DEFINE g == request[r].group
  <1>1. g \in Groups /\ members' = members
    BY DEF UpdateGroupInfoRow, At, TypeOK, Request
  <1>2. CASE Live(g) /\ group' = [group EXCEPT ![g].name = request[r].name]
    <2>1. /\ group[g] \in Group /\ request[r].name \in Names
          /\ \A h \in Groups : group'[h] = IF h = g
                                            THEN [group[g] EXCEPT !.name = request[r].name]
                                            ELSE group[h]
      BY <1>1, <1>2 DEF UpdateGroupInfoRow, At, Live, TypeOK, Request
    <2>2. /\ group'[g] \in Group /\ group'[g].owner = group[g].owner
          /\ group'[g].deleted = group[g].deleted
      BY <1>1, <2>1 DEF Group
    <2>3. group'[g] # NoGroup /\ group[g] # NoGroup
      BY <2>1, <2>2, GroupsAssumption
    <2>4. Owners' = Owners
      BY <2>1, <2>2, <2>3 DEF Owners
    <2>5. Deleted' = Deleted
      BY <2>1, <2>2, <2>3 DEF Deleted
    <2> QED
      BY <1>1, <2>4, <2>5 DEF M!vars
  <1>3. CASE UNCHANGED group
    BY <1>1, <1>3 DEF Owners, Deleted, M!vars
  <1> QED
    BY <1>2, <1>3 DEF UpdateGroupInfoRow

(* Every step of the group service is one of Membership or a stutter. *)
LEMMA MembershipStep == IInv /\ [Next]_vars => [M!Next]_(M!vars)
  <1> SUFFICES ASSUME IInv, [Next]_vars PROVE [M!Next]_(M!vars)
    OBVIOUS
  <1>1. ASSUME NEW r \in Requests, NEW u \in Users, NEW g \in Groups, NEW name \in Names,
               CreateGroup(r, u, g, name)
        PROVE  M!Next
    BY <1>1, CreateRefines DEF IInv, M!Next
  <1>2. ASSUME NEW r \in Requests, UpdateUserGroup(r) \/ AddGroupMember(r)
        PROVE  M!Next
    BY <1>2, JoinRefines DEF M!Next
  <1>3. ASSUME NEW r \in Requests, RemoveUserFromGroup(r) \/ UnlistGroup(r)
        PROVE  [M!Next]_(M!vars)
    <2>1. request[r].user \in Users
      BY <1>3 DEF RemoveUserFromGroup, UnlistGroup, At, IInv, TypeOK, Request
    <2> QED
      BY <1>3, <2>1, LeaveRefines
  <1>4. ASSUME NEW r \in Requests, NEW u \in Users, RemoveGroupFromUser(r, u)
        PROVE  [M!Next]_(M!vars)
    BY <1>4, LeaveRefines
  <1>5. ASSUME NEW r \in Requests, SoftDeleteGroupRow(r)
        PROVE  [M!Next]_(M!vars)
    BY <1>5, MarkRefines DEF IInv
  <1>6. ASSUME NEW r \in Requests, UpdateGroupInfoRow(r)
        PROVE  UNCHANGED M!vars
    BY <1>6, RenameRefines DEF IInv
  <1>7. ASSUME \/ \E r \in Requests :
                     \/ GroupHasMember(r) \/ GetGroupMemberIds(r) \/ Abandon(r)
                     \/ \E u \in Users, g \in Groups :
                           \/ \E name \in Names : StartRename(r, u, g, name)
                           \/ \E v \in Users : StartInvite(r, u, g, v)
                           \/ StartDelete(r, u, g) \/ StartLeave(r, u, g)
               \/ \E u \in Users : DeleteUserById(u)
               \/ UNCHANGED vars
        PROVE  UNCHANGED M!vars
    <2>1. UNCHANGED <<group, members>>
      <3>1. ASSUME NEW r \in Requests, GroupHasMember(r) \/ GetGroupMemberIds(r) \/ Abandon(r)
            PROVE  UNCHANGED <<group, members>>
        BY <3>1 DEF GroupHasMember, GetGroupMemberIds, Abandon
      <3>2. ASSUME NEW r \in Requests, NEW u \in Users, NEW g \in Groups,
                   NEW name \in Names, StartRename(r, u, g, name)
            PROVE  UNCHANGED <<group, members>>
        BY <3>2 DEF StartRename
      <3>3. ASSUME NEW r \in Requests, NEW u \in Users, NEW g \in Groups,
                   NEW v \in Users, StartInvite(r, u, g, v)
            PROVE  UNCHANGED <<group, members>>
        BY <3>3 DEF StartInvite
      <3>4. ASSUME NEW r \in Requests, NEW u \in Users, NEW g \in Groups,
                   StartDelete(r, u, g) \/ StartLeave(r, u, g)
            PROVE  UNCHANGED <<group, members>>
        BY <3>4 DEF StartDelete, StartLeave
      <3>5. ASSUME NEW u \in Users, DeleteUserById(u)
            PROVE  UNCHANGED <<group, members>>
        BY <3>5 DEF DeleteUserById
      <3>6. CASE UNCHANGED vars
        BY <3>6 DEF vars
      <3> QED
        BY <1>7, <3>1, <3>2, <3>3, <3>4, <3>5, <3>6
    <2> QED
      BY <2>1 DEF Owners, Deleted, M!vars
  <1> QED
    BY <1>1, <1>2, <1>3, <1>4, <1>5, <1>6, <1>7 DEF Next

(* Every behaviour of the group service is one of Membership: at most one  *)
(* membership changes per step, no live group loses its owner, none is     *)
(* half created and none is deleted twice.                                 *)
THEOREM GroupsImplementMembership == Spec => MembershipSpec
  <1>1. Init => M!Init
    BY DEF Init, M!Init, Owners, Deleted
  <1> QED
    BY <1>1, MembershipStep, InvAlways, PTL DEF Spec, MembershipSpec, M!Spec

-----------------------------------------------------------------------------
(* The group service as the surroundings of the other components *)

(* Only founding a group puts somebody into it, and only its owner. *)
LEMMA NobodyStep == IInv /\ NobodyIsInNoGroup /\ [Next]_vars => NobodyIsInNoGroup'
  <1> SUFFICES ASSUME IInv, NobodyIsInNoGroup, [Next]_vars,
                      NEW g \in Groups, group'[g] = NoGroup
               PROVE  members'[g] = {}
    BY DEF NobodyIsInNoGroup
  <1>1. TypeOK /\ TypeOK' /\ [M!Next]_(M!vars)
    BY InvStep, MembershipStep DEF IInv
  <1>2. Owners'[g] = NoOwner
    BY <1>1 DEF Owners
  <1>3. ASSUME Owners[g] = NoOwner PROVE members[g] = {}
    BY <1>1, <1>3, OwnersMeanRows DEF NobodyIsInNoGroup
  <1>4. DOMAIN members = Groups /\ DOMAIN Owners = Groups
    BY <1>1 DEF TypeOK, Owners
  <1>5. ASSUME NEW h \in Groups, NEW u \in Users, M!Found(h, u) PROVE members'[g] = {}
    <2>1. g # h
      BY <1>2, <1>4, <1>5, GroupsAssumption DEF M!Found
    <2> QED
      BY <1>2, <1>3, <1>4, <1>5, <2>1 DEF M!Found
  <1>6. ASSUME NEW h \in Groups, NEW u \in Users, M!Join(h, u) PROVE members'[g] = {}
    BY <1>2, <1>3, <1>4, <1>6 DEF M!Join
  <1>7. ASSUME NEW h \in Groups, NEW u \in Users, M!Leave(h, u) PROVE members'[g] = {}
    BY <1>2, <1>3, <1>4, <1>7 DEF M!Leave
  <1>8. ASSUME NEW h \in Groups, M!Delete(h) PROVE members'[g] = {}
    BY <1>2, <1>3, <1>8 DEF M!Delete
  <1>9. CASE UNCHANGED M!vars
    BY <1>2, <1>3, <1>9 DEF M!vars
  <1> QED
    BY <1>1, <1>5, <1>6, <1>7, <1>8, <1>9 DEF M!Next

LEMMA NobodyAlways == Spec => []NobodyIsInNoGroup
  <1>1. Init => NobodyIsInNoGroup
    BY DEF Init, NobodyIsInNoGroup
  <1> QED
    BY <1>1, NobodyStep, InvAlways, PTL DEF Spec

(* Accounts go one by one, and nothing else does in that step. *)
LEMMA AccountsGo ==
    ASSUME [Next]_vars
    PROVE  \/ accounts' = accounts
           \/ \E u \in accounts : /\ u \in Users
                                  /\ accounts' = accounts \ {u} /\ UNCHANGED <<group, members>>
  <1>1. ASSUME NEW r \in Requests,
               \/ UpdateUserGroup(r) \/ UpdateGroupInfoRow(r) \/ GroupHasMember(r)
               \/ AddGroupMember(r) \/ GetGroupMemberIds(r) \/ SoftDeleteGroupRow(r)
               \/ RemoveUserFromGroup(r) \/ UnlistGroup(r) \/ Abandon(r)
               \/ \E u \in Users : RemoveGroupFromUser(r, u)
               \/ \E u \in Users, g \in Groups :
                     \/ \E name \in Names : CreateGroup(r, u, g, name) \/ StartRename(r, u, g, name)
                     \/ \E v \in Users : StartInvite(r, u, g, v)
                     \/ StartDelete(r, u, g) \/ StartLeave(r, u, g)
        PROVE  accounts' = accounts
    BY <1>1 DEF UpdateUserGroup, UpdateGroupInfoRow, GroupHasMember, AddGroupMember,
       GetGroupMemberIds, SoftDeleteGroupRow, RemoveUserFromGroup, UnlistGroup, Abandon,
       RemoveGroupFromUser, CreateGroup, StartRename, StartInvite, StartDelete, StartLeave
  <1>2. ASSUME NEW u \in Users, DeleteUserById(u)
        PROVE  u \in accounts /\ accounts' = accounts \ {u} /\ UNCHANGED <<group, members>>
    BY <1>2 DEF DeleteUserById
  <1>3. CASE UNCHANGED vars
    BY <1>3 DEF vars
  <1> QED
    BY <1>1, <1>2, <1>3 DEF Next

(* What a step of the group service does to what a reader may see: one     *)
(* membership appears or goes, one group is deleted, one account is, or    *)
(* nothing happens.                                                        *)
Joins(g, u)  == u \notin members[g] /\ members' = [members EXCEPT ![g] = @ \cup {u}]
Leaves(g, u) == u \in members[g] /\ members' = [members EXCEPT ![g] = @ \ {u}]

LEMMA OneChange ==
    ASSUME IInv, NobodyIsInNoGroup, [Next]_vars
    PROVE  \/ /\ UNCHANGED <<Deleted, accounts>>
              /\ \E g \in Groups, u \in Users : Joins(g, u) \/ Leaves(g, u)
           \/ /\ UNCHANGED <<members, accounts>>
              /\ \E g \in Groups \ Deleted : Deleted' = Deleted \cup {g}
           \/ /\ UNCHANGED <<members, Deleted>>
              /\ \E u \in Users : u \in accounts /\ accounts' = accounts \ {u}
           \/ UNCHANGED <<members, Deleted, accounts>>
  <1>1. TypeOK /\ [M!Next]_(M!vars)
    BY MembershipStep DEF IInv
  <1>2. ASSUME NEW u \in Users, u \in accounts, accounts' = accounts \ {u},
               UNCHANGED <<group, members>>
        PROVE  UNCHANGED <<members, Deleted>>
    BY <1>2 DEF Deleted
  <1>3. CASE accounts' = accounts
    <2>1. ASSUME NEW g \in Groups, NEW u \in Users, M!Found(g, u)
          PROVE  Deleted' = Deleted /\ Joins(g, u)
      <3>1. members[g] = {}
        BY <1>1, <2>1, OwnersMeanRows DEF M!Found, NobodyIsInNoGroup
      <3> QED
        BY <1>1, <2>1, <3>1 DEF M!Found, Joins, TypeOK
    <2>2. ASSUME NEW g \in Groups, NEW u \in Users, M!Join(g, u)
          PROVE  Deleted' = Deleted /\ (Joins(g, u) \/ members' = members)
      BY <1>1, <2>2 DEF M!Join, Joins, TypeOK
    <2>3. ASSUME NEW g \in Groups, NEW u \in Users, M!Leave(g, u)
          PROVE  Deleted' = Deleted /\ (Leaves(g, u) \/ members' = members)
      BY <1>1, <2>3 DEF M!Leave, Leaves, TypeOK
    <2>4. ASSUME NEW g \in Groups, M!Delete(g)
          PROVE  members' = members /\ g \notin Deleted /\ Deleted' = Deleted \cup {g}
      BY <2>4 DEF M!Delete, M!Live
    <2>5. CASE UNCHANGED M!vars
      BY <1>3, <2>5 DEF M!vars
    <2> QED
      BY <1>1, <1>3, <2>1, <2>2, <2>3, <2>4, <2>5 DEF M!Next
  <1> QED
    BY <1>2, <1>3, AccountsGo

(* To the feed that is a step of its own. *)
LEMMA FeedMoves ==
    ASSUME IInv, NobodyIsInNoGroup, [Next]_vars, FeedFollows
    PROVE  [F!Next]_(F!vars)
  <1>1. /\ accounts' = accounts => UNCHANGED <<floor, exceptions>>
        /\ \A u \in accounts : accounts' = accounts \ {u} =>
              /\ floor' = [floor EXCEPT ![u] = 0]
              /\ exceptions' = [exceptions EXCEPT ![u] = {}]
    BY DEF FeedFollows
  <1>2. UNCHANGED F!logVars /\ UNCHANGED stmt
    BY DEF FeedFollows, F!logVars
  <1>3. TypeOK
    BY DEF IInv
  <1>4. ASSUME NEW g \in Groups, NEW u \in Users, UNCHANGED <<Deleted, accounts>>, Joins(g, u)
        PROVE  F!AddGroupMember(g, u)
    <2>1. ~Hides
      BY <1>3, <1>4 DEF Hides, Joins, TypeOK
    <2> QED
      BY <1>1, <1>2, <1>4, <2>1 DEF F!AddGroupMember, F!readVars, Joins, FeedFollows
  <1>5. ASSUME NEW g \in Groups, NEW u \in Users, UNCHANGED <<Deleted, accounts>>, Leaves(g, u)
        PROVE  F!RemoveGroupMember(g, u)
    <2>1. Hides
      BY <1>3, <1>5 DEF Hides, Leaves, TypeOK
    <2>2. walk' = F!StillVisible(members', Deleted)
      BY <1>5, <2>1 DEF FeedFollows
    <2> QED
      BY <1>1, <1>2, <1>5, <2>2 DEF F!RemoveGroupMember, F!readVars, Leaves
  <1>6. ASSUME NEW g \in Groups \ Deleted, UNCHANGED <<members, accounts>>,
               Deleted' = Deleted \cup {g}
        PROVE  F!SoftDeleteGroup(g)
    <2>1. Hides
      BY <1>6 DEF Hides
    <2>2. walk' = F!StillVisible(members, Deleted')
      BY <1>6, <2>1 DEF FeedFollows
    <2> QED
      BY <1>1, <1>2, <1>6, <2>2 DEF F!SoftDeleteGroup, F!readVars
  <1>7. ASSUME UNCHANGED <<members, Deleted>> PROVE walk' = walk
    BY <1>7 DEF FeedFollows, Hides
  <1>8. ASSUME NEW u \in Users, UNCHANGED <<members, Deleted>>, u \in accounts,
               accounts' = accounts \ {u}
        PROVE  F!DeleteUserById(u)
    BY <1>1, <1>2, <1>7, <1>8 DEF F!DeleteUserById
  <1>9. ASSUME UNCHANGED <<members, Deleted, accounts>> PROVE UNCHANGED F!vars
    BY <1>1, <1>2, <1>7, <1>9 DEF F!vars, F!permVars, F!readVars
  <1> QED
    BY <1>4, <1>5, <1>6, <1>8, <1>9, OneChange DEF F!Next, F!PermNext

(* Feed and group service together: the service behaves as it does alone,  *)
(* and the feed as it does among memberships that change as they like.     *)
(* What is proved of either alone holds of the two together.               *)
THEOREM GroupsUnderFeed == GroupFeedSpec => Spec /\ FeedSpec
  <1>1. GroupFeedInit => Init /\ F!Init
    BY DEF GroupFeedInit
  <1>2. [GroupFeedNext]_groupFeedVars => [Next]_vars
    BY DEF GroupFeedNext, groupFeedVars
  <1>3. IInv /\ NobodyIsInNoGroup /\ [GroupFeedNext]_groupFeedVars => [F!Next]_(F!vars)
    <2>1. ASSUME UNCHANGED groupFeedVars PROVE UNCHANGED F!vars
      BY <2>1 DEF groupFeedVars, feedVars, vars, Deleted,
         F!vars, F!logVars, F!permVars, F!readVars
    <2> QED
      BY <2>1, FeedMoves DEF GroupFeedNext
  <1>4. GroupFeedSpec => Spec
    BY <1>1, <1>2, PTL DEF GroupFeedSpec, Spec
  <1>5. GroupFeedSpec => FeedSpec
    BY <1>1, <1>3, <1>4, InvAlways, NobodyAlways, PTL DEF GroupFeedSpec, FeedSpec, F!Spec
  <1> QED
    BY <1>4, <1>5

(* To the stream, which knows the groups that are not deleted, the same    *)
(* step is one of its own: it does not see who comes or goes in a deleted  *)
(* group, and a deletion takes a group from all its members at once.       *)
LEMMA StreamMoves ==
    ASSUME IInv, NobodyIsInNoGroup, [Next]_vars, StreamFollows
    PROVE  [L!Next]_(L!vars)
  <1>1. TypeOK /\ Shown \in [Groups -> SUBSET Users]
    BY DEF IInv, TypeOK, Shown
  <1>2. /\ UNCHANGED <<log, L!listenVars, L!hubVars, L!connVars, client, gap, dropped, restarts>>
        /\ owed' = IF Loses THEN [c \in Conns |-> owed[c] \ Lost(c)] ELSE owed
    BY DEF StreamFollows, L!listenVars, L!hubVars, L!connVars
  <1>3. ASSUME Shown' = Shown PROVE UNCHANGED L!vars
    <2>1. ~Loses
      BY <1>3 DEF Loses
    <2> QED
      BY <1>2, <1>3, <2>1 DEF L!vars, L!ledger
  <1>4. ASSUME NEW g \in Groups, NEW u \in Users, Deleted' = Deleted, Joins(g, u)
        PROVE  L!AddGroupMember(g, u) \/ Shown' = Shown
    <2>1. CASE g \in Deleted
      BY <1>1, <1>4, <2>1 DEF Shown, Joins, TypeOK
    <2>2. CASE g \notin Deleted
      <3>1. u \notin Shown[g] /\ Shown' = [Shown EXCEPT ![g] = @ \cup {u}]
        BY <1>1, <1>4, <2>2 DEF Shown, Joins, TypeOK
      <3>2. ~Loses
        BY <1>1, <3>1 DEF Loses
      <3> QED
        BY <1>2, <3>1, <3>2 DEF L!AddGroupMember, L!ledger
    <2> QED
      BY <2>1, <2>2
  <1>5. ASSUME NEW g \in Groups, NEW u \in Users, Deleted' = Deleted, Leaves(g, u)
        PROVE  L!RemoveGroupMember(g, u) \/ Shown' = Shown
    <2>1. CASE g \in Deleted
      BY <1>1, <1>5, <2>1 DEF Shown, Leaves, TypeOK
    <2>2. CASE g \notin Deleted
      <3>1. u \in Shown[g] /\ Shown' = [Shown EXCEPT ![g] = @ \ {u}]
        BY <1>1, <1>5, <2>2 DEF Shown, Leaves, TypeOK
      <3>2. Loses /\ \A c \in Conns : Lost(c) = IF user[c] = u THEN {g} ELSE {}
        BY <1>1, <3>1 DEF Loses, Lost
      <3>3. owed' = [c \in Conns |-> IF user[c] = u THEN owed[c] \ {g} ELSE owed[c]]
        BY <1>2, <3>2
      <3> QED
        BY <1>2, <3>1, <3>3 DEF L!RemoveGroupMember
    <2> QED
      BY <2>1, <2>2
  <1>6. ASSUME NEW g \in Groups \ Deleted, members' = members, Deleted' = Deleted \cup {g}
        PROVE  L!SoftDeleteGroup(g) \/ Shown' = Shown
    <2>1. Shown' = [Shown EXCEPT ![g] = {}]
      BY <1>1, <1>6 DEF Shown
    <2>2. CASE Shown[g] = {}
      BY <1>1, <2>1, <2>2
    <2>3. CASE Shown[g] # {}
      <3>1. Loses /\ \A c \in Conns : Lost(c) = IF user[c] \in Shown[g] THEN {g} ELSE {}
        BY <1>1, <2>1, <2>3 DEF Loses, Lost
      <3>2. owed' = [c \in Conns |-> IF user[c] \in Shown[g] THEN owed[c] \ {g} ELSE owed[c]]
        BY <1>2, <3>1
      <3> QED
        BY <1>2, <2>1, <2>3, <3>2 DEF L!SoftDeleteGroup
    <2> QED
      BY <2>2, <2>3
  <1>7. ASSUME UNCHANGED <<members, Deleted>> PROVE Shown' = Shown
    BY <1>7 DEF Shown
  <1> QED
    BY <1>3, <1>4, <1>5, <1>6, <1>7, OneChange DEF L!Next, L!Database

(* Stream and group service together, in the same way. *)
THEOREM GroupsUnderStream == GroupStreamSpec => Spec /\ StreamSpec
  <1>1. GroupStreamInit => Init /\ L!Init
    BY DEF GroupStreamInit
  <1>2. [GroupStreamNext]_groupStreamVars => [Next]_vars
    BY DEF GroupStreamNext, groupStreamVars
  <1>3. IInv /\ NobodyIsInNoGroup /\ [GroupStreamNext]_groupStreamVars => [L!Next]_(L!vars)
    <2>1. ASSUME UNCHANGED groupStreamVars PROVE UNCHANGED L!vars
      BY <2>1 DEF groupStreamVars, vars, Shown, Deleted,
         L!vars, L!listenVars, L!hubVars, L!connVars, L!ledger
    <2> QED
      BY <2>1, StreamMoves DEF GroupStreamNext
  <1>4. GroupStreamSpec => Spec
    BY <1>1, <1>2, PTL DEF GroupStreamSpec, Spec
  <1>5. GroupStreamSpec => StreamSpec
    BY <1>1, <1>3, <1>4, InvAlways, NobodyAlways, PTL DEF GroupStreamSpec, StreamSpec, L!Spec
  <1> QED
    BY <1>4, <1>5

(* GroupTitles is about one group and one of its users. *)
SeenByOne(g, u) == member = (u \in members[g]) /\ deleted = (g \in Deleted)

(* To the titles of a group every step of the group service is a leave, a  *)
(* join or the group's deletion, as GroupTitles has them, or nothing.      *)
THEOREM TitlesAmongGroups ==
    ASSUME NEW g \in Groups, NEW u \in Users
    PROVE  Spec /\ []SeenByOne(g, u) =>
              [][UNCHANGED <<row, season, call>> =>
                    LeaveOrJoin \/ SoftDelete \/ UNCHANGED titleVars]_vars
  <1>1. IInv /\ NobodyIsInNoGroup /\ [Next]_vars /\ SeenByOne(g, u) /\ SeenByOne(g, u)' =>
          [UNCHANGED <<row, season, call>> =>
             LeaveOrJoin \/ SoftDelete \/ UNCHANGED titleVars]_vars
    <2> SUFFICES ASSUME IInv, NobodyIsInNoGroup, [Next]_vars, SeenByOne(g, u), SeenByOne(g, u)',
                        UNCHANGED <<row, season, call>>
                 PROVE  LeaveOrJoin \/ SoftDelete \/ UNCHANGED titleVars
      OBVIOUS
    <2>1. TypeOK
      BY DEF IInv
    <2>2. ASSUME NEW h \in Groups, NEW v \in Users, Joins(h, v) \/ Leaves(h, v),
                 Deleted' = Deleted
          PROVE  LeaveOrJoin \/ UNCHANGED titleVars
      <3>1. CASE h = g /\ v = u
        <4>1. (u \in members'[g]) = ~(u \in members[g])
          BY <2>1, <2>2, <3>1 DEF Joins, Leaves, TypeOK
        <4> QED
          BY <2>2, <4>1 DEF LeaveOrJoin, SeenByOne
      <3>2. CASE ~(h = g /\ v = u)
        <4>1. (u \in members'[g]) = (u \in members[g])
          BY <2>1, <2>2, <3>2 DEF Joins, Leaves, TypeOK
        <4> QED
          BY <2>2, <4>1 DEF titleVars, SeenByOne
      <3> QED
        BY <3>1, <3>2
    <2>3. ASSUME NEW h \in Groups \ Deleted, Deleted' = Deleted \cup {h}, members' = members
          PROVE  SoftDelete \/ UNCHANGED titleVars
      <3>1. (g \in Deleted') = (g \in Deleted \/ h = g) /\ h \notin Deleted
        BY <2>3
      <3>2. member' = member
        BY <2>3 DEF SeenByOne
      <3>3. CASE h = g
        <4>1. ~deleted /\ deleted' = TRUE
          BY <3>1, <3>3 DEF SeenByOne
        <4> QED
          BY <3>2, <4>1 DEF SoftDelete
      <3>4. CASE h # g
        <4>1. deleted' = deleted
          BY <3>1, <3>4 DEF SeenByOne
        <4> QED
          BY <3>2, <4>1 DEF titleVars
      <3> QED
        BY <3>3, <3>4
    <2>4. ASSUME UNCHANGED <<members, Deleted>> PROVE UNCHANGED titleVars
      BY <2>4 DEF titleVars, SeenByOne
    <2> QED
      BY <2>2, <2>3, <2>4, OneChange
  <1> QED
    BY <1>1, InvAlways, NobodyAlways, PTL DEF Spec

-----------------------------------------------------------------------------
(* The titles of a group: the recompute rule *)

(* A set of dates that is not empty has a latest one. *)
LEMMA HasLatest ==
    ASSUME NEW dates \in SUBSET (Dates \cup {NoDate}), dates # {}
    PROVE  \E d \in dates : \A e \in dates : e <= d
  <1> DEFINE R    == OpToRel(<, Nat)
             left == {MaxDate - d : d \in dates}
  <1>1. MaxDate \in Nat /\ \A d \in dates : d \in 0..MaxDate
    BY GroupTitlesAssumption DEF Dates, NoDate
  <1>2. left \subseteq Nat /\ left # {}
    BY <1>1
  <1>3. \A x, y \in Nat : <<x, y>> \in R <=> x < y
    BY DEF OpToRel
  <1>4. IsWellFoundedOn(R, Nat)
    BY NatLessThanWellFounded
  <1> HIDE DEF R
  <1>5. PICK x \in left : \A y \in left : ~(<<y, x>> \in R)
    <2> HIDE DEF left
    <2> QED
      BY <1>2, <1>4, WFMin
  <1>6. ASSUME NEW y \in left PROVE x <= y
    <2>1. x \in Nat /\ y \in Nat /\ ~(<<y, x>> \in R)
      <3> HIDE DEF left
      <3> QED
        BY <1>2, <1>5
    <2> HIDE DEF left
    <2> QED
      BY <1>3, <2>1
  <1>7. PICK d \in dates : x = MaxDate - d
    OBVIOUS
  <1>8. ASSUME NEW e \in dates PROVE e <= d
    <2>1. x <= MaxDate - e
      BY <1>6
    <2> QED
      BY <1>1, <1>7, <2>1
  <1> QED
    BY <1>8

(* What the recompute rule yields: a well-formed row that shows as watched *)
(* exactly when a season is, at a date that no watched season is past and, *)
(* if there is one, that a watched season has.                             *)
LEMMA RollupFacts ==
    ASSUME NEW seasons \in SeasonRows
    PROVE  /\ Rollup(seasons) \in Row
           /\ Rollup(seasons).watched = (\E s \in Seasons : seasons[s] # NoRow
                                                             /\ seasons[s].watched)
           /\ \A s \in Seasons : seasons[s] # NoRow /\ seasons[s].watched =>
                 seasons[s].at <= Rollup(seasons).at
           /\ Rollup(seasons).at # NoDate =>
                 \E s \in Seasons : seasons[s] # NoRow /\ seasons[s].watched
                                    /\ seasons[s].at = Rollup(seasons).at
  <1> DEFINE watched == {s \in Seasons : seasons[s] # NoRow /\ seasons[s].watched}
             dates   == {seasons[s].at : s \in watched} \cup {NoDate}
             latest  == CHOOSE d \in dates : \A e \in dates : e <= d
  <1>1. \A s \in watched : seasons[s].at \in Dates \cup {NoDate}
    BY DEF SeasonRows, Row
  <1>2. dates \in SUBSET (Dates \cup {NoDate}) /\ dates # {}
    BY <1>1
  <1>3. latest \in dates /\ \A e \in dates : e <= latest
    <2> HIDE DEF dates
    <2>1. \E d \in dates : \A e \in dates : e <= d
      BY <1>2, HasLatest
    <2> QED
      BY <2>1
  <1>4. Rollup(seasons) = [watched |-> watched # {}, at |-> latest]
    BY DEF Rollup
  <1>5. \A s \in watched : seasons[s].at <= latest
    BY <1>3
  <1>6. latest # NoDate => \E s \in watched : seasons[s].at = latest
    BY <1>3
  <1>7. latest \in Dates \cup {NoDate}
    BY <1>2, <1>3
  <1>8. Rollup(seasons).watched = (watched # {}) /\ Rollup(seasons).at = latest
    BY <1>4
  <1> HIDE DEF latest
  <1>9. Rollup(seasons) \in Row
    BY <1>4, <1>7 DEF Row
  <1> QED
    BY <1>5, <1>6, <1>8, <1>9

-----------------------------------------------------------------------------
(* The titles of a group: types *)

LEMMA BlankIsARow == Blank \in Row
  BY DEF Blank, Row

LEMMA MergedIsARow ==
    ASSUME NEW old \in Row, NEW q \in Call
    PROVE  Merged(old, q) \in Row
  BY DEF Merged, Row, Call

(* A call that begins, ends or goes on leaves well-formed calls. *)
LEMMA BeginType ==
    ASSUME TitlesTypeOK, NEW c \in Calls,
           NEW step \in {"movie", "series", "add", "remove"}, NEW t \in Titles,
           NEW s \in Seasons \cup {Keep}, NEW w \in BOOLEAN \cup {Keep},
           NEW d \in Dates \cup {NoDate, Keep}, BeginCall(c, step, t, s, w, d)
    PROVE  call' \in [Calls -> Call \cup {NoCall}]
  <1>1. [at |-> step, title |-> t, season |-> s, watched |-> w, date |-> d,
         row |-> Blank, seen |-> [z \in Seasons |-> NoRow]] \in Call
    BY BlankIsARow DEF Call, SeasonRows
  <1> QED
    BY <1>1 DEF BeginCall, TitlesTypeOK

LEMMA EndType ==
    ASSUME TitlesTypeOK, NEW c, EndCall(c)
    PROVE  call' \in [Calls -> Call \cup {NoCall}]
  BY DEF EndCall, TitlesTypeOK

-----------------------------------------------------------------------------
(* The titles of a group: the invariant                                    *)
(*                                                                         *)
(* A season update relies on the title's row that its own lock on a season *)
(* keeps from being deleted, and recomputes the title from seasons among   *)
(* which is its own; a title without a row has no season left.             *)

GoneIsBare == \A t \in Titles : row[t] = NoRow => \A s \in Seasons : season[t][s] = NoRow

CallSound(c) ==
    call[c] # NoCall =>
        /\ call[c].at \in {"series", "merged", "held", "rolled"} =>
              call[c].season \in Seasons
        /\ call[c].at \in {"held", "rolled"} => row[call[c].title] # NoRow
        /\ call[c].at = "rolled" => call[c].seen[call[c].season] = call[c].row

TitlesInv == TitlesTypeOK /\ GoneIsBare /\ \A c \in Calls : CallSound(c)

(* Every step keeps the types: a season update names a season. *)
LEMMA TitlesTypeStep == TitlesInv /\ [TitlesNext]_titleVars => TitlesTypeOK'
  <1> SUFFICES ASSUME TitlesInv, [TitlesNext]_titleVars PROVE TitlesTypeOK'
    OBVIOUS
  <1>t. TitlesTypeOK
    BY DEF TitlesInv
  <1>q. ASSUME NEW c \in Calls, NEW step, CallAt(c, step)
        PROVE  call[c] \in Call /\ call[c].title \in Titles /\ CallSound(c)
    BY <1>q, <1>t DEF CallAt, TitlesTypeOK, TitlesInv, Call
  <1>1. ASSUME NEW c \in Calls, NEW t \in Titles, StartAddTitle(c, t) \/ StartRemoveTitle(c, t)
        PROVE  TitlesTypeOK'
    BY <1>t, <1>1, BeginType DEF StartAddTitle, StartRemoveTitle, TitlesTypeOK
  <1>2. ASSUME NEW c \in Calls, NEW t \in Titles, NEW w \in BOOLEAN \cup {Keep},
               NEW d \in Dates \cup {NoDate, Keep}, StartWatchedForMovie(c, t, w, d)
        PROVE  TitlesTypeOK'
    <2>1. DateToWrite(w, d) \in Dates \cup {NoDate, Keep}
      BY DEF DateToWrite
    <2> QED
      BY <1>t, <1>2, <2>1, BeginType DEF StartWatchedForMovie, TitlesTypeOK
  <1>3. ASSUME NEW c \in Calls, NEW t \in Titles, NEW w \in BOOLEAN \cup {Keep},
               NEW d \in Dates \cup {NoDate, Keep}, NEW s \in Seasons,
               StartWatchedForTVSeries(c, t, s, w, d)
        PROVE  TitlesTypeOK'
    <2>1. DateToWrite(w, d) \in Dates \cup {NoDate, Keep}
      BY DEF DateToWrite
    <2> QED
      BY <1>t, <1>3, <2>1, BeginType DEF StartWatchedForTVSeries, TitlesTypeOK
  <1>4. ASSUME NEW c \in Calls, UpsertGroupTitle(c) PROVE TitlesTypeOK'
    BY <1>t, <1>4, BlankIsARow, EndType DEF UpsertGroupTitle, TitlesTypeOK
  <1>5. ASSUME NEW c \in Calls, DeleteGroupTitle(c) PROVE TitlesTypeOK'
    <2>1. [s \in Seasons |-> NoRow] \in SeasonRows
      BY DEF SeasonRows
    <2> QED
      BY <1>t, <1>5, <2>1, EndType DEF DeleteGroupTitle, TitlesTypeOK
  <1>6. ASSUME NEW c \in Calls, GetGroupTitleRow(c) PROVE TitlesTypeOK'
    <2> DEFINE q == call[c]
    <2>1. q \in Call /\ q.title \in Titles
      BY <1>t, <1>6, <1>q DEF GetGroupTitleRow, Call
    <2>2. CASE EndCall(c)
      BY <1>t, <1>6, <2>2, EndType DEF GetGroupTitleRow, TitlesTypeOK
    <2>3. CASE /\ row[q.title] # NoRow
               /\ call' = [call EXCEPT ![c].at = "moving", ![c].row = Merged(row[q.title], q)]
      <3>1. Merged(row[q.title], q) \in Row
        BY <1>t, <2>1, <2>3, MergedIsARow DEF TitlesTypeOK
      <3>2. [q EXCEPT !.at = "moving", !.row = Merged(row[q.title], q)] \in Call
        BY <2>1, <3>1 DEF Call
      <3>3. call' = [call EXCEPT ![c] =
                        [q EXCEPT !.at = "moving", !.row = Merged(row[q.title], q)]]
        BY <2>3
      <3> QED
        BY <1>t, <1>6, <3>2, <3>3 DEF GetGroupTitleRow, TitlesTypeOK
    <2> QED
      BY <1>t, <1>6, <2>2, <2>3 DEF GetGroupTitleRow
  <1>7. ASSUME NEW c \in Calls, UpdateGroupTitleWatchedRow(c) PROVE TitlesTypeOK'
    <2>1. call[c].row \in Row
      BY <1>t, <1>7, <1>q DEF UpdateGroupTitleWatchedRow, Call
    <2> QED
      BY <1>t, <1>7, <2>1, EndType DEF UpdateGroupTitleWatchedRow, TitlesTypeOK
  <1>8. ASSUME NEW c \in Calls, GetGroupTitleSeasonRow(c) PROVE TitlesTypeOK'
    <2> DEFINE q   == call[c]
               old == season[q.title][q.season]
               new == Merged(IF old = NoRow THEN Blank ELSE old, q)
    <2>1. q \in Call /\ q.title \in Titles /\ q.season \in Seasons
      BY <1>8, <1>q DEF GetGroupTitleSeasonRow, CallAt, CallSound
    <2>2. CASE EndCall(c)
      BY <1>t, <1>8, <2>2, EndType DEF GetGroupTitleSeasonRow, TitlesTypeOK
    <2>3. CASE call' = [call EXCEPT ![c].at = "merged", ![c].row = new]
      <3>1. old \in Row \cup {NoRow}
        BY <1>t, <2>1 DEF TitlesTypeOK, SeasonRows
      <3>2. new \in Row
        BY <2>1, <3>1, BlankIsARow, MergedIsARow
      <3>3. call' = [call EXCEPT ![c] = [q EXCEPT !.at = "merged", !.row = new]]
        BY <2>3
      <3> HIDE DEF new
      <3>4. [q EXCEPT !.at = "merged", !.row = new] \in Call
        BY <2>1, <3>2 DEF Call
      <3> QED
        BY <1>t, <1>8, <3>3, <3>4 DEF GetGroupTitleSeasonRow, TitlesTypeOK
    <2> QED
      BY <1>8, <2>2, <2>3 DEF GetGroupTitleSeasonRow
  <1>9. ASSUME NEW c \in Calls, UpsertGroupTitleSeason(c) PROVE TitlesTypeOK'
    <2>1. [call[c] EXCEPT !.at = "held"] \in Call
      BY <1>9, <1>q DEF UpsertGroupTitleSeason, Call
    <2>2. EndCall(c) \/ call' = [call EXCEPT ![c] = [call[c] EXCEPT !.at = "held"]]
      BY <1>9 DEF UpsertGroupTitleSeason, Advance
    <2> QED
      BY <1>t, <1>9, <2>1, <2>2, EndType DEF UpsertGroupTitleSeason, TitlesTypeOK
  <1>10. ASSUME NEW c \in Calls, GetGroupTitleSeasonRows(c) PROVE TitlesTypeOK'
    <2> DEFINE q == call[c]
    <2>1. q \in Call /\ q.title \in Titles /\ q.row \in Row
      BY <1>10, <1>q DEF GetGroupTitleSeasonRows, Call
    <2>2. SeenBy(q) \in SeasonRows
      BY <1>t, <2>1 DEF SeenBy, SeasonRows, TitlesTypeOK
    <2>3. [q EXCEPT !.at = "rolled", !.seen = SeenBy(q)] \in Call
      BY <2>1, <2>2 DEF Call
    <2>4. call' = [call EXCEPT ![c] = [q EXCEPT !.at = "rolled", !.seen = SeenBy(q)]]
      BY <1>10 DEF GetGroupTitleSeasonRows
    <2> QED
      BY <1>t, <1>10, <2>3, <2>4 DEF GetGroupTitleSeasonRows, TitlesTypeOK
  <1>11. ASSUME NEW c \in Calls, CommitSeason(c) PROVE TitlesTypeOK'
    <2> DEFINE q == call[c]
    <2>1. q \in Call /\ q.title \in Titles /\ q.row \in Row /\ q.seen \in SeasonRows
      BY <1>11, <1>q DEF CommitSeason, Call
    <2>2. Rollup(q.seen) \in Row
      BY <2>1, RollupFacts
    <2>3. row' = [row EXCEPT ![q.title] = Rollup(q.seen)] /\ EndCall(c)
      BY <1>11 DEF CommitSeason
    <2>4. season' \in [Titles -> SeasonRows]
      BY <1>t, <1>11, <2>1 DEF CommitSeason, TitlesTypeOK, SeasonRows
    <2> QED
      BY <1>t, <1>11, <2>2, <2>3, <2>4, EndType DEF CommitSeason, TitlesTypeOK
  <1>12. ASSUME NEW c \in Calls, AbandonCall(c) PROVE TitlesTypeOK'
    BY <1>t, <1>12, EndType DEF AbandonCall, TitlesTypeOK
  <1>13. ASSUME LeaveOrJoin \/ SoftDelete PROVE TitlesTypeOK'
    BY <1>t, <1>13 DEF LeaveOrJoin, SoftDelete, TitlesTypeOK
  <1>14. CASE UNCHANGED titleVars
    BY <1>t, <1>14 DEF titleVars, TitlesTypeOK
  <1> QED
    BY <1>t, <1>1, <1>2, <1>3, <1>4, <1>5, <1>6, <1>7, <1>8, <1>9, <1>10, <1>11, <1>12, <1>13, <1>14
    DEF TitlesNext

(* The rows change in four ways. *)
LEMMA RowSteps ==
    ASSUME [TitlesNext]_titleVars
    PROVE  \/ \E c \in Calls : \/ UpsertGroupTitle(c) \/ DeleteGroupTitle(c)
                               \/ UpdateGroupTitleWatchedRow(c) \/ CommitSeason(c)
           \/ UNCHANGED <<row, season>>
  <1>1. ASSUME NEW c \in Calls, NEW t \in Titles, StartAddTitle(c, t) \/ StartRemoveTitle(c, t)
        PROVE  UNCHANGED <<row, season>>
    BY <1>1 DEF StartAddTitle, StartRemoveTitle
  <1>2. ASSUME NEW c \in Calls, NEW t \in Titles, NEW w, NEW d, StartWatchedForMovie(c, t, w, d)
        PROVE  UNCHANGED <<row, season>>
    BY <1>2 DEF StartWatchedForMovie
  <1>3. ASSUME NEW c \in Calls, NEW t \in Titles, NEW s, NEW w, NEW d,
               StartWatchedForTVSeries(c, t, s, w, d)
        PROVE  UNCHANGED <<row, season>>
    BY <1>3 DEF StartWatchedForTVSeries
  <1>4. ASSUME NEW c \in Calls,
               \/ GetGroupTitleRow(c) \/ GetGroupTitleSeasonRow(c) \/ UpsertGroupTitleSeason(c)
               \/ GetGroupTitleSeasonRows(c) \/ AbandonCall(c)
        PROVE  UNCHANGED <<row, season>>
    BY <1>4 DEF GetGroupTitleRow, GetGroupTitleSeasonRow, UpsertGroupTitleSeason,
       GetGroupTitleSeasonRows, AbandonCall
  <1>5. ASSUME LeaveOrJoin \/ SoftDelete PROVE UNCHANGED <<row, season>>
    BY <1>5 DEF LeaveOrJoin, SoftDelete
  <1>6. CASE UNCHANGED titleVars
    BY <1>6 DEF titleVars
  <1> QED
    BY <1>1, <1>2, <1>3, <1>4, <1>5, <1>6 DEF TitlesNext

(* What each of the four writes to the title of its call: what a removal   *)
(* leaves is bare, nothing else removes a row, and only an addition makes  *)
(* one.                                                                    *)
LEMMA WriteFacts ==
    ASSUME TitlesInv, NEW c \in Calls
    PROVE  /\ UpsertGroupTitle(c) =>
                 /\ row' = [row EXCEPT ![call[c].title] = Blank] /\ season' = season
           /\ DeleteGroupTitle(c) =>
                 \/ UNCHANGED <<row, season>>
                 \/ /\ row' = [row EXCEPT ![call[c].title] = NoRow]
                    /\ season' = [season EXCEPT ![call[c].title] = [s \in Seasons |-> NoRow]]
           /\ UpdateGroupTitleWatchedRow(c) =>
                 \/ UNCHANGED <<row, season>>
                 \/ /\ row[call[c].title] # NoRow /\ call[c].row \in Row
                    /\ row' = [row EXCEPT ![call[c].title] = call[c].row] /\ season' = season
           /\ CommitSeason(c) =>
                 /\ row[call[c].title] # NoRow /\ Rollup(call[c].seen) \in Row
                 /\ call[c] \in Call /\ call[c].season \in Seasons
                 /\ call[c].seen \in SeasonRows
                 /\ call[c].seen[call[c].season] = call[c].row
                 /\ row' = [row EXCEPT ![call[c].title] = Rollup(call[c].seen)]
                 /\ season' = [season EXCEPT ![call[c].title][call[c].season] = call[c].row]
  <1>t. TitlesTypeOK /\ CallSound(c)
    BY DEF TitlesInv
  <1>1. ASSUME UpdateGroupTitleWatchedRow(c) PROVE call[c].row \in Row
    BY <1>1, <1>t DEF UpdateGroupTitleWatchedRow, CallAt, TitlesTypeOK, Call
  <1>2. ASSUME CommitSeason(c)
        PROVE  /\ call[c] \in Call /\ row[call[c].title] # NoRow
               /\ call[c].season \in Seasons /\ call[c].seen \in SeasonRows
               /\ call[c].seen[call[c].season] = call[c].row
    BY <1>2, <1>t DEF CommitSeason, CallAt, TitlesTypeOK, Call, CallSound
  <1>3. CommitSeason(c) => Rollup(call[c].seen) \in Row
    BY <1>2, RollupFacts
  <1> QED
    BY <1>1, <1>2, <1>3
    DEF UpsertGroupTitle, DeleteGroupTitle, UpdateGroupTitleWatchedRow, CommitSeason

(* A row that goes takes its seasons along, and nothing but an addition    *)
(* writes to a title that has none.                                        *)
LEMMA GoneStep ==
    TitlesInv /\ [TitlesNext]_titleVars =>
        \A t \in Titles :
           /\ row[t] = NoRow => /\ row'[t] \in {NoRow, Blank}
                                /\ \A s \in Seasons : season'[t][s] = NoRow
           /\ row'[t] = NoRow => \A s \in Seasons : season'[t][s] = NoRow
  <1> SUFFICES ASSUME TitlesInv, [TitlesNext]_titleVars, NEW t \in Titles
               PROVE  /\ row[t] = NoRow => /\ row'[t] \in {NoRow, Blank}
                                           /\ \A s \in Seasons : season'[t][s] = NoRow
                      /\ row'[t] = NoRow => \A s \in Seasons : season'[t][s] = NoRow
    OBVIOUS
  <1>t. /\ row \in [Titles -> Row \cup {NoRow}] /\ season \in [Titles -> SeasonRows]
        /\ row[t] = NoRow => \A s \in Seasons : season[t][s] = NoRow
        /\ NoRow \notin Row
    BY GroupTitlesAssumption DEF TitlesInv, TitlesTypeOK, GoneIsBare
  <1>1. ASSUME NEW c \in Calls, UpsertGroupTitle(c)
        PROVE  /\ row'[t] = row[t] \/ row'[t] = Blank
               /\ row'[t] = NoRow => row[t] = NoRow
               /\ season'[t] = season[t]
    BY <1>t, <1>1, WriteFacts, BlankIsARow
  <1>2. ASSUME NEW c \in Calls, DeleteGroupTitle(c)
        PROVE  \/ row'[t] = row[t] /\ season'[t] = season[t]
               \/ row'[t] = NoRow /\ \A s \in Seasons : season'[t][s] = NoRow
    <2>1. \/ UNCHANGED <<row, season>>
          \/ /\ row' = [row EXCEPT ![call[c].title] = NoRow]
             /\ season' = [season EXCEPT ![call[c].title] = [s \in Seasons |-> NoRow]]
      BY <1>2, WriteFacts
    <2> QED
      BY <1>t, <2>1
  <1>3. ASSUME NEW c \in Calls, UpdateGroupTitleWatchedRow(c)
        PROVE  /\ row'[t] = NoRow <=> row[t] = NoRow
               /\ season'[t] = season[t]
    BY <1>t, <1>3, WriteFacts
  <1>4. ASSUME NEW c \in Calls, CommitSeason(c)
        PROVE  \/ row'[t] = row[t] /\ season'[t] = season[t]
               \/ row[t] # NoRow /\ row'[t] # NoRow
    <2>1. /\ row[call[c].title] # NoRow /\ Rollup(call[c].seen) \in Row
          /\ row' = [row EXCEPT ![call[c].title] = Rollup(call[c].seen)]
          /\ season' = [season EXCEPT ![call[c].title][call[c].season] = call[c].row]
      BY <1>4, WriteFacts
    <2> QED
      BY <1>t, <2>1
  <1>5. CASE UNCHANGED <<row, season>>
    BY <1>t, <1>5
  <1> QED
    BY <1>t, <1>1, <1>2, <1>3, <1>4, <1>5, RowSteps

(* The lock on a season keeps the title's row. *)
LEMMA LockKeepsTheRow ==
    TitlesInv /\ [TitlesNext]_titleVars =>
        \A c \in Calls : CallAt(c, "held") \/ CallAt(c, "rolled") =>
                            row'[call[c].title] # NoRow
  <1> SUFFICES ASSUME TitlesInv, [TitlesNext]_titleVars, NEW c \in Calls,
                      CallAt(c, "held") \/ CallAt(c, "rolled")
               PROVE  row'[call[c].title] # NoRow
    OBVIOUS
  <1> DEFINE t == call[c].title
  <1>t. /\ row \in [Titles -> Row \cup {NoRow}] /\ NoRow \notin Row
        /\ t \in Titles /\ row[t] # NoRow
    BY GroupTitlesAssumption DEF TitlesInv, TitlesTypeOK, CallSound, CallAt, Call
  <1>1. ASSUME NEW d \in Calls, UpsertGroupTitle(d) PROVE row'[t] # NoRow
    BY <1>t, <1>1, WriteFacts, BlankIsARow
  <1>2. ASSUME NEW d \in Calls, DeleteGroupTitle(d) PROVE row'[t] # NoRow
    <2>1. call[d].title # t
      BY <1>2 DEF DeleteGroupTitle
    <2> QED
      BY <1>t, <1>2, <2>1, WriteFacts
  <1>3. ASSUME NEW d \in Calls, UpdateGroupTitleWatchedRow(d) PROVE row'[t] # NoRow
    BY <1>t, <1>3, WriteFacts
  <1>4. ASSUME NEW d \in Calls, CommitSeason(d) PROVE row'[t] # NoRow
    <2>1. /\ Rollup(call[d].seen) \in Row
          /\ row' = [row EXCEPT ![call[d].title] = Rollup(call[d].seen)]
      BY <1>4, WriteFacts
    <2> QED
      BY <1>t, <2>1
  <1>5. CASE UNCHANGED <<row, season>>
    BY <1>t, <1>5
  <1> QED
    BY <1>1, <1>2, <1>3, <1>4, <1>5, RowSteps

(* What a season update relies on stays true of it, whatever the others do *)
LEMMA CallStep == TitlesInv /\ [TitlesNext]_titleVars => \A c \in Calls : CallSound(c)'
  <1> SUFFICES ASSUME TitlesInv, [TitlesNext]_titleVars PROVE \A c \in Calls : CallSound(c)'
    OBVIOUS
  <1>t. TitlesTypeOK /\ call \in [Calls -> Call \cup {NoCall}]
    BY DEF TitlesInv, TitlesTypeOK
  <1>s. ASSUME NEW c \in Calls, call'[c] = call[c] PROVE CallSound(c)'
    <2>1. CallSound(c)
      BY DEF TitlesInv
    <2>2. call[c] # NoCall /\ call[c].at \in {"held", "rolled"} => row'[call[c].title] # NoRow
      BY LockKeepsTheRow DEF CallAt
    <2> QED
      BY <1>s, <2>1, <2>2 DEF CallSound
  <1>e. ASSUME NEW c \in Calls, EndCall(c) PROVE \A d \in Calls : CallSound(d)'
    <2> TAKE d \in Calls
    <2>1. call'[d] = call[d] \/ call'[d] = NoCall
      BY <1>t, <1>e DEF EndCall
    <2> QED
      BY <1>s, <2>1 DEF CallSound
  <1>b. ASSUME NEW c \in Calls, NEW step \in {"movie", "series", "add", "remove"}, NEW t,
               NEW s, step = "series" => s \in Seasons, NEW w, NEW d,
               BeginCall(c, step, t, s, w, d)
        PROVE  \A e \in Calls : CallSound(e)'
    <2> TAKE e \in Calls
    <2>1. CASE e # c
      BY <1>t, <1>b, <1>s, <2>1 DEF BeginCall
    <2>2. CASE e = c
      <3>1. call'[c].at = step /\ call'[c].season = s
        BY <1>t, <1>b DEF BeginCall
      <3> QED
        BY <1>b, <2>2, <3>1 DEF CallSound
    <2> QED
      BY <2>1, <2>2
  <1>1. ASSUME NEW c \in Calls, NEW t \in Titles, StartAddTitle(c, t) \/ StartRemoveTitle(c, t)
        PROVE  \A d \in Calls : CallSound(d)'
    BY <1>1, <1>b DEF StartAddTitle, StartRemoveTitle
  <1>2. ASSUME NEW c \in Calls, NEW t \in Titles, NEW w, NEW d, StartWatchedForMovie(c, t, w, d)
        PROVE  \A e \in Calls : CallSound(e)'
    BY <1>2, <1>b DEF StartWatchedForMovie
  <1>3. ASSUME NEW c \in Calls, NEW t \in Titles, NEW s \in Seasons, NEW w, NEW d,
               StartWatchedForTVSeries(c, t, s, w, d)
        PROVE  \A e \in Calls : CallSound(e)'
    BY <1>3, <1>b DEF StartWatchedForTVSeries
  <1>4. ASSUME NEW c \in Calls,
               \/ UpsertGroupTitle(c) \/ DeleteGroupTitle(c) \/ UpdateGroupTitleWatchedRow(c)
               \/ CommitSeason(c) \/ AbandonCall(c)
        PROVE  \A d \in Calls : CallSound(d)'
    BY <1>4, <1>e DEF UpsertGroupTitle, DeleteGroupTitle, UpdateGroupTitleWatchedRow,
       CommitSeason, AbandonCall
  (* A call that goes on: the others are as they were. *)
  <1>g. ASSUME NEW c \in Calls, NEW q, call' = [call EXCEPT ![c] = q], CallSound(c)'
        PROVE  \A d \in Calls : CallSound(d)'
    <2> TAKE d \in Calls
    <2>1. d # c => call'[d] = call[d]
      BY <1>t, <1>g
    <2> QED
      BY <1>g, <1>s, <2>1
  <1>c. ASSUME NEW c \in Calls, NEW step, CallAt(c, step)
        PROVE  call[c] \in Call /\ call[c].at = step /\ CallSound(c) /\ call[c] # NoCall
    BY <1>t, <1>c DEF CallAt, TitlesInv
  <1>5. ASSUME NEW c \in Calls, GetGroupTitleRow(c) PROVE \A d \in Calls : CallSound(d)'
    <2> DEFINE q == [call[c] EXCEPT !.at = "moving", !.row = Merged(row[call[c].title], call[c])]
    <2>1. EndCall(c) \/ call' = [call EXCEPT ![c] = q]
      BY <1>5 DEF GetGroupTitleRow
    <2>2. ASSUME call' = [call EXCEPT ![c] = q] PROVE CallSound(c)'
      <3>1. call'[c].at = "moving"
        BY <1>t, <1>5, <1>c, <2>2 DEF GetGroupTitleRow, Call
      <3> QED
        BY <3>1 DEF CallSound
    <2> HIDE DEF q
    <2> QED
      BY <1>e, <1>g, <2>1, <2>2
  <1>6. ASSUME NEW c \in Calls, GetGroupTitleSeasonRow(c)
        PROVE  \A d \in Calls : CallSound(d)'
    <2> DEFINE old == season[call[c].title][call[c].season]
               q   == [call[c] EXCEPT !.at = "merged",
                          !.row = Merged(IF old = NoRow THEN Blank ELSE old, call[c])]
    <2>1. EndCall(c) \/ call' = [call EXCEPT ![c] = q]
      BY <1>6 DEF GetGroupTitleSeasonRow
    <2>2. ASSUME call' = [call EXCEPT ![c] = q] PROVE CallSound(c)'
      <3>1. call[c] \in Call /\ call[c].season \in Seasons
        BY <1>6, <1>c DEF GetGroupTitleSeasonRow, CallSound
      <3>2. call'[c].at = "merged" /\ call'[c].season = call[c].season
        BY <1>t, <2>2, <3>1 DEF Call
      <3> QED
        BY <3>1, <3>2 DEF CallSound
    <2> HIDE DEF q
    <2> QED
      BY <1>e, <1>g, <2>1, <2>2
  <1>7. ASSUME NEW c \in Calls, UpsertGroupTitleSeason(c)
        PROVE  \A d \in Calls : CallSound(d)'
    <2> DEFINE q == [call[c] EXCEPT !.at = "held"]
    <2>1. \/ EndCall(c)
          \/ row[call[c].title] # NoRow /\ call' = [call EXCEPT ![c] = q]
      BY <1>7 DEF UpsertGroupTitleSeason, Advance
    <2>2. ASSUME row[call[c].title] # NoRow, call' = [call EXCEPT ![c] = q]
          PROVE  CallSound(c)'
      <3>1. call[c] \in Call /\ call[c].season \in Seasons /\ row' = row
        BY <1>7, <1>c DEF UpsertGroupTitleSeason, CallSound
      <3>2. /\ call'[c].at = "held" /\ call'[c].season = call[c].season
            /\ call'[c].title = call[c].title
        BY <1>t, <2>2, <3>1 DEF Call
      <3> QED
        BY <2>2, <3>1, <3>2 DEF CallSound
    <2> HIDE DEF q
    <2> QED
      BY <1>e, <1>g, <2>1, <2>2
  <1>8. ASSUME NEW c \in Calls, GetGroupTitleSeasonRows(c)
        PROVE  \A d \in Calls : CallSound(d)'
    <2> DEFINE q == [call[c] EXCEPT !.at = "rolled", !.seen = SeenBy(call[c])]
    <2>1. call' = [call EXCEPT ![c] = q] /\ row' = row
      BY <1>8 DEF GetGroupTitleSeasonRows
    <2>2. call[c] \in Call /\ call[c].season \in Seasons /\ row[call[c].title] # NoRow
      BY <1>8, <1>c DEF GetGroupTitleSeasonRows, CallSound
    <2>3. /\ call'[c].at = "rolled" /\ call'[c].season = call[c].season
          /\ call'[c].title = call[c].title /\ call'[c].row = call[c].row
          /\ call'[c].seen = SeenBy(call[c])
      BY <1>t, <2>1, <2>2 DEF Call
    <2>4. SeenBy(call[c])[call[c].season] = call[c].row
      BY <1>t, <2>2 DEF SeenBy, TitlesTypeOK, SeasonRows, Call
    <2>5. CallSound(c)'
      BY <2>1, <2>2, <2>3, <2>4 DEF CallSound
    <2> HIDE DEF q
    <2> QED
      BY <1>g, <2>1, <2>5
  <1>9. ASSUME LeaveOrJoin \/ SoftDelete \/ UNCHANGED titleVars
        PROVE  \A d \in Calls : CallSound(d)'
    BY <1>9, <1>s DEF LeaveOrJoin, SoftDelete, titleVars
  <1> QED
    BY <1>1, <1>2, <1>3, <1>4, <1>5, <1>6, <1>7, <1>8, <1>9 DEF TitlesNext

LEMMA TitlesInvariance == TitlesSpec => []TitlesInv
  <1>1. TitlesInit => TitlesInv
    BY DEF TitlesInit, TitlesInv, TitlesTypeOK, SeasonRows, GoneIsBare, CallSound
  <1>2. TitlesInv /\ [TitlesNext]_titleVars => TitlesInv'
    <2> SUFFICES ASSUME TitlesInv, [TitlesNext]_titleVars PROVE TitlesInv'
      OBVIOUS
    <2>1. GoneIsBare'
      BY GoneStep DEF GoneIsBare
    <2> QED
      BY <2>1, TitlesTypeStep, CallStep DEF TitlesInv
  <1> QED
    BY <1>1, <1>2, PTL DEF TitlesSpec

(* Rows, dates and calls are well formed in every state: the recomputed    *)
(* date of a series is one of a season's, or none.                         *)
THEOREM TitlesTypesCorrect == TitlesSpec => []TitlesTypeOK
  <1>1. TitlesInv => TitlesTypeOK
    BY DEF TitlesInv
  <1> QED
    BY <1>1, TitlesInvariance, PTL

-----------------------------------------------------------------------------
(* A title that comes into the group comes in blank and bare: no update    *)
(* that was under way when it was removed writes its row again or leaves a *)
(* season behind.                                                          *)
THEOREM RemovedStaysRemoved == TitlesSpec => RemovedComesBackBlank
  <1> DEFINE Bare == \A t \in Titles : row[t] = NoRow =>
                        /\ row'[t] \in {NoRow, Blank}
                        /\ \A s \in Seasons : season'[t][s] = NoRow
  <1>1. TitlesInv /\ [TitlesNext]_titleVars => [Bare]_titleVars
    BY GoneStep
  <1> QED
    BY <1>1, TitlesInvariance, PTL DEF TitlesSpec, RemovedComesBackBlank

(* The step that commits a season leaves the title as the rule computes it *)
(* from what the update saw, its own season among it.                      *)
LEMMA CommitFacts ==
    ASSUME TitlesInv, NEW c \in Calls, CommitSeason(c)
    PROVE  LET t    == call[c].title
               s    == call[c].season
               seen == call[c].seen
           IN  /\ t \in Titles /\ s \in Seasons /\ seen \in SeasonRows
               /\ seen[s] = call[c].row /\ call[c].row \in Row
               /\ row'[t] = Rollup(seen)
               /\ season'[t][s] = call[c].row
               /\ \A z \in Seasons \ {s} : season'[t][z] = season[t][z]
  <1>1. row \in [Titles -> Row \cup {NoRow}] /\ season \in [Titles -> SeasonRows]
    BY DEF TitlesInv, TitlesTypeOK
  <1>2. /\ call[c] \in Call /\ call[c].season \in Seasons /\ call[c].seen \in SeasonRows
        /\ call[c].seen[call[c].season] = call[c].row
        /\ row' = [row EXCEPT ![call[c].title] = Rollup(call[c].seen)]
        /\ season' = [season EXCEPT ![call[c].title][call[c].season] = call[c].row]
    BY WriteFacts
  <1>3. call[c].title \in Titles /\ call[c].row \in Row
    BY <1>2 DEF Call
  <1> QED
    BY <1>1, <1>2, <1>3 DEF SeasonRows

(* Once a season is recorded as watched its series shows as watched, at    *)
(* that season's date or a later one: the update recomputes the title from *)
(* seasons among which is its own, whatever else is under way.             *)
THEOREM WatchedSeasonsShow == TitlesSpec => WatchedSeasonShows
  <1> DEFINE Shows == \A c \in Calls : CommitSeason(c) =>
                         LET t == call[c].title
                             s == call[c].season
                         IN  season'[t][s].watched =>
                                row'[t].watched /\ season'[t][s].at <= row'[t].at
  <1>1. TitlesInv /\ [TitlesNext]_titleVars => [Shows]_titleVars
    <2> SUFFICES ASSUME TitlesInv, NEW c \in Calls, CommitSeason(c),
                        season'[call[c].title][call[c].season].watched
                 PROVE  /\ row'[call[c].title].watched
                        /\ season'[call[c].title][call[c].season].at
                              <= row'[call[c].title].at
      OBVIOUS
    <2> DEFINE t    == call[c].title
               s    == call[c].season
               seen == call[c].seen
    <2>1. /\ s \in Seasons /\ seen \in SeasonRows /\ seen[s] \in Row
          /\ row'[t] = Rollup(seen) /\ season'[t][s] = seen[s]
      BY CommitFacts
    <2>2. seen[s] # NoRow /\ seen[s].watched
      BY <2>1, GroupTitlesAssumption
    <2>3. Rollup(seen).watched /\ seen[s].at <= Rollup(seen).at
      BY <2>1, <2>2, RollupFacts
    <2> QED
      BY <2>1, <2>3
  <1> QED
    BY <1>1, TitlesInvariance, PTL DEF TitlesSpec, WatchedSeasonShows

(* An update that nobody overtook leaves its series' row as the recompute  *)
(* rule says of all the seasons, whatever an earlier race had left there.  *)
THEOREM UpdatesRepair == TitlesSpec => RollupUnlessRaced
  <1> DEFINE Repaired ==
               \A c \in Calls :
                  LET t == call[c].title
                      s == call[c].season
                  IN  /\ CommitSeason(c)
                      /\ \A z \in Seasons \ {s} : season[t][z] = call[c].seen[z]
                      => /\ row'[t].watched = (\E z \in Seasons : season'[t][z] # NoRow
                                                                  /\ season'[t][z].watched)
                         /\ \A z \in Seasons :
                               season'[t][z] # NoRow /\ season'[t][z].watched
                               => season'[t][z].at <= row'[t].at
                         /\ row'[t].at # NoDate =>
                               \E z \in Seasons : season'[t][z] # NoRow
                                                  /\ season'[t][z].watched
                                                  /\ season'[t][z].at = row'[t].at
  <1>1. TitlesInv /\ [TitlesNext]_titleVars => [Repaired]_titleVars
    <2> SUFFICES ASSUME TitlesInv, NEW c \in Calls, CommitSeason(c),
                        \A z \in Seasons \ {call[c].season} :
                           season[call[c].title][z] = call[c].seen[z]
                 PROVE  LET t == call[c].title
                        IN  /\ row'[t].watched = (\E z \in Seasons : season'[t][z] # NoRow
                                                                     /\ season'[t][z].watched)
                            /\ \A z \in Seasons :
                                  season'[t][z] # NoRow /\ season'[t][z].watched
                                  => season'[t][z].at <= row'[t].at
                            /\ row'[t].at # NoDate =>
                                  \E z \in Seasons : season'[t][z] # NoRow
                                                     /\ season'[t][z].watched
                                                     /\ season'[t][z].at = row'[t].at
      OBVIOUS
    <2> DEFINE t    == call[c].title
               seen == call[c].seen
    <2>1. seen \in SeasonRows /\ row'[t] = Rollup(seen)
      BY CommitFacts
    <2>2. \A z \in Seasons : season'[t][z] = seen[z]
      BY CommitFacts
    <2> HIDE DEF t, seen
    <2>3. /\ row'[t].watched = (\E z \in Seasons : seen[z] # NoRow /\ seen[z].watched)
          /\ \A z \in Seasons : seen[z] # NoRow /\ seen[z].watched => seen[z].at <= row'[t].at
          /\ row'[t].at # NoDate =>
                \E z \in Seasons : seen[z] # NoRow /\ seen[z].watched /\ seen[z].at = row'[t].at
      BY <2>1, RollupFacts
    <2> QED
      BY <2>2, <2>3 DEF t
  <1> QED
    BY <1>1, TitlesInvariance, PTL DEF TitlesSpec, RollupUnlessRaced
==============================================================================
