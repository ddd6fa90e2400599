------------------------- MODULE ActivityFeedProofs -------------------------
(***************************************************************************)
(* Proofs about ActivityFeed, for any number of users, groups, writers,    *)
(* sessions and clients and any bound on the sequence numbers: types, the  *)
(* read state, what a mark-all reads, the badge, and the walks.            *)
(***************************************************************************)
EXTENDS ActivityFeed, FiniteSetTheorems, WellFoundedInduction, TLAPS

(* A page of the feed, and so what a walk shows, is a set of sequence      *)
(* numbers.                                                                *)
LEMMA PageType ==
    ASSUME TypeOK, NEW u \in Users, NEW before \in Nat
    PROVE  FeedPage(u, before) \subseteq Seqs
  BY DEF TypeOK, FeedPage, FeedRows, Visible

(* Both ways a walk advances leave a well-formed walk. *)
LEMMA ShowPageType ==
    ASSUME TypeOK, NEW c \in Clients, NEW u \in Users, NEW before \in Nat,
           NEW shown \in SUBSET Seqs, NEW steady \in SUBSET Seqs,
           ShowPage(c, u, before, shown, steady)
    PROVE  walk' \in [Clients -> Walk \cup {Idle}]
  <1>1. FeedPage(u, before) \subseteq Seqs
    BY PageType
  <1>2. HasMore(u, before) \in BOOLEAN
    BY DEF HasMore
  <1>3. PICK next \in FeedPage(u, before) \cup {0} :
          walk' = [walk EXCEPT ![c] =
                     [user |-> u, before |-> next, more |-> HasMore(u, before),
                      shown |-> shown \cup FeedPage(u, before), steady |-> steady]]
    BY DEF ShowPage
  <1>4. next \in Nat
    BY <1>1, BoundAssumption DEF Seqs
  <1>5. shown \cup FeedPage(u, before) \in SUBSET Seqs
    BY <1>1
  <1>6. [user |-> u, before |-> next, more |-> HasMore(u, before),
         shown |-> shown \cup FeedPage(u, before), steady |-> steady] \in Walk
    BY <1>2, <1>4, <1>5 DEF Walk
  <1> QED
    BY <1>3, <1>6 DEF TypeOK

(* Hiding events from the walks in flight keeps them well formed. *)
LEMMA StillVisibleType ==
    ASSUME TypeOK, NEW m, NEW d
    PROVE  StillVisible(m, d) \in [Clients -> Walk \cup {Idle}]
  <1> DEFINE kept(c) == {s \in walk[c].steady :
                            event[s].group \notin d /\ walk[c].user \in m[event[s].group]}
  <1>1. ASSUME NEW c \in Clients, walk[c] # Idle
        PROVE  [walk[c] EXCEPT !.steady = kept(c)] \in Walk
    <2>1. walk[c] \in Walk
      BY <1>1 DEF TypeOK
    <2>2. kept(c) \in SUBSET Seqs
      BY <2>1 DEF Walk
    <2> HIDE DEF kept
    <2> QED
      BY <2>1, <2>2, Zenon DEF Walk
  <1> QED
    BY <1>1 DEF StillVisible

(* Every step keeps the types. *)
LEMMA TypeStep == TypeOK /\ [Next]_vars => TypeOK'
  <1> SUFFICES ASSUME TypeOK, [Next]_vars PROVE TypeOK'
    OBVIOUS
  <1> USE BoundAssumption
  <1>1. ASSUME NEW w \in Writers, NEW g \in Groups, NEW a \in Users,
               InsertActivityEventRow(w, g, a)
        PROVE  TypeOK'
    <2>1. lastSeq + 1 \in Seqs /\ lastSeq' \in 0..MaxSeq
      BY <1>1 DEF InsertActivityEventRow, TypeOK, Seqs
    <2>2. event' \in [Seqs -> Event \cup {NoEvent}]
      BY <1>1, <2>1 DEF InsertActivityEventRow, TypeOK, Event
    <2>3. open' \in [Writers -> SUBSET Seqs]
      BY <1>1, <2>1 DEF InsertActivityEventRow, TypeOK
    <2> QED
      BY <1>1, <2>1, <2>2, <2>3
      DEF InsertActivityEventRow, TypeOK, permVars, readVars
  <1>2. ASSUME NEW w \in Writers, CommitEvents(w) PROVE TypeOK'
    BY <1>2 DEF CommitEvents, TypeOK, permVars, readVars
  <1>3. ASSUME NEW w \in Writers, RollbackEvents(w) PROVE TypeOK'
    BY <1>3 DEF RollbackEvents, TypeOK, permVars, readVars
  <1>4. ASSUME NEW g \in Groups, NEW u \in Users, AddGroupMember(g, u) PROVE TypeOK'
    BY <1>4 DEF AddGroupMember, TypeOK, logVars, readVars
  <1>5. ASSUME NEW g \in Groups, NEW u \in Users, RemoveGroupMember(g, u) PROVE TypeOK'
    <2>1. walk' \in [Clients -> Walk \cup {Idle}]
      BY <1>5, StillVisibleType DEF RemoveGroupMember
    <2> QED
      BY <1>5, <2>1 DEF RemoveGroupMember, TypeOK, logVars, readVars
  <1>6. ASSUME NEW g \in Groups, SoftDeleteGroup(g) PROVE TypeOK'
    <2>1. walk' \in [Clients -> Walk \cup {Idle}]
      BY <1>6, StillVisibleType DEF SoftDeleteGroup
    <2> QED
      BY <1>6, <2>1 DEF SoftDeleteGroup, TypeOK, logVars, readVars
  <1>7. ASSUME NEW u \in Users, DeleteUserById(u) PROVE TypeOK'
    BY <1>7 DEF DeleteUserById, TypeOK, logVars
  <1>8. ASSUME NEW i \in Sessions, NEW u \in Users, NEW s \in Seqs, StartMarkOne(i, u, s)
        PROVE  TypeOK'
    BY <1>8 DEF StartMarkOne, TypeOK, MarkOneStmt, logVars, permVars, readVars
  <1>9. ASSUME NEW i \in Sessions, FinishMarkOne(i) PROVE TypeOK'
    <2>1. stmt[i].user \in Users /\ stmt[i].seq \in Seqs
      BY <1>9 DEF FinishMarkOne, MarkOneStmt
    <2> QED
      BY <1>9, <2>1 DEF FinishMarkOne, TypeOK, logVars, permVars
  <1>10. ASSUME NEW i \in Sessions, NEW u \in Users, StartMarkAll(i, u) PROVE TypeOK'
    <2>1. PICK max \in Visible(u) \cup {0} :
            stmt' = [stmt EXCEPT ![i] = [op |-> "all", user |-> u, max |-> max,
                                         seen |-> exceptions[u]]]
      BY <1>10 DEF StartMarkAll
    <2>2. max \in 0..MaxSeq
      BY DEF Visible, TypeOK, Seqs
    <2>3. [op |-> "all", user |-> u, max |-> max, seen |-> exceptions[u]] \in MarkAllStmt
      BY <2>2 DEF MarkAllStmt, TypeOK
    <2>4. stmt' \in [Sessions -> MarkOneStmt \cup MarkAllStmt \cup {Idle}]
      BY <2>1, <2>3 DEF TypeOK
    <2> QED
      BY <1>10, <2>4 DEF StartMarkAll, TypeOK, logVars, permVars, readVars
  <1>11. ASSUME NEW i \in Sessions, FinishMarkAll(i) PROVE TypeOK'
    <2>1. stmt[i].user \in Users /\ stmt[i].max \in 0..MaxSeq
      BY <1>11 DEF FinishMarkAll, MarkAllStmt
    <2>2. RaisedFloor(stmt[i]) \in 0..MaxSeq
      BY <2>1 DEF RaisedFloor, TypeOK
    <2> QED
      BY <1>11, <2>1, <2>2 DEF FinishMarkAll, TypeOK, logVars, permVars, readVars
  <1>12. ASSUME NEW i \in Sessions, Abandon(i) PROVE TypeOK'
    BY <1>12 DEF Abandon, TypeOK, logVars, permVars, readVars
  <1>13. ASSUME NEW c \in Clients, NEW u \in Users, StartWalk(c, u) PROVE TypeOK'
    <2>1. walk' \in [Clients -> Walk \cup {Idle}]
      <3>1. Visible(u) \in SUBSET Seqs
        BY DEF Visible, TypeOK
      <3>2. ShowPage(c, u, MaxSeq + 1, {}, Visible(u))
        BY <1>13 DEF StartWalk
      <3>3. MaxSeq + 1 \in Nat /\ {} \in SUBSET Seqs
        BY DEF Seqs
      <3> QED
        BY <3>1, <3>2, <3>3, ShowPageType
    <2> QED
      BY <1>13, <2>1 DEF StartWalk, TypeOK, logVars, permVars, readVars
  <1>14. ASSUME NEW c \in Clients, NextPage(c) PROVE TypeOK'
    <2>1. walk' \in [Clients -> Walk \cup {Idle}]
      <3>1. walk[c] \in Walk
        BY <1>14 DEF NextPage, TypeOK
      <3>2. /\ walk[c].user \in Users /\ walk[c].before \in Nat
            /\ walk[c].shown \in SUBSET Seqs /\ walk[c].steady \in SUBSET Seqs
        BY <3>1 DEF Walk
      <3>3. ShowPage(c, walk[c].user, walk[c].before, walk[c].shown, walk[c].steady)
        BY <1>14 DEF NextPage
      <3> QED
        BY <3>2, <3>3, ShowPageType
    <2> QED
      BY <1>14, <2>1 DEF NextPage, TypeOK, logVars, permVars, readVars
  <1>15. ASSUME UNCHANGED vars PROVE TypeOK'
    BY <1>15 DEF vars, logVars, permVars, readVars, TypeOK
  <1> QED
    BY <1>1, <1>2, <1>3, <1>4, <1>5, <1>6, <1>7, <1>8, <1>9, <1>10, <1>11, <1>12,
       <1>13, <1>14, <1>15
    DEF Next, LogNext, PermNext, ReadNext

-----------------------------------------------------------------------------
(* ActivityFeed is type correct: every table and every statement in flight *)
(* holds what the schema and the queries say it holds.                     *)
THEOREM TypeCorrect == Spec => []TypeOK
  <1>1. Init => TypeOK
    BY BoundAssumption DEF Init, TypeOK, Seqs
  <1>2. TypeOK /\ [Next]_vars => TypeOK'
    BY TypeStep
  <1> QED
    BY <1>1, <1>2, PTL DEF Spec

-----------------------------------------------------------------------------
(* A committed row keeps its contents: a sequence number is drawn once. *)
LogInv == committed \subseteq 1..lastSeq /\ \A w \in Writers : open[w] \subseteq 1..lastSeq

(* The log only grows, and its rows stay as they are. *)
LEMMA LogStep ==
    ASSUME TypeOK, LogInv, [Next]_vars
    PROVE  /\ LogInv'
           /\ committed \subseteq committed' /\ \A s \in committed : event'[s] = event[s]
  <1> USE BoundAssumption
  <1>1. ASSUME NEW w \in Writers, NEW g \in Groups, NEW a \in Users,
               InsertActivityEventRow(w, g, a)
        PROVE  /\ LogInv'
               /\ committed \subseteq committed' /\ \A s \in committed : event'[s] = event[s]
    <2>1. /\ committed' = committed /\ lastSeq' = lastSeq + 1 /\ lastSeq \in Nat
          /\ open' = [open EXCEPT ![w] = @ \cup {lastSeq + 1}]
          /\ event' = [event EXCEPT ![lastSeq + 1] = [group |-> g, actor |-> a]]
      BY <1>1 DEF InsertActivityEventRow, TypeOK
    <2>2. \A s \in 1..lastSeq : s \in 1..(lastSeq + 1) /\ s # lastSeq + 1
      BY <2>1
    <2>3. \A s \in committed : s \in 1..lastSeq /\ s \in Seqs
      BY DEF LogInv, TypeOK
    <2>4. \A v \in Writers : open'[v] \subseteq 1..(lastSeq + 1)
      <3>1. lastSeq + 1 \in 1..(lastSeq + 1)
        BY <2>1
      <3>2. \A v \in Writers : open'[v] \subseteq open[v] \cup {lastSeq + 1}
        BY <2>1 DEF TypeOK
      <3> QED
        BY <2>2, <3>1, <3>2 DEF LogInv
    <2>5. \A s \in committed : event'[s] = event[s]
      BY <2>1, <2>2, <2>3 DEF TypeOK
    <2> QED
      BY <2>1, <2>2, <2>3, <2>4, <2>5 DEF LogInv
  <1>2. ASSUME NEW w \in Writers, CommitEvents(w) \/ RollbackEvents(w)
        PROVE  /\ LogInv'
               /\ committed \subseteq committed' /\ \A s \in committed : event'[s] = event[s]
    <2>1. /\ UNCHANGED <<lastSeq, event>>
          /\ open' = [open EXCEPT ![w] = {}]
          /\ committed' = committed \/ committed' = committed \cup open[w]
      BY <1>2 DEF CommitEvents, RollbackEvents
    <2> QED
      BY <2>1 DEF LogInv, TypeOK
  <1>3. CASE UNCHANGED logVars
    BY <1>3 DEF logVars, LogInv
  <1>4. CASE PermNext \/ ReadNext \/ UNCHANGED vars
    <2>1. UNCHANGED logVars
      BY <1>4 DEF PermNext, ReadNext, AddGroupMember, RemoveGroupMember, SoftDeleteGroup,
         DeleteUserById, StartMarkOne, FinishMarkOne, StartMarkAll, FinishMarkAll, Abandon,
         StartWalk, NextPage, vars
    <2> QED
      BY <1>3, <2>1
  <1> QED
    BY <1>1, <1>2, <1>4 DEF Next, LogNext

(* What is news to a reader stays so. *)
LEMMA NewsStep ==
    ASSUME TypeOK, LogInv, [Next]_vars, NEW u
    PROVE  Others(u) \subseteq Others(u)'
  BY LogStep DEF Others

-----------------------------------------------------------------------------
(* The inductive invariant: what a reader's floor, exception rows and      *)
(* statements in flight may name.  FloorIsNews alone is not inductive: the *)
(* floor takes its next value from a statement's snapshot.  And what is    *)
(* said of an event stays true only because its row does not change.       *)
IInv == TypeOK /\ LogInv /\ FloorIsNews /\ MarksAreNews

(* A statement in flight names events that are news to its user. *)
StmtIsNews(st) ==
    /\ st \in MarkOneStmt => st.seq \in Others(st.user)
    /\ st \in MarkAllStmt => /\ st.max \in Others(st.user) \cup {0}
                             /\ st.seen \subseteq Others(st.user)

(* The statements in flight stay sound when one session starts a sound     *)
(* statement or goes idle, and the log does not change.                    *)
LEMMA SessionStep ==
    ASSUME IInv, NEW i \in Sessions, NEW st, StmtIsNews(st),
           UNCHANGED <<committed, event>>, stmt' = [stmt EXCEPT ![i] = st],
           \A u \in Users : exceptions'[u] \subseteq Others(u)
    PROVE  MarksAreNews'
  <1>1. \A u : Others(u)' = Others(u)
    BY DEF Others
  <1>2. \A j \in Sessions : StmtIsNews(stmt'[j])
    BY DEF IInv, TypeOK, MarksAreNews, StmtIsNews
  <1> QED
    BY <1>1, <1>2 DEF MarksAreNews, StmtIsNews

(* A session that goes idle names nothing. *)
LEMMA IdleIsNews == StmtIsNews(Idle)
  BY IdleAssumption DEF StmtIsNews

(* Every step keeps the invariant.  The step that needs it is the second  *)
(* half of a mark-all, which writes the floor its first half read.         *)
LEMMA InvStep == IInv /\ [Next]_vars => IInv'
  <1> SUFFICES ASSUME IInv, [Next]_vars, TypeOK, TypeOK'
               PROVE  FloorIsNews' /\ MarksAreNews'
    BY TypeStep, LogStep DEF IInv
  <1> USE DEF IInv
  <1>a. \A u : Others(u) \subseteq Others(u)'
    BY NewsStep
  <1>1. CASE UNCHANGED <<readVars, stmt>>
    <2>1. FloorIsNews'
      BY <1>1, <1>a DEF FloorIsNews, readVars
    <2>2. MarksAreNews'
      BY <1>1, <1>a DEF MarksAreNews, readVars
    <2> QED
      BY <2>1, <2>2
  <1>2. ASSUME NEW u \in Users, DeleteUserById(u)
        PROVE  FloorIsNews' /\ MarksAreNews'
    <2>1. FloorIsNews'
      BY <1>2, <1>a DEF DeleteUserById, FloorIsNews, TypeOK
    <2>2. \A v \in Users : exceptions'[v] \subseteq exceptions[v]
      BY <1>2 DEF DeleteUserById, TypeOK
    <2>3. stmt' = stmt
      BY <1>2 DEF DeleteUserById
    <2> QED
      BY <1>a, <2>1, <2>2, <2>3 DEF MarksAreNews
  (* A statement that starts takes what is in sight, which is news. *)
  <1>b. \A u \in Users : Visible(u) \subseteq Others(u)
    BY DEF Visible, Others
  <1>3. ASSUME NEW i \in Sessions, NEW u \in Users, NEW s \in Seqs, StartMarkOne(i, u, s)
        PROVE  FloorIsNews' /\ MarksAreNews'
    <2> DEFINE st == [op |-> "one", user |-> u, seq |-> s]
    <2>1. s \in Others(u)
      BY <1>3, <1>b DEF StartMarkOne
    <2>2. StmtIsNews(st)
      BY <2>1 DEF StmtIsNews, MarkAllStmt
    <2>3. stmt' = [stmt EXCEPT ![i] = st] /\ UNCHANGED <<committed, event, floor, exceptions>>
      BY <1>3 DEF StartMarkOne, logVars, readVars
    <2> HIDE DEF st
    <2>4. MarksAreNews'
      BY <2>2, <2>3, SessionStep DEF MarksAreNews
    <2> QED
      BY <1>a, <2>3, <2>4 DEF FloorIsNews
  <1>4. ASSUME NEW i \in Sessions, FinishMarkOne(i)
        PROVE  FloorIsNews' /\ MarksAreNews'
    <2>1. /\ stmt[i].seq \in Others(stmt[i].user) /\ UNCHANGED <<committed, event, floor>>
          /\ stmt' = [stmt EXCEPT ![i] = Idle]
      BY <1>4 DEF FinishMarkOne, MarksAreNews, logVars
    <2>2. \A u \in Users : exceptions'[u] \subseteq Others(u)
      BY <1>4, <2>1 DEF FinishMarkOne, MarksAreNews, TypeOK
    <2>3. MarksAreNews'
      BY <2>1, <2>2, SessionStep, IdleIsNews
    <2> QED
      BY <1>a, <2>1, <2>3 DEF FloorIsNews
  <1>5. ASSUME NEW i \in Sessions, NEW u \in Users, StartMarkAll(i, u)
        PROVE  FloorIsNews' /\ MarksAreNews'
    <2>1. PICK max \in Visible(u) \cup {0} :
            stmt' = [stmt EXCEPT ![i] = [op |-> "all", user |-> u, max |-> max,
                                         seen |-> exceptions[u]]]
      BY <1>5 DEF StartMarkAll
    <2> DEFINE st == [op |-> "all", user |-> u, max |-> max, seen |-> exceptions[u]]
    <2>2. max \in Others(u) \cup {0} /\ exceptions[u] \subseteq Others(u)
      BY <1>b DEF MarksAreNews
    <2>3. StmtIsNews(st)
      BY <2>2 DEF StmtIsNews, MarkOneStmt
    <2>4. stmt' = [stmt EXCEPT ![i] = st] /\ UNCHANGED <<committed, event, floor, exceptions>>
      BY <1>5, <2>1 DEF StartMarkAll, logVars, readVars
    <2> HIDE DEF st
    <2>5. MarksAreNews'
      BY <2>3, <2>4, SessionStep DEF MarksAreNews
    <2> QED
      BY <1>a, <2>4, <2>5 DEF FloorIsNews
  <1>6. ASSUME NEW i \in Sessions, FinishMarkAll(i)
        PROVE  FloorIsNews' /\ MarksAreNews'
    <2>1. /\ stmt[i].max \in Others(stmt[i].user) \cup {0} /\ stmt[i].user \in Users
          /\ UNCHANGED <<committed, event>> /\ stmt' = [stmt EXCEPT ![i] = Idle]
      BY <1>6 DEF FinishMarkAll, MarksAreNews, logVars, MarkAllStmt
    <2>2. RaisedFloor(stmt[i]) \in Others(stmt[i].user) \cup {0}
      BY <2>1 DEF RaisedFloor, FloorIsNews
    <2>3. FloorIsNews'
      BY <1>6, <1>a, <2>1, <2>2 DEF FinishMarkAll, FloorIsNews, TypeOK, readVars
    <2>4. \A u \in Users : exceptions'[u] \subseteq Others(u)
      BY <1>6, <2>1 DEF FinishMarkAll, MarksAreNews, TypeOK, readVars
    <2> QED
      BY <2>1, <2>3, <2>4, SessionStep, IdleIsNews
  <1>7. ASSUME NEW i \in Sessions, Abandon(i)
        PROVE  FloorIsNews' /\ MarksAreNews'
    <2>1. stmt' = [stmt EXCEPT ![i] = Idle] /\ UNCHANGED <<committed, event, floor, exceptions>>
      BY <1>7 DEF Abandon, logVars, readVars
    <2>2. MarksAreNews'
      BY <2>1, SessionStep, IdleIsNews DEF MarksAreNews
    <2> QED
      BY <1>a, <2>1, <2>2 DEF FloorIsNews
  <1>8. ASSUME LogNext PROVE UNCHANGED <<readVars, stmt>>
    BY <1>8 DEF LogNext, InsertActivityEventRow, CommitEvents, RollbackEvents
  <1>9. ASSUME NEW g \in Groups, NEW u \in Users,
               AddGroupMember(g, u) \/ RemoveGroupMember(g, u) \/ SoftDeleteGroup(g)
        PROVE  UNCHANGED <<readVars, stmt>>
    BY <1>9 DEF AddGroupMember, RemoveGroupMember, SoftDeleteGroup
  <1>10. ASSUME NEW g \in Groups, SoftDeleteGroup(g)
         PROVE  UNCHANGED <<readVars, stmt>>
    BY <1>10 DEF SoftDeleteGroup
  <1>11. ASSUME NEW c \in Clients, (\E u \in Users : StartWalk(c, u)) \/ NextPage(c)
         PROVE  UNCHANGED <<readVars, stmt>>
    BY <1>11 DEF StartWalk, NextPage
  <1>12. ASSUME UNCHANGED vars
         PROVE  UNCHANGED <<readVars, stmt>>
    BY <1>12 DEF vars
  <1> QED
    BY <1>1, <1>2, <1>3, <1>4, <1>5, <1>6, <1>7, <1>8, <1>9, <1>10, <1>11, <1>12
    DEF Next, PermNext, ReadNext

(* So the invariant holds in every state. *)
LEMMA InvAlways == Spec => []IInv
  <1>1. Init => IInv
    <2>1. Init => TypeOK
      BY BoundAssumption DEF Init, TypeOK, Seqs
    <2>2. Init => FloorIsNews /\ MarksAreNews /\ LogInv
      BY IdleAssumption DEF Init, FloorIsNews, MarksAreNews, LogInv
    <2> QED
      BY <2>1, <2>2 DEF IInv
  <1> QED
    BY <1>1, InvStep, PTL DEF Spec

(* Floors, exception rows and the statements about to write them point at  *)
(* committed events of other users, so that an event is born read only     *)
(* under a later one of somebody else that committed before it.            *)
THEOREM OnlyCommittedIsRead == Spec => []ReadStateIsCommitted
  <1>1. IInv => ReadStateIsCommitted
    BY DEF IInv, ReadStateIsCommitted
  <1> QED
    BY <1>1, InvAlways, PTL

-----------------------------------------------------------------------------
(* How one step changes what is read, reader by reader. *)

(* A mark-one adds its event and nothing else. *)
LEMMA MarkOneReads ==
    ASSUME IInv, NEW i \in Sessions, FinishMarkOne(i), stmt[i].user \in accounts,
           NEW u \in Users, NEW s \in Seqs
    PROVE  ReadByMe(u, s)' <=> ReadByMe(u, s) \/ (u = stmt[i].user /\ s = stmt[i].seq)
  BY DEF IInv, TypeOK, FinishMarkOne, ReadByMe

(* A mark-all adds what its raised floor covers and loses nothing: a row   *)
(* its DELETE removes is at or below the floor that replaces it.           *)
LEMMA MarkAllReads ==
    ASSUME IInv, NEW i \in Sessions, FinishMarkAll(i), stmt[i].user \in accounts,
           NEW u \in Users, NEW s \in Seqs
    PROVE  ReadByMe(u, s)' <=> ReadByMe(u, s)
                               \/ (u = stmt[i].user /\ s <= RaisedFloor(stmt[i]))
  <1>1. stmt[i].user \in Users /\ stmt[i].max \in 0..MaxSeq
    BY DEF FinishMarkAll, MarkAllStmt
  <1>2. /\ RaisedFloor(stmt[i]) \in Nat
        /\ floor[stmt[i].user] \in Nat
        /\ floor[stmt[i].user] <= RaisedFloor(stmt[i])
    BY <1>1, BoundAssumption DEF RaisedFloor, IInv, TypeOK
  <1>3. CASE u # stmt[i].user
    BY <1>1, <1>3 DEF IInv, TypeOK, FinishMarkAll, ReadByMe
  <1>4. CASE u = stmt[i].user
    <2>1. /\ floor'[u] = RaisedFloor(stmt[i])
          /\ exceptions'[u] = exceptions[u] \ Covered(stmt[i])
      BY <1>1, <1>4 DEF IInv, TypeOK, FinishMarkAll
    <2> QED
      BY <1>2, <1>4, <2>1, BoundAssumption DEF ReadByMe, Covered, Seqs
  <1> QED
    BY <1>3, <1>4

(* Every step but these two, and the deletion of an account, leaves the    *)
(* read state alone.                                                       *)
LEMMA OtherSteps ==
    ASSUME [Next]_vars
    PROVE  \/ UNCHANGED readVars
           \/ \E u \in Users : DeleteUserById(u)
           \/ \E i \in Sessions : FinishMarkOne(i) /\ stmt[i].user \in accounts
           \/ \E i \in Sessions : FinishMarkAll(i) /\ stmt[i].user \in accounts
  BY DEF Next, LogNext, PermNext, ReadNext, InsertActivityEventRow, CommitEvents,
         RollbackEvents, AddGroupMember, RemoveGroupMember, SoftDeleteGroup,
         StartMarkOne, FinishMarkOne, StartMarkAll, FinishMarkAll, Abandon,
         StartWalk, NextPage, vars, readVars

(* An event read for a reader stays read for as long as the account        *)
(* exists, whatever statements race.                                       *)
THEOREM ReadIsForever == Spec => ReadStaysRead
  <1>1. IInv /\ [Next]_vars =>
          [\A u \in accounts', s \in committed : ReadByMe(u, s) => ReadByMe(u, s)']_vars
    <2> SUFFICES ASSUME IInv, [Next]_vars,
                        NEW u \in accounts', NEW s \in committed, ReadByMe(u, s)
                 PROVE  ReadByMe(u, s)'
      OBVIOUS
    <2>1. u \in Users /\ s \in Seqs
      BY TypeStep DEF IInv, TypeOK
    <2>2. CASE UNCHANGED readVars
      BY <2>2 DEF ReadByMe, readVars
    <2>3. ASSUME NEW v \in Users, DeleteUserById(v) PROVE ReadByMe(u, s)'
      <3>1. u # v
        BY <2>3 DEF DeleteUserById
      <3> QED
        BY <2>1, <2>3, <3>1 DEF DeleteUserById, ReadByMe, IInv, TypeOK
    <2>4. ASSUME NEW i \in Sessions, FinishMarkOne(i), stmt[i].user \in accounts
          PROVE  ReadByMe(u, s)'
      BY <2>1, <2>4, MarkOneReads
    <2>5. ASSUME NEW i \in Sessions, FinishMarkAll(i), stmt[i].user \in accounts
          PROVE  ReadByMe(u, s)'
      BY <2>1, <2>5, MarkAllReads
    <2> QED
      BY <2>2, <2>3, <2>4, <2>5, OtherSteps
  <1> QED
    BY <1>1, InvAlways, PTL DEF Spec, ReadStaysRead

-----------------------------------------------------------------------------
(* The refinement of ReadState, step by step *)

(* The events a reader has read change only with the log, the reader's     *)
(* floor and the reader's exceptions.                                      *)
LEMMA ReadSetStep ==
    ASSUME NEW u \in Users
    PROVE  /\ ReadSet[u] = {s \in committed : ReadByMe(u, s)}
           /\ ReadSet'[u] = {s \in committed' : ReadByMe(u, s)'}
  BY DEF ReadSet

(* A batch that commits is recorded; the events born read are older than   *)
(* the floor, which is itself a committed event the reader has read.       *)
LEMMA CommitRefines ==
    ASSUME IInv, NEW w \in Writers, CommitEvents(w)
    PROVE  RS!Record
  <1> DEFINE batch == open[w]
             late  == [u \in Users |-> {s \in batch \ committed : ReadByMe(u, s)}]
  <1>1. batch \in SUBSET Seqs /\ batch # {} /\ committed' = committed \cup batch
    BY DEF CommitEvents, IInv, TypeOK
  <1>2. UNCHANGED readVars
    BY DEF CommitEvents
  <1>3. ASSUME NEW u \in Users, NEW s \in batch, s \in late[u]
        PROVE  \E t \in ReadSet[u] : s < t
    <2>1. s \in Seqs /\ s \notin committed /\ ReadByMe(u, s)
      BY <1>1, <1>3
    <2>2. s <= floor[u]
      BY <2>1 DEF ReadByMe, IInv, MarksAreNews, Others
    <2>3. floor[u] \in Nat /\ floor[u] \in committed \cup {0} /\ s \in Nat /\ s > 0
      BY <2>1, BoundAssumption DEF IInv, TypeOK, FloorIsNews, Others, Seqs
    <2>4. floor[u] \in committed /\ s < floor[u]
      BY <2>1, <2>2, <2>3
    <2>5. floor[u] \in ReadSet[u]
      BY <2>3, <2>4, ReadSetStep DEF ReadByMe
    <2> QED
      BY <2>4, <2>5
  <1>4. ReadSet' = [u \in Users |-> ReadSet[u] \cup late[u]]
    <2>1. ASSUME NEW u \in Users PROVE ReadSet'[u] = ReadSet[u] \cup late[u]
      <3>1. \A s : ReadByMe(u, s)' <=> ReadByMe(u, s)
        BY <1>2 DEF ReadByMe, readVars
      <3> QED
        BY <1>1, <3>1, ReadSetStep
    <2> QED
      BY <2>1 DEF ReadSet
  <1>5. late \in [Users -> SUBSET batch]
    OBVIOUS
  <1> HIDE DEF late, batch
  <1> QED
    BY <1>1, <1>3, <1>4, <1>5 DEF RS!Record, RS!Seqs, Seqs

(* A mark-one of an account that still exists reads one recorded event.    *)
LEMMA MarkOneRefines ==
    ASSUME IInv, NEW i \in Sessions, FinishMarkOne(i), stmt[i].user \in accounts
    PROVE  \E u \in Users : RS!MarkOne(u)
  <1>1. /\ stmt[i].user \in Users /\ stmt[i].seq \in committed
        /\ committed' = committed /\ committed \subseteq Seqs
    BY DEF FinishMarkOne, IInv, TypeOK, MarksAreNews, Others, MarkOneStmt, logVars
  <1>2. ASSUME NEW u \in Users
        PROVE  ReadSet'[u] = IF u = stmt[i].user THEN ReadSet[u] \cup {stmt[i].seq}
                                                 ELSE ReadSet[u]
    <2>1. ASSUME NEW s \in committed
          PROVE  ReadByMe(u, s)' <=> ReadByMe(u, s) \/ (u = stmt[i].user /\ s = stmt[i].seq)
      BY <1>1, MarkOneReads
    <2>2. /\ ReadSet[u] = {s \in committed : ReadByMe(u, s)}
          /\ ReadSet'[u] = {s \in committed : ReadByMe(u, s)'}
      BY <1>1, ReadSetStep
    <2>3. CASE u = stmt[i].user
      BY <1>1, <2>1, <2>2, <2>3
    <2>4. CASE u # stmt[i].user
      BY <2>1, <2>2, <2>4
    <2> QED
      BY <2>3, <2>4
  <1>3. ReadSet' = [ReadSet EXCEPT ![stmt[i].user] = @ \cup {stmt[i].seq}]
    BY <1>1, <1>2 DEF ReadSet
  <1> QED
    BY <1>1, <1>3 DEF RS!MarkOne

(* A mark-all reads everything up to its floor; a floor of 0 reads nothing. *)
LEMMA MarkAllRefines ==
    ASSUME IInv, NEW i \in Sessions, FinishMarkAll(i), stmt[i].user \in accounts
    PROVE  (\E u \in Users : RS!MarkAll(u)) \/ UNCHANGED RS!vars
  <1> DEFINE m == RaisedFloor(stmt[i])
  <1>1. /\ stmt[i].user \in Users /\ m \in committed \cup {0}
        /\ committed' = committed /\ committed \subseteq Seqs
    BY DEF FinishMarkAll, IInv, TypeOK, FloorIsNews, MarksAreNews, Others,
           MarkAllStmt, RaisedFloor, logVars
  <1>2. ASSUME NEW u \in Users
        PROVE  ReadSet'[u] = IF u = stmt[i].user
                             THEN ReadSet[u] \cup {s \in committed : s <= m}
                             ELSE ReadSet[u]
    BY <1>1, <1>2, MarkAllReads, ReadSetStep
  <1>3. ReadSet' = [ReadSet EXCEPT ![stmt[i].user] = @ \cup {s \in committed : s <= m}]
    BY <1>1, <1>2 DEF ReadSet
  <1>4. CASE m \in committed
    BY <1>1, <1>3, <1>4 DEF RS!MarkAll
  <1>5. CASE m = 0
    <2>1. \A s \in committed : ~(s <= 0)
      BY <1>1, BoundAssumption DEF Seqs
    <2>2. \A u \in Users : ReadSet'[u] = ReadSet[u]
      <3> HIDE DEF m
      <3>1. {s \in committed : s <= m} = {}
        BY <1>5, <2>1
      <3> QED
        BY <1>2, <3>1
    <2>3. ReadSet' = ReadSet
      BY <2>2 DEF ReadSet
    <2> QED
      BY <1>1, <2>3 DEF RS!vars
  <1> QED
    BY <1>1, <1>4, <1>5

(* Deleting an account forgets what it read and no one else's.             *)
LEMMA DeleteRefines ==
    ASSUME IInv, NEW u \in Users, DeleteUserById(u)
    PROVE  RS!Forget(u)
  <1>1. committed' = committed /\ committed \subseteq Seqs
    BY DEF DeleteUserById, IInv, TypeOK, logVars
  <1>2. ASSUME NEW v \in Users
        PROVE  ReadSet'[v] = IF v = u THEN {} ELSE ReadSet[v]
    <2>1. ASSUME NEW s \in committed
          PROVE  ReadByMe(v, s)' <=> v # u /\ ReadByMe(v, s)
      BY <1>1, BoundAssumption DEF DeleteUserById, ReadByMe, IInv, TypeOK, Seqs
    <2> QED
      BY <1>1, <2>1, ReadSetStep
  <1>3. ReadSet' = [ReadSet EXCEPT ![u] = {}]
    BY <1>2 DEF ReadSet
  <1> QED
    BY <1>1, <1>3 DEF RS!Forget

(* The feed implements the abstract read state: a batch that commits is    *)
(* recorded, a mark-one reads one event, a mark-all a prefix of the log,   *)
(* and nothing else changes what is read.                                  *)
THEOREM FeedImplementsReadState == Spec => ReadStateSpec
  <1>1. Init => RS!Init
    BY DEF Init, RS!Init, ReadSet
  <1>2. IInv /\ [Next]_vars => [RS!Next]_RS!vars
    <2> SUFFICES ASSUME IInv, [Next]_vars PROVE RS!Next \/ UNCHANGED RS!vars
      OBVIOUS
    <2>1. CASE UNCHANGED <<readVars, committed>>
      BY <2>1 DEF RS!vars, ReadSet, ReadByMe, readVars
    <2>2. ASSUME NEW w \in Writers, CommitEvents(w) PROVE RS!Next
      BY <2>2, CommitRefines DEF RS!Next
    <2>3. CASE \E u \in Users : DeleteUserById(u)
      BY <2>3, DeleteRefines DEF RS!Next
    <2>4. CASE \E i \in Sessions : FinishMarkOne(i) /\ stmt[i].user \in accounts
      BY <2>4, MarkOneRefines DEF RS!Next
    <2>5. CASE \E i \in Sessions : FinishMarkAll(i) /\ stmt[i].user \in accounts
      BY <2>5, MarkAllRefines DEF RS!Next
    <2>6. committed' = committed \/ \E w \in Writers : CommitEvents(w)
      BY DEF Next, LogNext, PermNext, ReadNext, InsertActivityEventRow,
             RollbackEvents, AddGroupMember, RemoveGroupMember, SoftDeleteGroup,
             DeleteUserById, StartMarkOne, FinishMarkOne, StartMarkAll,
             FinishMarkAll, Abandon, StartWalk, NextPage, vars, logVars
    <2> QED
      BY <2>1, <2>2, <2>3, <2>4, <2>5, <2>6, OtherSteps
  <1> QED
    BY <1>1, <1>2, InvAlways, PTL DEF Spec, ReadStateSpec, RS!Spec

-----------------------------------------------------------------------------
(* A mark-all reads the committed events up to the newest its snapshot     *)
(* could see, in sight or not, and none past it but what was read already. *)
THEOREM MarkAllReadsItsSnapshot == Spec => MarkAllIsExact
  <1>1. IInv /\ [Next]_vars =>
          [\A i \in Sessions, u \in accounts :
             /\ stmt[i] \in MarkAllStmt
             /\ stmt[i].user = u
             /\ FinishMarkAll(i)
             => \A s \in committed :
                   ReadByMe(u, s)' <=> (ReadByMe(u, s) \/ s <= stmt[i].max)]_vars
    <2> SUFFICES ASSUME IInv, NEW i \in Sessions, NEW u \in accounts, NEW s \in committed,
                        stmt[i] \in MarkAllStmt, stmt[i].user = u, FinishMarkAll(i)
                 PROVE  ReadByMe(u, s)' <=> (ReadByMe(u, s) \/ s <= stmt[i].max)
      OBVIOUS
    <2>1. u \in Users /\ s \in Seqs /\ s \in Nat /\ floor[u] \in Nat /\ stmt[i].max \in Nat
      BY BoundAssumption DEF IInv, TypeOK, Seqs, MarkAllStmt
    <2>2. ReadByMe(u, s)' <=> ReadByMe(u, s) \/ s <= RaisedFloor(stmt[i])
      BY <2>1, MarkAllReads
    <2>3. s <= RaisedFloor(stmt[i]) <=> s <= floor[u] \/ s <= stmt[i].max
      BY <2>1 DEF RaisedFloor
    <2> QED
      BY <2>2, <2>3 DEF ReadByMe
  <1> QED
    BY <1>1, InvAlways, PTL DEF Spec, MarkAllIsExact

-----------------------------------------------------------------------------
(* Pages *)

(* A set of naturals that is not empty has a least member, *)
LEMMA HasLeast ==
    ASSUME NEW T \in SUBSET Nat, T # {}
    PROVE  \E m \in T : \A t \in T : m <= t
  <1> DEFINE R == OpToRel(<, Nat)
  <1>1. \A x, y \in Nat : <<y, x>> \in R <=> y < x
    BY DEF OpToRel
  <1>2. IsWellFoundedOn(R, Nat)
    BY NatLessThanWellFounded
  <1> HIDE DEF R
  <1>3. PICK m \in T : \A t \in T : ~(<<t, m>> \in R)
    BY <1>2, WFMin
  <1>4. ASSUME NEW t \in T PROVE m <= t
    <2>1. m \in Nat /\ t \in Nat
      OBVIOUS
    <2>2. ~(t < m)
      BY <1>1, <1>3, <2>1
    <2> QED
      BY <2>1, <2>2
  <1> QED
    BY <1>4

(* and one that is bounded a greatest. *)
LEMMA HasGreatest ==
    ASSUME NEW T \in SUBSET Seqs, T # {}
    PROVE  \E m \in T : \A t \in T : t <= m
  <1> DEFINE far == {MaxSeq - t : t \in T}
  <1>1. far \in SUBSET Nat /\ far # {}
    <2>1. ASSUME NEW t \in T PROVE MaxSeq - t \in Nat
      <3>1. t \in 1..MaxSeq
        BY DEF Seqs
      <3> QED
        BY <3>1, BoundAssumption
    <2> QED
      BY <2>1
  <1>2. PICK d \in far : \A e \in far : d <= e
    <2> HIDE DEF far
    <2> QED
      BY <1>1, HasLeast
  <1>3. PICK m \in T : d = MaxSeq - m
    OBVIOUS
  <1>4. \A t \in T : MaxSeq - m <= MaxSeq - t
    BY <1>2, <1>3
  <1>5. m \in Nat /\ MaxSeq \in Nat /\ T \subseteq Nat
    BY BoundAssumption DEF Seqs
  <1> QED
    BY <1>4, <1>5

(* The events a cursor leaves to show. *)
Below(u, before) == {s \in Visible(u) : s < before}

(* What a user may see are rows of the log. *)
LEMMA VisibleIsSeqs ==
    ASSUME TypeOK, NEW u
    PROVE  Visible(u) \subseteq Seqs /\ Seqs \subseteq Nat
  <1>1. Visible(u) \subseteq Seqs
    BY DEF Visible, TypeOK
  <1>2. Seqs \subseteq Nat
    BY BoundAssumption DEF Seqs
  <1> QED
    BY <1>1, <1>2

(* A range of sequence numbers is finite. *)
LEMMA BelowIsFinite ==
    ASSUME TypeOK, NEW u \in Users, NEW before
    PROVE  /\ Below(u, before) \subseteq Seqs /\ Seqs \subseteq Nat
           /\ \A T \in SUBSET Below(u, before) : IsFiniteSet(T) /\ Cardinality(T) \in Nat
  <1>1. Below(u, before) \subseteq Seqs /\ Seqs \subseteq Nat
    BY VisibleIsSeqs DEF Below
  <1>2. IsFiniteSet(Seqs)
    BY BoundAssumption, FS_Interval DEF Seqs
  <1> QED
    BY <1>1, <1>2, FS_Subset, FS_CardinalityType

(* The rows of a query are the newest: one that is newer than a row is a   *)
(* row, and a query that does not reach its limit has them all.            *)
LEMMA RowsAreNewest ==
    ASSUME TypeOK, NEW u \in Users, NEW before, NEW n \in Nat
    PROVE  LET rows == FeedRows(u, before, n)
           IN  /\ rows \subseteq Below(u, before)
               /\ \A s \in Below(u, before), r \in rows : s > r => s \in rows
               /\ Cardinality(rows) < n => rows = Below(u, before)
  <1> DEFINE B     == Below(u, before)
             rows  == FeedRows(u, before, n)
             Newer(s) == {t \in B : t > s}
  <1>1. rows = {s \in B : Cardinality(Newer(s)) < n}
    BY DEF FeedRows, Below
  <1>2. B \subseteq Seqs /\ Seqs \subseteq Nat
    BY BelowIsFinite
  <1>3. ASSUME NEW S \in SUBSET B, NEW T \in SUBSET B, S \subseteq T
        PROVE  /\ Cardinality(S) <= Cardinality(T)
               /\ Cardinality(S) \in Nat /\ Cardinality(T) \in Nat
    BY <1>3, BelowIsFinite, FS_Subset
  <1> HIDE DEF B, rows
  <1>4. ASSUME NEW s \in B, NEW r \in rows, s > r PROVE s \in rows
    <2>1. r \in B /\ Cardinality(Newer(r)) < n
      BY <1>1
    <2>2. s \in Nat /\ r \in Nat
      BY <1>2, <2>1
    <2>3. Newer(s) \subseteq Newer(r)
      <3>1. ASSUME NEW t \in B, t > s PROVE t > r
        <4>1. t \in Nat
          BY <1>2
        <4> QED
          BY <1>4, <2>2, <3>1, <4>1
      <3> QED
        BY <3>1
    <2>4. Cardinality(Newer(s)) <= Cardinality(Newer(r))
          /\ Cardinality(Newer(s)) \in Nat /\ Cardinality(Newer(r)) \in Nat
      <3> HIDE DEF Newer
      <3>1. Newer(s) \in SUBSET B /\ Newer(r) \in SUBSET B
        BY DEF Newer
      <3> QED
        BY <1>3, <2>3, <3>1
    <2>5. Cardinality(Newer(s)) < n
      BY <2>1, <2>4
    <2> QED
      BY <1>1, <2>5
  <1>5. ASSUME Cardinality(rows) < n PROVE rows = B
    <2> SUFFICES ASSUME B \ rows # {} PROVE FALSE
      BY <1>1
    <2>1. PICK s \in B \ rows : \A t \in B \ rows : t <= s
      BY <1>2, HasGreatest
    <2>2. Newer(s) \subseteq rows
      <3>1. ASSUME NEW t \in B, t > s, t \notin rows PROVE FALSE
        <4>1. t <= s /\ t \in Nat /\ s \in Nat
          BY <1>2, <2>1, <3>1
        <4> QED
          BY <3>1, <4>1
      <3> QED
        BY <3>1
    <2>3. /\ Cardinality(Newer(s)) <= Cardinality(rows)
          /\ Cardinality(Newer(s)) \in Nat /\ Cardinality(rows) \in Nat
      <3>1. Newer(s) \in SUBSET B /\ rows \in SUBSET B
        BY <1>1
      <3> HIDE DEF Newer
      <3> QED
        BY <1>3, <2>2, <3>1
    <2>4. Cardinality(Newer(s)) < n
      BY <1>5, <2>3
    <2> QED
      BY <1>1, <2>1, <2>4
  <1> QED
    BY <1>1, <1>4, <1>5 DEF B, rows

(* What a page shows: with more to come, the newest of what the cursor     *)
(* leaves, down to a row every other one is older than; without, all.      *)
LEMMA PageFacts ==
    ASSUME TypeOK, NEW u \in Users, NEW before \in Nat
    PROVE  LET page == FeedPage(u, before)
           IN  /\ page \subseteq Below(u, before)
               /\ HasMore(u, before) =>
                     \E next \in page : /\ \A s \in page : next <= s
                                        /\ \A s \in Below(u, before) : s < next \/ s \in page
               /\ ~HasMore(u, before) => page = Below(u, before)
  <1> DEFINE B    == Below(u, before)
             rows == FeedRows(u, before, PageLimit + 1)
             page == FeedPage(u, before)
  <1>1. /\ PageLimit \in Nat /\ PageLimit >= 1 /\ PageLimit + 1 \in Nat
        /\ B \subseteq Nat
    BY BoundAssumption, BelowIsFinite
  <1>2. /\ rows \subseteq B
        /\ \A s \in B, r \in rows : s > r => s \in rows
        /\ Cardinality(rows) < PageLimit + 1 => rows = B
    BY <1>1, RowsAreNewest
  <1>3. /\ HasMore(u, before) <=> Cardinality(rows) > PageLimit
        /\ page = IF HasMore(u, before) THEN {s \in rows : \E t \in rows : t < s} ELSE rows
    BY DEF HasMore, FeedPage
  <1>4. IsFiniteSet(rows) /\ Cardinality(rows) \in Nat
    BY <1>2, BelowIsFinite
  <1> HIDE DEF B, rows, page
  <1>5. CASE HasMore(u, before)
    <2>1. page = {s \in rows : \E t \in rows : t < s} /\ Cardinality(rows) > 1
      BY <1>1, <1>3, <1>4, <1>5
    <2>2. rows # {}
      BY <2>1, FS_EmptySet
    <2>3. PICK last \in rows : \A r \in rows : last <= r
      BY <1>1, <1>2, <2>2, HasLeast
    <2>4. page = rows \ {last}
      <3>1. ASSUME NEW s \in rows PROVE (\E t \in rows : t < s) <=> s # last
        <4>1. /\ s \in Nat /\ last \in Nat /\ last <= s
              /\ \A t \in rows : t \in Nat /\ last <= t
          BY <1>1, <1>2, <2>3
        <4>2. s # last => last < s
          BY <4>1
        <4>3. ASSUME NEW t \in rows, t < s PROVE s # last
          BY <4>1, <4>3
        <4> QED
          BY <4>2, <4>3
      <3> QED
        BY <2>1, <3>1
    <2>5. page # {}
      <3>1. ASSUME page = {} PROVE FALSE
        <4>1. rows = {last}
          BY <2>4, <3>1
        <4> QED
          BY <2>1, <4>1, FS_Singleton
      <3> QED
        BY <3>1
    <2>6. PICK next \in page : \A s \in page : next <= s
      BY <1>1, <1>2, <2>4, <2>5, HasLeast
    <2>7. ASSUME NEW s \in B, s \notin page PROVE s < next
      <3>1. s \in Nat /\ next \in Nat /\ last \in Nat /\ next \in rows /\ next # last
        BY <1>1, <1>2, <2>3, <2>4
      <3>2. s = last \/ s \notin rows
        BY <2>4, <2>7
      <3> QED
        BY <1>2, <2>3, <3>1, <3>2
    <2> QED
      BY <1>2, <1>5, <2>4, <2>6, <2>7 DEF B, rows, page
  <1>6. CASE ~HasMore(u, before)
    <2>1. Cardinality(rows) < PageLimit + 1
      BY <1>1, <1>3, <1>4, <1>6
    <2> QED
      BY <1>2, <1>3, <1>6, <2>1 DEF B, rows, page
  <1> QED
    BY <1>5, <1>6

-----------------------------------------------------------------------------
(* The badge *)

(* One page and what follows it, and what it means to hold for every       *)
(* cursor what WholeFeed computes.                                         *)
Onward(u, from, before) ==
    IF HasMore(u, before)
    THEN FeedPage(u, before) \cup
            from[CHOOSE s \in FeedPage(u, before) : \A t \in FeedPage(u, before) : s <= t]
    ELSE FeedPage(u, before)

Computes(u, from) == from = [before \in 0..MaxSeq + 1 |-> Onward(u, from, before)]

(* A walk goes on strictly below where it was. *)
LEMMA OnwardIsBelow ==
    ASSUME TypeOK, NEW u \in Users, NEW before \in 0..MaxSeq + 1, NEW from,
           \A k \in 0..MaxSeq + 1 : k < before => from[k] = Below(u, k)
    PROVE  Onward(u, from, before) = Below(u, before)
  <1>1. before \in Nat /\ MaxSeq \in Nat
    BY BoundAssumption
  <1> DEFINE B    == Below(u, before)
             page == FeedPage(u, before)
             k    == CHOOSE s \in page : \A t \in page : s <= t
  <1>2. /\ page \subseteq B
        /\ HasMore(u, before) =>
              \E next \in page : /\ \A s \in page : next <= s
                                 /\ \A s \in B : s < next \/ s \in page
        /\ ~HasMore(u, before) => page = B
    BY <1>1, PageFacts
  <1>3. B = {s \in Visible(u) : s < before} /\ B \subseteq Nat /\ B \subseteq Seqs
    BY BelowIsFinite DEF Below
  <1> HIDE DEF B, page
  <1>4. CASE HasMore(u, before)
    <2>1. PICK next \in page : /\ \A s \in page : next <= s
                               /\ \A s \in B : s < next \/ s \in page
      BY <1>2, <1>4
    <2>2. k \in page /\ \A t \in page : k <= t
      BY <2>1
    <2>3. k = next
      <3>1. k <= next /\ next <= k /\ k \in Nat /\ next \in Nat
        BY <1>2, <1>3, <2>1, <2>2
      <3> HIDE DEF k
      <3> QED
        BY <3>1
    <2> HIDE DEF k
    <2>4. next \in 0..MaxSeq + 1 /\ next < before /\ next \in Nat
      BY <1>1, <1>2, <1>3 DEF Seqs
    <2>5. from[k] = {s \in Visible(u) : s < next}
      BY <2>3, <2>4 DEF Below
    <2>6. \A s \in B : s < next => s \in from[k]
      BY <1>3, <2>5
    <2>7. \A s \in from[k] : s \in Visible(u) /\ s < before
      <3>1. ASSUME NEW s \in Visible(u), s < next PROVE s < before
        <4>1. s \in Nat
          BY BoundAssumption DEF Visible, TypeOK, Seqs
        <4> QED
          BY <1>1, <2>4, <3>1, <4>1
      <3> QED
        BY <2>5, <3>1
    <2>8. page \cup from[k] = B
      BY <1>2, <1>3, <2>1, <2>6, <2>7
    <2> QED
      BY <1>4, <2>8 DEF Onward, B, page, k
  <1>5. CASE ~HasMore(u, before)
    BY <1>2, <1>5 DEF Onward, B, page
  <1> QED
    BY <1>4, <1>5

(* A client that follows the cursors meets what is visible, no more.       *)
LEMMA WholeFeedIsVisible ==
    ASSUME TypeOK, NEW u \in Users
    PROVE  WholeFeed(u) = Visible(u)
  <1> DEFINE Cursors == 0..MaxSeq + 1
             all     == [before \in Cursors |-> Below(u, before)]
  <1>1. MaxSeq \in Nat /\ MaxSeq + 1 \in Cursors /\ Cursors \subseteq Nat
    BY BoundAssumption
  <1>2. Computes(u, all)
    <2>1. ASSUME NEW before \in Cursors PROVE Onward(u, all, before) = Below(u, before)
      <3>1. \A k \in Cursors : k < before => all[k] = Below(u, k)
        OBVIOUS
      <3> HIDE DEF all
      <3> QED
        BY <3>1, OnwardIsBelow
    <2> QED
      BY <2>1 DEF Computes
  <1>3. ASSUME NEW from, Computes(u, from) PROVE from[MaxSeq + 1] = Below(u, MaxSeq + 1)
    <2> DEFINE wrong == {b \in Cursors : from[b] # Below(u, b)}
    <2>1. \A b \in Cursors : from[b] = Onward(u, from, b)
      BY <1>3 DEF Computes
    <2>2. ASSUME wrong # {} PROVE FALSE
      <3>1. PICK b \in wrong : \A k \in wrong : b <= k
        <4>1. wrong \in SUBSET Nat
          BY <1>1
        <4> HIDE DEF wrong
        <4> QED
          BY <2>2, <4>1, HasLeast
      <3>2. ASSUME NEW k \in Cursors, k < b PROVE from[k] = Below(u, k)
        <4>1. k \in Nat /\ b \in Nat
          BY <1>1
        <4> QED
          BY <3>1, <3>2, <4>1
      <3>3. Onward(u, from, b) = Below(u, b)
        BY <3>2, OnwardIsBelow
      <3> QED
        BY <2>1, <3>3
    <2> QED
      BY <1>1, <2>2
  <1>4. WholeFeed(u) = (CHOOSE from : Computes(u, from))[MaxSeq + 1]
    BY Zenon DEF WholeFeed, Computes, Onward
  <1>5. Computes(u, CHOOSE from : Computes(u, from))
    <2> HIDE DEF all
    <2> QED
      BY <1>2
  <1>6. Below(u, MaxSeq + 1) = Visible(u)
    <2>1. ASSUME NEW s \in Visible(u) PROVE s < MaxSeq + 1
      <3>1. s \in 1..MaxSeq
        BY VisibleIsSeqs DEF Seqs
      <3> QED
        BY <1>1, <3>1
    <2> QED
      BY <2>1 DEF Below
  <1> QED
    BY <1>3, <1>4, <1>5, <1>6

(* The badge counts the unread rows a client meets paging its whole feed.  *)
THEOREM BadgeIsTheFeed == Spec => []BadgeCountsTheFeed
  <1>1. TypeOK => BadgeCountsTheFeed
    <2> SUFFICES ASSUME TypeOK, NEW u \in Users
                 PROVE  Badge(u) = Cardinality({s \in WholeFeed(u) : ~ReadByMe(u, s)})
      BY DEF BadgeCountsTheFeed
    <2>1. ASSUME NEW s \in Visible(u)
          PROVE  ~ReadByMe(u, s) <=> s > floor[u] /\ s \notin exceptions[u]
      <3>1. s \in Nat /\ floor[u] \in Nat
        BY BoundAssumption DEF Visible, TypeOK, Seqs
      <3> QED
        BY <3>1 DEF ReadByMe
    <2>2. {s \in WholeFeed(u) : ~ReadByMe(u, s)}
             = {s \in Visible(u) : s > floor[u] /\ s \notin exceptions[u]}
      BY <2>1, WholeFeedIsVisible
    <2> QED
      BY <2>2 DEF Badge
  <1> QED
    BY <1>1, TypeCorrect, PTL

-----------------------------------------------------------------------------
(* Walks *)

(* What a walk is owed is visible now, and shown or still below its cursor. *)
OnItsWay(c) ==
    /\ walk[c].steady \subseteq Visible(walk[c].user)
    /\ \A s \in walk[c].steady : s \in walk[c].shown \/ (walk[c].more /\ s < walk[c].before)

WalkInv == LogInv /\ \A c \in Clients : walk[c] # Idle => OnItsWay(c)

(* A page shows what is owed down to the next cursor. *)
LEMMA PageKeepsItsWay ==
    ASSUME TypeOK, NEW c \in Clients, NEW u \in Users, NEW before \in Nat,
           NEW shown, NEW steady, steady \subseteq Visible(u),
           \A s \in steady : s \in shown \/ s < before,
           ShowPage(c, u, before, shown, steady),
           UNCHANGED <<logVars, permVars>>
    PROVE  OnItsWay(c)' /\ \A d \in Clients : d # c => walk'[d] = walk[d]
  <1> DEFINE page == FeedPage(u, before)
  <1>1. PICK next \in page \cup {0} :
           /\ \A s \in page : next <= s
           /\ page # {} => next \in page
           /\ walk' = [walk EXCEPT ![c] =
                         [user |-> u, before |-> next, more |-> HasMore(u, before),
                          shown |-> shown \cup page, steady |-> steady]]
    BY DEF ShowPage
  <1>2. /\ page \subseteq Below(u, before) /\ Below(u, before) \subseteq Nat
        /\ HasMore(u, before) =>
              \E m \in page : /\ \A s \in page : m <= s
                              /\ \A s \in Below(u, before) : s < m \/ s \in page
        /\ ~HasMore(u, before) => page = Below(u, before)
    BY PageFacts, BelowIsFinite
  <1> HIDE DEF page
  <1>3. ASSUME NEW s \in steady, s \notin shown, s \notin page
        PROVE  HasMore(u, before) /\ s < next
    <2>1. s \in Below(u, before)
      BY <1>3 DEF Below
    <2>2. HasMore(u, before)
      BY <1>2, <1>3, <2>1
    <2>3. PICK m \in page : /\ \A t \in page : m <= t
                            /\ \A t \in Below(u, before) : t < m \/ t \in page
      BY <1>2, <2>2
    <2>4. s < m /\ next \in page
      BY <1>1, <1>3, <2>1, <2>3
    <2>5. m = next
      <3>1. m <= next /\ next <= m /\ m \in Nat /\ next \in Nat
        BY <1>1, <1>2, <2>3, <2>4
      <3> QED
        BY <3>1
    <2> QED
      BY <2>2, <2>4, <2>5
  <1>4. walk'[c] = [user |-> u, before |-> next, more |-> HasMore(u, before),
                    shown |-> shown \cup page, steady |-> steady]
    BY <1>1 DEF TypeOK
  <1>5. Visible(u)' = Visible(u)
    BY DEF Visible, logVars, permVars
  <1>6. OnItsWay(c)'
    BY <1>3, <1>4, <1>5 DEF OnItsWay
  <1> QED
    BY <1>1, <1>6 DEF TypeOK

(* Every step keeps every walk on its way. *)
LEMMA WalkStep == TypeOK /\ WalkInv /\ [Next]_vars => WalkInv'
  <1> SUFFICES ASSUME TypeOK, WalkInv, [Next]_vars,
                      NEW c \in Clients, walk'[c] # Idle
               PROVE  OnItsWay(c)'
    BY LogStep DEF WalkInv
  <1>1. /\ committed \subseteq committed' /\ \A s \in committed : event'[s] = event[s]
    BY LogStep DEF WalkInv
  (* The walk rests, and no group is taken from its client. *)
  <1>2. ASSUME walk'[c] = walk[c], deleted' = deleted,
               \A g : walk[c].user \in members[g] => walk[c].user \in members'[g]
        PROVE  OnItsWay(c)'
    <2>1. OnItsWay(c)
      BY <1>2 DEF WalkInv
    <2>2. \A s \in Visible(walk[c].user) : s \in Visible(walk[c].user)'
      BY <1>1, <1>2 DEF Visible
    <2> QED
      BY <1>2, <2>1, <2>2 DEF OnItsWay
  <1>3. CASE LogNext
    <2>1. UNCHANGED <<walk, members, deleted>>
      BY <1>3 DEF LogNext, InsertActivityEventRow, CommitEvents, RollbackEvents, permVars
    <2> QED
      BY <1>2, <2>1
  <1>4. ASSUME NEW g \in Groups, NEW u \in Users, AddGroupMember(g, u)
        PROVE  OnItsWay(c)'
    <2>1. UNCHANGED <<walk, deleted>> /\ members' = [members EXCEPT ![g] = @ \cup {u}]
      BY <1>4 DEF AddGroupMember
    <2>2. \A h : walk[c].user \in members[h] => walk[c].user \in members'[h]
      BY <2>1 DEF TypeOK
    <2> QED
      BY <1>2, <2>1, <2>2
  (* Rows that are hidden from it are no longer owed. *)
  <1>5. ASSUME UNCHANGED logVars, walk' = StillVisible(members', deleted'),
               deleted \subseteq deleted'
        PROVE  OnItsWay(c)'
    <2>1. walk[c] # Idle /\ walk[c] \in Walk
      BY <1>5 DEF StillVisible, TypeOK
    <2> DEFINE kept == {s \in walk[c].steady :
                           event[s].group \notin deleted'
                           /\ walk[c].user \in members'[event[s].group]}
    <2>2. walk'[c] = [walk[c] EXCEPT !.steady = kept]
      BY <1>5, <2>1 DEF StillVisible
    <2>3. OnItsWay(c)
      BY <2>1 DEF WalkInv
    <2>4. /\ walk'[c].steady = kept /\ walk'[c].user = walk[c].user
          /\ walk'[c].shown = walk[c].shown /\ walk'[c].more = walk[c].more
          /\ walk'[c].before = walk[c].before
      <3> HIDE DEF kept
      <3> QED
        BY <2>1, <2>2 DEF Walk
    <2>5. ASSUME NEW s \in kept PROVE s \in Visible(walk[c].user)'
      <3>1. s \in Visible(walk[c].user)
        BY <2>3 DEF OnItsWay
      <3> QED
        BY <1>5, <2>4, <2>5, <3>1 DEF Visible, logVars
    <2> QED
      BY <2>3, <2>4, <2>5 DEF OnItsWay
  <1>6. ASSUME NEW g \in Groups, NEW u \in Users, RemoveGroupMember(g, u)
        PROVE  OnItsWay(c)'
    BY <1>5, <1>6 DEF RemoveGroupMember
  <1>7. ASSUME NEW g \in Groups, SoftDeleteGroup(g) PROVE OnItsWay(c)'
    BY <1>5, <1>7 DEF SoftDeleteGroup
  <1>8. CASE (\E u \in Users : DeleteUserById(u)) \/ UNCHANGED vars
    <2>1. UNCHANGED <<walk, members, deleted>>
      BY <1>8 DEF DeleteUserById, vars, permVars
    <2> QED
      BY <1>2, <2>1
  <1>9. ASSUME NEW i \in Sessions,
               \/ \E u \in Users, s \in Seqs : StartMarkOne(i, u, s)
               \/ FinishMarkOne(i)
               \/ \E u \in Users : StartMarkAll(i, u)
               \/ FinishMarkAll(i) \/ Abandon(i)
        PROVE  OnItsWay(c)'
    <2>1. UNCHANGED <<walk, members, deleted>>
      BY <1>9 DEF StartMarkOne, FinishMarkOne, StartMarkAll, FinishMarkAll, Abandon, permVars
    <2> QED
      BY <1>2, <2>1
  <1>10. ASSUME NEW d \in Clients, NEW u \in Users, StartWalk(d, u)
         PROVE  OnItsWay(c)'
    <2>1. \A s \in Visible(u) : s \in {} \/ s < MaxSeq + 1
      <3>1. \A s \in Visible(u) : s \in 1..MaxSeq
        BY VisibleIsSeqs DEF Seqs
      <3> QED
        BY <3>1, BoundAssumption
    <2>2. MaxSeq + 1 \in Nat
      BY BoundAssumption
    <2>3. OnItsWay(d)' /\ \A e \in Clients : e # d => walk'[e] = walk[e]
      BY <1>10, <2>1, <2>2, PageKeepsItsWay DEF StartWalk
    <2>4. UNCHANGED <<members, deleted>>
      BY <1>10 DEF StartWalk, permVars
    <2> QED
      BY <1>2, <2>3, <2>4
  <1>11. ASSUME NEW d \in Clients, NextPage(d) PROVE OnItsWay(c)'
    <2>1. /\ walk[d] # Idle /\ walk[d].more
          /\ ShowPage(d, walk[d].user, walk[d].before, walk[d].shown, walk[d].steady)
          /\ UNCHANGED <<logVars, permVars>>
      BY <1>11 DEF NextPage
    <2>2. walk[d] \in Walk /\ OnItsWay(d)
      BY <2>1 DEF WalkInv, TypeOK
    <2>3. walk[d].user \in Users /\ walk[d].before \in Nat
      BY <2>2 DEF Walk
    <2>4. OnItsWay(d)' /\ \A e \in Clients : e # d => walk'[e] = walk[e]
      BY <2>1, <2>2, <2>3, PageKeepsItsWay DEF OnItsWay
    <2>5. UNCHANGED <<members, deleted>>
      BY <2>1 DEF permVars
    <2> QED
      BY <1>2, <2>4, <2>5
  <1> QED
    BY <1>3, <1>4, <1>6, <1>7, <1>8, <1>9, <1>10, <1>11 DEF Next, PermNext, ReadNext

(* A client that pages to the end was shown every event that was visible   *)
(* to it all the while.                                                    *)
THEOREM WalksMissNothing == Spec => []WalkMissesNothing
  <1>1. Init => WalkInv
    BY DEF Init, WalkInv, LogInv
  <1>2. WalkInv => WalkMissesNothing
    BY DEF WalkInv, OnItsWay, WalkMissesNothing
  <1> QED
    BY <1>1, <1>2, TypeCorrect, WalkStep, PTL DEF Spec
=============================================================================
