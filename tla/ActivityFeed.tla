---------------------------- MODULE ActivityFeed ----------------------------
(***************************************************************************)
(* The durable half of the group activity feed: the append-only log        *)
(* activity_events, the visibility view over group membership, and each    *)
(* reader's read state (a floor and the exception rows above it).          *)
(*                                                                         *)
(* Every statement of the store runs at READ COMMITTED.  A statement that  *)
(* reads and then writes is therefore two steps here: it takes a snapshot  *)
(* of the committed rows when it starts, and applies what it decided when  *)
(* it commits, by which time other statements may have committed.          *)
(***************************************************************************)
EXTENDS Integers, FiniteSets

CONSTANTS Users,      \* user ids; a deleted user's id is never used again
          Groups,     \* group ids
          Writers,    \* request goroutines appending events to the log
          Sessions,   \* requests that may mark events read at the same time
          Clients,    \* clients that page through a feed
          MaxSeq,     \* bound: sequence numbers drawn
          PageLimit,  \* rows of a feed page, after normalization
          NoEvent,    \* a sequence number no row carries
          Idle        \* a session or a client with nothing in flight

Seqs  == 1..MaxSeq
Event == [group : Groups, actor : Users]

ASSUME BoundAssumption == MaxSeq \in Nat /\ PageLimit \in Nat \ {0}
ASSUME NoEventAssumption == NoEvent \notin Event

VARIABLES
    lastSeq,    \* activity_events_seq_seq: drawn at INSERT, never given back
    event,      \* the rows by seq, inserted by a transaction that may be open
    open,       \* per writer, the rows its open transaction has inserted
    committed,  \* the rows every snapshot sees
    members,    \* group_members
    deleted,    \* groups.deleted
    accounts,   \* the rows of users
    floor,      \* activity_read_floors.floor_seq, 0 where there is no row
    exceptions, \* activity_event_reads, per reader
    stmt,       \* per session, the mark-one or mark-all statement in flight
    walk        \* per client, how far it has paged and what it has shown

logVars  == <<lastSeq, event, open, committed>>
permVars == <<members, deleted, accounts>>
readVars == <<floor, exceptions>>
vars     == <<logVars, permVars, readVars, stmt, walk>>

MarkOneStmt == [op : {"one"}, user : Users, seq : Seqs]
MarkAllStmt == [op : {"all"}, user : Users, max : 0..MaxSeq, seen : SUBSET Seqs]
Walk        == [user : Users, before : Nat, more : BOOLEAN,
                shown : SUBSET Seqs, steady : SUBSET Seqs]

ASSUME IdleAssumption == Idle \notin MarkOneStmt \cup MarkAllStmt \cup Walk

(* The one type invariant: what the tables and the statements in flight hold. *)
TypeOK ==
    /\ lastSeq \in 0..MaxSeq
    /\ event \in [Seqs -> Event \cup {NoEvent}]
    /\ open \in [Writers -> SUBSET Seqs]
    /\ committed \in SUBSET Seqs
    /\ members \in [Groups -> SUBSET Users]
    /\ deleted \in SUBSET Groups
    /\ accounts \in SUBSET Users
    /\ floor \in [Users -> 0..MaxSeq]
    /\ exceptions \in [Users -> SUBSET Seqs]
    /\ stmt \in [Sessions -> MarkOneStmt \cup MarkAllStmt \cup {Idle}]
    /\ walk \in [Clients -> Walk \cup {Idle}]

-----------------------------------------------------------------------------
(* Queries *)

(* activity_visible_events: the reader's groups, never their own actions,  *)
(* nothing from a deleted group.                                           *)
Visible(u) == {s \in committed : /\ event[s].group \notin deleted
                                 /\ u \in members[event[s].group]
                                 /\ event[s].actor # u}

(* read_by_me of GetActivityFeedRows *)
ReadByMe(u, s) == s <= floor[u] \/ s \in exceptions[u]

(* Wrong on purpose: the count forgets the exception rows. *)
BadgeAboveFloor(u) == Cardinality({s \in Visible(u) : s > floor[u]})

(* CountActivityUnread: the badge *)
Badge(u) == Cardinality({s \in Visible(u) : s > floor[u] /\ s \notin exceptions[u]})

(* Wrong on purpose: the page is cut from the oldest end. *)
OldestRows(u, before, n) ==
    LET below == {s \in Visible(u) : s < before}
    IN  {s \in below : Cardinality({t \in below : t < s}) < n}

(* GetActivityFeedRows: the newest n rows below the cursor *)
FeedRows(u, before, n) ==
    LET below == {s \in Visible(u) : s < before}
    IN  {s \in below : Cardinality({t \in below : t > s}) < n}

(* GetFeed: one row more than the page answers whether there is another.   *)
HasMore(u, before)  == Cardinality(FeedRows(u, before, PageLimit + 1)) > PageLimit
FeedPage(u, before) ==
    IF HasMore(u, before)
    THEN LET rows == FeedRows(u, before, PageLimit + 1)
         IN  {s \in rows : \E t \in rows : t < s}
    ELSE FeedRows(u, before, PageLimit + 1)

-----------------------------------------------------------------------------
Init == /\ lastSeq = 0
        /\ event = [s \in Seqs |-> NoEvent]
        /\ open = [w \in Writers |-> {}]
        /\ committed = {}
        /\ members \in [Groups -> SUBSET Users]
        /\ deleted = {}
        /\ accounts = Users
        /\ floor = [u \in Users |-> 0]
        /\ exceptions = [u \in Users |-> {}]
        /\ stmt = [i \in Sessions |-> Idle]
        /\ walk = [c \in Clients |-> Idle]

(* One row of a request's batch.  The actor is the request's, so a batch   *)
(* has one actor; the sequence number is drawn here, not at COMMIT.        *)
InsertActivityEventRow(w, g, a) ==
    /\ lastSeq < MaxSeq
    /\ \A s \in open[w] : event[s].actor = a
    /\ lastSeq' = lastSeq + 1
    /\ event' = [event EXCEPT ![lastSeq + 1] = [group |-> g, actor |-> a]]
    /\ open' = [open EXCEPT ![w] = @ \cup {lastSeq + 1}]
    /\ UNCHANGED <<committed, permVars, readVars, stmt, walk>>

(* The batch commits as a whole: InsertActivityEvents owns the transaction. *)
CommitEvents(w) ==
    /\ open[w] # {}
    /\ committed' = committed \cup open[w]
    /\ open' = [open EXCEPT ![w] = {}]
    /\ UNCHANGED <<lastSeq, event, permVars, readVars, stmt, walk>>

(* A failing insert, a timeout of the flush or a crash: no row of the      *)
(* batch survives, and its sequence numbers are gaps.                      *)
RollbackEvents(w) ==
    /\ open[w] # {}
    /\ open' = [open EXCEPT ![w] = {}]
    /\ UNCHANGED <<lastSeq, event, committed, permVars, readVars, stmt, walk>>

-----------------------------------------------------------------------------
(* Membership, as the feed's queries see it *)

AddGroupMember(g, u) ==
    /\ u \notin members[g]
    /\ members' = [members EXCEPT ![g] = @ \cup {u}]
    /\ UNCHANGED <<logVars, deleted, accounts, readVars, stmt, walk>>

(* A walk is only owed the events that stay visible for as long as it lasts. *)
StillVisible(m, d) ==
    [c \in Clients |->
        IF walk[c] = Idle THEN Idle
        ELSE [walk[c] EXCEPT !.steady =
                {s \in @ : event[s].group \notin d /\ walk[c].user \in m[event[s].group]}]]

RemoveGroupMember(g, u) ==
    /\ u \in members[g]
    /\ members' = [members EXCEPT ![g] = @ \ {u}]
    /\ walk' = StillVisible(members', deleted)
    /\ UNCHANGED <<logVars, deleted, accounts, readVars, stmt>>

SoftDeleteGroup(g) ==
    /\ g \notin deleted
    /\ deleted' = deleted \cup {g}
    /\ walk' = StillVisible(members, deleted')
    /\ UNCHANGED <<logVars, members, accounts, readVars, stmt>>

(* Deleting a user cascades to their floor and their exception rows, and   *)
(* to nothing else: group_members and activity_events carry no foreign key *)
(* to users.                                                               *)
DeleteUserById(u) ==
    /\ u \in accounts
    /\ accounts' = accounts \ {u}
    /\ floor' = [floor EXCEPT ![u] = 0]
    /\ exceptions' = [exceptions EXCEPT ![u] = {}]
    /\ UNCHANGED <<logVars, members, deleted, stmt, walk>>

-----------------------------------------------------------------------------
(* Reading *)

(* MarkActivityEventRead starts: visibility and floor are read from its    *)
(* snapshot.  At or below the floor, or out of sight, it writes nothing.   *)
StartMarkOne(i, u, s) ==
    /\ stmt[i] = Idle
    /\ u \in accounts
    /\ s \in Visible(u)
    /\ s > floor[u]
    /\ stmt' = [stmt EXCEPT ![i] = [op |-> "one", user |-> u, seq |-> s]]
    /\ UNCHANGED <<logVars, permVars, readVars, walk>>

(* ... and commits its exception row.  The foreign key to users fails it   *)
(* when the account went in between.                                       *)
FinishMarkOne(i) ==
    /\ stmt[i] \in MarkOneStmt
    /\ exceptions' = IF stmt[i].user \in accounts
                     THEN [exceptions EXCEPT ![stmt[i].user] = @ \cup {stmt[i].seq}]
                     ELSE exceptions
    /\ stmt' = [stmt EXCEPT ![i] = Idle]
    /\ UNCHANGED <<logVars, permVars, floor, walk>>

(* MarkAllActivityEventsRead starts: COALESCE(max(seq), 0) of the visible  *)
(* events, and the exception rows its DELETE will scan.                    *)
StartMarkAll(i, u) ==
    /\ stmt[i] = Idle
    /\ u \in accounts
    /\ \E max \in Visible(u) \cup {0} :
          /\ \A s \in Visible(u) : s <= max
          /\ stmt' = [stmt EXCEPT ![i] = [op |-> "all", user |-> u, max |-> max,
                                          seen |-> exceptions[u]]]
    /\ UNCHANGED <<logVars, permVars, readVars, walk>>

(* Wrong on purpose: SET floor_seq = EXCLUDED.floor_seq; the last value of *)
(* the sequence; the newest event of the table, not of the reader's view.  *)
OverwrittenFloor(st) == st.max
FloorAtLogEnd(st)    == lastSeq
FloorOfTheTable(st)  ==
    CHOOSE m \in committed \cup {floor[st.user]} :
       \A s \in committed \cup {floor[st.user]} : s <= m

(* GREATEST(floor_seq, EXCLUDED.floor_seq) on the row as it now is *)
RaisedFloor(st) == IF st.max > floor[st.user] THEN st.max ELSE floor[st.user]

(* Wrong on purpose: every exception row is deleted. *)
AllSeen(st) == st.seen

(* What the DELETE removes: rows of its snapshot the raised floor covers *)
Covered(st) == {s \in st.seen : s <= RaisedFloor(st)}

FinishMarkAll(i) ==
    /\ stmt[i] \in MarkAllStmt
    /\ IF stmt[i].user \in accounts
       THEN /\ floor' = [floor EXCEPT ![stmt[i].user] = RaisedFloor(stmt[i])]
            /\ exceptions' = [exceptions EXCEPT ![stmt[i].user] = @ \ Covered(stmt[i])]
       ELSE UNCHANGED readVars
    /\ stmt' = [stmt EXCEPT ![i] = Idle]
    /\ UNCHANGED <<logVars, permVars, walk>>

(* The request is cancelled, the server stops or the connection drops: the *)
(* statement rolls back.                                                   *)
Abandon(i) ==
    /\ stmt[i] # Idle
    /\ stmt' = [stmt EXCEPT ![i] = Idle]
    /\ UNCHANGED <<logVars, permVars, readVars, walk>>

(* A client pages through its feed: GetFeed without a cursor, then with    *)
(* the cursor of the page before for as long as the answer has more.       *)
ShowPage(c, u, before, shown, steady) ==
    LET page == FeedPage(u, before)
    IN  \E next \in page \cup {0} :
          /\ \A s \in page : next <= s
          /\ page # {} => next \in page
          /\ walk' = [walk EXCEPT ![c] =
                        [user |-> u, before |-> next, more |-> HasMore(u, before),
                         shown |-> shown \cup page, steady |-> steady]]

StartWalk(c, u) ==
    /\ u \in accounts
    /\ ShowPage(c, u, MaxSeq + 1, {}, Visible(u))
    /\ UNCHANGED <<logVars, permVars, readVars, stmt>>

NextPage(c) ==
    /\ walk[c] # Idle
    /\ walk[c].more
    /\ walk[c].user \in accounts
    /\ ShowPage(c, walk[c].user, walk[c].before, walk[c].shown, walk[c].steady)
    /\ UNCHANGED <<logVars, permVars, readVars, stmt>>

-----------------------------------------------------------------------------
LogNext  == \E w \in Writers :
               \/ \E g \in Groups, a \in Users : InsertActivityEventRow(w, g, a)
               \/ CommitEvents(w)
               \/ RollbackEvents(w)

PermNext == \/ \E g \in Groups, u \in Users : AddGroupMember(g, u) \/ RemoveGroupMember(g, u)
            \/ \E g \in Groups : SoftDeleteGroup(g)
            \/ \E u \in Users : DeleteUserById(u)

ReadNext == \/ \E i \in Sessions :
                  \/ \E u \in Users, s \in Seqs : StartMarkOne(i, u, s)
                  \/ FinishMarkOne(i)
                  \/ \E u \in Users : StartMarkAll(i, u)
                  \/ FinishMarkAll(i)
                  \/ Abandon(i)
            \/ \E c \in Clients :
                  \/ \E u \in Users : StartWalk(c, u)
                  \/ NextPage(c)

Next == LogNext \/ PermNext \/ ReadNext

Spec == Init /\ [][Next]_vars

-----------------------------------------------------------------------------
(* Properties *)

(* Once an event is read for a reader it stays read, whatever mark-one and *)
(* mark-all statements race: GREATEST keeps a late, lower mark-all from    *)
(* lowering the floor, and the DELETE only removes rows the floor covers.  *)
ReadStaysRead ==
    [][\A u \in accounts', s \in committed : ReadByMe(u, s) => ReadByMe(u, s)']_vars

(* What a mark-all reads, when it commits: the committed events up to the  *)
(* newest its reader could see when it started, and no event past that.    *)
(* Those up to it become read whether the reader can see them or not,      *)
(* since the floor is one number for all groups: the schema accepts that,  *)
(* and the store's comment, that an event they cannot see is not touched,  *)
(* does not hold of it.                                                    *)
MarkAllIsExact ==
    [][\A i \in Sessions, u \in accounts :
         /\ stmt[i] \in MarkAllStmt
         /\ stmt[i].user = u
         /\ FinishMarkAll(i)
         => \A s \in committed :
               ReadByMe(u, s)' <=> (ReadByMe(u, s) \/ s <= stmt[i].max)]_vars

(* The badge counts exactly the unread rows a client meets paging through  *)
(* its whole feed, page by page, with the cursor each page hands out.      *)
WholeFeed(u) ==
    LET from[before \in 0..MaxSeq + 1] ==
            LET page == FeedPage(u, before)
            IN  IF HasMore(u, before)
                THEN page \cup from[CHOOSE s \in page : \A t \in page : s <= t]
                ELSE page
    IN  from[MaxSeq + 1]

BadgeCountsTheFeed ==
    \A u \in Users :
       Badge(u) = Cardinality({s \in WholeFeed(u) : ~ReadByMe(u, s)})

(* A client that pages to the end has been shown every event that was      *)
(* visible to it the whole time, whatever committed or was marked between  *)
(* its pages.                                                              *)
WalkMissesNothing ==
    \A c \in Clients :
       walk[c] # Idle /\ ~walk[c].more => walk[c].steady \subseteq walk[c].shown

(* What could ever be a reader's news: committed, and done by another.     *)
Others(u) == {s \in committed : event[s].actor # u}

(* A floor is 0 or the seq of such an event, also of one that went out of  *)
(* sight or that the reader joined too late to see.                        *)
FloorIsNews == \A u \in Users : floor[u] \in Others(u) \cup {0}

(* Exception rows name such events, and so do the statements in flight     *)
(* that will write or delete one, or raise a floor.                        *)
MarksAreNews ==
    /\ \A u \in Users : exceptions[u] \subseteq Others(u)
    /\ \A i \in Sessions :
          stmt[i] \in MarkOneStmt => stmt[i].seq \in Others(stmt[i].user)
    /\ \A i \in Sessions :
          stmt[i] \in MarkAllStmt => /\ stmt[i].max \in Others(stmt[i].user) \cup {0}
                                     /\ stmt[i].seen \subseteq Others(stmt[i].user)

(* Read state points at committed events of other users only.  Sequence    *)
(* numbers are drawn before a batch commits, and drawn by everybody, so a  *)
(* floor taken from anything but what its reader saw would stand on a row  *)
(* that is not there yet, or on one of their own, and everything between   *)
(* would be born read.  As it is, an event commits already read only under *)
(* somebody else's event that was drawn later and committed earlier: the   *)
(* caveat the schema accepts, and no more than it.                         *)
ReadStateIsCommitted == FloorIsNews /\ MarksAreNews

(* The floor and the exception rows implement one set of read events per   *)
(* reader: the abstract feed of ReadState.                                 *)
ReadSet == [u \in Users |-> {s \in committed : ReadByMe(u, s)}]
RS == INSTANCE ReadState WITH recorded <- committed, read <- ReadSet
ReadStateSpec == RS!Spec
=============================================================================
