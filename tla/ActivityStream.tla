--------------------------- MODULE ActivityStream ---------------------------
(***************************************************************************)
(* The live half of the activity feed: the LISTEN loop on its own database *)
(* connection, the in-process hub it publishes into, the SSE handlers that *)
(* each hold a subscriber, and the clients that take a snapshot of the     *)
(* feed when their stream opens.                                           *)
(*                                                                         *)
(* Delivery is best effort by design.  The module keeps a ledger of every  *)
(* place an event may be lost, so that it can be said that there is no     *)
(* other.                                                                  *)
(***************************************************************************)
EXTENDS Integers, Sequences, FiniteSets, SequencesExt

CONSTANTS Users, Groups,
          Conns,       \* stream connections, each opened at most once
          FairConns,   \* those whose handler is assumed to keep running
          Actors,      \* bound: the users whose actions are recorded
          Movers,      \* bound: the users who join and leave groups
          Dying,       \* bound: the groups that may be deleted
          MaxEvents,   \* bound: events committed
          MaxRestarts, \* bound: restarts of the process
          BufferSize,  \* subscriberBufferSize
          MinBackoff,  \* listenMinBackoff
          MaxBackoff,  \* listenMaxBackoff
          NoUser       \* the user of a connection that is not open

ASSUME StreamAssumption ==
    /\ MaxEvents \in Nat /\ BufferSize \in Nat \ {0}
    /\ MinBackoff \in Nat \ {0} /\ MaxBackoff \in Nat /\ MinBackoff <= MaxBackoff
    /\ MaxRestarts \in Nat /\ Actors \subseteq Users /\ Movers \subseteq Users
    /\ Dying \subseteq Groups
    /\ FairConns \subseteq Conns /\ NoUser \notin Users

VARIABLES
    log,       \* the committed events in commit order
    members,   \* group_members of the groups that are not deleted
    link,      \* the LISTEN session is established on the database side
    notes,     \* notifications the loop has not taken yet, in commit order
    loop,      \* where ListenActivity is
    delay,     \* its backoff
    cur,       \* the event it is publishing, 0 when none
    todo,      \* subscribers this Publish has not reached; it holds the read lock
    subs,      \* Hub.subscribers
    pc,        \* where each connection's handler is
    user,      \* Subscriber.UserId
    groups,    \* Subscriber.GroupIds: what GetUserById answered
    buffer,    \* Subscriber.Events
    closed,    \* connections whose channel is closed
    panicked,  \* some goroutine sent on a closed channel
    client,    \* what each client has: its snapshot, the frames it was sent
    owed,      \* groups a connection was opened for and its user never left
    restarts,  \* how often the process has started again
    gap,       \* ledger: events whose notification never made it to the hub
    dropped    \* ledger: events a connection lost to a full buffer or a bad frame

listenVars == <<link, notes, loop, delay, cur>>
hubVars    == <<todo, subs, buffer, closed, panicked>>
connVars   == <<pc, user, groups>>
ledger     == <<owed, gap, dropped, restarts>>
vars == <<log, members, listenVars, hubVars, connVars, client, ledger>>

Events == 1..MaxEvents
Event  == [group : Groups, actor : Users]

(* A client before its snapshot has none; then a set of events. *)
NoSnapshot == {0}

TypeOK ==
    /\ log \in Seq(Event) /\ Len(log) <= MaxEvents
    /\ members \in [Groups -> SUBSET Users]
    /\ link \in BOOLEAN
    /\ notes \in Seq(Events)
    /\ loop \in {"dial", "wait", "publish", "sleep"}
    /\ delay \in MinBackoff..MaxBackoff
    /\ cur \in 0..MaxEvents
    /\ todo \in SUBSET Conns /\ subs \in SUBSET Conns /\ closed \in SUBSET Conns
    /\ pc \in [Conns -> {"idle", "resolved", "subscribed", "live", "returned",
                         "removed", "done"}]
    /\ user \in [Conns -> Users \cup {NoUser}]
    /\ groups \in [Conns -> SUBSET Groups]
    /\ buffer \in [Conns -> Seq(Events)]
    /\ panicked \in BOOLEAN
    /\ client \in [Conns -> [snapshot : SUBSET (0..MaxEvents), frames : Seq(Events)]]
    /\ owed \in [Conns -> SUBSET Groups]
    /\ gap \in SUBSET Events /\ restarts \in 0..MaxRestarts
    /\ dropped \in [Conns -> SUBSET Events]

(* GetUserById's Groups, and the feed's own predicate, for a live group *)
GroupsOf(u)      == {g \in Groups : u \in members[g]}
Feed(u)          == {e \in 1..Len(log) : log[e].group \in GroupsOf(u) /\ log[e].actor # u}

(* visible: the predicate of the hub, on what the subscriber captured *)
VisibleTo(c, e)  == log[e].actor # user[c] /\ log[e].group \in groups[c]

NewClient == [snapshot |-> NoSnapshot, frames |-> <<>>]

Init == /\ log = <<>>
        /\ members \in [Groups -> SUBSET Users]
        /\ link = FALSE /\ notes = <<>> /\ loop = "dial" /\ delay = MinBackoff /\ cur = 0
        /\ todo = {} /\ subs = {} /\ closed = {} /\ panicked = FALSE
        /\ buffer = [c \in Conns |-> <<>>]
        /\ pc = [c \in Conns |-> "idle"]
        /\ user = [c \in Conns |-> NoUser]
        /\ groups = [c \in Conns |-> {}]
        /\ client = [c \in Conns |-> NewClient]
        /\ owed = [c \in Conns |-> {}] /\ gap = {} /\ restarts = 0
        /\ dropped = [c \in Conns |-> {}]

-----------------------------------------------------------------------------
(* The database *)

(* An insert commits; pg_notify delivers with it, to a session that listens. *)
CommitEvent(g, a) ==
    /\ Len(log) < MaxEvents
    /\ log' = Append(log, [group |-> g, actor |-> a])
    /\ notes' = IF link THEN Append(notes, Len(log) + 1) ELSE notes
    /\ gap' = IF link THEN gap ELSE gap \cup {Len(log) + 1}
    /\ UNCHANGED <<members, link, loop, delay, cur, hubVars, connVars, client, owed, dropped, restarts>>

AddGroupMember(g, u) ==
    /\ u \notin members[g]
    /\ members' = [members EXCEPT ![g] = @ \cup {u}]
    /\ UNCHANGED <<log, listenVars, hubVars, connVars, client, ledger>>

RemoveGroupMember(g, u) ==
    /\ u \in members[g]
    /\ members' = [members EXCEPT ![g] = @ \ {u}]
    /\ owed' = [c \in Conns |-> IF user[c] = u THEN owed[c] \ {g} ELSE owed[c]]
    /\ UNCHANGED <<log, listenVars, hubVars, connVars, client, gap, dropped, restarts>>

(* A deleted group leaves the feeds of all its members at once.            *)
SoftDeleteGroup(g) ==
    /\ members[g] # {}
    /\ members' = [members EXCEPT ![g] = {}]
    /\ owed' = [c \in Conns |-> IF user[c] \in members[g] THEN owed[c] \ {g} ELSE owed[c]]
    /\ UNCHANGED <<log, listenVars, hubVars, connVars, client, gap, dropped, restarts>>

(* The session dies: of the notifications on their way, the loop still     *)
(* gets those its socket has received.                                     *)
LinkBreaks ==
    /\ link
    /\ link' = FALSE
    /\ \E n \in 0..Len(notes) :
          /\ notes' = SubSeq(notes, 1, n)
          /\ gap' = gap \cup {notes[k] : k \in n+1..Len(notes)}
    /\ UNCHANGED <<log, members, loop, delay, cur, hubVars, connVars, client, owed, dropped, restarts>>

-----------------------------------------------------------------------------
(* ListenActivity and listenOnce *)

Connect ==
    /\ loop = "dial"
    /\ loop' = "wait" /\ link' = TRUE
    /\ delay' = MinBackoff
    /\ UNCHANGED <<log, members, notes, cur, hubVars, connVars, client, ledger>>

ConnectFails ==
    /\ loop = "dial"
    /\ loop' = "sleep"
    /\ UNCHANGED <<log, members, link, notes, delay, cur, hubVars, connVars, client, ledger>>

(* Wrong on purpose: a notification that is taken is delivered again. *)
PeekNotification ==
    /\ loop = "wait" /\ notes # <<>>
    /\ cur' = Head(notes)
    /\ loop' = "publish" /\ todo' = subs
    /\ UNCHANGED <<log, members, link, notes, delay, subs, buffer, closed, panicked, connVars,
                   client, ledger>>

(* WaitForNotification returns an id, its row is read and Publish takes    *)
(* the hub's read lock.                                                    *)
TakeNotification ==
    /\ loop = "wait" /\ notes # <<>>
    /\ cur' = Head(notes) /\ notes' = Tail(notes)
    /\ loop' = "publish" /\ todo' = subs
    /\ UNCHANGED <<log, members, link, delay, subs, buffer, closed, panicked, connVars,
                   client, ledger>>

(* The row cannot be read: the event is logged and skipped. *)
SkipNotification ==
    /\ loop = "wait" /\ notes # <<>>
    /\ notes' = Tail(notes)
    /\ gap' = gap \cup {Head(notes)}
    /\ UNCHANGED <<log, members, link, loop, delay, cur, hubVars, connVars, client, owed, dropped, restarts>>

(* WaitForNotification fails: listenOnce returns and the loop backs off. *)
WaitFails ==
    /\ loop = "wait" /\ notes = <<>> /\ ~link
    /\ loop' = "sleep"
    /\ UNCHANGED <<log, members, link, notes, delay, cur, hubVars, connVars, client, ledger>>

(* Wrong on purpose: the loop gives up at its cap. *)
WakeOrGiveUp ==
    /\ loop = "sleep" /\ delay < MaxBackoff
    /\ loop' = "dial" /\ delay' = 2 * delay
    /\ UNCHANGED <<log, members, link, notes, cur, hubVars, connVars, client, ledger>>

Wake ==
    /\ loop = "sleep"
    /\ loop' = "dial"
    /\ delay' = IF 2 * delay > MaxBackoff THEN MaxBackoff ELSE 2 * delay
    /\ UNCHANGED <<log, members, link, notes, cur, hubVars, connVars, client, ledger>>

-----------------------------------------------------------------------------
(* Hub *)

(* Wrong on purpose: Publish waits for room in a full buffer, which it     *)
(* comes to first.                                                         *)
PublishBlocking(c) ==
    /\ loop = "publish" /\ c \in todo
    /\ \A d \in todo : VisibleTo(d, cur) => Len(buffer[d]) < BufferSize
    /\ todo' = todo \ {c}
    /\ buffer' = IF VisibleTo(c, cur) THEN [buffer EXCEPT ![c] = Append(@, cur)] ELSE buffer
    /\ UNCHANGED <<log, members, listenVars, subs, closed, panicked, connVars, client, ledger>>

(* One iteration of Publish: a send that does not wait.  A send on a closed *)
(* channel panics.                                                          *)
PublishTo(c) ==
    /\ loop = "publish" /\ c \in todo
    /\ todo' = todo \ {c}
    /\ LET seen == VisibleTo(c, cur)
           room == Len(buffer[c]) < BufferSize
       IN  /\ buffer' = IF seen /\ room /\ c \notin closed
                        THEN [buffer EXCEPT ![c] = Append(@, cur)] ELSE buffer
           /\ dropped' = IF seen /\ ~room
                         THEN [dropped EXCEPT ![c] = @ \cup {cur}] ELSE dropped
           /\ panicked' = (panicked \/ (seen /\ c \in closed))
    /\ UNCHANGED <<log, members, listenVars, subs, closed, connVars, client, owed, gap, restarts>>

EndPublish ==
    /\ loop = "publish" /\ todo = {}
    /\ loop' = "wait" /\ cur' = 0
    /\ UNCHANGED <<log, members, link, notes, delay, hubVars, connVars, client, ledger>>

(* Wrong on purpose: Unsubscribe takes no lock. *)
Unlocked == TRUE

(* Publish holds the read lock from its first send to its last. *)
WriteLockFree == loop # "publish"

Subscribe(c) ==
    /\ pc[c] = "resolved"
    /\ WriteLockFree
    /\ subs' = subs \cup {c}
    /\ pc' = [pc EXCEPT ![c] = "subscribed"]
    /\ UNCHANGED <<log, members, listenVars, todo, buffer, closed, panicked, user, groups,
                   client, ledger>>

(* Unsubscribe: the entry goes under the lock, then the channel is closed. *)
Unsubscribe(c) ==
    /\ pc[c] = "returned"
    /\ WriteLockFree
    /\ subs' = subs \ {c}
    /\ pc' = [pc EXCEPT ![c] = "removed"]
    /\ UNCHANGED <<log, members, listenVars, todo, buffer, closed, panicked, user, groups,
                   client, ledger>>

(* The connection is over: what its client has is no longer followed. *)
CloseChannel(c) ==
    /\ pc[c] = "removed"
    /\ closed' = closed \cup {c}
    /\ pc' = [pc EXCEPT ![c] = "done"]
    /\ client' = [client EXCEPT ![c] = NewClient]
    /\ owed' = [owed EXCEPT ![c] = {}] /\ dropped' = [dropped EXCEPT ![c] = {}]
    /\ UNCHANGED <<log, members, listenVars, todo, subs, buffer, panicked, user, groups, gap,
                   restarts>>

-----------------------------------------------------------------------------
(* StreamActivity *)

(* OpenStream past the ticket: the user's groups are resolved once. *)
OpenStream(c, u) ==
    /\ pc[c] = "idle"
    /\ user' = [user EXCEPT ![c] = u]
    /\ groups' = [groups EXCEPT ![c] = GroupsOf(u)]
    /\ owed' = [owed EXCEPT ![c] = GroupsOf(u)]
    /\ pc' = [pc EXCEPT ![c] = "resolved"]
    /\ UNCHANGED <<log, members, listenVars, hubVars, client, gap, dropped, restarts>>

(* Wrong on purpose: the headers go out before the handler subscribes. *)
FlushTooEarly(c) ==
    /\ pc[c] \in {"resolved", "subscribed"}
    /\ pc' = [pc EXCEPT ![c] = "live"]
    /\ UNCHANGED <<log, members, listenVars, hubVars, user, groups, client, ledger>>

(* The headers are flushed: the client sees its stream open. *)
FlushHeaders(c) ==
    /\ pc[c] = "subscribed"
    /\ pc' = [pc EXCEPT ![c] = "live"]
    /\ UNCHANGED <<log, members, listenVars, hubVars, user, groups, client, ledger>>

(* The loop's receive, the frame, the write and the flush. *)
SendFrame(c) ==
    /\ pc[c] = "live" /\ buffer[c] # <<>>
    /\ buffer' = [buffer EXCEPT ![c] = Tail(@)]
    /\ client' = [client EXCEPT ![c].frames = Append(@, Head(buffer[c]))]
    /\ UNCHANGED <<log, members, listenVars, todo, subs, closed, panicked, connVars, ledger>>

(* StreamFrame cannot render the event: the stream goes on without it. *)
SkipFrame(c) ==
    /\ pc[c] = "live" /\ buffer[c] # <<>>
    /\ buffer' = [buffer EXCEPT ![c] = Tail(@)]
    /\ dropped' = [dropped EXCEPT ![c] = @ \cup {Head(buffer[c])}]
    /\ UNCHANGED <<log, members, listenVars, todo, subs, closed, panicked, connVars, client,
                   owed, gap, restarts>>

(* The request's context is done, or a ping cannot be written: the handler *)
(* returns from its loop, whatever its buffer holds.                       *)
ClientLeaves(c) ==
    /\ pc[c] = "live"
    /\ pc' = [pc EXCEPT ![c] = "returned"]
    /\ UNCHANGED <<log, members, listenVars, hubVars, user, groups, client, ledger>>

(* Wrong on purpose: this return does not run the deferred unsubscribe. *)
WriteFailsForGood(c) ==
    /\ pc[c] = "live" /\ buffer[c] # <<>>
    /\ buffer' = [buffer EXCEPT ![c] = Tail(@)]
    /\ pc' = [pc EXCEPT ![c] = "done"]
    /\ UNCHANGED <<log, members, listenVars, todo, subs, closed, panicked, user, groups, client,
                   ledger>>

(* An event is taken, its frame cannot be written and the handler returns. *)
(* The third return, on a closed channel, cannot be reached: only this     *)
(* handler's own deferred unsubscribe closes it.                           *)
WriteFails(c) ==
    /\ pc[c] = "live" /\ buffer[c] # <<>>
    /\ buffer' = [buffer EXCEPT ![c] = Tail(@)]
    /\ pc' = [pc EXCEPT ![c] = "returned"]
    /\ UNCHANGED <<log, members, listenVars, todo, subs, closed, panicked, user, groups, client,
                   ledger>>

(* The client reads the feed once its stream is open. *)
TakeSnapshot(c) ==
    /\ pc[c] = "live" /\ client[c].snapshot = NoSnapshot
    /\ client' = [client EXCEPT ![c].snapshot = Feed(user[c])]
    /\ UNCHANGED <<log, members, listenVars, hubVars, connVars, ledger>>

(* The process stops: hub, connections and loop are gone; it starts again  *)
(* with none of them.                                                      *)
Restart ==
    /\ restarts < MaxRestarts /\ restarts' = restarts + 1
    /\ loop' = "dial" /\ delay' = MinBackoff /\ link' = FALSE
    /\ notes' = <<>> /\ cur' = 0 /\ todo' = {} /\ subs' = {}
    /\ gap' = gap \cup {notes[k] : k \in 1..Len(notes)} \cup ({cur} \ {0})
    /\ pc' = [c \in Conns |-> IF pc[c] = "idle" THEN "idle" ELSE "done"]
    /\ buffer' = [c \in Conns |-> <<>>]
    /\ user' = [c \in Conns |-> NoUser] /\ groups' = [c \in Conns |-> {}]
    /\ client' = [c \in Conns |-> NewClient]
    /\ owed' = [c \in Conns |-> {}] /\ dropped' = [c \in Conns |-> {}]
    /\ UNCHANGED <<log, members, closed, panicked>>

-----------------------------------------------------------------------------
Database == \/ \E g \in Groups, a \in Actors : CommitEvent(g, a)
            \/ \E g \in Groups, u \in Movers : AddGroupMember(g, u) \/ RemoveGroupMember(g, u)
            \/ \E g \in Dying : SoftDeleteGroup(g)
            \/ LinkBreaks

ListenLoop == \/ ConnectFails \/ SkipNotification \/ WaitFails \/ Wake
              \/ Connect \/ TakeNotification \/ EndPublish
              \/ \E c \in Conns : PublishTo(c)

Handler(c) == \/ \E u \in Users : OpenStream(c, u)
              \/ Subscribe(c) \/ FlushHeaders(c) \/ SendFrame(c) \/ SkipFrame(c)
              \/ ClientLeaves(c) \/ WriteFails(c)
              \/ Unsubscribe(c) \/ CloseChannel(c) \/ TakeSnapshot(c)

Next == Database \/ ListenLoop \/ (\E c \in Conns : Handler(c)) \/ Restart

Spec == Init /\ [][Next]_vars

(* The Go scheduler keeps the loop running, and the handlers of FairConns. *)
(* A dial that is tried again and again succeeds some time: the database   *)
(* comes back.  Nothing is assumed of clients or of the other handlers.    *)
Fairness ==
    /\ WF_vars(ListenLoop) /\ SF_vars(Connect)
    /\ \A c \in FairConns : /\ WF_vars(Subscribe(c) \/ FlushHeaders(c))
                            /\ WF_vars(SendFrame(c) \/ SkipFrame(c))
                            /\ WF_vars(CloseChannel(c))
                            /\ SF_vars(Unsubscribe(c))

FairSpec == Spec /\ Fairness

-----------------------------------------------------------------------------
(* Properties *)

(* No Publish ever sends on a channel Unsubscribe has closed, which would  *)
(* take the whole process down: the entry leaves the map under the write   *)
(* lock before its channel closes, and Publish holds the read lock.        *)
NoSendOnClosedChannel == ~panicked

(* Snapshot, then stream: a client whose stream is open and whose snapshot *)
(* is taken has, or is about to get, every event of the groups it was      *)
(* opened for, but for the losses the design names: the LISTEN session was *)
(* down, the row or the frame could not be read, its buffer was full.      *)
OnTheWay(c) == ToSet(notes) \cup ToSet(buffer[c]) \cup (IF c \in todo THEN {cur} ELSE {})

NoSilentGap ==
    \A c \in Conns :
       pc[c] = "live" /\ client[c].snapshot # NoSnapshot =>
          {e \in 1..Len(log) : log[e].group \in owed[c] /\ log[e].actor # user[c]}
             \subseteq client[c].snapshot \cup ToSet(client[c].frames)
                       \cup OnTheWay(c) \cup dropped[c] \cup gap

(* A stream sends each event at most once and in commit order, across      *)
(* reconnects of the LISTEN session.                                       *)
FramesInCommitOrder ==
    \A c \in Conns : \A i, j \in 1..Len(client[c].frames) :
       i < j => client[c].frames[i] < client[c].frames[j]

(* The delay after a connection that was up is the minimal one, so a blip  *)
(* recovers fast even after a long outage.                                 *)
BlipRecoversFast == [][WaitFails => delay' = MinBackoff]_vars

(* Liveness.  A stalled client delays nobody: an event whose notification  *)
(* is on its way reaches every fair, subscribed handler that may see it,   *)
(* whatever the handlers outside FairConns do, or is lost in a way the     *)
(* ledger names, or the connection ends.                                   *)
StalledClientDelaysNobody ==
    \A c \in FairConns, e \in Events :
       (e \in ToSet(notes) /\ pc[c] = "live" /\ VisibleTo(c, e))
          ~> (e \in ToSet(client[c].frames) \cup dropped[c] \cup gap \/ pc[c] # "live")

(* A stream that has ended, on whatever return of its handler, leaves the  *)
(* hub, though its unsubscribe has to wait for a Publish that may be under *)
(* way and the loop goes on to publish: no entry outlives its connection,  *)
(* which is what SubscriberCount is there to show.  A stream that has      *)
(* ended stays so, and its entry gone.                                     *)
EntriesAreFreed ==
    \A c \in FairConns : pc[c] \in {"returned", "removed", "done"} ~> c \notin subs

(* The loop never gives up: whenever it is not listening it listens again. *)
ListensAgain == []<>(loop = "wait" /\ link)
=============================================================================
