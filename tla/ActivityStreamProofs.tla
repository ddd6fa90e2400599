------------------------ MODULE ActivityStreamProofs ------------------------
(***************************************************************************)
(* Theorems about ActivityStream, for every set of users, groups and       *)
(* connections, every buffer size and every backoff: its types, the        *)
(* protocol between Publish and Unsubscribe, the order of the frames, and  *)
(* that no gap is silent.                                                  *)
(***************************************************************************)
EXTENDS ActivityStream, TLAPS

(* The types, and with them that the loop publishes an event, not nothing. *)
TypeInv == TypeOK /\ (loop = "publish" => cur \in Events)

(* The bits of sequence typing the steps need. *)
LEMMA SeqFacts ==
    ASSUME NEW S, NEW q \in Seq(S)
    PROVE  /\ \A e \in S : Append(q, e) \in Seq(S)
           /\ q # <<>> => Head(q) \in S /\ Tail(q) \in Seq(S)
           /\ \A n \in 0..Len(q) : SubSeq(q, 1, n) \in Seq(S)
           /\ \A k \in 1..Len(q) : q[k] \in S
  OBVIOUS

(* Every step keeps the types. *)
LEMMA TypeStep == TypeInv /\ [Next]_vars => TypeInv'
  <1> SUFFICES ASSUME TypeInv, [Next]_vars PROVE TypeInv'
    OBVIOUS
  <1> USE StreamAssumption DEF TypeInv
  <1>0. TypeOK
    OBVIOUS
  <1>1. ASSUME NEW g \in Groups, NEW a \in Actors, CommitEvent(g, a) PROVE TypeInv'
    <2>1. [group |-> g, actor |-> a] \in Event /\ Len(log) + 1 \in Events
      BY <1>1 DEF CommitEvent, TypeOK, Event, Events
    <2>2. log' \in Seq(Event) /\ Len(log') <= MaxEvents /\ notes' \in Seq(Events)
      BY <1>1, <2>1 DEF CommitEvent, TypeOK
    <2> QED
      BY <1>1, <2>1, <2>2 DEF CommitEvent, TypeOK, hubVars, connVars
  <1>2a. ASSUME NEW g \in Groups, NEW u \in Movers, AddGroupMember(g, u)
        PROVE  TypeInv'
    <2>1. members[g] \cup {u} \in SUBSET Users
      BY DEF TypeOK
    <2>2. members' \in [Groups -> SUBSET Users]
      BY <1>2a, <2>1 DEF AddGroupMember, TypeOK
    <2> QED
      BY <1>2a, <2>2 DEF AddGroupMember, TypeOK, listenVars, hubVars, connVars, ledger
  <1>2b. ASSUME NEW g \in Groups, NEW u \in Movers, RemoveGroupMember(g, u)
         PROVE  TypeInv'
    <2>1. members' \in [Groups -> SUBSET Users]
      BY <1>2b DEF RemoveGroupMember, TypeOK
    <2>2. owed' \in [Conns -> SUBSET Groups]
      BY <1>2b DEF RemoveGroupMember, TypeOK
    <2> QED
      BY <1>2b, <2>1, <2>2 DEF RemoveGroupMember, TypeOK, listenVars, hubVars, connVars
  <1>2c. ASSUME NEW g \in Groups, SoftDeleteGroup(g) PROVE TypeInv'
    <2>1. members' \in [Groups -> SUBSET Users] /\ owed' \in [Conns -> SUBSET Groups]
      BY <1>2c DEF SoftDeleteGroup, TypeOK
    <2> QED
      BY <1>2c, <2>1 DEF SoftDeleteGroup, TypeOK, listenVars, hubVars, connVars
  <1>3. CASE LinkBreaks
    <2>1. PICK n \in 0..Len(notes) :
             /\ notes' = SubSeq(notes, 1, n)
             /\ gap' = gap \cup {notes[k] : k \in n+1..Len(notes)}
      BY <1>3 DEF LinkBreaks
    <2>2. notes' \in Seq(Events) /\ gap' \in SUBSET Events
      BY <2>1, SeqFacts DEF TypeOK
    <2> QED
      BY <1>3, <2>2 DEF LinkBreaks, TypeOK, hubVars, connVars
  <1>4. CASE Connect \/ ConnectFails \/ WaitFails \/ Wake \/ EndPublish
    <2>1. delay' \in MinBackoff..MaxBackoff
      BY <1>4 DEF Connect, ConnectFails, WaitFails, Wake, EndPublish, TypeOK
    <2>2. loop' \in {"dial", "wait", "sleep"} /\ cur' \in {cur, 0}
      BY <1>4 DEF Connect, ConnectFails, WaitFails, Wake, EndPublish
    <2>3. UNCHANGED <<log, members, notes, hubVars, connVars, client, ledger>>
      BY <1>4 DEF Connect, ConnectFails, WaitFails, Wake, EndPublish
    <2>4. link' \in BOOLEAN /\ cur' \in 0..MaxEvents
      <3>1. link' \in BOOLEAN
        BY <1>4 DEF Connect, ConnectFails, WaitFails, Wake, EndPublish, TypeOK
      <3>2. cur' \in 0..MaxEvents
        BY <2>2 DEF TypeOK
      <3> QED
        BY <3>1, <3>2
    <2>5. loop' \in {"dial", "wait", "publish", "sleep"} /\ loop' # "publish"
      BY <2>2
    <2>6. TypeOK'
      BY <2>1, <2>3, <2>4, <2>5 DEF TypeOK, hubVars, connVars, ledger
    <2> QED
      BY <2>5, <2>6
  <1>5. CASE TakeNotification
    <2>1. Head(notes) \in Events /\ Tail(notes) \in Seq(Events) /\ Events \subseteq 0..MaxEvents
      BY <1>5, SeqFacts DEF TakeNotification, TypeOK, Events
    <2> QED
      BY <1>5, <2>1 DEF TakeNotification, TypeOK, connVars, ledger
  <1>6. CASE SkipNotification
    <2>1. Head(notes) \in Events /\ Tail(notes) \in Seq(Events)
      BY <1>6, SeqFacts DEF SkipNotification, TypeOK
    <2> QED
      BY <1>6, <2>1 DEF SkipNotification, TypeOK, hubVars, connVars
  <1>7. ASSUME NEW c \in Conns, PublishTo(c) PROVE TypeInv'
    <2>1. cur \in Events /\ Append(buffer[c], cur) \in Seq(Events)
      BY <1>7 DEF PublishTo, TypeOK
    <2>2. buffer' \in [Conns -> Seq(Events)] /\ dropped' \in [Conns -> SUBSET Events]
      BY <1>7, <2>1 DEF PublishTo, TypeOK
    <2>3. todo' \in SUBSET Conns /\ panicked' \in BOOLEAN
      BY <1>7 DEF PublishTo, TypeOK
    <2> QED
      BY <1>7, <2>2, <2>3 DEF PublishTo, TypeOK, listenVars, connVars
  <1>8. ASSUME NEW c \in Conns, NEW u \in Users, OpenStream(c, u) PROVE TypeInv'
    BY <1>8 DEF OpenStream, TypeOK, GroupsOf, listenVars, hubVars
  <1>9. ASSUME NEW c \in Conns,
               Subscribe(c) \/ FlushHeaders(c) \/ ClientLeaves(c) \/ Unsubscribe(c)
        PROVE  TypeInv'
    BY <1>9 DEF Subscribe, FlushHeaders, ClientLeaves, Unsubscribe, TypeOK, listenVars, hubVars,
       connVars, ledger
  <1>10. ASSUME NEW c \in Conns, SendFrame(c) PROVE TypeInv'
    <2>1. Head(buffer[c]) \in Events /\ Tail(buffer[c]) \in Seq(Events)
      BY <1>10, SeqFacts DEF SendFrame, TypeOK
    <2>2. Append(client[c].frames, Head(buffer[c])) \in Seq(Events)
      BY <2>1, SeqFacts DEF TypeOK
    <2>3. [client[c] EXCEPT !.frames = Append(@, Head(buffer[c]))]
             \in [snapshot : SUBSET (0..MaxEvents), frames : Seq(Events)]
      BY <2>2 DEF TypeOK
    <2> QED
      BY <1>10, <2>1, <2>3 DEF SendFrame, TypeOK, listenVars, connVars, ledger
  <1>11. ASSUME NEW c \in Conns, SkipFrame(c) PROVE TypeInv'
    <2>1. Head(buffer[c]) \in Events /\ Tail(buffer[c]) \in Seq(Events)
      BY <1>11, SeqFacts DEF SkipFrame, TypeOK
    <2> QED
      BY <1>11, <2>1 DEF SkipFrame, TypeOK, listenVars, connVars
  <1>11w. ASSUME NEW c \in Conns, WriteFails(c) PROVE TypeInv'
    <2>1. Tail(buffer[c]) \in Seq(Events)
      BY <1>11w, SeqFacts DEF WriteFails, TypeOK
    <2> QED
      BY <1>11w, <2>1 DEF WriteFails, TypeOK, listenVars, ledger
  <1>12. ASSUME NEW c \in Conns, CloseChannel(c) PROVE TypeInv'
    <2>1. NewClient \in [snapshot : SUBSET (0..MaxEvents), frames : Seq(Events)]
      BY DEF NewClient, NoSnapshot
    <2> QED
      BY <1>12, <2>1 DEF CloseChannel, TypeOK, listenVars
  <1>13. ASSUME NEW c \in Conns, TakeSnapshot(c) PROVE TypeInv'
    <2>1. Feed(user[c]) \in SUBSET (0..MaxEvents)
      BY DEF Feed, TypeOK
    <2>2. [client[c] EXCEPT !.snapshot = Feed(user[c])]
             \in [snapshot : SUBSET (0..MaxEvents), frames : Seq(Events)]
      BY <2>1 DEF TypeOK
    <2> QED
      BY <1>13, <2>2 DEF TakeSnapshot, TypeOK, listenVars, hubVars, connVars, ledger
  <1>14. CASE Restart
    <2>1. NewClient \in [snapshot : SUBSET (0..MaxEvents), frames : Seq(Events)]
      BY DEF NewClient, NoSnapshot
    <2>2. \A k \in 1..Len(notes) : notes[k] \in Events
      BY SeqFacts DEF TypeOK
    <2>3. {cur} \ {0} \subseteq Events
      BY DEF TypeOK, Events
    <2>4. gap' \in SUBSET Events
      BY <1>14, <2>2, <2>3 DEF Restart, TypeOK
    <2>5. restarts' \in 0..MaxRestarts /\ cur' \in 0..MaxEvents /\ delay' \in MinBackoff..MaxBackoff
      BY <1>14 DEF Restart, TypeOK
    <2>6. /\ notes' \in Seq(Events) /\ buffer' \in [Conns -> Seq(Events)]
          /\ client' \in [Conns -> [snapshot : SUBSET (0..MaxEvents), frames : Seq(Events)]]
      BY <1>14, <2>1 DEF Restart
    <2>7. pc' \in [Conns -> {"idle", "resolved", "subscribed", "live", "returned",
                             "removed", "done"}]
      BY <1>14 DEF Restart
    <2>8. user' \in [Conns -> Users \cup {NoUser}] /\ groups' \in [Conns -> SUBSET Groups]
      BY <1>14 DEF Restart
    <2>9. owed' \in [Conns -> SUBSET Groups] /\ dropped' \in [Conns -> SUBSET Events]
      BY <1>14 DEF Restart
    <2> QED
      BY <1>14, <2>4, <2>5, <2>6, <2>7, <2>8, <2>9 DEF Restart, TypeOK
  <1>15. CASE UNCHANGED vars
    BY <1>15 DEF vars, TypeOK, listenVars, hubVars, connVars, ledger
  <1> QED
    BY <1>1, <1>2a, <1>2b, <1>2c, <1>3, <1>4, <1>5, <1>6, <1>7, <1>8, <1>9, <1>10, <1>11,
       <1>11w, <1>12, <1>13, <1>14, <1>15
    DEF Next, Database, ListenLoop, Handler

(* The types hold at the start. *)
LEMMA TypesAtInit == Init => TypeInv
  <1>1. NewClient \in [snapshot : SUBSET (0..MaxEvents), frames : Seq(Events)]
    BY StreamAssumption DEF NewClient, NoSnapshot
  <1>2. <<>> \in Seq(Event) /\ Len(<<>>) = 0 /\ <<>> \in Seq(Events)
    OBVIOUS
  <1>3. Init => /\ pc \in [Conns -> {"idle", "resolved", "subscribed", "live", "returned",
                                     "removed", "done"}]
                /\ client \in [Conns -> [snapshot : SUBSET (0..MaxEvents), frames : Seq(Events)]]
                /\ buffer \in [Conns -> Seq(Events)]
    BY <1>1, <1>2 DEF Init
  <1>4. Init => /\ user \in [Conns -> Users \cup {NoUser}]
                /\ groups \in [Conns -> SUBSET Groups]
                /\ owed \in [Conns -> SUBSET Groups]
                /\ dropped \in [Conns -> SUBSET Events]
    BY DEF Init
  <1>5. 0 \in 0..MaxEvents /\ 0 <= MaxEvents /\ 0 \in 0..MaxRestarts
    BY StreamAssumption
  <1>6. MinBackoff \in MinBackoff..MaxBackoff
    BY StreamAssumption
  <1> QED
    BY <1>2, <1>3, <1>4, <1>5, <1>6 DEF Init, TypeInv, TypeOK

(* ActivityStream is type correct: the hub, the handlers and the loop hold *)
(* what the code puts there, and the ledger names events.                  *)
THEOREM StreamTypesCorrect == Spec => []TypeOK
  <1>2. TypeInv => TypeOK
    BY DEF TypeInv
  <1> QED
    BY TypesAtInit, <1>2, TypeStep, PTL DEF Spec

-----------------------------------------------------------------------------
(* The hub's protocol.  Publish only has subscribers to reach while it     *)
(* holds the read lock, all of them in the map; an entry is in the map     *)
(* exactly from Subscribe to Unsubscribe; a channel is closed by a handler *)
(* that is done.                                                           *)
HubInv ==
    /\ ~panicked
    /\ todo \subseteq subs
    /\ todo # {} => loop = "publish"
    /\ \A c \in Conns : /\ c \in subs <=> pc[c] \in {"subscribed", "live", "returned"}
                        /\ c \in closed => pc[c] = "done"

IInv == TypeOK /\ HubInv

(* Every step of hub, handlers and loop keeps the protocol. *)
LEMMA HubStep == IInv /\ [Next]_vars => HubInv'
  <1> SUFFICES ASSUME IInv, [Next]_vars PROVE HubInv'
    OBVIOUS
  <1> USE DEF IInv
  <1>1. ASSUME UNCHANGED <<todo, subs, closed, panicked, pc>>,
               loop' = loop \/ todo = {}
        PROVE  HubInv'
    BY <1>1 DEF HubInv
  <1>2. CASE Database
    BY <1>1, <1>2 DEF Database, CommitEvent, AddGroupMember, RemoveGroupMember,
       SoftDeleteGroup, LinkBreaks, listenVars, hubVars, connVars
  <1>3. CASE Connect \/ ConnectFails \/ SkipNotification \/ WaitFails \/ Wake \/ EndPublish
    <2>1. todo = {}
      BY <1>3 DEF Connect, ConnectFails, SkipNotification, WaitFails, Wake, EndPublish, HubInv
    <2> QED
      BY <1>1, <1>3, <2>1 DEF Connect, ConnectFails, SkipNotification, WaitFails, Wake,
         EndPublish, hubVars, connVars
  <1>4. CASE TakeNotification
    BY <1>4 DEF TakeNotification, HubInv, connVars
  <1>5. ASSUME NEW c \in Conns, PublishTo(c) PROVE HubInv'
    <2>1. c \notin closed
      BY <1>5 DEF PublishTo, HubInv
    <2> QED
      BY <1>5, <2>1 DEF PublishTo, HubInv, listenVars, connVars
  <1>6. ASSUME NEW c \in Conns, Subscribe(c) PROVE HubInv'
    BY <1>6 DEF Subscribe, HubInv, listenVars, TypeOK
  <1>7. ASSUME NEW c \in Conns, Unsubscribe(c) PROVE HubInv'
    <2>1. todo = {}
      BY <1>7 DEF Unsubscribe, WriteLockFree, HubInv
    <2> QED
      BY <1>7, <2>1 DEF Unsubscribe, HubInv, listenVars, TypeOK
  <1>8. ASSUME NEW c \in Conns, CloseChannel(c) PROVE HubInv'
    BY <1>8 DEF CloseChannel, HubInv, listenVars, TypeOK
  <1>9. ASSUME NEW c \in Conns,
               \/ \E u \in Users : OpenStream(c, u)
               \/ FlushHeaders(c) \/ ClientLeaves(c) \/ WriteFails(c)
        PROVE  HubInv'
    <2>1. \/ pc[c] = "idle" /\ pc' = [pc EXCEPT ![c] = "resolved"]
          \/ pc[c] = "subscribed" /\ pc' = [pc EXCEPT ![c] = "live"]
          \/ pc[c] = "live" /\ pc' = [pc EXCEPT ![c] = "returned"]
      BY <1>9 DEF OpenStream, FlushHeaders, ClientLeaves, WriteFails
    <2>2. UNCHANGED <<todo, subs, closed, panicked, loop>>
      BY <1>9 DEF OpenStream, FlushHeaders, ClientLeaves, WriteFails, listenVars, hubVars
    <2> QED
      BY <2>1, <2>2 DEF HubInv, TypeOK
  <1>10. ASSUME NEW c \in Conns, SendFrame(c) \/ SkipFrame(c) \/ TakeSnapshot(c)
         PROVE  HubInv'
    BY <1>1, <1>10 DEF SendFrame, SkipFrame, TakeSnapshot, listenVars, hubVars, connVars
  <1>11. CASE Restart
    BY <1>11 DEF Restart, HubInv, TypeOK
  <1>12. CASE UNCHANGED vars
    BY <1>1, <1>12 DEF vars, listenVars, hubVars, connVars
  <1> QED
    BY <1>2, <1>3, <1>4, <1>5, <1>6, <1>7, <1>8, <1>9, <1>10, <1>11, <1>12
    DEF Next, ListenLoop, Handler

(* So the protocol holds in every state. *)
LEMMA HubAlways == Spec => []HubInv
  <1>1. Init => HubInv
    BY DEF Init, HubInv
  <1> QED
    BY <1>1, HubStep, StreamTypesCorrect, PTL DEF Spec, IInv

(* No Publish ever sends on a channel an Unsubscribe has closed. *)
THEOREM NeverSendsOnClosed == Spec => []NoSendOnClosedChannel
  <1>1. HubInv => NoSendOnClosedChannel
    BY DEF HubInv, NoSendOnClosedChannel
  <1> QED
    BY <1>1, HubAlways, PTL

-----------------------------------------------------------------------------
(* A loop that listens, or publishes what it heard, starts over its        *)
(* backoff.                                                                *)
BackoffIsReset == loop \in {"wait", "publish"} => delay = MinBackoff

(* Every step keeps the backoff reset while the loop listens. *)
LEMMA BackoffStep == BackoffIsReset /\ [Next]_vars => BackoffIsReset'
  <1> SUFFICES ASSUME BackoffIsReset, [Next]_vars PROVE BackoffIsReset'
    OBVIOUS
  <1>1. CASE UNCHANGED <<loop, delay>>
    BY <1>1 DEF BackoffIsReset
  <1>2. CASE Connect \/ ConnectFails \/ WaitFails \/ Wake \/ EndPublish \/ TakeNotification
    BY <1>2 DEF Connect, ConnectFails, WaitFails, Wake, EndPublish, TakeNotification,
       BackoffIsReset
  <1>3. CASE Database \/ SkipNotification \/ (\E c \in Conns : PublishTo(c)) \/ UNCHANGED vars
    BY <1>1, <1>3 DEF Database, CommitEvent, AddGroupMember, RemoveGroupMember,
       SoftDeleteGroup, LinkBreaks, SkipNotification, PublishTo, listenVars, vars
  <1>4. ASSUME NEW c \in Conns, Handler(c) PROVE UNCHANGED <<loop, delay>>
    BY <1>4 DEF Handler, OpenStream, Subscribe, FlushHeaders, SendFrame, SkipFrame,
       ClientLeaves, WriteFails, Unsubscribe, CloseChannel, TakeSnapshot, listenVars
  <1>5. CASE Restart
    BY <1>5 DEF Restart, BackoffIsReset
  <1> QED
    BY <1>1, <1>2, <1>3, <1>4, <1>5 DEF Next, ListenLoop

(* The first delay after a connection that was up is the minimal one. *)
THEOREM BlipsRecoverFast == Spec => BlipRecoversFast
  <1>1. Init => BackoffIsReset
    BY DEF Init, BackoffIsReset
  <1>2. BackoffIsReset /\ [Next]_vars => [WaitFails => delay' = MinBackoff]_vars
    BY DEF BackoffIsReset, WaitFails
  <1> QED
    BY <1>1, <1>2, BackoffStep, PTL DEF Spec, BlipRecoversFast

-----------------------------------------------------------------------------
(* Commit order *)

Increasing(q) == \A i, j \in 1..Len(q) : i < j => q[i] < q[j]

(* What a sequence of events has, and its order, after an append, *)
LEMMA Appended ==
    ASSUME NEW q \in Seq(Events), NEW e \in Events
    PROVE  /\ ToSet(Append(q, e)) = ToSet(q) \cup {e}
           /\ Increasing(q) /\ (\A x \in ToSet(q) : x < e) => Increasing(Append(q, e))
  <1>1. /\ Len(Append(q, e)) = Len(q) + 1 /\ Len(q) \in Nat
        /\ \A i \in 1..Len(q) : Append(q, e)[i] = q[i]
        /\ Append(q, e)[Len(q) + 1] = e
        /\ DOMAIN q = 1..Len(q) /\ DOMAIN Append(q, e) = 1..(Len(q) + 1)
    OBVIOUS
  <1>2. ToSet(Append(q, e)) = ToSet(q) \cup {e}
    BY <1>1 DEF ToSet
  <1>3. ASSUME Increasing(q), \A x \in ToSet(q) : x < e PROVE Increasing(Append(q, e))
    <2>1. \A i \in 1..Len(q) : q[i] < e
      BY <1>1, <1>3 DEF ToSet
    <2> QED
      BY <1>1, <1>3, <2>1 DEF Increasing
  <1> QED
    BY <1>2, <1>3

(* when its head is taken off, *)
LEMMA TakenOff ==
    ASSUME NEW q \in Seq(Events), q # <<>>
    PROVE  /\ ToSet(q) = {Head(q)} \cup ToSet(Tail(q))
           /\ Increasing(q) => /\ Increasing(Tail(q))
                               /\ \A x \in ToSet(Tail(q)) : Head(q) < x
  <1>1. /\ Len(q) \in Nat \ {0} /\ Len(Tail(q)) = Len(q) - 1
        /\ Head(q) = q[1]
        /\ \A i \in 1..(Len(q) - 1) : Tail(q)[i] = q[i + 1]
        /\ DOMAIN q = 1..Len(q) /\ DOMAIN Tail(q) = 1..(Len(q) - 1)
    OBVIOUS
  <1>2. \A i \in 1..Len(q) : i = 1 \/ (i - 1 \in 1..(Len(q) - 1) /\ q[i] = Tail(q)[i - 1])
    BY <1>1
  <1>3. ToSet(q) = {Head(q)} \cup ToSet(Tail(q))
    <2>1. ASSUME NEW i \in 1..Len(q) PROVE q[i] = Head(q) \/ q[i] \in ToSet(Tail(q))
      BY <1>1, <1>2 DEF ToSet
    <2>2. ASSUME NEW i \in 1..(Len(q) - 1) PROVE Tail(q)[i] \in ToSet(q)
      <3>1. i + 1 \in 1..Len(q) /\ Tail(q)[i] = q[i + 1]
        BY <1>1
      <3> QED
        BY <3>1, <1>1 DEF ToSet
    <2>3. Head(q) \in ToSet(q)
      <3>1. 1 \in 1..Len(q)
        BY <1>1
      <3> QED
        BY <3>1, <1>1 DEF ToSet
    <2>4. \A x \in ToSet(q) : x = Head(q) \/ x \in ToSet(Tail(q))
      BY <1>1, <2>1 DEF ToSet
    <2>5. \A x \in ToSet(Tail(q)) : x \in ToSet(q)
      BY <1>1, <2>2 DEF ToSet
    <2> QED
      BY <2>3, <2>4, <2>5
  <1>4. ASSUME Increasing(q)
        PROVE  Increasing(Tail(q)) /\ \A x \in ToSet(Tail(q)) : Head(q) < x
    BY <1>1, <1>4 DEF Increasing, ToSet
  <1> QED
    BY <1>3, <1>4

(* and when its end is cut off. *)
LEMMA CutOff ==
    ASSUME NEW q \in Seq(Events), NEW n \in 0..Len(q)
    PROVE  /\ ToSet(q) = ToSet(SubSeq(q, 1, n)) \cup {q[k] : k \in n+1..Len(q)}
           /\ Increasing(q) => Increasing(SubSeq(q, 1, n))
  <1>1. /\ Len(SubSeq(q, 1, n)) = n /\ Len(q) \in Nat
        /\ \A i \in 1..n : SubSeq(q, 1, n)[i] = q[i]
        /\ DOMAIN q = 1..Len(q) /\ DOMAIN SubSeq(q, 1, n) = 1..n
    OBVIOUS
  <1>2. ToSet(q) = ToSet(SubSeq(q, 1, n)) \cup {q[k] : k \in n+1..Len(q)}
    <2>1. ASSUME NEW i \in 1..Len(q)
          PROVE  q[i] \in ToSet(SubSeq(q, 1, n)) \cup {q[k] : k \in n+1..Len(q)}
      <3>1. CASE i <= n
        <4>1. i \in 1..n
          BY <3>1, <1>1
        <4> QED
          BY <1>1, <4>1 DEF ToSet
      <3>2. CASE i > n
        <4>1. i \in n+1..Len(q)
          BY <3>2, <1>1
        <4> QED
          BY <4>1
      <3> QED
        BY <1>1, <3>1, <3>2
    <2>2. ASSUME NEW i \in 1..n PROVE SubSeq(q, 1, n)[i] \in ToSet(q)
      <3>1. i \in 1..Len(q) /\ SubSeq(q, 1, n)[i] = q[i]
        BY <1>1
      <3> QED
        BY <1>1, <3>1 DEF ToSet
    <2>3. ASSUME NEW k \in n+1..Len(q) PROVE q[k] \in ToSet(q)
      <3>1. k \in 1..Len(q)
        BY <1>1
      <3> QED
        BY <1>1, <3>1 DEF ToSet
    <2>4. \A x \in ToSet(q) : x \in ToSet(SubSeq(q, 1, n)) \cup {q[k] : k \in n+1..Len(q)}
      BY <1>1, <2>1 DEF ToSet
    <2>5. \A x \in ToSet(SubSeq(q, 1, n)) : x \in ToSet(q)
      BY <1>1, <2>2 DEF ToSet
    <2> QED
      BY <2>3, <2>4, <2>5
  <1>3. Increasing(q) => Increasing(SubSeq(q, 1, n))
    BY <1>1 DEF Increasing
  <1> QED
    BY <1>2, <1>3

(* An empty buffer holds nothing and is in order. *)
LEMMA NothingInEmpty == ToSet(<<>>) = {} /\ Increasing(<<>>)
  BY DEF ToSet, Increasing

(* What is queued and buffered are events. *)
LEMMA ItemsAreEvents ==
    ASSUME NEW q \in Seq(Events)
    PROVE  ToSet(q) \subseteq Events
  BY DEF ToSet

(* What a client was sent, what its channel buffers, what is published and *)
(* what is notified are, in this order, one increasing sequence.           *)
LoopInOrder ==
    /\ Increasing(notes)
    /\ \A e \in ToSet(notes) : cur < e /\ e <= Len(log)
    /\ cur <= Len(log) /\ (loop # "publish" => cur = 0)

ConnInOrder(c) ==
    /\ Increasing(client[c].frames) /\ Increasing(buffer[c])
    /\ \A x \in ToSet(client[c].frames), y \in ToSet(buffer[c]) : x < y
    /\ \A x \in ToSet(client[c].frames) \cup ToSet(buffer[c]) :
          /\ x <= Len(log) /\ \A e \in ToSet(notes) : x < e
          /\ loop = "publish" => x <= cur /\ (c \in todo => x < cur)

OrderInv == LoopInOrder /\ \A c \in Conns : ConnInOrder(c)

(* Every step keeps the order: what is appended is younger than all of it. *)
LEMMA OrderStep == TypeInv /\ HubInv /\ OrderInv /\ [Next]_vars => OrderInv'
  <1> SUFFICES ASSUME TypeInv, HubInv, OrderInv, [Next]_vars PROVE OrderInv'
    OBVIOUS
  <1> DEFINE Sent(c) == ToSet(client[c].frames) \cup ToSet(buffer[c])
  <1>t. /\ notes \in Seq(Events) /\ Len(log) \in 0..MaxEvents /\ cur \in 0..MaxEvents
        /\ \A c \in Conns : client[c].frames \in Seq(Events) /\ buffer[c] \in Seq(Events)
        /\ loop = "publish" => cur \in Events
        /\ log \in Seq(Event)
    BY DEF TypeInv, TypeOK
  <1>n. /\ ToSet(notes) \subseteq Nat /\ Events \subseteq Nat \ {0}
        /\ \A c \in Conns : Sent(c) \subseteq Nat
        /\ MaxEvents \in Nat
    <2>1. MaxEvents \in Nat /\ Events \subseteq Nat \ {0}
      BY StreamAssumption DEF Events
    <2> QED
      BY <1>t, <2>1, ItemsAreEvents
  <1>o. LoopInOrder /\ \A c \in Conns : ConnInOrder(c)
    BY DEF OrderInv
  (* A connection that got nothing is in order while the loop moves on, *)
  <1>k. ASSUME NEW c \in Conns,
               client'[c].frames = client[c].frames, buffer'[c] = buffer[c],
               Len(log') \in Nat, Len(log) <= Len(log'),
               \A e \in ToSet(notes') : e \in ToSet(notes) \/ e = Len(log) + 1,
               loop' = "publish" =>
                  \A x \in Sent(c) : x <= cur' /\ (c \in todo' => x < cur')
        PROVE  ConnInOrder(c)'
    <2>1. ConnInOrder(c)
      BY <1>o
    <2>2. \A x \in Sent(c) : x <= Len(log) /\ x \in Nat
      BY <2>1, <1>n DEF ConnInOrder
    <2>3. Len(log) \in Nat
      BY <1>t
    <2>4. \A x \in Sent(c) : x <= Len(log')
      BY <2>2, <2>3, <1>k
    <2>5. \A x \in Sent(c), e \in ToSet(notes') : x < e
      BY <2>1, <2>2, <2>3, <1>k DEF ConnInOrder
    <2> QED
      BY <1>k, <2>1, <2>4, <2>5 DEF ConnInOrder
  (* and so it is when nothing is published anew. *)
  <1>q. ASSUME UNCHANGED <<log, client, buffer>>,
               ToSet(notes') \subseteq ToSet(notes),
               loop' = "publish" => loop = "publish" /\ cur' = cur /\ todo' \subseteq todo
        PROVE  \A c \in Conns : ConnInOrder(c)'
    <2> TAKE c \in Conns
    <2>1. loop' = "publish" => \A x \in Sent(c) : x <= cur' /\ (c \in todo' => x < cur')
      BY <1>q, <1>o DEF ConnInOrder
    <2> QED
      BY <1>k, <1>q, <1>t, <2>1
  <1>1. ASSUME NEW g \in Groups, NEW a \in Actors, CommitEvent(g, a) PROVE OrderInv'
    <2>1. /\ Len(log') = Len(log) + 1 /\ Len(log) + 1 \in Events
          /\ UNCHANGED <<client, buffer, loop, cur, todo>>
          /\ notes' = notes \/ notes' = Append(notes, Len(log) + 1)
      BY <1>1, <1>t, StreamAssumption DEF CommitEvent, hubVars, Events
    <2>2. /\ \A e \in ToSet(notes') : e \in ToSet(notes) \/ e = Len(log) + 1
          /\ Increasing(notes')
      <3>1. Increasing(notes) /\ \A e \in ToSet(notes) : e < Len(log) + 1
        BY <1>o, <1>t, <1>n DEF LoopInOrder
      <3>2. CASE notes' = notes
        BY <3>1, <3>2
      <3>3. CASE notes' = Append(notes, Len(log) + 1)
        <4>1. /\ ToSet(Append(notes, Len(log) + 1)) = ToSet(notes) \cup {Len(log) + 1}
              /\ Increasing(Append(notes, Len(log) + 1))
          BY <1>t, <2>1, <3>1, Appended
        <4> QED
          BY <3>3, <4>1
      <3> QED
        BY <2>1, <3>2, <3>3
    <2>3. LoopInOrder'
      BY <1>t, <1>n, <1>o, <2>1, <2>2 DEF LoopInOrder
    <2>4. ASSUME NEW c \in Conns PROVE ConnInOrder(c)'
      <3>1. loop' = "publish" => \A x \in Sent(c) : x <= cur' /\ (c \in todo' => x < cur')
        BY <2>1, <1>o DEF ConnInOrder
      <3> QED
        BY <1>k, <1>t, <2>1, <2>2, <3>1
    <2> QED
      BY <2>3, <2>4 DEF OrderInv
  <1>2. ASSUME UNCHANGED <<log, notes, cur, loop, todo>>,
               UNCHANGED <<client, buffer>>
        PROVE  OrderInv'
    BY <1>q, <1>2, <1>o DEF OrderInv, LoopInOrder
  <1>3. CASE LinkBreaks
    <2>1. PICK n \in 0..Len(notes) : notes' = SubSeq(notes, 1, n)
      BY <1>3 DEF LinkBreaks
    <2>2. UNCHANGED <<log, cur, loop, todo, client, buffer>>
      BY <1>3 DEF LinkBreaks, hubVars
    <2>3. ToSet(notes') \subseteq ToSet(notes) /\ Increasing(notes')
      BY <1>t, <1>o, <2>1, CutOff DEF LoopInOrder
    <2> QED
      BY <1>q, <1>o, <2>2, <2>3 DEF OrderInv, LoopInOrder
  <1>4. CASE Connect \/ ConnectFails \/ WaitFails \/ Wake \/ EndPublish
    <2>1. /\ UNCHANGED <<log, notes, client, buffer>>
          /\ loop' # "publish" /\ (cur' = 0 \/ (loop # "publish" /\ cur' = cur))
      BY <1>4 DEF Connect, ConnectFails, WaitFails, Wake, EndPublish, hubVars
    <2>2. LoopInOrder'
      BY <1>n, <1>t, <1>o, <2>1, ItemsAreEvents DEF LoopInOrder
    <2> QED
      BY <1>q, <2>1, <2>2 DEF OrderInv
  <1>5. CASE TakeNotification \/ SkipNotification
    <2>1. /\ UNCHANGED <<log, client, buffer>> /\ notes # <<>> /\ notes' = Tail(notes)
          /\ loop = "wait"
          /\ \/ cur' = Head(notes) /\ loop' = "publish"
             \/ cur' = cur /\ loop' = loop
      BY <1>5 DEF TakeNotification, SkipNotification, hubVars
    <2>2. /\ ToSet(notes) = {Head(notes)} \cup ToSet(notes')
          /\ Increasing(notes') /\ \A x \in ToSet(notes') : Head(notes) < x
      BY <2>1, <1>t, <1>o, TakenOff DEF LoopInOrder
    <2>3. LoopInOrder'
      BY <2>1, <2>2, <1>t, <1>n, <1>o DEF LoopInOrder
    <2>4. ASSUME NEW c \in Conns PROVE ConnInOrder(c)'
      <3>1. \A x \in Sent(c) : x < Head(notes) /\ x \in Nat
        BY <2>2, <1>o, <1>n DEF ConnInOrder
      <3>2. Head(notes) \in Nat
        BY <2>2, <1>n
      <3>3. loop' = "publish" => \A x \in Sent(c) : x <= cur' /\ (c \in todo' => x < cur')
        BY <3>1, <3>2, <2>1
      <3> QED
        BY <1>k, <1>t, <2>1, <2>2, <3>3
    <2> QED
      BY <2>3, <2>4 DEF OrderInv
  <1>6. ASSUME NEW c \in Conns, PublishTo(c) PROVE OrderInv'
    <2>1. /\ UNCHANGED <<log, notes, loop, cur, client>>
          /\ todo' = todo \ {c} /\ c \in todo /\ loop = "publish"
          /\ \/ buffer' = buffer
             \/ buffer' = [buffer EXCEPT ![c] = Append(@, cur)]
      BY <1>6 DEF PublishTo, listenVars
    <2>2. LoopInOrder'
      BY <1>o, <2>1 DEF LoopInOrder
    <2>3. ASSUME NEW d \in Conns, buffer'[d] = buffer[d] PROVE ConnInOrder(d)'
      <3>1. loop' = "publish" => \A x \in Sent(d) : x <= cur' /\ (d \in todo' => x < cur')
        BY <2>1, <1>o DEF ConnInOrder
      <3> QED
        BY <1>k, <1>t, <2>1, <2>3, <3>1
    <2>4. ASSUME buffer' # buffer PROVE ConnInOrder(c)'
      <3>1. buffer'[c] = Append(buffer[c], cur) /\ cur \in Events
        BY <2>1, <2>4, <1>t DEF TypeInv, TypeOK
      <3>2. \A x \in Sent(c) : x < cur
        BY <1>o, <2>1 DEF ConnInOrder
      <3>3. ToSet(buffer'[c]) = ToSet(buffer[c]) \cup {cur} /\ Increasing(buffer'[c])
        <4>1. Increasing(buffer[c])
          BY <1>o DEF ConnInOrder
        <4> QED
          BY <3>1, <3>2, <4>1, <1>t, Appended
      <3>4. cur <= Len(log) /\ \A e \in ToSet(notes) : cur < e
        BY <1>o DEF LoopInOrder
      <3> QED
        BY <2>1, <3>2, <3>3, <3>4, <1>o, <1>n, <1>t DEF ConnInOrder
    <2>5. \A d \in Conns : buffer'[d] = buffer[d] \/ (d = c /\ buffer' # buffer)
      BY <2>1 DEF TypeInv, TypeOK
    <2> QED
      BY <2>2, <2>3, <2>4, <2>5 DEF OrderInv
  <1>7. ASSUME NEW c \in Conns, SendFrame(c) \/ SkipFrame(c) \/ WriteFails(c) PROVE OrderInv'
    <2>1. /\ UNCHANGED <<log, notes, cur, loop, todo>>
          /\ buffer[c] # <<>> /\ buffer' = [buffer EXCEPT ![c] = Tail(@)]
          /\ \/ client' = client
             \/ client' = [client EXCEPT ![c].frames = Append(@, Head(buffer[c]))]
      BY <1>7 DEF SendFrame, SkipFrame, WriteFails, listenVars
    <2>2. LoopInOrder'
      BY <1>o, <2>1 DEF LoopInOrder
    <2>3. ASSUME NEW d \in Conns, d # c PROVE ConnInOrder(d)'
      <3>1. client'[d].frames = client[d].frames /\ buffer'[d] = buffer[d]
        BY <2>1, <2>3 DEF TypeInv, TypeOK
      <3>2. loop' = "publish" => \A x \in Sent(d) : x <= cur' /\ (d \in todo' => x < cur')
        BY <2>1, <1>o DEF ConnInOrder
      <3> QED
        BY <1>k, <1>t, <2>1, <3>1, <3>2
    <2>4. ConnInOrder(c)'
      <3> DEFINE h == Head(buffer[c])
      <3>1. /\ buffer'[c] = Tail(buffer[c]) /\ h \in Events
            /\ \/ client'[c].frames = client[c].frames
               \/ client'[c].frames = Append(client[c].frames, h)
        BY <2>1, <1>t DEF TypeInv, TypeOK
      <3>2. /\ ToSet(buffer[c]) = {h} \cup ToSet(buffer'[c]) /\ Increasing(buffer'[c])
            /\ \A x \in ToSet(buffer'[c]) : h < x
        BY <2>1, <3>1, <1>t, <1>o, TakenOff DEF ConnInOrder
      <3>3. Increasing(client[c].frames) /\ \A x \in ToSet(client[c].frames) : x < h
        BY <3>2, <1>o DEF ConnInOrder
      <3>4. /\ Increasing(client'[c].frames)
            /\ ToSet(client'[c].frames) \subseteq ToSet(client[c].frames) \cup {h}
        BY <3>1, <3>3, <1>t, Appended
      <3> HIDE DEF h
      <3>5. ConnInOrder(c)
        BY <1>o
      <3>6. \A x \in ToSet(client'[c].frames) \cup ToSet(buffer'[c]) : x \in Sent(c)
        BY <3>2, <3>4
      <3>7. \A x \in ToSet(client'[c].frames), y \in ToSet(buffer'[c]) : x < y
        BY <3>2, <3>4, <3>5 DEF ConnInOrder
      <3> QED
        BY <2>1, <3>2, <3>4, <3>5, <3>6, <3>7 DEF ConnInOrder
    <2> QED
      BY <2>2, <2>3, <2>4 DEF OrderInv
  (* A client that starts anew, its channel closed, is in order by being empty. *)
  <1>8. ASSUME NEW c \in Conns, CloseChannel(c) PROVE OrderInv'
    <2>1. UNCHANGED <<log, notes, cur, loop, todo, buffer>>
      BY <1>8 DEF CloseChannel, listenVars
    <2>2. client' = [client EXCEPT ![c] = NewClient]
      BY <1>8 DEF CloseChannel
    <2>3. ASSUME NEW d \in Conns, d # c PROVE ConnInOrder(d)'
      <3>1. client'[d] = client[d]
        BY <2>2, <2>3 DEF TypeInv, TypeOK
      <3>2. loop' = "publish" => \A x \in Sent(d) : x <= cur' /\ (d \in todo' => x < cur')
        BY <2>1, <1>o DEF ConnInOrder
      <3> QED
        BY <1>k, <1>t, <2>1, <3>1, <3>2
    <2>4. ConnInOrder(c)'
      <3>1. client'[c].frames = <<>>
        BY <2>2 DEF TypeInv, TypeOK, NewClient
      <3> QED
        BY <2>1, <3>1, <1>o, NothingInEmpty DEF ConnInOrder
    <2> QED
      BY <1>o, <2>1, <2>3, <2>4 DEF OrderInv, LoopInOrder
  <1>9. ASSUME NEW c \in Conns, TakeSnapshot(c) PROVE OrderInv'
    <2>1. UNCHANGED <<log, notes, cur, loop, todo, buffer>>
      BY <1>9 DEF TakeSnapshot, listenVars, hubVars
    <2>2. \A d \in Conns : client'[d].frames = client[d].frames
      BY <1>9 DEF TakeSnapshot, TypeInv, TypeOK
    <2>3. ASSUME NEW d \in Conns PROVE ConnInOrder(d)'
      BY <2>1, <2>2, <1>o DEF ConnInOrder
    <2> QED
      BY <1>o, <2>1, <2>3 DEF OrderInv, LoopInOrder
  <1>10. CASE Restart
    <2>1. /\ notes' = <<>> /\ cur' = 0 /\ log' = log /\ loop' = "dial"
          /\ \A c \in Conns : client'[c].frames = <<>> /\ buffer'[c] = <<>>
      BY <1>10 DEF Restart, NewClient
    <2> QED
      BY <2>1, <1>t, NothingInEmpty DEF OrderInv, LoopInOrder, ConnInOrder
  <1>11. CASE \/ \E g \in Groups, u \in Movers : AddGroupMember(g, u) \/ RemoveGroupMember(g, u)
              \/ \E g \in Dying : SoftDeleteGroup(g)
    BY <1>2, <1>11 DEF AddGroupMember, RemoveGroupMember, SoftDeleteGroup, listenVars, hubVars
  <1>12. ASSUME NEW c \in Conns,
                \/ \E u \in Users : OpenStream(c, u)
                \/ Subscribe(c) \/ FlushHeaders(c) \/ ClientLeaves(c) \/ Unsubscribe(c)
         PROVE  OrderInv'
    BY <1>2, <1>12 DEF OpenStream, Subscribe, FlushHeaders, ClientLeaves, Unsubscribe,
       listenVars, hubVars
  <1>13. CASE UNCHANGED vars
    BY <1>2, <1>13 DEF vars, listenVars, hubVars
  <1> QED
    BY <1>1, <1>3, <1>4, <1>5, <1>6, <1>7, <1>8, <1>9, <1>10, <1>11, <1>12, <1>13
    DEF Next, Database, ListenLoop, Handler

(* A stream sends each event at most once and in commit order, whatever    *)
(* the LISTEN session, the buffers and the other connections do.           *)
THEOREM FramesStayInOrder == Spec => []FramesInCommitOrder
  <1>1. Init => TypeInv /\ OrderInv
    <2>1. Init => TypeInv
      BY TypesAtInit
    <2>2. Init => OrderInv
      BY NothingInEmpty DEF Init, OrderInv, LoopInOrder, ConnInOrder, NewClient
    <2> QED
      BY <2>1, <2>2
  <1>2. OrderInv => FramesInCommitOrder
    BY DEF OrderInv, ConnInOrder, Increasing, FramesInCommitOrder
  <1> QED
    BY <1>1, <1>2, TypeStep, OrderStep, HubAlways, PTL DEF Spec

-----------------------------------------------------------------------------
(* No silent gap *)

(* What a connection was opened for is what its subscriber captured and    *)
(* what its user's feed shows; before its stream is open its client has no *)
(* snapshot.                                                               *)
OwedInv ==
    \A c \in Conns :
       /\ owed[c] \subseteq groups[c] /\ owed[c] \subseteq GroupsOf(user[c])
       /\ pc[c] \in {"idle", "resolved", "subscribed"} => client[c].snapshot = NoSnapshot

(* A frame leaves every snapshot as it is. *)
LEMMA SnapshotsStay ==
    ASSUME TypeOK, NEW c \in Conns, SendFrame(c) \/ SkipFrame(c), NEW d \in Conns
    PROVE  client'[d].snapshot = client[d].snapshot
  <1>1. CASE client' = client
    BY <1>1
  <1>2. CASE client' = [client EXCEPT ![c].frames = Append(@, Head(buffer[c]))]
    <2> DEFINE fs == Append(client[c].frames, Head(buffer[c]))
    <2>1. client'[d] = IF d = c THEN [client[c] EXCEPT !.frames = fs] ELSE client[d]
      BY <1>2 DEF TypeOK
    <2> HIDE DEF fs
    <2>2. client[c] \in [snapshot : SUBSET (0..MaxEvents), frames : Seq(Events)]
      BY DEF TypeOK
    <2>3. [client[c] EXCEPT !.frames = fs].snapshot = client[c].snapshot
      BY <2>2
    <2> QED
      BY <2>1, <2>3
  <1> QED
    BY <1>1, <1>2 DEF SendFrame, SkipFrame

(* Every step keeps it: a group the user leaves is no longer owed. *)
LEMMA OwedStep == TypeInv /\ OwedInv /\ [Next]_vars => OwedInv'
  <1> SUFFICES ASSUME TypeInv, OwedInv, [Next]_vars PROVE OwedInv'
    OBVIOUS
  <1> USE DEF TypeInv
  <1>1. ASSUME UNCHANGED <<owed, groups, user, pc, members>>,
               \A c \in Conns : pc[c] # "live" => client'[c].snapshot = client[c].snapshot
        PROVE  OwedInv'
    BY <1>1 DEF OwedInv, GroupsOf
  <1>2. ASSUME UNCHANGED <<client, owed, groups, user, pc, members>> PROVE OwedInv'
    BY <1>1, <1>2
  <1>3. CASE LinkBreaks \/ \E g \in Groups, a \in Actors : CommitEvent(g, a)
    BY <1>2, <1>3 DEF LinkBreaks, CommitEvent, connVars
  <1>4. ASSUME NEW g \in Groups, NEW u \in Movers, AddGroupMember(g, u) PROVE OwedInv'
    BY <1>4 DEF AddGroupMember, OwedInv, GroupsOf, TypeOK, connVars, ledger
  <1>5. ASSUME NEW g \in Groups, NEW u \in Movers, RemoveGroupMember(g, u) PROVE OwedInv'
    <2>1. UNCHANGED <<groups, user, pc, client>>
      BY <1>5 DEF RemoveGroupMember, connVars
    <2>2. ASSUME NEW c \in Conns, NEW h \in owed'[c]
          PROVE  h \in owed[c] /\ h \in Groups /\ user[c] \in members'[h]
      <3>1. h \in owed[c] /\ (user[c] = u => h # g)
        BY <1>5, <2>2 DEF RemoveGroupMember
      <3>2. h \in Groups /\ user[c] \in members[h]
        BY <3>1 DEF OwedInv, GroupsOf
      <3> QED
        BY <1>5, <3>1, <3>2 DEF RemoveGroupMember, TypeOK
    <2> QED
      BY <2>1, <2>2 DEF OwedInv, GroupsOf
  <1>5d. ASSUME NEW g \in Groups, SoftDeleteGroup(g) PROVE OwedInv'
    BY <1>5d DEF SoftDeleteGroup, OwedInv, GroupsOf, TypeOK, connVars
  <1>6. CASE ListenLoop
    BY <1>2, <1>6 DEF ListenLoop, ConnectFails, SkipNotification, WaitFails, Wake, Connect,
       TakeNotification, EndPublish, PublishTo, connVars, ledger
  <1>7. ASSUME NEW c \in Conns, NEW u \in Users, OpenStream(c, u) PROVE OwedInv'
    BY <1>7 DEF OpenStream, OwedInv, GroupsOf, TypeOK
  <1>8. ASSUME NEW c \in Conns,
               \/ Subscribe(c) \/ FlushHeaders(c) \/ Unsubscribe(c)
               \/ ClientLeaves(c) \/ WriteFails(c)
        PROVE  OwedInv'
    BY <1>8 DEF Subscribe, FlushHeaders, Unsubscribe, ClientLeaves, WriteFails, OwedInv,
       GroupsOf, TypeOK, connVars, ledger
  <1>9. ASSUME NEW c \in Conns, SendFrame(c) \/ SkipFrame(c) PROVE OwedInv'
    <2>1. UNCHANGED <<owed, groups, user, pc, members>>
      BY <1>9 DEF SendFrame, SkipFrame, connVars, ledger
    <2>2. \A d \in Conns : client'[d].snapshot = client[d].snapshot
      BY <1>9, SnapshotsStay
    <2> QED
      BY <1>1, <2>1, <2>2
  <1>10. ASSUME NEW c \in Conns, TakeSnapshot(c) PROVE OwedInv'
    <2>1. UNCHANGED <<owed, groups, user, pc, members>> /\ pc[c] = "live"
      BY <1>10 DEF TakeSnapshot, connVars, ledger
    <2>2. \A d \in Conns : d # c => client'[d].snapshot = client[d].snapshot
      BY <1>10 DEF TakeSnapshot, TypeOK
    <2> QED
      BY <1>1, <2>1, <2>2
  <1>11. ASSUME NEW c \in Conns, CloseChannel(c) PROVE OwedInv'
    <2>1. UNCHANGED <<groups, user, members>>
      BY <1>11 DEF CloseChannel
    <2>2. \A d \in Conns : d # c => /\ owed'[d] = owed[d] /\ pc'[d] = pc[d]
                                    /\ client'[d] = client[d]
      BY <1>11 DEF CloseChannel, TypeOK
    <2>3. owed'[c] = {} /\ pc'[c] = "done"
      BY <1>11 DEF CloseChannel, TypeOK
    <2> QED
      BY <2>1, <2>2, <2>3 DEF OwedInv, GroupsOf
  <1>12. CASE Restart
    BY <1>12 DEF Restart, OwedInv, NewClient
  <1>13. CASE UNCHANGED vars
    BY <1>2, <1>13 DEF vars, connVars, ledger
  <1> QED
    BY <1>3, <1>4, <1>5, <1>5d, <1>6, <1>7, <1>8, <1>9, <1>10, <1>11, <1>12, <1>13, StreamAssumption
    DEF Next, Database, Handler

(* The two sides of NoSilentGap for one connection. *)
Owes(c) == {e \in 1..Len(log) : log[e].group \in owed[c] /\ log[e].actor # user[c]}
Has(c)  == client[c].snapshot \cup ToSet(client[c].frames) \cup OnTheWay(c)
           \cup dropped[c] \cup gap
Follows(c) == pc[c] = "live" /\ client[c].snapshot # NoSnapshot

(* Every step keeps every event it owes on one of the ways the design      *)
(* names.                                                                  *)
LEMMA GapStep == TypeInv /\ HubInv /\ OwedInv /\ NoSilentGap /\ [Next]_vars => NoSilentGap'
  <1> SUFFICES ASSUME TypeInv, HubInv, OwedInv, NoSilentGap, [Next]_vars PROVE NoSilentGap'
    OBVIOUS
  <1> USE DEF TypeInv
  <1>t. /\ notes \in Seq(Events) /\ Len(log) \in Nat /\ log \in Seq(Event)
        /\ \A c \in Conns : client[c].frames \in Seq(Events) /\ buffer[c] \in Seq(Events)
    BY DEF TypeOK
  <1>g. \A c \in Conns : Follows(c) => Owes(c) \subseteq Has(c)
    BY DEF NoSilentGap, Follows, Owes, Has
  <1>s. SUFFICES ASSUME NEW c \in Conns, Follows(c)' PROVE Owes(c)' \subseteq Has(c)'
    BY DEF NoSilentGap, Follows, Owes, Has, OnTheWay
  (* A connection that followed and lost nothing is fine. *)
  <1>k. ASSUME Follows(c), Owes(c)' \subseteq Owes(c) \cup Has(c)', Has(c) \subseteq Has(c)'
        PROVE  Owes(c)' \subseteq Has(c)'
    BY <1>g, <1>k
  <1>u. ASSUME UNCHANGED <<log, pc, user, client>>, owed'[c] \subseteq owed[c]
        PROVE  Follows(c) /\ Owes(c)' \subseteq Owes(c) \cup Has(c)'
    BY <1>u, <1>s DEF Follows, Owes
  <1>1. ASSUME NEW g \in Groups, NEW a \in Actors, CommitEvent(g, a)
        PROVE  Owes(c)' \subseteq Has(c)'
    <2>1. /\ UNCHANGED <<pc, user, owed, client, todo, buffer, cur, dropped>>
          /\ log' = Append(log, [group |-> g, actor |-> a])
          /\ Len(log) + 1 \in Events
          /\ \/ notes' = notes /\ gap' = gap \cup {Len(log) + 1}
             \/ notes' = Append(notes, Len(log) + 1) /\ gap' = gap
      BY <1>1, <1>t, StreamAssumption DEF CommitEvent, connVars, hubVars, Events
    <2>2. \/ ToSet(notes') = ToSet(notes) /\ gap' = gap \cup {Len(log) + 1}
          \/ ToSet(notes') = ToSet(notes) \cup {Len(log) + 1} /\ gap' = gap
      BY <2>1, <1>t, Appended
    <2>3. Has(c)' = Has(c) \cup {Len(log) + 1}
      BY <2>1, <2>2 DEF Has, OnTheWay
    <2>4. Follows(c)
      BY <2>1, <1>s DEF Follows
    <2>5. Len(log') = Len(log) + 1 /\ \A e \in 1..Len(log) : log'[e] = log[e]
      BY <2>1, <1>t
    <2>6. Owes(c)' \subseteq Owes(c) \cup {Len(log) + 1}
      BY <2>1, <2>5, <1>t DEF Owes
    <2> QED
      BY <1>k, <2>3, <2>4, <2>6
  <1>2. CASE \/ \E g \in Groups, u \in Movers : AddGroupMember(g, u) \/ RemoveGroupMember(g, u)
             \/ \E g \in Dying : SoftDeleteGroup(g)
    <2>1. /\ UNCHANGED <<log, pc, user, client, notes, todo, buffer, cur, dropped, gap>>
          /\ owed'[c] \subseteq owed[c]
      BY <1>2 DEF AddGroupMember, RemoveGroupMember, SoftDeleteGroup, listenVars, hubVars, connVars, ledger
    <2> QED
      BY <1>k, <1>u, <2>1 DEF Has, OnTheWay
  <1>3. CASE LinkBreaks
    <2>1. PICK n \in 0..Len(notes) :
             /\ notes' = SubSeq(notes, 1, n)
             /\ gap' = gap \cup {notes[k] : k \in n+1..Len(notes)}
      BY <1>3 DEF LinkBreaks
    <2>2. UNCHANGED <<log, pc, user, client, owed, todo, buffer, cur, dropped>>
      BY <1>3 DEF LinkBreaks, hubVars, connVars
    <2>3. ToSet(notes) \cup gap \subseteq ToSet(notes') \cup gap'
      BY <2>1, <1>t, CutOff
    <2>4. Has(c) \subseteq Has(c)'
      BY <2>2, <2>3 DEF Has, OnTheWay
    <2> QED
      BY <1>k, <1>u, <2>2, <2>4
  <1>4. CASE Connect \/ ConnectFails \/ WaitFails \/ Wake \/ EndPublish
    <2>1. /\ UNCHANGED <<log, pc, user, client, owed, notes, todo, buffer, dropped, gap>>
          /\ cur' = cur \/ todo = {}
      BY <1>4 DEF Connect, ConnectFails, WaitFails, Wake, EndPublish, hubVars, connVars, ledger
    <2>2. Has(c) \subseteq Has(c)'
      BY <2>1 DEF Has, OnTheWay
    <2> QED
      BY <1>k, <1>u, <2>1, <2>2
  <1>5. CASE TakeNotification
    <2>1. /\ UNCHANGED <<log, pc, user, client, owed, buffer, dropped, gap>>
          /\ notes # <<>> /\ cur' = Head(notes) /\ notes' = Tail(notes) /\ todo' = subs
          /\ loop = "wait"
      BY <1>5 DEF TakeNotification, connVars, ledger
    <2>2. ToSet(notes) = {cur'} \cup ToSet(notes')
      BY <2>1, <1>t, TakenOff
    <2>3. Follows(c)
      BY <1>u, <2>1
    <2>4. c \in todo' /\ c \notin todo
      BY <2>1, <2>3 DEF Follows, HubInv
    <2>5. Has(c) \subseteq Has(c)'
      BY <2>1, <2>2, <2>4 DEF Has, OnTheWay
    <2> QED
      BY <1>k, <1>u, <2>1, <2>5
  <1>6. CASE SkipNotification
    <2>1. /\ UNCHANGED <<log, pc, user, client, owed, buffer, dropped, todo, cur>>
          /\ notes # <<>> /\ gap' = gap \cup {Head(notes)} /\ notes' = Tail(notes)
      BY <1>6 DEF SkipNotification, hubVars, connVars
    <2>2. ToSet(notes) = {Head(notes)} \cup ToSet(notes')
      BY <2>1, <1>t, TakenOff
    <2>3. Has(c) \subseteq Has(c)'
      BY <2>1, <2>2 DEF Has, OnTheWay
    <2> QED
      BY <1>k, <1>u, <2>1, <2>3
  (* Publish reaches a subscriber: what it owes it may see, so that the    *)
  (* event is buffered or, the buffer being full, dropped.                 *)
  <1>7. ASSUME NEW d \in Conns, PublishTo(d) PROVE Owes(c)' \subseteq Has(c)'
    <2>1. /\ UNCHANGED <<log, pc, user, client, owed, notes, cur, gap>>
          /\ todo' = todo \ {d} /\ d \in todo
      BY <1>7 DEF PublishTo, listenVars, connVars
    <2>2. Follows(c) /\ Owes(c)' = Owes(c)
      BY <1>u, <2>1 DEF Owes
    <2>3. CASE d # c
      <3>1. buffer'[c] = buffer[c] /\ dropped'[c] = dropped[c]
        BY <1>7, <2>3 DEF PublishTo, TypeOK
      <3>2. Has(c) \subseteq Has(c)'
        BY <2>1, <2>3, <3>1 DEF Has, OnTheWay
      <3> QED
        BY <1>k, <2>2, <3>2
    <2>4. CASE d = c
      <3>1. c \notin closed /\ cur \in Events
        BY <1>7, <2>2 DEF Follows, HubInv, PublishTo
      <3>2. /\ ToSet(buffer[c]) \subseteq ToSet(buffer'[c]) /\ dropped[c] \subseteq dropped'[c]
            /\ VisibleTo(c, cur) => cur \in ToSet(buffer'[c]) \cup dropped'[c]
        <4>1. ToSet(Append(buffer[c], cur)) = ToSet(buffer[c]) \cup {cur}
          BY <3>1, <1>t, Appended
        <4>2. \/ buffer'[c] = buffer[c] /\ ~(VisibleTo(c, cur) /\ Len(buffer[c]) < BufferSize)
              \/ buffer'[c] = Append(buffer[c], cur)
          BY <1>7, <2>4, <3>1 DEF PublishTo, TypeOK
        <4>3. /\ dropped[c] \subseteq dropped'[c]
              /\ VisibleTo(c, cur) /\ ~(Len(buffer[c]) < BufferSize) => cur \in dropped'[c]
          BY <1>7, <2>4 DEF PublishTo, TypeOK
        <4> QED
          BY <4>1, <4>2, <4>3
      <3>3. cur \in Owes(c) => VisibleTo(c, cur)
        BY DEF Owes, VisibleTo, OwedInv
      <3>4. Has(c) \subseteq Has(c)' \cup {cur}
        BY <2>1, <3>2 DEF Has, OnTheWay
      <3>5. cur \in Owes(c) => cur \in Has(c)'
        BY <3>2, <3>3 DEF Has, OnTheWay
      <3> QED
        BY <1>g, <2>2, <3>4, <3>5
    <2> QED
      BY <2>3, <2>4
  <1>8. ASSUME NEW d \in Conns,
               \/ \E u \in Users : OpenStream(d, u)
               \/ Subscribe(d) \/ FlushHeaders(d) \/ ClientLeaves(d) \/ WriteFails(d)
               \/ Unsubscribe(d) \/ CloseChannel(d)
        PROVE  Owes(c)' \subseteq Has(c)'
    <2>1. CASE d = c
      <3>1. FlushHeaders(c)
        BY <1>8, <1>s, <2>1 DEF OpenStream, Subscribe, FlushHeaders, ClientLeaves, WriteFails,
           Unsubscribe, CloseChannel, Follows, TypeOK
      <3>2. client'[c].snapshot = NoSnapshot
        BY <3>1 DEF FlushHeaders, OwedInv
      <3> QED
        BY <1>s, <3>2 DEF Follows
    <2>2. CASE d # c
      <3>1. /\ UNCHANGED <<log, notes, gap, todo, cur>> /\ buffer'[c] = buffer[c]
            /\ pc'[c] = pc[c] /\ user'[c] = user[c] /\ owed'[c] = owed[c]
            /\ client'[c] = client[c] /\ dropped'[c] = dropped[c]
        BY <1>8, <2>2 DEF OpenStream, Subscribe, FlushHeaders, ClientLeaves, WriteFails,
           Unsubscribe, CloseChannel, listenVars, hubVars, ledger, TypeOK
      <3>2. Follows(c) /\ Owes(c)' = Owes(c) /\ Has(c)' = Has(c)
        BY <1>s, <3>1 DEF Follows, Owes, Has, OnTheWay
      <3> QED
        BY <1>k, <3>2
    <2> QED
      BY <2>1, <2>2
  <1>9. ASSUME NEW d \in Conns, SendFrame(d) \/ SkipFrame(d)
        PROVE  Owes(c)' \subseteq Has(c)'
    <2>1. /\ UNCHANGED <<log, pc, user, owed, notes, gap, todo, cur>>
          /\ buffer[d] # <<>>
      BY <1>9 DEF SendFrame, SkipFrame, listenVars, connVars, ledger
    <2>2. client'[c].snapshot = client[c].snapshot
      BY <1>9, SnapshotsStay
    <2>3. ToSet(client[c].frames) \cup ToSet(buffer[c]) \cup dropped[c]
             \subseteq ToSet(client'[c].frames) \cup ToSet(buffer'[c]) \cup dropped'[c]
      <3>1. CASE d # c
        <4>1. client'[c].frames = client[c].frames /\ buffer'[c] = buffer[c]
              /\ dropped'[c] = dropped[c]
          BY <1>9, <3>1 DEF SendFrame, SkipFrame, TypeOK, ledger
        <4> QED
          BY <4>1
      <3>2. CASE d = c
        <4> DEFINE h == Head(buffer[c])
        <4>1. /\ buffer'[c] = Tail(buffer[c])
              /\ \/ client'[c].frames = Append(client[c].frames, h) /\ dropped' = dropped
                 \/ client' = client /\ dropped'[c] = dropped[c] \cup {h}
          BY <1>9, <3>2 DEF SendFrame, SkipFrame, TypeOK, ledger
        <4>2. ToSet(buffer[c]) = {h} \cup ToSet(buffer'[c]) /\ h \in Events
          BY <2>1, <3>2, <4>1, <1>t, TakenOff, ItemsAreEvents
        <4>3. ToSet(Append(client[c].frames, h)) = ToSet(client[c].frames) \cup {h}
          BY <4>2, <1>t, Appended
        <4> HIDE DEF h
        <4> QED
          BY <4>1, <4>2, <4>3
      <3> QED
        BY <3>1, <3>2
    <2>4. Follows(c) /\ Owes(c)' = Owes(c)
      BY <1>s, <2>1, <2>2 DEF Follows, Owes
    <2>5. Has(c) \subseteq Has(c)'
      BY <2>1, <2>2, <2>3 DEF Has, OnTheWay
    <2> QED
      BY <1>k, <2>4, <2>5
  (* The snapshot has every event so far of the groups still owed. *)
  <1>10. ASSUME NEW d \in Conns, TakeSnapshot(d) PROVE Owes(c)' \subseteq Has(c)'
    <2>1. UNCHANGED <<log, pc, user, owed, notes, gap, todo, cur, buffer, dropped>>
      BY <1>10 DEF TakeSnapshot, listenVars, hubVars, connVars, ledger
    <2>2. CASE d = c
      <3>1. client'[c].snapshot = Feed(user[c])
        BY <1>10, <2>2 DEF TakeSnapshot, TypeOK
      <3>2. Owes(c)' \subseteq Feed(user[c])
        BY <2>1 DEF Owes, Feed, OwedInv
      <3> QED
        BY <3>1, <3>2 DEF Has
    <2>3. CASE d # c
      <3>1. client'[c] = client[c]
        BY <1>10, <2>3 DEF TakeSnapshot, TypeOK
      <3>2. Follows(c) /\ Owes(c)' = Owes(c) /\ Has(c)' = Has(c)
        BY <1>s, <2>1, <3>1 DEF Follows, Owes, Has, OnTheWay
      <3> QED
        BY <1>k, <3>2
    <2> QED
      BY <2>2, <2>3
  <1>11. CASE Restart
    BY <1>11, <1>s DEF Restart, Follows
  <1>12. CASE UNCHANGED vars
    <2>1. UNCHANGED <<log, pc, user, client, owed, notes, todo, buffer, dropped, gap, cur>>
      BY <1>12 DEF vars, listenVars, hubVars, connVars, ledger
    <2> QED
      BY <1>k, <1>u, <2>1 DEF Has, OnTheWay
  <1> QED
    BY <1>1, <1>2, <1>3, <1>4, <1>5, <1>6, <1>7, <1>8, <1>9, <1>10, <1>11, <1>12
    DEF Next, Database, ListenLoop, Handler

(* A client whose stream is open and whose snapshot is taken has, or is    *)
(* about to get, every event of its groups, but for the losses the ledger  *)
(* names.                                                                  *)
THEOREM NoGapIsSilent == Spec => []NoSilentGap
  <1>1. Init => OwedInv /\ NoSilentGap
    BY DEF Init, OwedInv, NoSilentGap, NewClient
  <1> QED
    BY <1>1, TypesAtInit, TypeStep, OwedStep, GapStep, HubAlways, PTL DEF Spec
=============================================================================
