---------------------------- MODULE AccessProofs ----------------------------
(***************************************************************************)
(* Theorems about who gets in: StreamTickets, for every set of users,      *)
(* tickets and goroutines and every time to live, that a ticket opens one  *)
(* stream at most and none out of its time; Accounts, for every set of     *)
(* ids, words, passwords and requests, that every account stays reachable  *)
(* and that only its holder changes it.                                    *)
(***************************************************************************)
EXTENDS StreamTickets, Accounts, TLAPS

(* A sweep leaves a well-formed map. *)
LEMMA SweptType ==
    ASSUME TypeOK, NEW now
    PROVE  Swept(now) \in [Tickets -> Entry \cup {NoEntry}]
  BY DEF Swept, TypeOK

(* A call that begins or ends leaves well-formed calls. *)
LEMMA CallType ==
    ASSUME TypeOK, NEW c \in Callers
    PROVE  /\ End(c) => call' \in [Callers -> Call \cup {NoCall}]
           /\ \A step \in {"issue", "redeem"}, u \in Users, t \in Tickets :
                 Begin(c, step, u, t) => call' \in [Callers -> Call \cup {NoCall}]
  <1>1. End(c) => call' \in [Callers -> Call \cup {NoCall}]
    BY DEF End, TypeOK
  <1>2. ASSUME NEW step \in {"issue", "redeem"}, NEW u \in Users, NEW t \in Tickets,
               Begin(c, step, u, t)
        PROVE  call' \in [Callers -> Call \cup {NoCall}]
    <2>1. [at |-> step, now |-> clock, user |-> u, ticket |-> t, gone |-> FALSE] \in Call
      BY DEF Call, TypeOK
    <2> QED
      BY <1>2, <2>1 DEF Begin, TypeOK
  <1> QED
    BY <1>1, <1>2

(* Every step keeps the types. *)
LEMMA TypeStep == TypeOK /\ [Next]_vars => TypeOK'
  <1> SUFFICES ASSUME TypeOK, [Next]_vars PROVE TypeOK'
    OBVIOUS
  <1> USE TicketsAssumption, TicketNamesAssumption
  <1>1. ASSUME NEW c \in Callers, NEW t \in Tickets, StartRedeem(c, t) PROVE TypeOK'
    BY <1>1, CallType DEF StartRedeem, TypeOK
  <1>2. ASSUME NEW c \in Callers, NEW t \in Tickets, NEW u \in Users, StartIssue(c, u, t)
        PROVE  TypeOK'
    BY <1>2, CallType DEF StartIssue, TypeOK
  <1>3. ASSUME NEW c \in Callers, Issue(c) PROVE TypeOK'
    <2>1. call[c] \in Call
      BY <1>3 DEF Issue, At, TypeOK
    <2>2. [user |-> call[c].user, expiresAt |-> call[c].now + TTL] \in Entry
      BY <2>1 DEF Call, Entry, Time
    <2>3. tickets' \in [Tickets -> Entry \cup {NoEntry}]
      BY <1>3, <2>2, SweptType DEF Issue
    <2> QED
      BY <1>3, <2>3, CallType DEF Issue, TypeOK
  <1>4. ASSUME NEW c \in Callers, Redeem(c) PROVE TypeOK'
    <2> DEFINE left == Swept(call[c].now)
               t    == call[c].ticket
    <2>1. call[c] \in Call /\ t \in Tickets
      BY <1>4 DEF Redeem, At, TypeOK, Call
    <2>2. left \in [Tickets -> Entry \cup {NoEntry}]
      BY SweptType
    <2>3. CASE left[t] = NoEntry
      BY <1>4, <2>2, <2>3, CallType DEF Redeem, TypeOK
    <2>4. CASE left[t] # NoEntry
      <3>1. left[t] \in Entry
        BY <2>1, <2>2, <2>4
      <3>2. [call[c] EXCEPT !.at = "lookup", !.user = left[t].user,
                            !.gone = left[t].user \notin active] \in Call
        BY <2>1, <3>1 DEF Call, Entry
      <3>3. call' \in [Callers -> Call \cup {NoCall}]
        BY <1>4, <2>1, <2>4, <3>2 DEF Redeem, TypeOK
      <3>4. tickets' \in [Tickets -> Entry \cup {NoEntry}]
        BY <1>4, <2>2, <2>4 DEF Redeem
      <3> QED
        BY <1>4, <3>3, <3>4 DEF Redeem, TypeOK
    <2> QED
      BY <2>3, <2>4
  <1>5. ASSUME NEW c \in Callers, LookUpUser(c) PROVE TypeOK'
    <2>1. PICK t \in Tickets : t = call[c].ticket
      BY <1>5 DEF LookUpUser, At, TypeOK, Call
    <2>2. opened[t] + 1 \in Nat
      BY DEF TypeOK
    <2>3. [opened EXCEPT ![t] = opened[t] + 1] \in [Tickets -> Nat]
      BY <2>2 DEF TypeOK
    <2>4. opened' \in [Tickets -> Nat]
      BY <1>5, <2>1, <2>3 DEF LookUpUser, TypeOK
    <2> QED
      BY <1>5, <2>4, CallType DEF LookUpUser, TypeOK
  <1>6. ASSUME NEW c \in Callers, LookUpFails(c) PROVE TypeOK'
    BY <1>6, CallType DEF LookUpFails, TypeOK
  <1>7. ASSUME NEW u \in Users, DeleteUser(u) PROVE TypeOK'
    BY <1>7 DEF DeleteUser, TypeOK
  <1>8. CASE Tick
    BY <1>8 DEF Tick, TypeOK, Time
  <1>9. CASE Restart
    BY <1>9 DEF Restart, TypeOK
  <1>10. CASE UNCHANGED vars
    BY <1>10 DEF vars, TypeOK
  <1> QED
    BY <1>1, <1>2, <1>3, <1>4, <1>5, <1>6, <1>7, <1>8, <1>9, <1>10 DEF Next

(* StreamTickets is type correct: the map and the calls in flight hold     *)
(* what the handlers and the store put there.                              *)
THEOREM TicketTypesCorrect == Spec => []TypeOK
  <1>1. Init => TypeOK
    BY TicketsAssumption DEF Init, TypeOK, Time
  <1> QED
    BY <1>1, TypeStep, PTL DEF Spec

-----------------------------------------------------------------------------
(* A call holds its ticket from the draw to the insert, and from the       *)
(* redemption to the stream.                                               *)
Holds(c, t) == (At(c, "issue") \/ At(c, "lookup")) /\ call[c].ticket = t

(* Why a ticket is used once: at any time it is in one place at most, with *)
(* one call, in the map, or spent on a stream, and it is drawn once.       *)
OnePlace(t) ==
    /\ opened[t] \in {0, 1}
    /\ tickets[t] # NoEntry => t \in minted /\ opened[t] = 0
    /\ opened[t] = 1 => t \in minted
    /\ \A c \in Callers :
          Holds(c, t) => /\ t \in minted /\ tickets[t] = NoEntry /\ opened[t] = 0
                         /\ \A d \in Callers : Holds(d, t) => c = d

IInv == TypeOK /\ \A t \in Tickets : OnePlace(t)

(* A sweep adds nothing to the map. *)
LEMMA SweepRemoves ==
    ASSUME NEW now, NEW t \in Tickets
    PROVE  Swept(now)[t] = tickets[t] \/ Swept(now)[t] = NoEntry
  BY DEF Swept

(* Every step keeps every ticket in one place. *)
LEMMA InvStep == IInv /\ [Next]_vars => IInv'
  <1> SUFFICES ASSUME IInv, [Next]_vars, NEW t \in Tickets PROVE OnePlace(t)'
    BY TypeStep DEF IInv
  <1> USE TicketNamesAssumption
  <1>0. TypeOK /\ OnePlace(t)
    BY DEF IInv
  <1>1. ASSUME NEW c \in Callers, NEW s \in Tickets, StartRedeem(c, s) PROVE OnePlace(t)'
    <2>1. /\ call'[c].at = "redeem" /\ ~Holds(c, t)
          /\ \A d \in Callers \ {c} : call'[d] = call[d]
      BY <1>0, <1>1 DEF StartRedeem, Begin, Holds, At, TypeOK
    <2>2. \A d \in Callers : Holds(d, t)' => Holds(d, t)
      BY <2>1 DEF Holds, At
    <2> QED
      BY <1>0, <1>1, <2>2 DEF StartRedeem, OnePlace
  <1>2. ASSUME NEW c \in Callers, NEW s \in Tickets, NEW u \in Users, StartIssue(c, u, s)
        PROVE  OnePlace(t)'
    <2>1. /\ call'[c].ticket = s /\ s \notin minted
          /\ \A d \in Callers \ {c} : call'[d] = call[d]
      BY <1>0, <1>2 DEF StartIssue, Begin, TypeOK
    <2>2. \A d \in Callers : Holds(d, t)' => Holds(d, t) \/ (d = c /\ t = s)
      BY <2>1 DEF Holds, At
    <2> QED
      BY <1>0, <1>2, <2>1, <2>2 DEF StartIssue, OnePlace
  <1>3. ASSUME NEW c \in Callers, Issue(c) PROVE OnePlace(t)'
    <2>1. /\ call' = [call EXCEPT ![c] = NoCall]
          /\ \A d \in Callers : Holds(d, t)' => Holds(d, t) /\ d # c
      BY <1>0, <1>3 DEF Issue, End, Holds, At, TypeOK
    <2>2. CASE call[c].ticket = t
      <3>1. Holds(c, t)
        BY <1>3, <2>2 DEF Issue, Holds
      <3> QED
        BY <1>0, <1>3, <2>1, <3>1 DEF Issue, OnePlace
    <2>3. CASE call[c].ticket # t
      <3>1. tickets'[t] = tickets[t] \/ tickets'[t] = NoEntry
        BY <1>3, <2>3, SweepRemoves DEF Issue, Swept
      <3> QED
        BY <1>0, <1>3, <2>1, <3>1 DEF Issue, OnePlace
    <2> QED
      BY <2>2, <2>3
  <1>4. ASSUME NEW c \in Callers, Redeem(c) PROVE OnePlace(t)'
    <2> DEFINE left == Swept(call[c].now)
               s    == call[c].ticket
    <2>1. s \in Tickets /\ call[c] \in Call /\ call[c].at = "redeem"
      BY <1>0, <1>4 DEF Redeem, At, TypeOK, Call
    <2>2. ASSUME left[s] = NoEntry PROVE OnePlace(t)'
      <3>1. \A d \in Callers : Holds(d, t)' => Holds(d, t)
        BY <1>0, <1>4, <2>2 DEF Redeem, End, Holds, At, TypeOK
      <3>2. tickets'[t] = tickets[t] \/ tickets'[t] = NoEntry
        BY <1>4, <2>2, SweepRemoves DEF Redeem
      <3> QED
        BY <1>0, <1>4, <3>1, <3>2 DEF Redeem, OnePlace
    <2>3. ASSUME left[s] # NoEntry PROVE OnePlace(t)'
      <3>1. /\ tickets' = [left EXCEPT ![s] = NoEntry]
            /\ call'[c].ticket = s
            /\ \A d \in Callers \ {c} : call'[d] = call[d]
        BY <1>0, <1>4, <2>1, <2>3 DEF Redeem, TypeOK, Call
      <3>2. tickets[s] # NoEntry
        BY <2>1, <2>3 DEF Swept
      <3>3. \A d \in Callers : Holds(d, t)' => Holds(d, t) \/ (d = c /\ t = s)
        BY <3>1 DEF Holds, At
      <3>4. tickets'[t] = IF t = s THEN NoEntry ELSE left[t]
        BY <3>1 DEF Swept
      <3> HIDE DEF left, s
      <3>5. CASE t = s
        BY <1>0, <1>4, <3>2, <3>3, <3>4, <3>5 DEF Redeem, OnePlace
      <3>6. CASE t # s
        <4>1. tickets'[t] = tickets[t] \/ tickets'[t] = NoEntry
          BY <3>4, <3>6, SweepRemoves DEF left
        <4> QED
          BY <1>0, <1>4, <3>3, <3>6, <4>1 DEF Redeem, OnePlace
      <3> QED
        BY <3>5, <3>6
    <2> QED
      BY <2>2, <2>3
  <1>5. ASSUME NEW c \in Callers, LookUpUser(c) PROVE OnePlace(t)'
    <2>1. \A d \in Callers : Holds(d, t)' => Holds(d, t) /\ d # c
      BY <1>0, <1>5 DEF LookUpUser, End, Holds, At, TypeOK
    <2>2. CASE call[c].ticket = t
      <3>1. Holds(c, t)
        BY <1>5, <2>2 DEF LookUpUser, Holds
      <3>2. opened'[t] \in {0, 1}
        BY <1>0, <1>5, <2>2, <3>1 DEF LookUpUser, OnePlace, TypeOK
      <3> QED
        BY <1>0, <1>5, <2>1, <3>1, <3>2 DEF LookUpUser, OnePlace
    <2>3. CASE call[c].ticket # t
      <3>1. opened'[t] = opened[t]
        BY <1>0, <1>5, <2>3 DEF LookUpUser, TypeOK
      <3> QED
        BY <1>0, <1>5, <2>1, <3>1 DEF LookUpUser, OnePlace
    <2> QED
      BY <2>2, <2>3
  <1>6. ASSUME NEW c \in Callers, LookUpFails(c) PROVE OnePlace(t)'
    <2>1. \A d \in Callers : Holds(d, t)' => Holds(d, t)
      BY <1>0, <1>6 DEF LookUpFails, End, Holds, At, TypeOK
    <2> QED
      BY <1>0, <1>6, <2>1 DEF LookUpFails, OnePlace
  <1>7. CASE Restart
    <2>1. \A d \in Callers : ~Holds(d, t)'
      BY <1>7 DEF Restart, Holds, At
    <2> QED
      BY <1>0, <1>7, <2>1 DEF Restart, OnePlace
  <1>8. CASE (\E u \in Users : DeleteUser(u)) \/ Tick \/ UNCHANGED vars
    BY <1>0, <1>8 DEF DeleteUser, Tick, vars, OnePlace, Holds, At
  <1> QED
    BY <1>1, <1>2, <1>3, <1>4, <1>5, <1>6, <1>7, <1>8 DEF Next

(* A ticket opens at most one stream, however many goroutines present it   *)
(* at once, and whatever sweeps and restarts come between.                 *)
THEOREM TicketsAreSingleUse == Spec => []SingleUse
  <1>1. Init => IInv
    BY TicketsAssumption DEF Init, IInv, TypeOK, Time, OnePlace, Holds, At
  <1>2. IInv => SingleUse
    BY DEF IInv, OnePlace, SingleUse
  <1> QED
    BY <1>1, <1>2, InvStep, PTL DEF Spec

-----------------------------------------------------------------------------
(* No ticket is honoured at or after its expiry by the clock its request   *)
(* read.                                                                   *)
THEOREM ExpiredNeverRedeemed == Spec => ExpiredIsRefused
  <1>1. TypeOK /\ [Next]_vars =>
          [\A c \in Callers :
             Redeem(c) /\ At(c, "lookup")' =>
                tickets[call[c].ticket].expiresAt > call[c].now]_vars
    <2> SUFFICES ASSUME TypeOK, NEW c \in Callers, Redeem(c), At(c, "lookup")'
                 PROVE  tickets[call[c].ticket].expiresAt > call[c].now
      OBVIOUS
    <2>1. call[c].ticket \in Tickets /\ ~End(c)
      BY DEF Redeem, At, End, TypeOK, Call
    <2> QED
      BY <2>1, TicketNamesAssumption DEF Redeem, Swept
  <1> QED
    BY <1>1, TicketTypesCorrect, PTL DEF Spec, ExpiredIsRefused

(* Every call leaves a map without entries that had expired when it began. *)
THEOREM ExpiredNeverKept == Spec => ExpiredIsSwept
  <1>1. TypeOK /\ [Next]_vars =>
          [\A c \in Callers : Issue(c) \/ Redeem(c) =>
             \A t \in Tickets :
                tickets'[t] # NoEntry => tickets'[t].expiresAt > call[c].now]_vars
    <2> SUFFICES ASSUME TypeOK, NEW c \in Callers, Issue(c) \/ Redeem(c),
                        NEW t \in Tickets, tickets'[t] # NoEntry
                 PROVE  tickets'[t].expiresAt > call[c].now
      OBVIOUS
    <2>1. call[c] \in Call /\ call[c].now \in Nat /\ call[c].now + TTL > call[c].now
      BY TicketsAssumption DEF Issue, Redeem, At, TypeOK, Call, Time
    <2>2. CASE tickets'[t] = Swept(call[c].now)[t]
      BY <2>2 DEF Swept
    <2>3. CASE /\ tickets'[t] = [user |-> call[c].user, expiresAt |-> call[c].now + TTL]
      BY <2>1, <2>3
    <2> QED
      BY <2>2, <2>3 DEF Issue, Redeem, Swept
  <1> QED
    BY <1>1, TicketTypesCorrect, PTL DEF Spec, ExpiredIsSwept

(* A user who was gone when the ticket was redeemed is still gone when the *)
(* user is looked up.                                                      *)
GoneIsGone == \A c \in Callers : At(c, "lookup") /\ call[c].gone => call[c].user \notin active

(* Accounts do not come back, so every step keeps this. *)
LEMMA GoneStep == TypeOK /\ GoneIsGone /\ [Next]_vars => GoneIsGone'
  <1> SUFFICES ASSUME TypeOK, GoneIsGone, [Next]_vars,
                      NEW c \in Callers, (At(c, "lookup") /\ call[c].gone)'
               PROVE  call'[c].user \notin active'
    BY DEF GoneIsGone
  <1>1. active' \subseteq active
    BY DEF Next, StartRedeem, StartIssue, Issue, Redeem, LookUpUser, LookUpFails, DeleteUser,
       Tick, Restart, vars
  <1>2. CASE call'[c] = call[c]
    BY <1>1, <1>2 DEF GoneIsGone, At
  <1>3. ASSUME NEW d \in Callers, Redeem(d), call'[c] # call[c]
        PROVE  call'[c].user \notin active
    <2>1. c = d /\ ~End(d) /\ call[d] \in Call
      BY <1>3 DEF Redeem, End, At, TypeOK
    <2> QED
      BY <1>3, <2>1 DEF Redeem, Call, TypeOK
  <1>4. ASSUME NEW d \in Callers,
               \/ \E t \in Tickets : StartRedeem(d, t) \/ \E u \in Users : StartIssue(d, u, t)
               \/ Issue(d) \/ LookUpUser(d) \/ LookUpFails(d)
        PROVE  call'[c] = call[c]
    BY <1>4 DEF StartRedeem, StartIssue, Issue, LookUpUser, LookUpFails, Begin, End, At, TypeOK
  <1>5. CASE Restart
    BY <1>5 DEF Restart, At
  <1>6. CASE (\E u \in Users : DeleteUser(u)) \/ Tick \/ UNCHANGED vars
    BY <1>2, <1>6 DEF DeleteUser, Tick, vars
  <1> QED
    BY <1>1, <1>2, <1>3, <1>4, <1>5, <1>6 DEF Next

(* So a ticket redeemed for a user who is gone opens no stream. *)
THEOREM GoneNeverStreams == Spec => GoneUserGetsNoStream
  <1>1. Init => GoneIsGone
    BY DEF Init, GoneIsGone, At
  <1>2. GoneIsGone /\ [Next]_vars =>
          [\A c \in Callers : At(c, "lookup") /\ call[c].gone /\ LookUpUser(c)
             => UNCHANGED opened]_vars
    BY DEF GoneIsGone, LookUpUser
  <1> QED
    BY <1>1, <1>2, GoneStep, TicketTypesCorrect, PTL DEF Spec, GoneUserGetsNoStream

-----------------------------------------------------------------------------
(* Accounts: types *)

(* What a request holds, by its kind and by how far it has come. *)
LEMMA RequestKinds ==
    ASSUME NEW q \in Request
    PROVE  /\ q.token \in Token
           /\ q.op = "login" => q.at = "lastLogin"
           /\ q.op = "delete" => q \in [op : {"delete"}, at : {"auth", "write"},
                                        token : Token, path : Ids]
           /\ q.op = "update" /\ q.at # "write" =>
                 q \in [op : {"update"}, at : {"auth", "read"}, token : Token, path : Ids,
                        username : Field, email : Field]
           /\ q.op = "update" /\ q.at = "write" =>
                 q \in [op : {"update"}, at : {"write"}, token : Token, path : Ids,
                        username : Field, email : Field, user : Account, alone : BOOLEAN]
  BY DEF Request

(* A write that overtakes others leaves well-formed requests. *)
LEMMA OvertakenType ==
    ASSUME AccountsTypeOK, NEW r, NEW i
    PROVE  Overtaken(r, i) \in [Requests -> Request \cup {Idle}]
  <1>1. ASSUME NEW s \in Requests, RequestAt(s, "update", "write")
        PROVE  [request[s] EXCEPT !.alone = FALSE] \in Request
    <2>1. request[s] \in Request
      BY <1>1 DEF AccountsTypeOK, RequestAt
    <2>2. request[s] \in [op : {"update"}, at : {"write"}, token : Token, path : Ids,
                          username : Field, email : Field, user : Account, alone : BOOLEAN]
      BY <1>1, <2>1, RequestKinds DEF RequestAt
    <2>3. [request[s] EXCEPT !.alone = FALSE] \in
             [op : {"update"}, at : {"write"}, token : Token, path : Ids,
              username : Field, email : Field, user : Account, alone : BOOLEAN]
      BY <2>2
    <2> QED
      BY <2>3 DEF Request
  <1> QED
    BY <1>1 DEF Overtaken, AccountsTypeOK

(* Merging what a body names into an account leaves an account of the same *)
(* password.                                                               *)
LEMMA MergedType ==
    ASSUME NEW q, q.username \in Field, q.email \in Field, NEW u \in Account
    PROVE  /\ Merged(q, u) \in Account
           /\ Merged(q, u).pass = u.pass
           /\ Merged(q, u).username = IF q.username = Blank THEN u.username ELSE q.username
           /\ Merged(q, u).email = IF q.email = Blank THEN u.email ELSE q.email
  BY DEF Merged, Account

(* Every step keeps the types. *)
LEMMA AccountsTypeStep ==
    AccountsTypeOK /\ [AccountsNext]_accountVars => AccountsTypeOK'
  <1> SUFFICES ASSUME AccountsTypeOK, [AccountsNext]_accountVars PROVE AccountsTypeOK'
    OBVIOUS
  <1>1. ASSUME NEW r \in Requests, NEW u \in Account, CreateUser(r, u)
        PROVE  AccountsTypeOK'
    BY <1>1 DEF CreateUser, AccountsTypeOK
  <1>2. ASSUME NEW r \in Requests, NEW u \in Account,
               LoginHandler(r, u.username, u.email, u.pass)
        PROVE  AccountsTypeOK'
    <2>1. PICK i \in Ids : GoOn(r, [op |-> "login", at |-> "lastLogin",
                                    token |-> [id |-> i, pass |-> u.pass]])
      BY <1>2 DEF LoginHandler, Matches, Live
    <2>2. [op |-> "login", at |-> "lastLogin", token |-> [id |-> i, pass |-> u.pass]]
             \in Request
      BY DEF Request, Token, Account
    <2> QED
      BY <1>2, <2>1, <2>2 DEF LoginHandler, GoOn, AccountsTypeOK
  <1>3. ASSUME NEW r \in Requests, BuildLoginResponse(r) PROVE AccountsTypeOK'
    <2>1. request[r].token \in Token
      BY <1>3, RequestKinds DEF BuildLoginResponse, RequestAt, AccountsTypeOK
    <2> QED
      BY <1>3, <2>1 DEF BuildLoginResponse, Respond, AccountsTypeOK
  <1>4. ASSUME NEW t \in token, Expire(t) PROVE AccountsTypeOK'
    BY <1>4 DEF Expire, AccountsTypeOK
  <1>5. ASSUME NEW r \in Requests, NEW t \in token, NEW i \in Ids,
               NEW username \in Field, NEW email \in Field,
               StartUpdate(r, t, i, username, email)
        PROVE  AccountsTypeOK'
    <2>1. [op |-> "update", at |-> "auth", token |-> t, path |-> i,
           username |-> username, email |-> email] \in Request
      BY DEF Request, AccountsTypeOK
    <2> QED
      BY <1>5, <2>1 DEF StartUpdate, GoOn, AccountsTypeOK
  <1>6. ASSUME NEW r \in Requests, NEW t \in token, NEW i \in Ids, StartDelete(r, t, i)
        PROVE  AccountsTypeOK'
    <2>1. [op |-> "delete", at |-> "auth", token |-> t, path |-> i] \in Request
      BY DEF Request, AccountsTypeOK
    <2> QED
      BY <1>6, <2>1 DEF StartDelete, GoOn, AccountsTypeOK
  <1>7. ASSUME NEW r \in Requests, AuthMiddleware(r) PROVE AccountsTypeOK'
    <2> DEFINE q == request[r]
    <2>1. PICK op \in {"update", "delete"} :
             /\ RequestAt(r, op, "auth")
             /\ IF Authorized(q)
                THEN GoOn(r, [q EXCEPT !.at = IF op = "update" THEN "read" ELSE "write"])
                ELSE Respond(r)
      BY <1>7 DEF AuthMiddleware
    <2>2. q \in Request /\ q.op = op /\ q.at = "auth"
      BY <2>1 DEF RequestAt, AccountsTypeOK
    <2>3. CASE op = "update"
      <3>1. [q EXCEPT !.at = "read"] \in
               [op : {"update"}, at : {"auth", "read"}, token : Token, path : Ids,
                username : Field, email : Field]
        BY <2>2, <2>3, RequestKinds
      <3>2. [q EXCEPT !.at = "read"] \in Request
        BY <3>1 DEF Request
      <3> QED
        BY <1>7, <2>1, <2>3, <3>2 DEF AuthMiddleware, GoOn, Respond, AccountsTypeOK
    <2>4. CASE op = "delete"
      <3>1. [q EXCEPT !.at = "write"] \in
               [op : {"delete"}, at : {"auth", "write"}, token : Token, path : Ids]
        BY <2>2, <2>4, RequestKinds
      <3>2. [q EXCEPT !.at = "write"] \in Request
        BY <3>1 DEF Request
      <3> QED
        BY <1>7, <2>1, <2>4, <3>2 DEF AuthMiddleware, GoOn, Respond, AccountsTypeOK
    <2> QED
      BY <2>1, <2>3, <2>4
  <1>8. ASSUME NEW r \in Requests, ReadUser(r) PROVE AccountsTypeOK'
    <2> DEFINE q == request[r]
               w == [op |-> "update", at |-> "write", token |-> q.token, path |-> q.path,
                     username |-> q.username, email |-> q.email,
                     user |-> Merged(q, account[q.path]), alone |-> TRUE]
    <2>1. q \in [op : {"update"}, at : {"auth", "read"}, token : Token, path : Ids,
                 username : Field, email : Field]
      BY <1>8, RequestKinds DEF ReadUser, RequestAt, AccountsTypeOK
    <2>2. ASSUME q.path \in Live PROVE w \in Request
      <3>1. account[q.path] \in Account
        BY <2>2 DEF Live, AccountsTypeOK
      <3>2. Merged(q, account[q.path]) \in Account
        BY <2>1, <3>1, MergedType
      <3> HIDE DEF q
      <3> QED
        BY <2>1, <3>2 DEF Request
    <2>3. \/ q.path \in Live /\ request' = [request EXCEPT ![r] = w]
          \/ request' = [request EXCEPT ![r] = Idle]
      BY <1>8 DEF ReadUser, GoOn, Respond
    <2>4. request' \in [Requests -> Request \cup {Idle}]
      <3> HIDE DEF w
      <3> QED
        BY <2>2, <2>3 DEF AccountsTypeOK
    <2> QED
      BY <1>8, <2>4 DEF ReadUser, AccountsTypeOK
  <1>9. ASSUME NEW r \in Requests, UpdateUserInfo(r) PROVE AccountsTypeOK'
    <2>1. request[r].user \in Account
      BY <1>9, RequestKinds DEF UpdateUserInfo, RequestAt, AccountsTypeOK
    <2>2. account' \in [Ids -> Account \cup {NoUser}]
      BY <1>9, <2>1 DEF UpdateUserInfo, AccountsTypeOK
    <2>3. \A i \in Ids \ drawn' : account'[i] = NoUser
      BY <1>9 DEF UpdateUserInfo, Live, AccountsTypeOK
    <2>4. request' \in [Requests -> Request \cup {Idle}]
      BY <1>9, OvertakenType DEF UpdateUserInfo, Respond, AccountsTypeOK
    <2> QED
      BY <1>9, <2>2, <2>3, <2>4 DEF UpdateUserInfo, AccountsTypeOK
  <1>10. ASSUME NEW r \in Requests, DeleteUserById(r) PROVE AccountsTypeOK'
    BY <1>10, OvertakenType DEF DeleteUserById, AccountsTypeOK
  <1>11. ASSUME NEW r \in Requests, Abandon(r) PROVE AccountsTypeOK'
    BY <1>11 DEF Abandon, Respond, AccountsTypeOK
  <1>12. CASE UNCHANGED accountVars
    BY <1>12 DEF accountVars, AccountsTypeOK
  <1> QED
    BY <1>1, <1>2, <1>3, <1>4, <1>5, <1>6, <1>7, <1>8, <1>9, <1>10, <1>11, <1>12
    DEF AccountsNext

(* Accounts, tokens and requests are well formed in every state. *)
THEOREM AccountTypesCorrect == AccountsSpec => []AccountsTypeOK
  <1>1. AccountsInit => AccountsTypeOK
    BY DEF AccountsInit, AccountsTypeOK
  <1> QED
    BY <1>1, AccountsTypeStep, PTL DEF AccountsSpec

-----------------------------------------------------------------------------
(* Accounts: the invariant                                                 *)
(*                                                                         *)
(* That an account keeps a name, that names are its own and that only its  *)
(* holder changes it depend on what the requests in flight have checked    *)
(* and read: a request that was let through is for its token's own         *)
(* account, what it is about to write keeps the password and a name, and   *)
(* is what was asked for while nobody else wrote the account.              *)

Named(u) == u.username # Blank \/ u.email # Blank

NamesDiffer(u, v) == /\ u.username # Blank => u.username # v.username
                     /\ u.email # Blank => u.email # v.email

NamesAreTheirs ==
    \A i \in Live : /\ Named(account[i])
                    /\ \A j \in Live \ {i} : NamesDiffer(account[i], account[j])

TokenSound(t) == /\ t.id \in drawn
                 /\ t.id \in Live => account[t.id].pass = t.pass

WriteSound(q) == /\ Named(q.user) /\ q.user.pass = q.token.pass
                 /\ q.alone /\ q.path \in Live => q.user = Merged(q, account[q.path])

RequestSound(r) ==
    request[r] # Idle =>
        /\ TokenSound(request[r].token)
        /\ request[r].op # "login" /\ request[r].at # "auth" =>
              request[r].path = request[r].token.id
        /\ RequestAt(r, "update", "write") => WriteSound(request[r])

AccountInv ==
    /\ AccountsTypeOK
    /\ NamesAreTheirs
    /\ \A t \in token : TokenSound(t)
    /\ \A r \in Requests : RequestSound(r)

(* What the invariant says of names is the property the run checks.        *)
LEMMA NamesLogIn == AccountsTypeOK /\ AccountsAssumption => (NamesAreTheirs <=> EveryAccountLogsIn)
  <1> SUFFICES ASSUME AccountsTypeOK, AccountsAssumption
               PROVE  NamesAreTheirs <=> EveryAccountLogsIn
    OBVIOUS
  <1>1. ASSUME NEW i \in Live, account[i].username # Blank
        PROVE  Matches(account[i].username, Blank) = {i} <=>
                  \A j \in Live \ {i} : account[i].username # account[j].username
    BY <1>1 DEF Matches
  <1>2. ASSUME NEW i \in Live, account[i].email # Blank
        PROVE  Matches(Blank, account[i].email) = {i} <=>
                  \A j \in Live \ {i} : account[i].email # account[j].email
    BY <1>2 DEF Matches
  <1> QED
    BY <1>1, <1>2 DEF NamesAreTheirs, EveryAccountLogsIn, Named, NamesDiffer

(* What requests and tokens rely on in the table: it forgets no id it gave *)
(* out, and an account keeps its password until it is deleted for good.    *)
Kept ==
    /\ drawn \subseteq drawn'
    /\ \A i \in drawn : account'[i] # NoUser =>
          account[i] # NoUser /\ account'[i].pass = account[i].pass

LEMMA TokensStay ==
    ASSUME Kept, AccountsTypeOK, NEW t \in Token, TokenSound(t)
    PROVE  TokenSound(t)'
  <1>1. t.id \in drawn /\ t.id \in Ids
    BY DEF TokenSound, Token
  <1> QED
    BY <1>1 DEF Kept, TokenSound, Live

(* A request that a step leaves alone, and whose account it does not write, *)
(* stays sound.                                                            *)
LEMMA RequestStays ==
    ASSUME AccountInv, Kept, NEW s \in Requests, request'[s] = request[s],
           RequestAt(s, "update", "write") =>
              account'[request[s].path] = account[request[s].path]
    PROVE  RequestSound(s)'
  <1> SUFFICES ASSUME request[s] # Idle PROVE RequestSound(s)'
    BY DEF RequestSound
  <1>2. request[s].token \in Token /\ RequestSound(s)
    BY RequestKinds DEF AccountInv, AccountsTypeOK
  <1>1. ASSUME NEW t \in Token, t = request[s].token PROVE TokenSound(t)'
    BY <1>1, <1>2, TokensStay DEF RequestSound, AccountInv
  <1>3. ASSUME RequestAt(s, "update", "write") PROVE WriteSound(request[s])'
    <2>1. request[s].path \in Ids
      BY <1>3, RequestKinds DEF AccountInv, AccountsTypeOK, RequestAt
    <2> QED
      BY <1>2, <1>3, <2>1 DEF RequestSound, WriteSound, Live, Merged
  <1>4. TokenSound(request[s].token)'
    BY <1>1, <1>2 DEF TokenSound
  <1> QED
    BY <1>2, <1>3, <1>4 DEF RequestSound, RequestAt

(* After a write to i every request is sound: one that held what it read   *)
(* of i knows that it is not alone.                                        *)
LEMMA OvertakenSound ==
    ASSUME AccountInv, Kept, NEW r \in Requests, NEW i \in Ids, request' = Overtaken(r, i),
           \A j \in Ids \ {i} : account'[j] = account[j]
    PROVE  \A s \in Requests : RequestSound(s)'
  <1> TAKE s \in Requests
  <1>1. CASE s = r
    <2>1. request'[s] = Idle
      BY <1>1 DEF Overtaken
    <2> QED
      BY <2>1 DEF RequestSound
  <1>2. CASE s # r /\ RequestAt(s, "update", "write") /\ request[s].token.id = i
    <2> DEFINE q == request[s]
    <2>1. q \in [op : {"update"}, at : {"write"}, token : Token, path : Ids,
                 username : Field, email : Field, user : Account, alone : BOOLEAN]
      BY <1>2, RequestKinds DEF RequestAt, AccountInv, AccountsTypeOK
    <2>2. request'[s] = [q EXCEPT !.alone = FALSE]
      BY <1>2 DEF Overtaken
    <2>3. /\ request'[s].token = q.token /\ request'[s].path = q.path
          /\ request'[s].user = q.user /\ ~request'[s].alone
      BY <2>1, <2>2
    <2>4. RequestSound(s)
      BY DEF AccountInv
    <2>5. /\ q.path = q.token.id /\ Named(q.user) /\ q.user.pass = q.token.pass
          /\ TokenSound(q.token)
      BY <1>2, <2>1, <2>4 DEF RequestSound, RequestAt, WriteSound
    <2>6. ASSUME NEW t \in Token, t = q.token PROVE TokenSound(t)'
      BY <2>5, <2>6, TokensStay DEF AccountInv
    <2>7. q.token \in Token
      BY <2>1
    <2> HIDE DEF q
    <2>8. TokenSound(request[s].token)'
      BY <2>3, <2>6, <2>7 DEF TokenSound
    <2>9. WriteSound(request[s])'
      BY <2>3, <2>5 DEF WriteSound, Named
    <2> QED
      BY <2>3, <2>5, <2>8, <2>9 DEF RequestSound
  <1>3. CASE s # r /\ ~(RequestAt(s, "update", "write") /\ request[s].token.id = i)
    <2>1. request'[s] = request[s]
      BY <1>3 DEF Overtaken
    <2>2. ASSUME RequestAt(s, "update", "write")
          PROVE  request[s].path \in Ids \ {i}
      <3>1. request[s].path \in Ids
        BY <2>2, RequestKinds DEF AccountInv, AccountsTypeOK, RequestAt
      <3> QED
        BY <1>3, <2>2, <3>1 DEF AccountInv, RequestSound, RequestAt
    <2> QED
      BY <2>1, <2>2, RequestStays
  <1> QED
    BY <1>1, <1>2, <1>3

(* The table changes in three ways. *)
LEMMA TableSteps ==
    ASSUME [AccountsNext]_accountVars
    PROVE  \/ \E r \in Requests, u \in Account : CreateUser(r, u)
           \/ \E r \in Requests : UpdateUserInfo(r) \/ DeleteUserById(r)
           \/ UNCHANGED <<account, drawn>>
  <1>1. ASSUME NEW r \in Requests, NEW u \in Account,
               LoginHandler(r, u.username, u.email, u.pass)
        PROVE  UNCHANGED <<account, drawn>>
    BY <1>1 DEF LoginHandler
  <1>2. ASSUME NEW r \in Requests, NEW t \in token, NEW i \in Ids,
               NEW username \in Field, NEW email \in Field,
               StartUpdate(r, t, i, username, email) \/ StartDelete(r, t, i)
        PROVE  UNCHANGED <<account, drawn>>
    BY <1>2 DEF StartUpdate, StartDelete
  <1>3. ASSUME NEW r \in Requests,
               \/ AuthMiddleware(r) \/ ReadUser(r) \/ BuildLoginResponse(r) \/ Abandon(r)
        PROVE  UNCHANGED <<account, drawn>>
    BY <1>3 DEF AuthMiddleware, ReadUser, BuildLoginResponse, Abandon
  <1>4. ASSUME NEW t \in token, Expire(t) PROVE UNCHANGED <<account, drawn>>
    BY <1>4 DEF Expire
  <1>5. CASE UNCHANGED accountVars
    BY <1>5 DEF accountVars
  <1> QED
    BY <1>1, <1>2, <1>3, <1>4, <1>5 DEF AccountsNext

(* Every step keeps what is relied on: ids are drawn once, and no write    *)
(* changes a password.                                                     *)
LEMMA KeptStep == AccountInv /\ [AccountsNext]_accountVars => Kept
  <1> SUFFICES ASSUME AccountInv, [AccountsNext]_accountVars PROVE Kept
    OBVIOUS
  <1> USE DEF Kept, AccountInv
  <1>1. ASSUME NEW r \in Requests, NEW u \in Account, CreateUser(r, u) PROVE Kept
    BY <1>1 DEF CreateUser, AccountsTypeOK
  <1>2. ASSUME NEW r \in Requests, UpdateUserInfo(r) PROVE Kept
    <2>1. RequestSound(r) /\ request[r].path \in Ids
      BY <1>2, RequestKinds DEF UpdateUserInfo, RequestAt, AccountsTypeOK
    <2>2. request[r].path \in Live =>
             request[r].user.pass = account[request[r].path].pass
      BY <1>2, <2>1 DEF UpdateUserInfo, RequestSound, RequestAt, TokenSound, WriteSound
    <2> QED
      BY <1>2, <2>1, <2>2 DEF UpdateUserInfo, Live, AccountsTypeOK
  <1>3. ASSUME NEW r \in Requests, DeleteUserById(r) PROVE Kept
    BY <1>3 DEF DeleteUserById, AccountsTypeOK
  <1>4. CASE UNCHANGED <<account, drawn>>
    BY <1>4
  <1> QED
    BY <1>1, <1>2, <1>3, <1>4, TableSteps

(* Names stay their accounts' own: the indexes refuse what a sign-up or an *)
(* update would take from another account.                                 *)
LEMMA NamesStep == AccountInv /\ [AccountsNext]_accountVars => NamesAreTheirs'
  <1> SUFFICES ASSUME AccountInv, [AccountsNext]_accountVars PROVE NamesAreTheirs'
    OBVIOUS
  (* A row written at i with a name, none of which is taken *)
  <1>w. ASSUME NEW i \in Ids, NEW u \in Account, Named(u),
               \A j \in Live \ {i} : NamesDiffer(u, account[j]),
               account' = [account EXCEPT ![i] = u]
        PROVE  NamesAreTheirs'
    <2>1. Live' \subseteq Live \cup {i}
      BY <1>w DEF Live, AccountInv, AccountsTypeOK
    <2>2. account'[i] = u /\ \A j \in Ids \ {i} : account'[j] = account[j]
      BY <1>w DEF AccountInv, AccountsTypeOK
    <2>3. \A j \in Live \ {i} : NamesDiffer(account[j], u)
      BY <1>w DEF NamesDiffer
    <2>4. \A j \in Live \ {i} : /\ j \in Ids /\ Named(account[j])
                                /\ \A k \in Live \ {j} : NamesDiffer(account[j], account[k])
      BY DEF AccountInv, NamesAreTheirs, Live
    <2>5. ASSUME NEW k \in Live' PROVE Named(account'[k])
      BY <1>w, <2>1, <2>2, <2>4
    <2>6. ASSUME NEW k \in Live', NEW j \in Live' \ {k}
          PROVE  NamesDiffer(account'[k], account'[j])
      <3>1. k \in Live \cup {i} /\ j \in Live \cup {i} /\ j # k
        BY <2>1, <2>6
      <3>2. CASE k = i
        BY <1>w, <2>2, <2>4, <3>1, <3>2
      <3>3. CASE j = i
        BY <2>2, <2>3, <2>4, <3>1, <3>3
      <3>4. CASE k # i /\ j # i
        BY <2>2, <2>4, <3>1, <3>4
      <3> QED
        BY <3>2, <3>3, <3>4
    <2> QED
      BY <2>5, <2>6 DEF NamesAreTheirs, Named, NamesDiffer
  <1>1. ASSUME NEW r \in Requests, NEW u \in Account, CreateUser(r, u)
        PROVE  NamesAreTheirs'
    <2>1. PICK i \in Ids \ drawn : account' = [account EXCEPT ![i] = u]
      BY <1>1 DEF CreateUser
    <2>2. Named(u) /\ \A j \in Live : NamesDiffer(u, account[j])
      BY <1>1, AccountsAssumption DEF CreateUser, Taken, Named, NamesDiffer, Live
    <2> QED
      BY <1>w, <2>1, <2>2
  <1>2. ASSUME NEW r \in Requests, UpdateUserInfo(r) PROVE NamesAreTheirs'
    <2> DEFINE q == request[r]
    <2>1. q.path \in Ids /\ q.user \in Account /\ Named(q.user)
      BY <1>2, RequestKinds
      DEF UpdateUserInfo, RequestAt, AccountInv, AccountsTypeOK, RequestSound, WriteSound
    <2>2. CASE account' = account
      BY <2>2 DEF AccountInv, NamesAreTheirs, Live
    <2>3. CASE account' = [account EXCEPT ![q.path] = q.user] /\ ~Taken(q.path, q.user)
      <3>1. \A j \in Live \ {q.path} : NamesDiffer(q.user, account[j])
        BY <2>3 DEF Taken, NamesDiffer
      <3> QED
        BY <1>w, <2>1, <2>3, <3>1
    <2> QED
      BY <1>2, <2>2, <2>3 DEF UpdateUserInfo
  <1>3. ASSUME NEW r \in Requests, DeleteUserById(r) PROVE NamesAreTheirs'
    <2>1. Live' \subseteq Live /\ \A j \in Live' : account'[j] = account[j]
      BY <1>3 DEF DeleteUserById, Live, AccountInv, AccountsTypeOK
    <2> QED
      BY <2>1 DEF AccountInv, NamesAreTheirs, NamesDiffer, Named
  <1>4. CASE UNCHANGED <<account, drawn>>
    BY <1>4 DEF AccountInv, NamesAreTheirs, Live
  <1> QED
    BY <1>1, <1>2, <1>3, <1>4, TableSteps

(* A token that is sent was checked against an account's password. *)
LEMMA TokenStep ==
    AccountInv /\ [AccountsNext]_accountVars => \A t \in token' : TokenSound(t)'
  <1> SUFFICES ASSUME AccountInv, [AccountsNext]_accountVars, NEW t \in token'
               PROVE  TokenSound(t)'
    OBVIOUS
  <1>1. Kept
    BY KeptStep
  <1>2. t \in token => t \in Token /\ TokenSound(t)
    BY DEF AccountInv, AccountsTypeOK
  <1>3. ASSUME NEW r \in Requests, BuildLoginResponse(r)
        PROVE  t \in Token /\ TokenSound(t)
    <2>1. request[r].token \in Token /\ TokenSound(request[r].token)
      BY <1>3, RequestKinds
      DEF BuildLoginResponse, RequestAt, AccountInv, AccountsTypeOK, RequestSound
    <2> QED
      BY <1>2, <1>3, <2>1 DEF BuildLoginResponse
  <1>4. ASSUME ~\E r \in Requests : BuildLoginResponse(r) PROVE t \in token
    <2>1. ASSUME NEW r \in Requests, NEW u \in Account,
                 CreateUser(r, u) \/ LoginHandler(r, u.username, u.email, u.pass)
          PROVE  token' = token
      BY <2>1 DEF CreateUser, LoginHandler
    <2>2. ASSUME NEW r \in Requests, NEW v \in token, NEW i \in Ids,
                 NEW username \in Field, NEW email \in Field,
                 StartUpdate(r, v, i, username, email) \/ StartDelete(r, v, i)
          PROVE  token' = token
      BY <2>2 DEF StartUpdate, StartDelete
    <2>3. ASSUME NEW r \in Requests,
                 \/ AuthMiddleware(r) \/ ReadUser(r) \/ UpdateUserInfo(r)
                 \/ DeleteUserById(r) \/ Abandon(r)
          PROVE  token' = token
      BY <2>3 DEF AuthMiddleware, ReadUser, UpdateUserInfo, DeleteUserById, Abandon
    <2>4. ASSUME NEW v \in token, Expire(v) PROVE token' \subseteq token
      BY <2>4 DEF Expire
    <2>5. CASE UNCHANGED accountVars
      BY <2>5 DEF accountVars
    <2> QED
      BY <1>4, <2>1, <2>2, <2>3, <2>4, <2>5 DEF AccountsNext
  <1> QED
    BY <1>1, <1>2, <1>3, <1>4, TokensStay DEF AccountInv

(* A step that writes no account and changes one request only. *)
LEMMA OneRequestStep ==
    ASSUME AccountInv, UNCHANGED <<account, drawn>>, NEW r \in Requests, RequestSound(r)',
           \A s \in Requests \ {r} : request'[s] = request[s]
    PROVE  \A s \in Requests : RequestSound(s)'
  <1>1. Kept
    BY DEF Kept
  <1> QED
    BY <1>1, RequestStays

(* What a request in flight has checked and read stays true of it.         *)
LEMMA RequestStep ==
    AccountInv /\ [AccountsNext]_accountVars => \A s \in Requests : RequestSound(s)'
  <1> SUFFICES ASSUME AccountInv, [AccountsNext]_accountVars
               PROVE  \A s \in Requests : RequestSound(s)'
    OBVIOUS
  <1>k. Kept
    BY KeptStep
  <1>t. AccountsTypeOK
    BY DEF AccountInv
  <1>1. ASSUME NEW r \in Requests, NEW u \in Account, CreateUser(r, u)
        PROVE  \A s \in Requests : RequestSound(s)'
    <2> TAKE s \in Requests
    <2>1. request'[s] = request[s] /\ \A j \in drawn : account'[j] = account[j]
      BY <1>1, <1>t DEF CreateUser, AccountsTypeOK
    <2>2. RequestAt(s, "update", "write") => request[s].path \in drawn
      BY DEF AccountInv, RequestSound, RequestAt, TokenSound
    <2> QED
      BY <1>k, <2>1, <2>2, RequestStays
  <1>2. ASSUME NEW r \in Requests, NEW u \in Account,
               LoginHandler(r, u.username, u.email, u.pass)
        PROVE  \A s \in Requests : RequestSound(s)'
    <2>1. PICK i \in Live :
             /\ account[i].pass = u.pass
             /\ request' = [request EXCEPT ![r] =
                   [op |-> "login", at |-> "lastLogin", token |-> [id |-> i, pass |-> u.pass]]]
      BY <1>2 DEF LoginHandler, Matches, GoOn
    <2>2. i \in drawn /\ UNCHANGED <<account, drawn>>
      BY <1>2, <1>t DEF Live, AccountsTypeOK, LoginHandler
    <2>3. RequestSound(r)'
      BY <1>t, <2>1, <2>2 DEF RequestSound, RequestAt, TokenSound, Live, AccountsTypeOK
    <2> QED
      BY <1>t, <2>1, <2>2, <2>3, OneRequestStep DEF AccountsTypeOK
  <1>3. ASSUME NEW r \in Requests, BuildLoginResponse(r) \/ Abandon(r)
        PROVE  \A s \in Requests : RequestSound(s)'
    <2>1. UNCHANGED <<account, drawn>> /\ request' = [request EXCEPT ![r] = Idle]
      BY <1>3 DEF BuildLoginResponse, Abandon, Respond
    <2>2. RequestSound(r)'
      BY <1>t, <2>1 DEF RequestSound, AccountsTypeOK
    <2> QED
      BY <1>t, <2>1, <2>2, OneRequestStep DEF AccountsTypeOK
  <1>4. ASSUME NEW t \in token, Expire(t) PROVE \A s \in Requests : RequestSound(s)'
    BY <1>4, <1>k, RequestStays DEF Expire
  <1>5. ASSUME NEW r \in Requests, NEW t \in token, NEW q,
               q.token = t, q.at = "auth",
               request' = [request EXCEPT ![r] = q], UNCHANGED <<account, drawn>>
        PROVE  \A s \in Requests : RequestSound(s)'
    <2>1. TokenSound(t) /\ request'[r] = q
      BY <1>5, <1>t DEF AccountInv, AccountsTypeOK
    <2>2. RequestSound(r)'
      BY <1>5, <2>1 DEF RequestSound, RequestAt, TokenSound, Live
    <2> QED
      BY <1>t, <1>5, <2>2, OneRequestStep DEF AccountsTypeOK
  <1>6. ASSUME NEW r \in Requests, NEW t \in token, NEW i \in Ids,
               NEW username \in Field, NEW email \in Field,
               StartUpdate(r, t, i, username, email) \/ StartDelete(r, t, i)
        PROVE  \A s \in Requests : RequestSound(s)'
    <2> DEFINE p == [op |-> "update", at |-> "auth", token |-> t, path |-> i,
                     username |-> username, email |-> email]
               d == [op |-> "delete", at |-> "auth", token |-> t, path |-> i]
    <2>1. p.token = t /\ p.at = "auth" /\ d.token = t /\ d.at = "auth"
      OBVIOUS
    <2>2. /\ UNCHANGED <<account, drawn>>
          /\ \/ request' = [request EXCEPT ![r] = p]
             \/ request' = [request EXCEPT ![r] = d]
      BY <1>6 DEF StartUpdate, StartDelete, GoOn
    <2> HIDE DEF p, d
    <2> QED
      BY <1>5, <2>1, <2>2
  <1>7. ASSUME NEW r \in Requests, AuthMiddleware(r)
        PROVE  \A s \in Requests : RequestSound(s)'
    <2> DEFINE q == request[r]
    <2>1. PICK op \in {"update", "delete"} :
             /\ RequestAt(r, op, "auth")
             /\ IF Authorized(q)
                THEN GoOn(r, [q EXCEPT !.at = IF op = "update" THEN "read" ELSE "write"])
                ELSE Respond(r)
      BY <1>7 DEF AuthMiddleware
    <2>2. UNCHANGED <<account, drawn>> /\ \A s \in Requests \ {r} : request'[s] = request[s]
      BY <1>7, <1>t, <2>1 DEF AuthMiddleware, GoOn, Respond, AccountsTypeOK
    <2>3. CASE request'[r] = Idle
      BY <2>2, <2>3, OneRequestStep DEF RequestSound
    <2>4. CASE /\ Authorized(q)
               /\ request'[r] = [q EXCEPT !.at = IF op = "update" THEN "read" ELSE "write"]
      <3>1. q.op = op /\ TokenSound(q.token) /\ q.path = q.token.id
        BY <2>1, <2>4 DEF Authorized, RequestAt, AccountInv, RequestSound
      <3>2. q \in Request /\ op \in {"update", "delete"} /\ q.at = "auth"
        BY <1>t, <2>1 DEF RequestAt, AccountsTypeOK
      <3>3. /\ request'[r].token = q.token /\ request'[r].path = q.path
            /\ request'[r].op = op
            /\ request'[r].at = IF op = "update" THEN "read" ELSE "write"
        BY <2>4, <3>1, <3>2, RequestKinds
      <3> HIDE DEF q
      <3>4. RequestSound(r)'
        BY <2>2, <3>1, <3>2, <3>3 DEF RequestSound, RequestAt, TokenSound, Live
      <3> QED
        BY <2>2, <3>4, OneRequestStep
    <2> QED
      BY <1>t, <2>1, <2>3, <2>4 DEF GoOn, Respond, AccountsTypeOK
  <1>8. ASSUME NEW r \in Requests, ReadUser(r) PROVE \A s \in Requests : RequestSound(s)'
    <2> DEFINE q == request[r]
               u == account[q.path]
               w == [op |-> "update", at |-> "write", token |-> q.token, path |-> q.path,
                     username |-> q.username, email |-> q.email,
                     user |-> Merged(q, u), alone |-> TRUE]
    <2>1. /\ q \in [op : {"update"}, at : {"auth", "read"}, token : Token, path : Ids,
                    username : Field, email : Field]
          /\ q # Idle /\ q.op = "update" /\ q.at = "read"
      BY <1>8, <1>t, RequestKinds DEF ReadUser, RequestAt, AccountsTypeOK
    <2>2. TokenSound(q.token) /\ q.path = q.token.id
      BY <2>1 DEF AccountInv, RequestSound
    <2>3. UNCHANGED <<account, drawn>> /\ \A s \in Requests \ {r} : request'[s] = request[s]
      BY <1>8, <1>t DEF ReadUser, GoOn, Respond, AccountsTypeOK
    <2>4. \/ request'[r] = Idle
          \/ q.path \in Live /\ request'[r] = w
      BY <1>8, <1>t DEF ReadUser, GoOn, Respond, AccountsTypeOK
    <2>5. CASE request'[r] = Idle
      BY <2>3, <2>5, OneRequestStep DEF RequestSound
    <2>6. CASE q.path \in Live /\ request'[r] = w
      <3>1. u \in Account /\ Named(u)
        BY <1>t, <2>6 DEF Live, AccountsTypeOK, AccountInv, NamesAreTheirs
      <3>2. q.username \in Field /\ q.email \in Field
        BY <2>1
      <3>3. Named(Merged(q, u)) /\ Merged(q, u).pass = u.pass
        <4> HIDE DEF q, u
        <4> QED
          BY <3>1, <3>2, MergedType DEF Named
      <3>4. u.pass = q.token.pass
        BY <2>2, <2>6 DEF TokenSound
      <3>5. /\ request'[r].token = q.token /\ request'[r].path = q.path
            /\ request'[r].username = q.username /\ request'[r].email = q.email
            /\ request'[r].user = Merged(q, u)
        BY <2>6
      <3>6. TokenSound(request[r].token)'
        BY <2>2, <2>3, <3>5 DEF TokenSound, Live
      <3>7. Merged(q, u) = Merged(request'[r], u) /\ account'[request'[r].path] = u
        BY <2>3, <3>5 DEF Merged
      <3>8. WriteSound(request[r])'
        <4> HIDE DEF q, u
        <4> QED
          BY <3>3, <3>4, <3>5, <3>7 DEF WriteSound, Named, Merged
      <3>9. request'[r].path = request'[r].token.id
        BY <2>2, <3>5
      <3>10. RequestSound(r)'
        BY <3>6, <3>8, <3>9 DEF RequestSound
      <3> QED
        BY <2>3, <3>10, OneRequestStep
    <2> QED
      BY <2>4, <2>5, <2>6
  <1>9. ASSUME NEW r \in Requests, UpdateUserInfo(r)
        PROVE  \A s \in Requests : RequestSound(s)'
    <2> DEFINE i == request[r].path
    <2>1. i \in Ids
      BY <1>9, <1>t, RequestKinds DEF UpdateUserInfo, RequestAt, AccountsTypeOK
    <2>2. CASE /\ account' = [account EXCEPT ![i] = request[r].user]
               /\ request' = Overtaken(r, i)
      BY <1>k, <1>t, <2>1, <2>2, OvertakenSound DEF AccountsTypeOK
    <2>3. CASE account' = account /\ request' = [request EXCEPT ![r] = Idle]
      <3>1. RequestSound(r)' /\ drawn' = drawn
        BY <1>9, <1>t, <2>3 DEF RequestSound, AccountsTypeOK, UpdateUserInfo
      <3> QED
        BY <1>t, <2>3, <3>1, OneRequestStep DEF AccountsTypeOK
    <2> QED
      BY <1>9, <2>2, <2>3 DEF UpdateUserInfo, Respond
  <1>10. ASSUME NEW r \in Requests, DeleteUserById(r)
         PROVE  \A s \in Requests : RequestSound(s)'
    <2> DEFINE i == request[r].path
    <2>1. request[r] \in [op : {"delete"}, at : {"auth", "write"}, token : Token, path : Ids]
      BY <1>10, <1>t, RequestKinds DEF DeleteUserById, RequestAt, AccountsTypeOK
    <2>2. i \in Ids /\ \A j \in Ids \ {i} : account'[j] = account[j]
      BY <1>10, <1>t, <2>1 DEF DeleteUserById, AccountsTypeOK
    <2> QED
      BY <1>10, <1>k, <2>2, OvertakenSound DEF DeleteUserById
  <1>11. CASE UNCHANGED accountVars
    BY <1>k, <1>11, RequestStays DEF accountVars
  <1> QED
    BY <1>1, <1>2, <1>3, <1>4, <1>6, <1>7, <1>8, <1>9, <1>10, <1>11 DEF AccountsNext

LEMMA AccountInvariance == AccountsSpec => []AccountInv
  <1>1. AccountsInit => AccountInv
    BY DEF AccountsInit, AccountInv, AccountsTypeOK, NamesAreTheirs, Live, RequestSound
  <1>2. AccountInv /\ [AccountsNext]_accountVars => AccountInv'
    BY AccountsTypeStep, NamesStep, TokenStep, RequestStep DEF AccountInv
  <1> QED
    BY <1>1, <1>2, PTL DEF AccountsSpec

-----------------------------------------------------------------------------
(* Every account can be logged in to, and what names it has name it and no *)
(* other, however sign-ups and updates race for a name: an update loses to *)
(* the index what it gained from an old look, and never its last name.     *)
THEOREM AccountsStayReachable == AccountsSpec => []EveryAccountLogsIn
  <1>1. AccountInv => EveryAccountLogsIn
    BY NamesLogIn, AccountsAssumption DEF AccountInv
  <1> QED
    BY <1>1, AccountInvariance, PTL

(* An account is changed or deleted only by a request whose token was      *)
(* given for the account's own password, on whatever path it was asked     *)
(* for and whoever carries its names now.                                  *)
THEOREM HoldersOnly == AccountsSpec => OnlyTheHolder
  <1> DEFINE ByHolder ==
               \A i \in Live : account'[i] # account[i] =>
                  \E r \in Requests :
                     /\ request[r] # Idle /\ request'[r] = Idle
                     /\ request[r].op \in {"update", "delete"}
                     /\ request[r].token = [id |-> i, pass |-> account[i].pass]
  <1>1. AccountInv /\ [AccountsNext]_accountVars => [ByHolder]_accountVars
    <2> SUFFICES ASSUME AccountInv, [AccountsNext]_accountVars, NEW i \in Live,
                        account'[i] # account[i]
                 PROVE  \E r \in Requests :
                          /\ request[r] # Idle /\ request'[r] = Idle
                          /\ request[r].op \in {"update", "delete"}
                          /\ request[r].token = [id |-> i, pass |-> account[i].pass]
      OBVIOUS
    <2>1. ASSUME NEW r \in Requests, NEW u \in Account, CreateUser(r, u) PROVE FALSE
      BY <2>1 DEF CreateUser, AccountInv, AccountsTypeOK, Live
    <2>2. PICK r \in Requests : UpdateUserInfo(r) \/ DeleteUserById(r)
      BY <2>1, TableSteps
    <2> DEFINE q == request[r]
    <2>3. /\ q # Idle /\ q \in Request /\ q.op \in {"update", "delete"} /\ q.at = "write"
          /\ RequestSound(r)
      BY <2>2 DEF UpdateUserInfo, DeleteUserById, RequestAt, AccountInv, AccountsTypeOK
    <2>4. q.path = i /\ request' = Overtaken(r, q.path)
      BY <2>2 DEF UpdateUserInfo, DeleteUserById, AccountInv, AccountsTypeOK, Live
    <2>5. request'[r] = Idle
      BY <2>4 DEF Overtaken
    <2>6. q.token \in Token /\ q.token.id = i /\ q.token.pass = account[i].pass
      BY <2>3, <2>4, RequestKinds DEF RequestSound, TokenSound
    <2>7. q.token = [id |-> i, pass |-> account[i].pass]
      BY <2>6 DEF Token
    <2> QED
      BY <2>3, <2>5, <2>7
  <1> QED
    BY <1>1, AccountInvariance, PTL DEF AccountsSpec, OnlyTheHolder

(* An update that no other write of the account overtook since it read it  *)
(* changes what its body names and nothing else.                           *)
THEOREM UnracedUpdatesAreExact == AccountsSpec => UnracedUpdate
  <1> DEFINE Exact ==
               \A r \in Requests, i \in Live :
                  /\ RequestAt(r, "update", "write") /\ request'[r] = Idle
                  /\ request[r].alone /\ request[r].path = i /\ account'[i] # account[i]
                  => /\ account'[i] # NoUser
                     /\ account'[i].username = IF request[r].username = Blank
                                               THEN account[i].username
                                               ELSE request[r].username
                     /\ account'[i].email = IF request[r].email = Blank
                                            THEN account[i].email
                                            ELSE request[r].email
  <1>1. AccountInv /\ [AccountsNext]_accountVars => [Exact]_accountVars
    <2> SUFFICES ASSUME AccountInv, [AccountsNext]_accountVars,
                        NEW r \in Requests, NEW i \in Live,
                        RequestAt(r, "update", "write"), request'[r] = Idle,
                        request[r].alone, request[r].path = i, account'[i] # account[i]
                 PROVE  /\ account'[i] # NoUser
                        /\ account'[i].username = IF request[r].username = Blank
                                                  THEN account[i].username
                                                  ELSE request[r].username
                        /\ account'[i].email = IF request[r].email = Blank
                                               THEN account[i].email
                                               ELSE request[r].email
      OBVIOUS
    <2> DEFINE q == request[r]
    <2>1. q \in [op : {"update"}, at : {"write"}, token : Token, path : Ids,
                 username : Field, email : Field, user : Account, alone : BOOLEAN]
      BY RequestKinds DEF RequestAt, AccountInv, AccountsTypeOK
    <2>2. q.user = Merged(q, account[i])
      BY DEF AccountInv, RequestSound, RequestAt, WriteSound
    (* The step is the update's own: another's write leaves it in flight. *)
    <2>3. ASSUME NEW u \in Account, NEW s \in Requests, CreateUser(s, u) PROVE FALSE
      BY <2>3 DEF CreateUser, AccountInv, AccountsTypeOK, Live
    <2>4. PICK s \in Requests : UpdateUserInfo(s) \/ DeleteUserById(s)
      BY <2>3, TableSteps
    <2>5. request' = Overtaken(s, request[s].path)
      BY <2>4 DEF UpdateUserInfo, DeleteUserById
    <2>6. s = r
      <3>1. SUFFICES ASSUME s # r PROVE FALSE
        OBVIOUS
      <3>2. \/ request'[r] = [q EXCEPT !.alone = FALSE]
            \/ request'[r] = q
        BY <2>5, <3>1 DEF Overtaken
      <3>3. q \in Request /\ [q EXCEPT !.alone = FALSE] \in Request
        BY <2>1 DEF Request
      <3> QED
        BY <3>2, <3>3, AccountNamesAssumption
    <2>7. UpdateUserInfo(r)
      BY <2>4, <2>6, <2>1 DEF DeleteUserById, RequestAt
    <2>8. account'[i] = q.user
      BY <2>7 DEF UpdateUserInfo, AccountInv, AccountsTypeOK, Live
    <2>9. account[i] \in Account /\ q.username \in Field /\ q.email \in Field
      BY <2>1 DEF AccountInv, AccountsTypeOK, Live
    <2> HIDE DEF q
    <2>10. account'[i] \in Account /\ account'[i] # NoUser
      BY <2>2, <2>8, <2>9, MergedType, AccountNamesAssumption
    <2>11. /\ account'[i].username = IF q.username = Blank THEN account[i].username
                                     ELSE q.username
           /\ account'[i].email = IF q.email = Blank THEN account[i].email ELSE q.email
      BY <2>2, <2>8, <2>9, MergedType
    <2> QED
      BY <2>10, <2>11 DEF q
  <1> QED
    BY <1>1, AccountInvariance, PTL DEF AccountsSpec, UnracedUpdate

-----------------------------------------------------------------------------
(* Accounts as the surroundings of the tickets *)

(* An id whose account was deleted, which nobody signs up under again      *)
Gone == {i \in drawn : account[i] = NoUser}

(* The users StreamTickets takes for active are the others. *)
OthersAreActive == active = Users \ Gone

(* To the ticket store every step of the accounts is the deletion of one   *)
(* user, as StreamTickets has it, or nothing: a deleted account does not   *)
(* come back, neither by a sign-up nor by an update that had read it.      *)
THEOREM TicketsAmongAccounts ==
    ASSUME Users = Ids
    PROVE  AccountsSpec /\ []OthersAreActive =>
              [][UNCHANGED <<clock, tickets, minted, call, opened>> =>
                    (\E u \in Users : DeleteUser(u)) \/ UNCHANGED vars]_accountVars
  <1>1. AccountInv /\ [AccountsNext]_accountVars /\ OthersAreActive /\ OthersAreActive' =>
          [UNCHANGED <<clock, tickets, minted, call, opened>> =>
             (\E u \in Users : DeleteUser(u)) \/ UNCHANGED vars]_accountVars
    <2> SUFFICES ASSUME AccountInv, [AccountsNext]_accountVars, OthersAreActive, OthersAreActive',
                        UNCHANGED <<clock, tickets, minted, call, opened>>
                 PROVE  (\E u \in Users : DeleteUser(u)) \/ UNCHANGED vars
      OBVIOUS
    <2>1. AccountsTypeOK
      BY DEF AccountInv
    <2>2. ASSUME Gone' = Gone PROVE UNCHANGED vars
      BY <2>2 DEF vars, OthersAreActive
    <2>3. ASSUME NEW i \in Ids, i \notin Gone, Gone' = Gone \cup {i} PROVE DeleteUser(i)
      BY <2>3 DEF DeleteUser, OthersAreActive
    <2>4. ASSUME NEW r \in Requests, NEW u \in Account, CreateUser(r, u) PROVE Gone' = Gone
      <3>1. PICK i \in Ids \ drawn : account' = [account EXCEPT ![i] = u] /\ drawn' = drawn \cup {i}
        BY <2>4 DEF CreateUser
      <3> QED
        BY <2>1, <3>1, AccountNamesAssumption DEF Gone, AccountsTypeOK
    <2>5. ASSUME NEW r \in Requests, UpdateUserInfo(r) PROVE Gone' = Gone
      <3>1. request[r].path \in Ids /\ request[r].user \in Account
        BY <2>1, <2>5, RequestKinds DEF UpdateUserInfo, RequestAt, AccountsTypeOK
      <3>2. CASE account' = account
        BY <2>5, <3>2 DEF UpdateUserInfo, Gone
      <3>3. CASE /\ request[r].path \in Live
                 /\ account' = [account EXCEPT ![request[r].path] = request[r].user]
        BY <2>1, <2>5, <3>1, <3>3, AccountNamesAssumption
        DEF UpdateUserInfo, Gone, Live, AccountsTypeOK
      <3> QED
        BY <2>5, <3>2, <3>3 DEF UpdateUserInfo
    <2>6. ASSUME NEW r \in Requests, DeleteUserById(r)
          PROVE  Gone' = Gone \/ \E i \in Ids \ Gone : Gone' = Gone \cup {i}
      <3>1. request[r].path \in Ids
        BY <2>1, <2>6, RequestKinds DEF DeleteUserById, RequestAt, AccountsTypeOK
      <3>2. drawn' = drawn /\ account' = [account EXCEPT ![request[r].path] = NoUser]
        BY <2>6 DEF DeleteUserById
      <3>3. CASE request[r].path \in Live
        BY <2>1, <3>1, <3>2, <3>3 DEF Gone, Live, AccountsTypeOK
      <3>4. CASE request[r].path \notin Live
        BY <2>1, <3>1, <3>2, <3>4 DEF Gone, Live, AccountsTypeOK
      <3> QED
        BY <3>3, <3>4
    <2>7. ASSUME UNCHANGED <<account, drawn>> PROVE Gone' = Gone
      BY <2>7 DEF Gone
    <2> QED
      BY <2>2, <2>3, <2>4, <2>5, <2>6, <2>7, TableSteps
  <1> QED
    BY <1>1, AccountInvariance, PTL DEF AccountsSpec
=============================================================================
