------------------------------- MODULE Accounts -------------------------------
(***************************************************************************)
(* Users and authentication: sign-up, login, and the requests with which a *)
(* user changes or deletes an account, each behind the middleware that     *)
(* looks the token's user up.  A step is a statement of the database.      *)
(*                                                                         *)
(* Usernames and e-mail addresses are words, each with its own unique      *)
(* index; the display name is a field like them without one.  Passwords    *)
(* never change.  A hash is its password; a token is not forged.           *)
(***************************************************************************)
EXTENDS FiniteSets

CONSTANTS Ids,       \* ids of accounts, drawn once each
          Words,     \* usernames and e-mail addresses
          Passwords,
          Requests,  \* requests that may overlap
          Blank, NoUser, Idle

ASSUME AccountsAssumption ==
    Blank \notin Words /\ NoUser \notin Ids

VARIABLES
    account, \* the users table
    drawn,   \* ids that were ever given out
    token,   \* tokens that have not expired, with the password given for them
    request  \* the requests under way

accountVars == <<account, drawn, token, request>>

Field   == Words \cup {Blank}
Account == [username : Field, email : Field, pass : Passwords]
Token   == [id : Ids, pass : Passwords]

(* `path` is the id in the path of an update or a delete, `asked` what its *)
(* body names.  An update holds the account as it would write it; `alone`  *)
(* is history: nobody wrote the account since the update read it.          *)
Request ==
    [op : {"login"}, at : {"lastLogin"}, token : Token] \cup
    [op : {"delete"}, at : {"auth", "write"}, token : Token, path : Ids] \cup
    [op : {"update"}, at : {"auth", "read"}, token : Token, path : Ids,
     username : Field, email : Field] \cup
    [op : {"update"}, at : {"write"}, token : Token, path : Ids,
     username : Field, email : Field, user : Account, alone : BOOLEAN]

ASSUME AccountNamesAssumption == NoUser \notin Account /\ Idle \notin Request

(* Type correctness; an id that was not drawn has no account. *)
AccountsTypeOK ==
    /\ account \in [Ids -> Account \cup {NoUser}]
    /\ drawn \subseteq Ids
    /\ \A i \in Ids \ drawn : account[i] = NoUser
    /\ token \subseteq Token
    /\ request \in [Requests -> Request \cup {Idle}]

AccountsInit ==
    /\ account = [i \in Ids |-> NoUser]
    /\ drawn = {} /\ token = {}
    /\ request = [r \in Requests |-> Idle]

-----------------------------------------------------------------------------
Live == {i \in Ids : account[i] # NoUser}

RequestAt(r, op, step) == request[r] # Idle /\ request[r].op = op /\ request[r].at = step

(* Wrong on purpose: one index over both columns. *)
TakenTogether(i, u) ==
    \E j \in Live \ {i} : u.username = account[j].username /\ u.email = account[j].email

(* The partial unique indexes: another account has the username, or the    *)
(* address. *)
Taken(i, u) ==
    \E j \in Live \ {i} : \/ u.username # Blank /\ u.username = account[j].username
                          \/ u.email # Blank /\ u.email = account[j].email

(* GetUserByUsernameOrEmail: what is left out matches everything. *)
Matches(username, email) ==
    {i \in Live : /\ username \in {Blank, account[i].username}
                  /\ email \in {Blank, account[i].email}}

Respond(r)  == request' = [request EXCEPT ![r] = Idle]
GoOn(r, q)  == request' = [request EXCEPT ![r] = q]

(* A write to i: requests that hold what they read of it are not alone.    *)
Overtaken(r, i) ==
    [s \in Requests |->
        IF s = r THEN Idle
        ELSE IF RequestAt(s, "update", "write") /\ request[s].token.id = i
             THEN [request[s] EXCEPT !.alone = FALSE]
             ELSE request[s]]

-----------------------------------------------------------------------------
(* Sign-up *)

CreateUser(r, u) ==
    /\ request[r] = Idle
    /\ u.username # Blank \/ u.email # Blank
    /\ ~Taken(NoUser, u)
    /\ \E i \in Ids \ drawn : account' = [account EXCEPT ![i] = u] /\ drawn' = drawn \cup {i}
    /\ UNCHANGED <<token, request>>

-----------------------------------------------------------------------------
(* Login *)

LoginHandler(r, username, email, pass) ==
    /\ request[r] = Idle
    /\ username # Blank \/ email # Blank
    /\ \E i \in Matches(username, email) :
          /\ account[i].pass = pass
          /\ GoOn(r, [op |-> "login", at |-> "lastLogin", token |-> [id |-> i, pass |-> pass]])
    /\ UNCHANGED <<account, drawn, token>>

(* UpdateUserLastLoginAt: the user may be gone, and then no token is sent. *)
BuildLoginResponse(r) ==
    /\ RequestAt(r, "login", "lastLogin")
    /\ LET t == request[r].token
       IN  token' = IF t.id \in Live THEN token \cup {t} ELSE token
    /\ Respond(r)
    /\ UNCHANGED <<account, drawn>>

(* The hour of a token is over. *)
Expire(t) ==
    /\ token' = token \ {t}
    /\ UNCHANGED <<account, drawn, request>>

-----------------------------------------------------------------------------
(* Requests with a token *)

StartUpdate(r, t, path, username, email) ==
    /\ request[r] = Idle
    /\ GoOn(r, [op |-> "update", at |-> "auth", token |-> t, path |-> path,
                username |-> username, email |-> email])
    /\ UNCHANGED <<account, drawn, token>>

StartDelete(r, t, path) ==
    /\ request[r] = Idle
    /\ GoOn(r, [op |-> "delete", at |-> "auth", token |-> t, path |-> path])
    /\ UNCHANGED <<account, drawn, token>>

(* Wrong on purpose: the path is not compared with the user. *)
AuthorizedAnywhere(q) == q.token.id \in Live

(* AuthMiddleware finds the user of the token, and the handler lets users  *)
(* at their own account only.                                              *)
Authorized(q) == q.token.id \in Live /\ q.path = q.token.id

AuthMiddleware(r) ==
    /\ \E op \in {"update", "delete"} :
          /\ RequestAt(r, op, "auth")
          /\ IF Authorized(request[r])
             THEN GoOn(r, [request[r] EXCEPT !.at = IF op = "update" THEN "read" ELSE "write"])
             ELSE Respond(r)
    /\ UNCHANGED <<account, drawn, token>>

(* Wrong on purpose: what the body leaves out is blanked. *)
Blanked(q, u) == [u EXCEPT !.username = q.username, !.email = q.email]

(* What the body names replaces what was read. *)
Merged(q, u) ==
    [u EXCEPT !.username = IF q.username = Blank THEN @ ELSE q.username,
              !.email    = IF q.email = Blank THEN @ ELSE q.email]

(* UpdateUserInfo reads the account, if it is still there, *)
ReadUser(r) ==
    /\ RequestAt(r, "update", "read")
    /\ LET q == request[r]
       IN  IF q.path \in Live
           THEN GoOn(r, [op |-> "update", at |-> "write", token |-> q.token, path |-> q.path,
                         username |-> q.username, email |-> q.email,
                         user |-> Merged(q, account[q.path]), alone |-> TRUE])
           ELSE Respond(r)
    /\ UNCHANGED <<account, drawn, token>>

(* and writes all of its fields back, unless the indexes refuse them or    *)
(* the account is gone.                                                    *)
UpdateUserInfo(r) ==
    /\ RequestAt(r, "update", "write")
    /\ LET q == request[r]
       IN  IF q.path \in Live /\ ~Taken(q.path, q.user)
           THEN /\ account' = [account EXCEPT ![q.path] = q.user]
                /\ request' = Overtaken(r, q.path)
           ELSE Respond(r) /\ UNCHANGED account
    /\ UNCHANGED <<drawn, token>>

(* DeleteUserById: no error when there is nothing to delete. *)
DeleteUserById(r) ==
    /\ RequestAt(r, "delete", "write")
    /\ account' = [account EXCEPT ![request[r].path] = NoUser]
    /\ request' = Overtaken(r, request[r].path)
    /\ UNCHANGED <<drawn, token>>

(* The client goes away, or the database fails, before a statement. *)
Abandon(r) ==
    /\ request[r] # Idle
    /\ Respond(r)
    /\ UNCHANGED <<account, drawn, token>>

-----------------------------------------------------------------------------
AccountsNext ==
    \/ \E r \in Requests :
          \/ \E u \in Account : CreateUser(r, u) \/ LoginHandler(r, u.username, u.email, u.pass)
          \/ \E t \in token, i \in Ids, username, email \in Field :
                StartUpdate(r, t, i, username, email) \/ StartDelete(r, t, i)
          \/ AuthMiddleware(r) \/ ReadUser(r)
          \/ BuildLoginResponse(r) \/ UpdateUserInfo(r) \/ DeleteUserById(r) \/ Abandon(r)
    \/ \E t \in token : Expire(t)

AccountsSpec == AccountsInit /\ [][AccountsNext]_accountVars

-----------------------------------------------------------------------------
(* Properties *)

(* Every account can be logged in to: it has a username or an address      *)
(* whatever its updates left out, and what it has names it and no other,   *)
(* however updates and sign-ups race for a name.                           *)
EveryAccountLogsIn ==
    \A i \in Live : LET u == account[i]
                    IN  /\ u.username # Blank \/ u.email # Blank
                        /\ u.username # Blank => Matches(u.username, Blank) = {i}
                        /\ u.email # Blank => Matches(Blank, u.email) = {i}

(* An account is changed or deleted only by a request whose token was      *)
(* given for the account's password, though names change hands between     *)
(* the login that checked it and the request.                              *)
OnlyTheHolder ==
    [][\A i \in Live : account'[i] # account[i] =>
          \E r \in Requests : /\ request[r] # Idle /\ request'[r] = Idle
                              /\ request[r].op \in {"update", "delete"}
                              /\ request[r].token = [id |-> i, pass |-> account[i].pass]]_accountVars

(* An update that nothing overtook changes what its body names and no      *)
(* more; of two that overlap, the later undoes the earlier one's fields.   *)
UnracedUpdate ==
    [][\A r \in Requests, i \in Live :
          /\ RequestAt(r, "update", "write") /\ request'[r] = Idle
          /\ request[r].alone /\ request[r].path = i /\ account'[i] # account[i]
          => /\ account'[i] # NoUser
             /\ account'[i].username = IF request[r].username = Blank THEN account[i].username
                                       ELSE request[r].username
             /\ account'[i].email = IF request[r].email = Blank THEN account[i].email
                                    ELSE request[r].email]_accountVars
=============================================================================
