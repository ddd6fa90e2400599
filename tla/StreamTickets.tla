--------------------------- MODULE StreamTickets ---------------------------
(***************************************************************************)
(* The tickets that authenticate a live stream: minted for a bearer of a   *)
(* token, kept in memory, redeemed once within their time to live.  A call *)
(* reads the clock before it waits for the store's lock, and the user      *)
(* behind a redeemed ticket is looked up after the lock is released.       *)
(***************************************************************************)
EXTENDS Integers, FiniteSets

CONSTANTS Users,
          Tickets,   \* ticket values; none is drawn twice
          Callers,   \* goroutines serving the two endpoints
          TTL,       \* ticketTTL, in ticks
          MaxClock,  \* bound: ticks
          NoEntry,   \* a ticket the map does not hold
          NoCall     \* a goroutine that serves nothing

ASSUME TicketsAssumption == TTL \in Nat \ {0} /\ MaxClock \in Nat

Time  == 0..MaxClock
Entry == [user : Users, expiresAt : Nat]
Call  == [at : {"issue", "redeem", "lookup"}, now : Time, user : Users, ticket : Tickets,
          gone : BOOLEAN]  \* history: the user was gone when the ticket was redeemed

ASSUME TicketNamesAssumption == NoEntry \notin Entry /\ NoCall \notin Call

VARIABLES
    clock,
    tickets,  \* TicketStore.tickets
    minted,   \* ticket values crypto/rand has produced
    active,   \* users that exist and are active
    call,     \* per goroutine
    opened    \* history: the streams each ticket opened

vars == <<clock, tickets, minted, active, call, opened>>

TypeOK ==
    /\ clock \in Time
    /\ tickets \in [Tickets -> Entry \cup {NoEntry}]
    /\ minted \in SUBSET Tickets
    /\ active \in SUBSET Users
    /\ call \in [Callers -> Call \cup {NoCall}]
    /\ opened \in [Tickets -> Nat]

Init == /\ clock = 0
        /\ tickets = [t \in Tickets |-> NoEntry]
        /\ minted = {}
        /\ active = Users
        /\ call = [c \in Callers |-> NoCall]
        /\ opened = [t \in Tickets |-> 0]

-----------------------------------------------------------------------------
(* Wrong on purpose: a ticket lives through the tick of its expiry. *)
SweptLate(now) ==
    [t \in Tickets |-> IF tickets[t] # NoEntry /\ tickets[t].expiresAt >= now
                       THEN tickets[t] ELSE NoEntry]

(* sweepLocked: what is left of the map once every entry that has reached  *)
(* its TTL is gone                                                         *)
Swept(now) ==
    [t \in Tickets |-> IF tickets[t] # NoEntry /\ tickets[t].expiresAt > now
                       THEN tickets[t] ELSE NoEntry]

At(c, step) == call[c] # NoCall /\ call[c].at = step

Begin(c, step, u, t) ==
    /\ call[c] = NoCall
    /\ call' = [call EXCEPT ![c] = [at |-> step, now |-> clock, user |-> u, ticket |-> t,
                                    gone |-> FALSE]]

End(c) == call' = [call EXCEPT ![c] = NoCall]

(* Issue, for a user the middleware has just authenticated ... *)
StartIssue(c, u, t) ==
    /\ u \in active
    /\ t \notin minted
    /\ Begin(c, "issue", u, t)
    /\ minted' = minted \cup {t}
    /\ UNCHANGED <<clock, tickets, active, opened>>

(* ... and under the lock: sweep, then insert. *)
Issue(c) ==
    /\ At(c, "issue")
    /\ tickets' = [Swept(call[c].now) EXCEPT
                     ![call[c].ticket] = [user |-> call[c].user,
                                          expiresAt |-> call[c].now + TTL]]
    /\ End(c)
    /\ UNCHANGED <<clock, minted, active, opened>>

(* Redeem: any ticket at all, as often as the client likes.  The call's    *)
(* user is not known yet.                                                  *)
StartRedeem(c, t) ==
    /\ \E u \in Users : Begin(c, "redeem", u, t)
    /\ UNCHANGED <<clock, tickets, minted, active, opened>>

(* Wrong on purpose: the ticket is looked up and stays. *)
RedeemAgain(c) ==
    /\ At(c, "redeem")
    /\ tickets' = Swept(call[c].now)
    /\ IF tickets'[call[c].ticket] = NoEntry THEN End(c)
       ELSE call' = [call EXCEPT ![c].at = "lookup",
                                 ![c].user = tickets'[call[c].ticket].user]
    /\ UNCHANGED <<clock, minted, active, opened>>

(* Under the lock: sweep, look up, delete. *)
Redeem(c) ==
    /\ At(c, "redeem")
    /\ LET t    == call[c].ticket
           left == Swept(call[c].now)
       IN  IF left[t] = NoEntry
           THEN tickets' = left /\ End(c)
           ELSE /\ tickets' = [left EXCEPT ![t] = NoEntry]
                /\ call' = [call EXCEPT ![c].at = "lookup", ![c].user = left[t].user,
                                        ![c].gone = left[t].user \notin active]
    /\ UNCHANGED <<clock, minted, active, opened>>

(* Wrong on purpose: whoever the ticket names gets the stream. *)
OpenUnchecked(c) ==
    /\ At(c, "lookup")
    /\ opened' = [opened EXCEPT ![call[c].ticket] = @ + 1]
    /\ End(c)
    /\ UNCHANGED <<clock, tickets, minted, active>>

(* OpenStream's GetUserById: a deleted or deactivated user gets no stream. *)
LookUpUser(c) ==
    /\ At(c, "lookup")
    /\ opened' = IF call[c].user \in active
                 THEN [opened EXCEPT ![call[c].ticket] = @ + 1] ELSE opened
    /\ End(c)
    /\ UNCHANGED <<clock, tickets, minted, active>>

(* The store fails or the client has gone: the ticket is spent all the same. *)
LookUpFails(c) ==
    /\ At(c, "lookup")
    /\ End(c)
    /\ UNCHANGED <<clock, tickets, minted, active, opened>>

DeleteUser(u) ==
    /\ u \in active
    /\ active' = active \ {u}
    /\ UNCHANGED <<clock, tickets, minted, call, opened>>

Tick ==
    /\ clock < MaxClock
    /\ clock' = clock + 1
    /\ UNCHANGED <<tickets, minted, active, call, opened>>

(* The process restarts: the map and the calls are gone. *)
Restart ==
    /\ tickets' = [t \in Tickets |-> NoEntry]
    /\ call' = [c \in Callers |-> NoCall]
    /\ UNCHANGED <<clock, minted, active, opened>>

Next == \/ \E c \in Callers :
              \/ \E t \in Tickets : StartRedeem(c, t) \/ \E u \in Users : StartIssue(c, u, t)
              \/ Issue(c) \/ Redeem(c) \/ LookUpUser(c) \/ LookUpFails(c)
        \/ \E u \in Users : DeleteUser(u)
        \/ Tick \/ Restart

Spec == Init /\ [][Next]_vars

-----------------------------------------------------------------------------
(* Properties *)

(* A ticket opens at most one stream, however many goroutines present it at *)
(* once and whatever sweeps and restarts come between.                      *)
SingleUse == \A t \in Tickets : opened[t] <= 1

(* A ticket presented at its expiry or later, by the clock of the request  *)
(* that presents it, is refused, even when the request waited for the lock.*)
ExpiredIsRefused ==
    [][\A c \in Callers :
         Redeem(c) /\ At(c, "lookup")' =>
            tickets[call[c].ticket].expiresAt > call[c].now]_vars

(* No call leaves an entry in the map that had expired when it began, so a *)
(* client that only mints cannot grow the map past one TTL of tickets.     *)
ExpiredIsSwept ==
    [][\A c \in Callers : Issue(c) \/ Redeem(c) =>
         \A t \in Tickets :
            tickets'[t] # NoEntry => tickets'[t].expiresAt > call[c].now]_vars

(* A ticket presented after its user's account was deleted opens no stream, *)
(* although it was minted before and has not expired.                      *)
GoneUserGetsNoStream ==
    [][\A c \in Callers : At(c, "lookup") /\ call[c].gone /\ LookUpUser(c)
         => UNCHANGED opened]_vars
=============================================================================
