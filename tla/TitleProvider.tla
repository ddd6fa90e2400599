---------------------------- MODULE TitleProvider ----------------------------
(***************************************************************************)
(* The clients of the title services: TMDB, throttled across goroutines    *)
(* and retried when it answers 429; OMDb, neither; and the hybrid of both, *)
(* which lays OMDb's rating over TMDB's title.  One call of GetTitle or    *)
(* SearchTitles is a sequence of requests.                                 *)
(*                                                                         *)
(* The services answer what they like, when they like, or never, since     *)
(* http.DefaultClient has no timeout.  A tick is the unit of every delay;  *)
(* a goroutine may be late for what it waited for.                         *)
(***************************************************************************)
EXTENDS Integers, FiniteSets

CONSTANTS Calls,       \* calls of the provider, each made at most once
          Providers,   \* the values of TITLE_PROVIDER looked at
          MaxItems,    \* bound: seasons of a title, results of a search
          Limit,       \* SearchTitles' limit
          MinInterval, \* minInterval, in ticks
          MaxRetries,  \* maxRetries
          RetryAfters, \* the delays a Retry-After asks for, in ticks
          FirstBackoff, MaxBackoff, \* without one: 500 ms, maxBackoff
          NoHeader     \* no Retry-After, or one that asks for nothing

ASSUME ProviderAssumption ==
    /\ IsFiniteSet(Calls)
    /\ Providers \subseteq {"tmdb", "omdb", "hybrid"}
    /\ MaxItems \in Nat /\ Limit \in Nat /\ MinInterval \in Nat \ {0} /\ MaxRetries \in Nat
    /\ RetryAfters \subseteq Nat /\ NoHeader \notin Nat
    /\ FirstBackoff \in Nat /\ MaxBackoff \in Nat
    /\ \A n \in 0..MaxRetries : 2^n \in Nat

VARIABLES
    provider, \* what the factory built when the process started
    ahead,    \* how far the throttle's nextAllowed lies ahead of now
    call,     \* per call
    credit    \* history: a bucket that each request to TMDB draws on

vars == <<provider, ahead, call, credit>>

Items == 0..MaxItems

(* It holds the worth of one request more than there are calls. *)
Bucket == (Cardinality(Calls) + 1) * MinInterval

(* `left` is the time until a wait or a sleep is over.  The title has      *)
(* `listed` seasons, specials not counted, or the search as many results;  *)
(* the request is about the one at `item`, and `got` of them are in hand.  *)
Call == [at : {"begin", "throttle", "wait", "do", "sent", "sleep", "answered", "failed"},
         ask : {"find", "details", "season", "rating", "title", "omdbSeason",
                "search", "lookup", "omdbSearch"},
         attempt : 0..MaxRetries, left : Nat, cancelled : BOOLEAN,
         listed : Items, item : Items, got : Items]

(* Type correctness: no counter leaves its range; the bucket may be        *)
(* overdrawn here, which WithinBudget denies.                              *)
TypeOK ==
    /\ provider \in Providers
    /\ ahead \in Nat /\ credit \in Int /\ credit <= Bucket
    /\ call \in [Calls -> Call]

Init ==
    /\ provider \in Providers
    /\ ahead = 0 /\ credit = Bucket
    /\ call = [c \in Calls |->
          [at |-> "begin", ask |-> "find", attempt |-> 0, left |-> 0,
           cancelled |-> FALSE, listed |-> 0, item |-> 0, got |-> 0]]

-----------------------------------------------------------------------------
At(c, step)  == call[c].at = step
Running(c)   == ~At(c, "begin") /\ ~At(c, "answered") /\ ~At(c, "failed")
OfTmdb(ask)  == ask \in {"find", "details", "season", "search", "lookup"}
IsSearch(c)  == call[c].ask \in {"search", "lookup", "omdbSearch"}

(* The call goes on to another request: getJSON to the throttle, OMDb's    *)
(* get at once.                                                            *)
Ask(r, ask) ==
    [r EXCEPT !.at = IF OfTmdb(ask) THEN "throttle" ELSE "do",
              !.ask = ask, !.attempt = 0, !.left = 0]

Answer(r) == [r EXCEPT !.at = "answered", !.attempt = 0, !.left = 0, !.cancelled = FALSE]
Fail(r)   == [Answer(r) EXCEPT !.at = "failed", !.listed = 0, !.item = 0, !.got = 0]

Becomes(c, r)  == call' = [call EXCEPT ![c] = r]
OnlyTheCall    == UNCHANGED <<provider, ahead, credit>>

(* GetTitle and SearchTitles, of the provider the process has *)
GetTitle(c) ==
    /\ At(c, "begin")
    /\ Becomes(c, Ask(call[c], IF provider = "omdb" THEN "title" ELSE "find"))
    /\ OnlyTheCall

SearchTitles(c) ==
    /\ At(c, "begin")
    /\ Becomes(c, Ask(call[c], IF provider = "omdb" THEN "omdbSearch" ELSE "search"))
    /\ OnlyTheCall

(* The caller's context ends: its client went away. *)
Cancel(c) ==
    /\ Running(c) /\ ~call[c].cancelled
    /\ Becomes(c, [call[c] EXCEPT !.cancelled = TRUE])
    /\ OnlyTheCall

-----------------------------------------------------------------------------
(* The throttle *)

(* Under the mutex: the slot is taken, whatever becomes of the request. *)
Reserve(c) ==
    /\ At(c, "throttle")
    /\ Becomes(c, [call[c] EXCEPT !.at = IF ahead > 0 THEN "wait" ELSE "do", !.left = ahead])
    /\ ahead' = ahead + MinInterval
    /\ UNCHANGED <<provider, credit>>

TimerFires(c) ==
    /\ At(c, "wait") /\ call[c].left = 0
    /\ Becomes(c, [call[c] EXCEPT !.at = "do"])
    /\ OnlyTheCall

-----------------------------------------------------------------------------
(* What comes after a request: the next one, or the end *)

(* The next season or result of the list, or what follows the last. *)
Proceed(r, ask) ==
    CASE r.item < r.listed /\ (ask = "lookup" => r.got < Limit) ->
              Ask([r EXCEPT !.item = @ + 1], ask)
      [] ask = "season" /\ r.item = r.listed /\ provider = "hybrid" -> Ask(r, "rating")
      [] OTHER -> Answer(r)

(* Wrong on purpose: a season that cannot be had is left out; a lookup     *)
(* that fails ends the search.                                             *)
WithoutTheSeason(r) ==
    CASE r.ask = "rating"               -> Answer(r)
      [] r.ask \in {"lookup", "season"} -> Proceed(r, r.ask)
      [] OTHER                          -> Fail(r)
BreakAtLookup(r) == IF r.ask \in {"rating", "lookup"} THEN Answer(r) ELSE Fail(r)

(* A request that cannot be had: the title fails with it, unless it is for *)
(* the rating; a search leaves the result out.                             *)
Without(r) ==
    CASE r.ask = "rating" -> Answer(r)
      [] r.ask = "lookup" -> Proceed(r, "lookup")
      [] OTHER            -> Fail(r)

(* The context ends a wait, a request about to be sent, or one under way.  *)
Abort(c) ==
    /\ call[c].cancelled /\ (At(c, "wait") \/ At(c, "do") \/ At(c, "sent"))
    /\ Becomes(c, Without(call[c]))
    /\ OnlyTheCall

Send(c) ==
    /\ At(c, "do") /\ ~call[c].cancelled
    /\ Becomes(c, [call[c] EXCEPT !.at = "sent"])
    /\ credit' = IF OfTmdb(call[c].ask) THEN credit - MinInterval ELSE credit
    /\ UNCHANGED <<provider, ahead>>

(* Without a Retry-After: 500 ms doubled with each attempt, and capped *)
Backoff(n) == LET d == FirstBackoff * 2^n IN IF d > MaxBackoff THEN MaxBackoff ELSE d

RetryAfterDelay(header, n) == IF header = NoHeader THEN Backoff(n) ELSE header

(* TMDB answers 429: the goroutine sleeps, whatever its context says. *)
RateLimited(c, header) ==
    /\ At(c, "sent") /\ OfTmdb(call[c].ask)
    /\ Becomes(c, IF call[c].attempt < MaxRetries
                  THEN [call[c] EXCEPT !.at = "sleep",
                           !.left = RetryAfterDelay(header, call[c].attempt)]
                  ELSE Without(call[c]))
    /\ OnlyTheCall

(* Wrong on purpose: the retry asks for no slot; retries are not counted. *)
RetryAtOnce(c) ==
    /\ At(c, "sleep") /\ call[c].left = 0
    /\ Becomes(c, [call[c] EXCEPT !.at = "do", !.attempt = @ + 1])
    /\ OnlyTheCall
RetryForEver(c) ==
    /\ At(c, "sleep") /\ call[c].left = 0
    /\ Becomes(c, [call[c] EXCEPT !.at = "throttle"])
    /\ OnlyTheCall

WakeUp(c) ==
    /\ At(c, "sleep") /\ call[c].left = 0
    /\ Becomes(c, [call[c] EXCEPT !.at = "throttle", !.attempt = @ + 1])
    /\ OnlyTheCall

(* The connection fails, the status is not 2xx, the body is not JSON, or   *)
(* it says there is no such title.                                         *)
Fails(c) ==
    /\ At(c, "sent")
    /\ Becomes(c, Without(call[c]))
    /\ OnlyTheCall

-----------------------------------------------------------------------------
(* A request is answered *)

(* /find: a movie or a series *)
Found(c) ==
    /\ At(c, "sent") /\ call[c].ask = "find"
    /\ Becomes(c, Ask(call[c], "details"))
    /\ OnlyTheCall

(* The details of a movie, which has no seasons, or of a series *)
Details(c, seasons) ==
    /\ At(c, "sent") /\ call[c].ask \in {"details", "title"}
    /\ Becomes(c, Proceed([call[c] EXCEPT !.listed = seasons],
                          IF call[c].ask = "details" THEN "season" ELSE "omdbSeason"))
    /\ OnlyTheCall

(* /search/multi: what is neither movie nor series is not counted *)
Results(c, results) ==
    /\ At(c, "sent") /\ call[c].ask = "search"
    /\ Becomes(c, Proceed([call[c] EXCEPT !.listed = results], "lookup"))
    /\ OnlyTheCall

(* A season, or the external ids of a result *)
ItemAnswers(c) ==
    /\ At(c, "sent") /\ call[c].ask \in {"season", "omdbSeason", "lookup"}
    /\ Becomes(c, Proceed([call[c] EXCEPT !.got = @ + 1], call[c].ask))
    /\ OnlyTheCall

(* OMDb has the series but not this season of it; the result of a search   *)
(* has no IMDb id.                                                         *)
ItemIsSkipped(c) ==
    /\ At(c, "sent") /\ call[c].ask \in {"omdbSeason", "lookup"}
    /\ Becomes(c, Proceed(call[c], call[c].ask))
    /\ OnlyTheCall

(* RatingByID: a rating to lay over the title's, or none *)
RatingAnswers(c) ==
    /\ At(c, "sent") /\ call[c].ask = "rating"
    /\ Becomes(c, Answer(call[c]))
    /\ OnlyTheCall

OmdbResults(c, results) ==
    /\ At(c, "sent") /\ call[c].ask = "omdbSearch"
    /\ Becomes(c, [Answer(call[c]) EXCEPT !.listed = results, !.item = results,
                      !.got = IF results < Limit THEN results ELSE Limit])
    /\ OnlyTheCall

-----------------------------------------------------------------------------
Sooner(n) == IF n > 0 THEN n - 1 ELSE 0

Tick ==
    /\ ahead' = Sooner(ahead)
    /\ call' = [c \in Calls |-> [call[c] EXCEPT !.left = Sooner(@)]]
    /\ credit' = IF credit < Bucket THEN credit + 1 ELSE Bucket
    /\ UNCHANGED provider

Goroutine(c) == Reserve(c) \/ TimerFires(c) \/ Abort(c) \/ Send(c) \/ WakeUp(c)

Service(c) == \/ \E h \in RetryAfters \cup {NoHeader} : RateLimited(c, h)
              \/ \E n \in Items : Details(c, n) \/ Results(c, n) \/ OmdbResults(c, n)
              \/ Fails(c) \/ Found(c) \/ ItemAnswers(c) \/ ItemIsSkipped(c) \/ RatingAnswers(c)

Next == \/ \E c \in Calls : GetTitle(c) \/ SearchTitles(c) \/ Cancel(c) \/ Goroutine(c) \/ Service(c)
        \/ Tick

Spec == Init /\ [][Next]_vars

(* The clock runs on, and so does every goroutine that is not waiting for  *)
(* a service; of the services nothing is assumed.                          *)
Fairness == WF_vars(Tick) /\ \A c \in Calls : WF_vars(Goroutine(c))

FairSpec == Spec /\ Fairness

-----------------------------------------------------------------------------
(* Properties *)

(* However many goroutines share the throttle, however late they run and   *)
(* whatever is retried or given up, a window of time sees no more requests *)
(* to TMDB than intervals of its length, and one for each call and one     *)
(* more: credit grows by a unit a tick up to the bucket's size.            *)
WithinBudget == credit >= 0

(* A title that is answered has every season TMDB listed, retries or not,  *)
(* though OMDb's may lack some; and no title fails for OMDb's rating.      *)
AnswerIsWhole ==
    \A c \in Calls : ~IsSearch(c) =>
       /\ At(c, "answered") /\ provider # "omdb" => call[c].got = call[c].listed
       /\ At(c, "failed") => call[c].ask # "rating"

(* A search never answers more than its limit, answers fewer only when it  *)
(* has tried every result, and does not fail for one of them.              *)
SearchIsFull ==
    \A c \in Calls : IsSearch(c) =>
       /\ At(c, "answered") => /\ call[c].got <= Limit
                               /\ call[c].got = Limit \/ call[c].item = call[c].listed
       /\ At(c, "failed") => call[c].ask # "lookup"

(* Every call ends, through waits, retries and sleeps, unless a service    *)
(* never answers it; and one that was given up ends even then.             *)
EndsOrHangs ==
    \A c \in Calls : Running(c) ~> (~Running(c) \/ [](At(c, "sent") /\ ~call[c].cancelled))
=============================================================================
