# A verification project for aftercredits-backend

aftercredits-backend is a Go HTTP API over PostgreSQL.  Groups of users keep a
list of films and series, mark what they have watched, rate and comment, and
follow each other's actions in an activity feed with unread badges and a live
stream.  Most of its difficulty is concurrency of an ordinary kind: requests
overlap, every statement runs at READ COMMITTED on its own snapshot, a request
is several transactions and can stop between any two, and one part (the live
stream) is a small concurrent program of its own.

This directory models that behaviour in TLA+, checks it with TLC on small
instances, and proves its safety properties with TLAPS for all instances.  Paths below are
relative to the repository's root.

## The parts of the system

| Part | State | Operations | What is hard |
| --- | --- | --- | --- |
| Activity recorder and middleware (`internal/activity/activity.go`, `internal/server/activity_middleware.go`) | events of one request | `Record`, `flush` after a 2xx of a mutating request | best effort: a failing sink must not fail the request; a batch is all or nothing |
| Activity log and read state (`internal/postgres/activity.go`, `sql/queries/activity.sql`, `internal/services/activity`) | `activity_events`, `activity_read_floors`, `activity_event_reads` | insert, feed page, badge, mark one, mark all | seq is drawn at insert and seen at commit; mark-one and mark-all race; two representations of "read" |
| Live stream (`internal/activity/hub.go`, `internal/postgres/listen.go`, `internal/api/activity_stream_handler.go`) | LISTEN session, hub map, channels | publish, subscribe, unsubscribe, reconnect | sends against closes, full buffers, lost notifications, snapshot then stream |
| Stream tickets (`internal/activity/ticket.go`) | in-memory map | issue, redeem, sweep | single use, expiry at the boundary, clock read before the lock |
| Group membership (`internal/services/groups`, `internal/postgres/groups.go`, `users.go`) | `groups`, `group_members` | create, rename, invite, leave, soft delete | two or more transactions per request; checks on stale reads |
| Group titles and watched state (same files) | `group_titles`, `group_title_seasons` | add, remove, watched with and without a season | a recomputed rollup over rows that are not locked |
| Ratings (`internal/services/ratings`, `internal/postgres/ratings.go`) | `ratings`, `rating_seasons` | add, update, delete, delete season | read, decide, rewrite; two-query reads; a mean that is kept |
| Comments (`internal/services/comments`) | `comments`, `comment_seasons` | as ratings | as ratings; a comment XOR seasons |
| Titles and sync routine (`internal/services/titles`, `cmd/routines`) | `titles` | add, delete, nightly refresh by five workers | stale rewrite of whole rows |
| Users and authentication (`internal/services/users`, `internal/api/auth_handler.go`, `internal/server/middleware.go`) | `users`, the tokens clients hold | sign up, log in, update, delete, authenticate | read, merge, write of a profile; two unique names that change hands; a token outlives what it was given for |
| Paging policy (`internal/config`, `internal/postgres/store.go`) | none | normalize, offset, number of pages | overflow, boundaries |
| Title providers (`internal/titleprovider`) | TMDB's throttle | fetch, search, rate-limited and retried | goroutines that share a budget of requests, several requests per title, services that fail or hang |

How they interact: handlers call services, services call the store, the store
runs queries or transactions.  Handlers append events to a recorder in the
request's context; the middleware writes them as one batch after the response.
The batch's transaction sends a notification per event, which the LISTEN loop
receives, reads back and publishes into the hub; each stream handler holds one
subscriber of the hub.  A stream is opened with a ticket that an authenticated
request minted.  Feed queries join `group_members` and `groups`, so membership
changes decide what the feed shows.  Requests and the sync's workers call the
title provider, and all its goroutines share one throttle.  Groups, titles, ratings and comments share
the store but no locks: they meet only in rows.  A ticket of an
account that was deleted opens no stream.

## The modules

| Module | Models | Correspondence |
| --- | --- | --- |
| `ReadState` | the promise of the feed about read state | a log and one set of read events per reader |
| `ActivityFeed` | log, feed, badge, mark statements | `open`/`committed` are the rows of open and committed transactions; `floor`, `exceptions` the two tables; a statement that reads and writes is a Start step (its snapshot) and a Finish step (its commit) |
| `ActivityStream` | LISTEN loop, hub, handlers, clients | `loop` is where `ListenActivity` is, `todo` the subscribers `Publish` has yet to reach under the read lock, `pc` the life of each handler; `gap` and `dropped` are a ledger of the losses the design accepts |
| `StreamTickets` | ticket store and `OpenStream` | a call reads the clock in its Start step and takes the lock in the next |
| `Membership` | the promise of the group service | owner, members, deleted; one membership per step |
| `GroupMembership` | the group service | one action per transaction of a request; `request` holds what a request has read |
| `GroupTitles` | titles of a group, watched state | one action per statement of a season update; `call` holds what a request has read, and calls at `held` and `rolled` hold their season's row lock |
| `GroupFeed` | the feed on top of the group service | the memberships of `ActivityFeed` are those the transactions of `GroupMembership` leave in `group_members` and `groups` |
| `GroupStream` | the live stream on top of the group service | the memberships of `ActivityStream` are those of the groups that are not deleted, as `GetUserGroupIds` reads them |
| `Ratings` | ratings of movies and series | a read is two steps (row, then seasons), a write one |
| `Comments` | comments on movies and series | as `Ratings`; the ids of paths are kept apart from the rows they resolve to, and two groups from each other |
| `Catalogue` | requests that add and delete titles, the scheduled sync | `queue` is the channel of jobs, `worker` what each goroutine has in hand; a row is its `content`, which a sync refreshes, and its `origin`, which stands for all it keeps |
| `Paging` | the page parameters, offset and page count of a listing | integers up to `MaxInt` that wrap around; `Catalogue` extends it for the listing of its rows |
| `TitleProvider` | TMDB, OMDb and hybrid clients | `call` is where a `GetTitle` or `SearchTitles` is in its sequence of requests, `ahead` how far the throttle's `nextAllowed` lies in the future; `credit` is a ledger of what was sent |
| `Accounts` | users, logins and the middleware | one action per statement; `token` holds the tokens that have not expired, `request` what a request has read |
| `*Proofs` | theorems about the module of that name | `ActivityFeed`, `ActivityStream`, `Ratings`, `Comments`, `Catalogue` (and `Paging`), `TitleProvider` |
| `AccessProofs` | theorems about `StreamTickets` and `Accounts` | who gets in: the users of the one are the accounts of the other |
| `GroupProofs` | theorems about `GroupMembership`, `GroupFeed`, `GroupStream` and `GroupTitles` | a group with all that hangs on its memberships |
| `MC*` | instances for TLC | symmetry, and the bound `RaceBound` of `feed` |

Conventions.  A guard is a condition or an early return of the code; an
operation that fails without a write ends the request, so failing at the first
check is the action not being taken, and failing later is a step that frees the
request.  `Abandon` ends a request at any point between two transactions: a
client that goes, a server that stops, a statement that fails, a deadlock
victim.  Dates, notes, names and ids are members of small sets; formatting, JSON,
logging and validation of shapes are left out.  Definitions marked "Wrong on
purpose" are slips the corresponding definition must not make; with one of them
in its place, TLC finds the property it is paired with in `PROJECT.json`
violated.  No other definition uses them.

## The runs

| Run | Bounds | Shows |
| --- | --- | --- |
| `feed` | 2 users, 1 group, 2 writers, 2 sessions, 1 client, 3 events, page of 1, `RaceBound` | read state is monotone, what a mark-all reads, badge = feed, floors and marks stand on committed events of others, a walk misses nothing that stayed visible, refinement of `ReadState` |
| `stream` | 2 users (one of whom moves), 1 group that may be deleted, 2 connections, 2 events, 1 restart, buffer of 1, backoff 1..2 | no send on a closed channel, no silent gap, frames in commit order |
| `stream_live` | same, no membership changes, deleted groups or restarts | a stalled client delays nobody, the entry of a stream that ended leaves the hub, the loop listens again |
| `tickets` | 2 users, 2 tickets, 3 goroutines, TTL 2, clock to 4 | single use, expiry at the boundary, no stream for a user who is gone |
| `ratings` | 1 user, 1 group, a series of 3 seasons and a movie, notes 0 and 3 given, 2 requests, 2 ids | the mean, one rating per user, title and group, no resurrection, isolation of a season |
| `comments` | 2 users, 2 groups, a series of 2 seasons and a movie, 2 times, 2 requests, 2 ids | text or seasons, never both or neither; only the named comment changes; isolation of a season |
| `groups` | 2 users, 2 groups, 2 names, 2 requests | names are unique, nobody else removes a member, refinement of `Membership`, in which a live group keeps its owner |
| `group_titles` | 1 series of 2 seasons, 1 date, 2 requests | removal is final, a watched season shows, the rollup is right unless raced |
| `group_titles_rollup` | same | **violated**: the rollup after a race |
| `catalogue` | 2 ids, 2 origins, 2 contents, 2 requests, 2 workers; integers of 5 bits, pages of up to 5 | every listed title is processed once, a refresh keeps what it does not fetch and revives nothing, an answer is what is stored unless a read-back failed, the sync ends; every row is on one page |
| `provider` | hybrid and OMDb, 2 calls, 2 seasons or results, limit 1, 1 retry | the budget of requests, whole titles, full searches, every call ends unless a service hangs |
| `accounts` | 2 ids, 2 names, 2 passwords, 2 requests | every account is reachable by its own names, only its holder changes it, an update nobody overtook is exact |

Why these bounds. The races are between two statements or two requests, with a third
party (a writer, a membership change, the clock) that the modules keep as actions of
their own; two slots on each side give every order of their steps. Three events let
a statement see one, miss one and be overtaken by a third. A page of one row makes
every row a page boundary. `RaceBound` keeps the run of `feed` small: a client walks
only while no mark statement is in flight, since what a walk shows does not depend
on what is read, and two statements are in flight at once only as long as one user
acted; the proofs have no such bound. A buffer of one is full after one event.
`Movers` are the users who join and leave and `Dying` the groups that may be deleted;
in the composition with the group service they are all users and all groups. A TTL
of two ticks separates before, at and after the expiry, and a clock of four lets a
ticket expire while a call waits. Notes 0 and 3 have a mean on an exact half,
between two tenths, besides the exact means. Two groups and two names let names
collide and swap. One date is enough for a date to be there, missing or stale
against no date; the latest of two dates is left to the module's definition. Two ids
let a worker be busy with one title while the other waits, or goes; two origins let
a title be deleted and added again, or be added by two requests at once. Three
seasons give sums that a mean of two would not tell apart. Two items and a limit of
one let a search fill up half way through its results, and a season fail after
another one came; two calls contend for one slot of the throttle, and one retry is
the last one. Two names are enough for two accounts to swap them while an update
holds an old one. Integers of five bits overflow an offset from page 9 on, the sizes
asked for go through all of them, and listings up to six rows fill pages of five,
leave one over, or are empty; the rows `Catalogue` stores are at most two of these.
Deadlock is not checked: every system here may rest when its bounded supply of
events, ids or groups is used up, and a server may stay idle.

Fairness is assumed in `stream_live`, `catalogue` and `provider`.  In the first, weak fairness of the LISTEN loop and
of the steps of one handler says that the Go scheduler keeps running a goroutine
that can run; strong fairness of `Unsubscribe` says that a writer waiting for a
`sync.RWMutex` gets it (the mutex blocks new readers once a writer waits);
strong fairness of `Connect` says that a database that is dialled for ever
answers some day.  Nothing is assumed of clients or of the other handler, which
may stall for ever.  `ListensAgain` is therefore about the loop: it never ends,
and it never stops dialling.  `EntriesAreFreed` is about each return of a handler:
the request's context is done or a ping cannot be written (`ClientLeaves`), or a
frame cannot (`WriteFails`).  That a handler gets there is not assumed; that its deferred
unsubscribe then goes through, while `Publish` takes the read lock again and again, is
what is checked.  The third return of the loop, on a closed channel, is dead code:
nobody but the handler's own deferred unsubscribe closes it.  In `catalogue`, weak fairness of the main goroutine and
of each worker says that the scheduler runs them and that every call of a
provider or of the database returns, with an answer or an error.  For the
providers this is an assumption about the network: their clients set no timeout
(`http.DefaultClient`), and a call that never returns holds its worker, and the
sync, for ever.  Requests are under no fairness.  In `provider` the clock ticks and
each goroutine takes the steps that are its own (a slot, a timer, a send, an abort, a
wake-up); of the services nothing is assumed, so `EndsOrHangs` says that a call ends
unless a service never answers a request that its caller still waits for.

## What the violated run shows

* `TopIsWatchedIfASeasonIs`: two season updates of a series that overlap compute
  the series' flag each without the other's row; the later commit can leave the
  series unwatched with a season watched (`internal/postgres/groups.go:263`).
  `RollupUnlessRaced` says that this is the only way it goes wrong, and that the
  next update repairs it.

Things met while modelling that no run states: `UpdateRating` promises that the
previous rating it returns is the one this update overwrote
(`internal/services/ratings/ratings.go:358`), but it is read before the write, in
statements of its own, and two updates that overlap can both report the same one
(it is only used in the activity event, and `Ratings` does not keep it); the schema
(`sql/schema/008_activity_read_floor.sql:12`) says exception rows only describe
events above the floor, and a mark-one whose snapshot precedes a mark-all leaves
one below it (harmless, since read state is a union: `ReadStateSpec` holds without
it); two adds of one season's comment that overlap both succeed, the later over
the earlier; the delete of a comment does not look at the title in its URL, so
under another title of the group it succeeds and the activity event names that
title (`internal/postgres/comments.go:192`); a title that is deleted from the
catalogue and comes back with another type would have its comments read under
that type, which `Comments` excludes by fixing the type; an event whose insert began
before a mark-all and committed after it may be born read (the schema accepts
this, `sql/schema/008_activity_read_floor.sql:17`; it is the extra case of
`ReadState!Record`); a watched date is accepted for a season nobody has touched,
which has no row, although a season that is not watched refuses one
(`internal/services/groups/groups.go:451` and `:506`); a title that is deleted and
added again between a sync's read and its write gets the earlier row back,
`added_at` included (`cmd/routines/main.go:81`); a request that found a title
already stored answers the title it mapped itself if it cannot read that one back, be
it that it is gone or that the query failed, and its client is then told of a row
that is not the stored one (`internal/services/titles/titles.go:80`;
`AnswersWhatIsStored` is about the other requests and `ReadBackFails` is the exception);
the comment on mark-all says that an event its reader cannot see is not touched
(`internal/postgres/activity.go:131-133`), but the floor is one number, so that events
below it that are out of sight, of the reader's own or of groups they are not in,
become read too, and show as read should the reader join; the schema accepts this
(`sql/schema/008_activity_read_floor.sql:26-39`), and `MarkAllIsExact` states what the
code does; while OMDb fails, a sync
replaces IMDb's rating by the other provider's, which the comment calls graceful
degradation (`internal/titleprovider/hybrid/hybrid.go:40`); a watched update without a season is allowed on a series and
sets its flag directly; the second `UpdateUserGroup` of an invite brings a user
who left in between back; an update that names only the date writes the watched
flag it read back over a concurrent change.

Of the providers: the throttle spaces the times at which requests may go out, not
the requests; a goroutine that wakes late sends right before the next one, which is
why the budget of `WithinBudget` is a bucket and not a distance.  A sleep before a
retry does not look at the context (`internal/titleprovider/tmdb/tmdb.go:156`), and
a slot that was reserved for a cancelled request stays reserved.  A lookup that
fails, cancellation included, shortens the result of a search, so a search that was
given up half way answers a short list and no error.  The hybrid provider says a
rating never blocks a title (`internal/titleprovider/hybrid/hybrid.go:43`); an OMDb that
never answers does, since no client sets a timeout.

Of users: two updates of different fields that overlap lose one, as `UnracedUpdate`
says by exclusion; and an update that names only the display name writes back the
username it read, so it can be refused as a conflict if that username was given up and taken
meanwhile.  The 404 branch of a user's deletion is dead: the statement behind it does
not tell whether there was a row (`sql/queries/users.sql`).

Of paging: `MAX_PAGE_SIZE` has no upper bound, and with one near `MaxInt64` the page
count of the listing of all titles (`internal/services/titles/titles.go:47`) overflows;
`PagingAssumption` excludes it.  The offset is guarded at any size.

## What is proved

Eight modules are proved about, for every value of their constants: any sets of
users, groups, connections, requests and so on, any bound, buffer, page and time
to live.  Each has its types proved and, from them or from a strengthening, the
properties below.  The types of these modules, `BlipRecoversFast`,
`ExpiredIsSwept`, `OwnerIsMember`, `DeletedGroupIsFrozen` and the inductive invariants are
proved for every instance, so no run repeats them.

`ActivityFeedProofs`:

* `TypeCorrect`: `[]TypeOK`.  One step per action; a walk's step keeps its walk
  well formed (`ShowPageType`, `StillVisibleType`).
* `OnlyCommittedIsRead`: floors, exception rows and the statements in flight name
  committed events of other users.  An event can therefore be read when it commits only
  if somebody else's event was drawn later and committed earlier, which the
  schema accepts.  `FloorIsNews` is not inductive: a mark-all raises the floor in its second
  step to a value it read in its first.  `MarksAreNews` therefore speaks of the
  statements in flight as well, and `LogInv`, that a sequence number is drawn once,
  keeps the row an event names as it is; the inductive invariant is
  `IInv == TypeOK /\ LogInv /\ FloorIsNews /\ MarksAreNews`.
* `ReadIsForever`: `ReadStaysRead`, from the invariant and three lemmas that say
  what each statement does to a reader's set of read events (`MarkOneReads`,
  `MarkAllReads`, `OtherSteps`).
* `FeedImplementsReadState`: every behaviour of the two-table design is one of
  the promise in `ReadState`.  Initial states map to initial states; a commit,
  a mark-one, a mark-all and a deleted account map to the abstract step of that
  name (`CommitRefines`, `MarkOneRefines`, `MarkAllRefines`, `DeleteRefines`),
  every other step to a stutter.
* `MarkAllReadsItsSnapshot`, from the invariant: what a mark-all removes is below
  the floor it leaves, so what becomes read is what is committed up to its maximum, in
  sight or not, and nothing past it.
* `BadgeIsTheFeed`: the badge is a count over what a reader may see, and the feed is
  what a recursive function over cursors gathers page by page.  A page is the newest
  of what its cursor leaves (`RowsAreNewest`, `PageFacts`), so the pages from a cursor
  on are all of it (`WholeFeedIsVisible`).  That is an induction over cursors, done
  without an induction theorem: a cursor at which it fails has a least one
  (`HasLeast`), and there the function's own equation contradicts it.
* `WalksMissNothing`, from `WalkInv`: what a walk is owed is visible, and shown or
  still below its cursor.  It rests on `LogInv` too: what is committed in the middle of a walk is not what the walk is owed.

`ActivityStreamProofs`:

* `StreamTypesCorrect`.  The types alone are not inductive: `Publish` sends `cur`,
  which is an event only while the loop publishes, so `TypeInv` says that too.
* `NeverSendsOnClosed`, from `HubInv`: the subscribers a `Publish` has yet to reach
  are in the map, and there are some only while it holds the read lock; the map is
  the set of connections between `Subscribe` and `Unsubscribe`; a channel is closed only
  once its handler is done.  The step that needs all of it is `Unsubscribe`, which
  removes an entry only when no `Publish` is half way through the map.
* `BlipsRecoverFast`, from `BackoffIsReset`.
* `FramesStayInOrder`, from `OrderInv`: what a client was sent, what its channel
  buffers, what is being published and what is notified are, in this order, one
  increasing sequence, and the subscribers a `Publish` has yet to reach are the
  ones whose last event is older.
* `NoGapIsSilent`, step by step with `OwedInv`: what a connection is owed is about
  groups its subscriber captured and its user's feed shows.  An event is owed when it
  commits and then only moves: from the notifications to the loop, from there to each
  subscriber's buffer, from there to the client, or into the ledger of the losses.

`AccessProofs`, of the tickets:

* `TicketsAreSingleUse`, from `OnePlace`: at any time a ticket is with one call, in
  the map, or spent, never in two of these places, and it is drawn once.
* `ExpiredNeverRedeemed` and `ExpiredNeverKept`, from the types.
* `GoneNeverStreams`, from `GoneIsGone`: accounts do not come back.

and of the accounts:

* `AccountsStayReachable`, `HoldersOnly` and `UnracedUpdatesAreExact`, from
  `AccountInv`, which is the types and three parts that need each other.
  `NamesAreTheirs` is `EveryAccountLogsIn` said of pairs (`NamesLogIn` shows that it is
  the same).  It is not inductive: an update writes back names it read before, and an
  account that had neither name could not log in.  `RequestSound` therefore says that
  what is about to be written has a name, has the password of its token and, as long
  as nobody overtook the request, is the account as it is now with what the body names
  changed.  `TokenSound` says that a token names an id that was drawn and, while the
  account exists, was given for its password; ids are not drawn twice, so this holds
  for as long as a client keeps the token.  What a step may do to the table is said
  once (`TableSteps`, `KeptStep`): it signs one account up, writes one or deletes one.
* `TicketsAmongAccounts`: `StreamTickets` assumes that users disappear one at a time and
  never return.  If its users are the ids of `Accounts` and it takes for active those
  that are not gone, every step of `Accounts` is one `DeleteUser` or changes nothing
  it sees.

`GroupProofs`, of the group service:

* `OwnerStaysMember` and `RequestsStaySound`, from
  `IInv == TypeOK /\ OwnerIsMember /\ RequestsAreSound`.  An owner is removed only if
  a sweep runs on a live group or a leave is the owner's, so the invariant must
  say that requests in flight do neither (`WhoIsRemoved`); this in turn needs that
  groups keep their owner and stay deleted (`GroupsPersist`).
* `MembersLeaveThemselves` and `DeletedStaysFrozen`, from the same two lemmas.
* `NamesStayUnique`, inductive with the types.
* `GroupsImplementMembership`: creating maps to `Found`, both ways of adding to
  `Join`, the three ways of removing to `Leave`, marking to `Delete`, and every
  other step to a stutter.

of what hangs on it:

* `OneChange`: a step of the service adds one membership or removes one, deletes one
  group, deletes one account, or does nothing a reader can notice.  It is read off the
  refinement above, but for creating a group, which adds its owner to a group that
  has nobody else only because `NobodyIsInNoGroup`, which is inductive with it.
* `GroupsUnderFeed`: a behaviour of service and feed together (`GroupFeed`) is one of
  `GroupMembership` and one of `ActivityFeed`.  Each kind of change of `OneChange` is
  the feed's action of that name (`FeedMoves`), with what it takes away from walks and
  read state.
* `GroupsUnderStream`: the same of the stream.  A deleted group leaves all feeds in one
  step and may take all its members with it, which is `ActivityStream`'s
  `SoftDeleteGroup`; what happens to the members of a deleted group is nothing to it.
* `TitlesAmongGroups`: to a group's titles, and to any one of its users, a step of the
  service is `LeaveOrJoin`, `SoftDelete` or a stutter.

So `ActivityFeed`, `ActivityStream`, `GroupTitles` and `StreamTickets`, which let their
surroundings change on their own, assume nothing of them that the rest of the program
does not keep, and what is proved of them alone holds where they meet it.

and of the titles of a group:

* `RemovedStaysRemoved`, `WatchedSeasonsShow` and `UpdatesRepair`, from
  `TitlesInv == TitlesTypeOK /\ GoneIsBare /\ CallSound` for every call.  A season
  update writes its season in one step and the title in a later one.  `CallSound` says
  that the title's row is still there then, since a removal cascades to the season's
  row, which the update has locked (`LockKeepsTheRow`), and that the seasons it read
  have its own among them, as it wrote it.  `GoneIsBare`, that a title without a row has no season,
  is what makes a title that comes back blank.
* The rule that recomputes a title takes the latest of a set of dates.  The prover
  does not know that there is one: the distances from `MaxDate` have a least, by the
  library's well-foundedness of `<` on the naturals (`HasLatest`), and `RollupFacts` says
  what the rule yields without the set.

`RatingsProofs`:

* `KeysStayUnique` and `DeletedNeverReturns`, from what a step may do to one row
  (`OneRowStep`) and from `RowsAreDrawn`; the types rest on `NamesARow`, that a
  request past its first read names a row.
* `NoteStaysMean` and `WritesTouchOneSeason`, from
  `SeasonInv == TypeInv /\ RowsAreDrawn /\ AllSound /\ NoteIsMean`.  `NoteIsMean` is not
  inductive: a write takes its seasons from a read made earlier, and whether the row
  is a series' from the key it read then.  `AllSound` says that the key is still the
  row's, that what is left to write is not empty unless it deletes the row, and that,
  as long as nobody wrote the row meanwhile, it differs from the row in one season.
  The sum over the seasons needs no induction: the code's mean and the property bound
  the note by the same sum, which stays closed.

`CommentsProofs`:

* `TextXorSeasons`, from `IInv == TypeOK /\ RowsAreDrawn /\ TextOrSeasons /\
  RequestsAreSound`.  `TextOrSeasons` is not inductive: a row is rewritten from
  what a request read earlier.  `RequestsAreSound` says what such a request
  carries: a text or seasons that suit its title, the key of the row it names
  for as long as that row exists, and, while no other write has touched the row
  since its read, seasons that are the row's but for the one it changes.  It
  needs `RowsAreDrawn`: an id whose row is gone never names another row.
* `OnlyNamedChanges`, from `WhoChanges`, that only the write of the request that
  names a row changes it, and `UnracedDoesAsAsked`, from the last part of
  `RequestsAreSound`.

`CatalogueProofs`:

* `EveryTitleOnce`, `AnswersAreStored` (of the requests whose read-back did not fail)
  and `RefreshLosesNothing`, from
  `IInv == TypeOK /\ AllSound /\ PoolSound /\ EachTitleOnce`.  `AllSound` says what a
  request or a worker holds between its read and its use of it: a title, and, as
  long as nobody else replaced the row, one whose origin is the row's.  That another
  worker's write does not disturb it needs `EachTitleOnce`: no two workers hold one
  title.  `PoolSound` says that a worker has returned only when the channel is
  closed and empty, which is why nothing listed is left when the last one returns.
* `PagesPartitionTheRows`: the number of stored titles is one of the lengths that
  `Paging` pages through without a gap or an overlap, and these are all lengths up to
  `MaxRows` (`EveryLengthIsPagedOnce`).  The guard of the offset is what makes its
  product exact (`WrappedIsExact`); the rest is division with remainder
  (`RowsOfAPage`, `PagesInAll`).

`TitleProviderProofs`:

* `BudgetIsKept`.  That the bucket is not overdrawn is not inductive, since a slot is
  reserved in one step and used in a later one.  `Budget` says that for every time T
  the bucket, refilled until T, pays for all slots that come due by T, and that once
  `nextAllowed` has come it pays for all slots and one request more.  The step that
  needs both is `Reserve`, the one that needs every T is `Tick`.
* `TitlesAreWhole` and `SearchesAreFull`, from `CallSound`: what a call has counted when
  it is at a given request of its sequence (`CountSound`), and that no retry is left
  to a call that slept the last one.

The assumptions are those the modules state about their constants: bounds are
natural numbers, some are positive, sets that are counted are finite, and the values
that stand for nothing are not values of the sort they stand beside.
`PagingAssumption` keeps rows and size from overflowing together (see above), and
`ListingAssumption` the stored titles within the rows `Paging` looks at.
`ProviderAssumption` says that the powers of two a backoff uses are natural numbers,
which the provers do not know.  TLC evaluates all of them on the runs of their
modules.

## What is only model-checked, and what is not modelled

Every safety property that a run checks is also proved, and so are the refinements.
What is only model-checked is liveness, which needs fairness (`StalledClientDelaysNobody`,
`EntriesAreFreed` and `ListensAgain`, `SyncEnds`, `EndsOrHangs`), and that the rollup after a race is wrong
(`group_titles_rollup`), for which one instance is enough.  The compositions `GroupFeed`
and `GroupStream`, on the other hand, have proofs and no run.

Not modelled: HTTP and JSON, validation of shapes, the hashing of passwords and the
signature of tokens (a hash stands for its password, and a token is not forged), reads
that only list (a group's titles with their filters, batches of ratings, the users),
which handlers record which events and the recorder's filters by method and status,
keep-alive pings, migrations, generated queries, the mapping of a provider's fields, the
legacy imdbapi client, backups and images.  `PROJECT.json` lists every part with its
status.

## Plan

1. Done: the activity feed, the stream, tickets, membership, watched state, ratings,
   comments, the catalogue, its sync and its paging, the providers and the accounts;
   the membership under the feed, the stream and the watched state, and the accounts
   under the tickets; proofs of every safety property.
2. Worth adding: the seasons that ratings, comments and watched updates validate
   against, while a sync changes them; the filters and the order of a group's titles
   against a reference definition; the accounts under the group service and the
   feed; the imdbapi client's walk through page tokens.
3. Worth proving: what the additions above will state; and, of what there is, that the
   accounts `GroupMembership` deletes are those of `Accounts`, as for the tickets.
