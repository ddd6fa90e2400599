------------------------------ MODULE Ratings ------------------------------
(***************************************************************************)
(* The ratings of titles: one row per user, title and group, and for a     *)
(* series one note per season with the row's own note kept as their mean.  *)
(*                                                                         *)
(* Every change but the first is a read, a decision in the service and a   *)
(* write of the whole row.  A read is two queries (the row, then its       *)
(* seasons), so it is two steps here; a write is one transaction that      *)
(* locks the row first, so it is one.  Requests of the same user overlap:  *)
(* two tabs, a double click, a retried call.                               *)
(***************************************************************************)
EXTENDS Integers, FiniteSets, FiniteSetsExt

CONSTANTS Users, Groups, Titles,
          Series,     \* the titles that are series; the others are movies
          Seasons,    \* season numbers
          Ids,        \* rating ids; none is drawn twice
          MaxNote,    \* the highest note, in tenths
          Given,      \* bound: the notes that requests give
          Requests,   \* requests in flight
          NoRow,      \* an id that names no row
          NoRequest,  \* a request slot that is free
          Unrated     \* a season without a note

Notes   == 0..MaxNote
BySeason == [Seasons -> Notes \cup {Unrated}]
Key     == [user : Users, title : Titles, group : Groups]
Row     == [key : Key, note : Notes, seasons : BySeason]
NoSeasons == [s \in Seasons |-> Unrated]

ASSUME RatingsAssumption ==
    /\ MaxNote \in Nat /\ Given \subseteq Notes
    /\ Series \subseteq Titles
    /\ IsFiniteSet(Seasons)
    /\ Unrated \notin Notes /\ NoRow \notin Row

VARIABLES
    row,      \* ratings and rating_seasons, by id
    drawn,    \* the ids AddRating has used
    request   \* the requests in flight

vars == <<row, drawn, request>>

(* "read": the row is read and its seasons are not; "reread": the second   *)
(* read's seasons are not; "write": what is left is to write `seasons`.    *)
Request == [op : {"add", "update", "delete", "deleteSeason"},
            at : {"read", "reread", "insert", "write"},
            id : Ids \cup {NoRow}, key : Key,
            season : Seasons, note : Notes,
            seasons : BySeason,
            alone : BOOLEAN]   \* history: no write to the row since its last read

ASSUME RequestAssumption == NoRequest \notin Request

TypeOK ==
    /\ row \in [Ids -> Row \cup {NoRow}]
    /\ drawn \in SUBSET Ids
    /\ request \in [Requests -> Request \cup {NoRequest}]

-----------------------------------------------------------------------------
Rated(f) == {s \in Seasons : f[s] # Unrated}

Sum(f) == MapThenSumSet(LAMBDA s : f[s], Rated(f))

(* Wrong on purpose: the lowest note. *)
LowestNotes(f) == {x \in Notes : \E s \in Rated(f) : f[s] = x /\ \A z \in Rated(f) : x <= f[z]}

(* overallNote: the mean rounded to one decimal.  The sum runs over a map  *)
(* in no order, so an exact half may go either way.                        *)
OverallNotes(f) ==
    LET n == Cardinality(Rated(f))
    IN  {x \in Notes : /\ 2 * (n * x - Sum(f)) <= n
                       /\ 2 * (Sum(f) - n * x) <= n}

IsSeries(k) == k.title \in Series

(* GetRatingRowByUserTitle: the id of the key's row *)
RowOf(k) == {i \in Ids : row[i] # NoRow /\ row[i].key = k}

Init == /\ row = [i \in Ids |-> NoRow]
        /\ drawn = {}
        /\ request = [r \in Requests |-> NoRequest]

-----------------------------------------------------------------------------
(* The store.  `self` is the request whose transaction commits: every other *)
(* request that has read the row no longer holds its latest state.          *)

Done(self, id) ==
    request' = [r \in Requests |->
                  CASE r = self -> NoRequest
                    [] r # self /\ request[r] # NoRequest /\ request[r].id = id
                         -> [request[r] EXCEPT !.alone = FALSE]
                    [] OTHER -> request[r]]

(* Wrong on purpose: no unique key; every insert goes through. *)
AddRatingRowAnyway(self, k, note, seasons) ==
    \E i \in Ids \ drawn :
       /\ row' = [row EXCEPT ![i] = [key |-> k, note |-> note, seasons |-> seasons]]
       /\ drawn' = drawn \cup {i}
       /\ Done(self, i)

(* store.AddRating: the unique key (user, title, group) rejects a second row. *)
AddRatingRow(self, k, note, seasons) ==
    IF RowOf(k) # {}
    THEN /\ request' = [request EXCEPT ![self] = NoRequest]
         /\ UNCHANGED <<row, drawn>>
    ELSE \E i \in Ids \ drawn :
           /\ row' = [row EXCEPT ![i] = [key |-> k, note |-> note, seasons |-> seasons]]
           /\ drawn' = drawn \cup {i}
           /\ Done(self, i)

(* Wrong on purpose: an upsert. *)
UpsertRatingRow(self, i, note, seasons) ==
    /\ row' = [row EXCEPT ![i] = [key |-> request[self].key, note |-> note,
                                  seasons |-> seasons]]
    /\ Done(self, i)
    /\ UNCHANGED drawn

(* store.UpdateRating: the note and the whole set of seasons are replaced; *)
(* a row that is gone is not found.                                        *)
UpdateRatingRow(self, i, note, seasons) ==
    /\ row' = IF row[i] = NoRow THEN row
              ELSE [row EXCEPT ![i].note = note, ![i].seasons = seasons]
    /\ Done(self, i)
    /\ UNCHANGED drawn

(* store.DeleteRating: the seasons go with the row. *)
DeleteRatingRow(self, i) ==
    /\ row' = [row EXCEPT ![i] = NoRow]
    /\ Done(self, i)
    /\ UNCHANGED drawn

Fail(r) == /\ request' = [request EXCEPT ![r] = NoRequest]
           /\ UNCHANGED <<row, drawn>>

Begin(r, op, at, i, k, s, n) ==
    request' = [request EXCEPT ![r] =
       [op |-> op, at |-> at, id |-> i, key |-> k, season |-> s, note |-> n,
        seasons |-> NoSeasons, alone |-> TRUE]]

-----------------------------------------------------------------------------
(* AddRating *)

(* The title and the row of the key are read.  A movie that has a rating   *)
(* is refused.  So is a season the series does not have: the sync routine  *)
(* may rewrite a title's seasons at any time, so any season may be had.    *)
AddRating(r, k, s, n) ==
    /\ request[r] = NoRequest
    /\ IsSeries(k) \/ RowOf(k) = {}
    /\ IF RowOf(k) = {} THEN Begin(r, "add", "insert", NoRow, k, s, n)
       ELSE \E i \in RowOf(k) : Begin(r, "add", "reread", i, k, s, n)
    /\ UNCHANGED <<row, drawn>>

(* No row was found: insert one. *)
InsertRating(r) ==
    /\ request[r] # NoRequest /\ request[r].at = "insert"
    /\ LET q == request[r]
           first == [NoSeasons EXCEPT ![q.season] = q.note]
       IN  IF IsSeries(q.key)
           THEN \E x \in OverallNotes(first) : AddRatingRow(r, q.key, x, first)
           ELSE AddRatingRow(r, q.key, q.note, NoSeasons)

-----------------------------------------------------------------------------
(* UpdateRating, DeleteRating, DeleteRatingSeason: by id and owner *)

(* The row as it stands is read first, its seasons by a second query. *)
ReadRating(r, op, i, u, s, n) ==
    /\ request[r] = NoRequest
    /\ row[i] # NoRow /\ row[i].key.user = u
    /\ Begin(r, op, "read", i, row[i].key, s, n)
    /\ UNCHANGED <<row, drawn>>

SeasonsOf(i) == IF row[i] = NoRow THEN NoSeasons ELSE row[i].seasons

(* GetRatingById's second query.  What happens next depends on the title:  *)
(* the season must be there for a series, a movie's row is written as is.  *)
ReadPrevious(r) ==
    /\ request[r] # NoRequest /\ request[r].at = "read"
    /\ LET q == request[r]
           found == SeasonsOf(q.id)
           next(at) == request' = [request EXCEPT ![r].at = at, ![r].alone = TRUE]
       IN  CASE q.op = "delete" -> next("write") /\ UNCHANGED <<row, drawn>>
             [] q.op = "update" /\ ~IsSeries(q.key)
                  -> next("write") /\ UNCHANGED <<row, drawn>>
             [] q.op = "update" /\ IsSeries(q.key) /\ q.season \in Rated(found)
                  -> next("reread") /\ UNCHANGED <<row, drawn>>
             [] q.op = "deleteSeason" /\ IsSeries(q.key)
                  -> \/ next("reread") /\ UNCHANGED <<row, drawn>>
                     \/ Fail(r)   \* not a season of the title
             [] OTHER -> Fail(r)

(* Wrong on purpose: the season replaces the others. *)
DecidedAlone(q, found) == {[NoSeasons EXCEPT ![q.season] = q.note]}

(* What the service makes of the seasons it read: the season is added, and *)
(* must not be there; or changed or deleted, and must be there.            *)
Decided(q, found) ==
    CASE q.op = "add" /\ q.season \notin Rated(found) -> {[found EXCEPT ![q.season] = q.note]}
      [] q.op = "update" /\ q.season \in Rated(found) -> {[found EXCEPT ![q.season] = q.note]}
      [] q.op = "deleteSeason" /\ q.season \in Rated(found)
           -> {[found EXCEPT ![q.season] = Unrated]}
      [] OTHER -> {}

(* The seasons the write will be made from are read. *)
ReadSeasons(r) ==
    /\ request[r] # NoRequest /\ request[r].at = "reread"
    /\ LET q == request[r]
           next == IF IsSeries(q.key) THEN Decided(q, SeasonsOf(q.id)) ELSE {}
       IN  IF next = {} THEN Fail(r)
           ELSE /\ \E f \in next :
                      request' = [request EXCEPT ![r].at = "write", ![r].seasons = f,
                                                 ![r].alone = TRUE]
                /\ UNCHANGED <<row, drawn>>

(* The write: the rating with its last season goes as a whole. *)
WriteRating(r) ==
    /\ request[r] # NoRequest /\ request[r].at = "write"
    /\ LET q == request[r]
       IN  CASE q.op = "delete" -> DeleteRatingRow(r, q.id)
             [] q.op = "deleteSeason" /\ Rated(q.seasons) = {} -> DeleteRatingRow(r, q.id)
             [] q.op # "delete" /\ Rated(q.seasons) # {} ->
                  \E x \in OverallNotes(q.seasons) : UpdateRatingRow(r, q.id, x, q.seasons)
             [] OTHER -> UpdateRatingRow(r, q.id, q.note, NoSeasons)

(* The client goes away or the server stops between two statements. *)
Abandon(r) ==
    /\ request[r] # NoRequest
    /\ Fail(r)

-----------------------------------------------------------------------------
Next == \E r \in Requests :
              \/ \E k \in Key, s \in Seasons, n \in Given : AddRating(r, k, s, n)
              \/ \E i \in Ids, u \in Users, s \in Seasons :
                    \/ \E n \in Given : ReadRating(r, "update", i, u, s, n)
                    \/ ReadRating(r, "deleteSeason", i, u, s, 0)
                    \/ ReadRating(r, "delete", i, u, s, 0)
              \/ InsertRating(r) \/ ReadPrevious(r) \/ ReadSeasons(r) \/ WriteRating(r)
              \/ Abandon(r)

Spec == Init /\ [][Next]_vars

-----------------------------------------------------------------------------
(* Properties *)

(* A series' note is the mean of its season notes to the nearest tenth and *)
(* a rating always has a season left; a movie's rating has no seasons.     *)
(* Reads torn between the row and its seasons, writes of stale seasons and *)
(* deletes of the last one keep it so.                                     *)
NoteIsMean ==
    \A i \in Ids : row[i] # NoRow =>
       IF IsSeries(row[i].key)
       THEN LET n == Cardinality(Rated(row[i].seasons))
                total == Sum(row[i].seasons)
            IN  /\ n > 0
                /\ 2 * (n * row[i].note - total) <= n
                /\ 2 * (total - n * row[i].note) <= n
       ELSE row[i].seasons = NoSeasons

(* A user has at most one rating of a title in a group, whatever adds race. *)
OneRatingPerKey ==
    \A i, j \in Ids :
       row[i] # NoRow /\ row[j] # NoRow /\ row[i].key = row[j].key => i = j

(* A rating that was deleted never comes back under its id: a request that *)
(* read it before writes nothing.                                          *)
DeletedStaysDeleted ==
    [][\A i \in drawn : row[i] = NoRow => row'[i] = NoRow]_vars

(* A write that no other write to its row overlapped changes the season it *)
(* was asked to, and no other.                                             *)
OnlyItsSeason ==
    [][\A r \in Requests, i \in Ids :
         /\ request[r] # NoRequest /\ request[r].id = i /\ request[r].alone
         /\ request[r].op # "delete" /\ WriteRating(r)
         => \A s \in Seasons \ {request[r].season} :
               SeasonsOf(i)[s] = SeasonsOf(i)'[s]]_vars
=============================================================================
