------------------------------ MODULE Comments ------------------------------
(***************************************************************************)
(* The comments on titles: one row per user, title and group.  A movie's   *)
(* row holds a text; a series' row holds none and has a comment per season.*)
(*                                                                         *)
(* A lookup is two queries (the row, then its seasons) and so two steps; a *)
(* write is one transaction that locks the row first and replaces all its  *)
(* seasons, one step.  Requests overlap.  Whether the group holds the      *)
(* title, the caller is in the group and the title has the season may      *)
(* change at any moment under other requests: any request may be let in,   *)
(* and one that is not changes nothing.                                    *)
(***************************************************************************)
EXTENDS Naturals, FiniteSets

CONSTANTS Users, Groups, Titles,
          Series,     \* the titles that are series; the others are movies
          Seasons,    \* season numbers
          Ids,        \* comment ids; none is drawn twice
          Texts,      \* what a comment may say; never blank
          Times,      \* bound: the times of requests
          Requests,   \* requests in flight
          NoText,     \* the row's own text left NULL
          NoComment,  \* an id that names no row, a season without a comment
          NoRequest   \* a request slot that is free

SeasonComment == [text : Texts, addedAt : Times]
BySeason      == [Seasons -> SeasonComment \cup {NoComment}]
NoSeasons     == [s \in Seasons |-> NoComment]
Key           == [user : Users, title : Titles, group : Groups]
Comment       == [key : Key, text : Texts \cup {NoText}, seasons : BySeason]

ASSUME CommentsAssumption ==
    /\ Series \subseteq Titles
    /\ NoText \notin Texts
    /\ NoComment \notin SeasonComment \cup Comment \cup Ids

VARIABLES
    comment,  \* comments and comment_seasons, by id
    drawn,    \* the ids AddComment has used
    request   \* the requests in flight

vars == <<comment, drawn, request>>

(* "lookup": the row is found and its seasons are not read; "write": what  *)
(* is left is to write `text` and `seasons`.                               *)
Request == [op : {"add", "update", "delete", "deleteSeason"},
            at : {"insert", "lookup", "write"},
            key : Key,                    \* the caller, and the URL or body
            id : Ids \cup {NoComment},    \* the row it works on
            season : Seasons \cup {NoComment}, said : Texts \cup {NoText},
            text : Texts \cup {NoText}, seasons : BySeason,
            alone : BOOLEAN]   \* history: no write to the row since its last read

ASSUME RequestAssumption == NoRequest \notin Request

TypeOK ==
    /\ comment \in [Ids -> Comment \cup {NoComment}]
    /\ drawn \in SUBSET Ids
    /\ request \in [Requests -> Request \cup {NoRequest}]

-----------------------------------------------------------------------------
IsSeries(k) == k.title \in Series

Commented(f) == {s \in Seasons : f[s] # NoComment}

At(r, step) == request[r] # NoRequest /\ request[r].at = step

(* GetUserCommentRowByTitle: the row of (title, user, group), if any *)
RowOf(k) == {i \in Ids : comment[i] # NoComment /\ comment[i].key = k}

(* GetCommentSeasons: no season for a row that has gone *)
SeasonsOf(i) == IF comment[i] = NoComment THEN NoSeasons ELSE comment[i].seasons

Init == /\ comment = [i \in Ids |-> NoComment]
        /\ drawn = {}
        /\ request = [r \in Requests |-> NoRequest]

-----------------------------------------------------------------------------
(* The store *)

(* The request whose transaction commits is over; the others that have     *)
(* read the row no longer hold its latest state.                           *)
Done(self, id) ==
    request' = [r \in Requests |->
                  CASE r = self -> NoRequest
                    [] r # self /\ request[r] # NoRequest /\ request[r].id = id
                         -> [request[r] EXCEPT !.alone = FALSE]
                    [] OTHER -> request[r]]

Fail(r) == /\ request' = [request EXCEPT ![r] = NoRequest]
           /\ UNCHANGED <<comment, drawn>>

(* store.AddComment: the unique key (user, title, group) rejects a second  *)
(* row; the row and its season are inserted together.                      *)
AddCommentRow(self, k, text, seasons) ==
    IF RowOf(k) # {} THEN Fail(self)
    ELSE \E i \in Ids \ drawn :
           /\ comment' = [comment EXCEPT ![i] = [key |-> k, text |-> text,
                                                 seasons |-> seasons]]
           /\ drawn' = drawn \cup {i}
           /\ Done(self, i)

(* store.UpdateComment: by id and author, the text and the whole set of    *)
(* seasons; a row that is gone is not found.                               *)
UpdateCommentRow(self, i, text, seasons) ==
    /\ comment' = IF comment[i] = NoComment \/ comment[i].key.user # request[self].key.user
                  THEN comment
                  ELSE [comment EXCEPT ![i].text = text, ![i].seasons = seasons]
    /\ Done(self, i)
    /\ UNCHANGED drawn

(* Wrong on purpose: by id and author only. *)
DeleteInAnyGroup(self, i) ==
    /\ comment' = IF comment[i] = NoComment \/ comment[i].key.user # request[self].key.user
                  THEN comment
                  ELSE [comment EXCEPT ![i] = NoComment]
    /\ Done(self, i)
    /\ UNCHANGED drawn

(* store.DeleteComment: by id, author and group; the seasons cascade.      *)
DeleteCommentRow(self, i) ==
    LET k == request[self].key
    IN  /\ comment' = IF /\ comment[i] # NoComment
                         /\ comment[i].key.user = k.user /\ comment[i].key.group = k.group
                      THEN [comment EXCEPT ![i] = NoComment]
                      ELSE comment
        /\ Done(self, i)
        /\ UNCHANGED drawn

-----------------------------------------------------------------------------
(* The handlers *)

(* A handler whose guards let the request in. *)
Begin(r, op, step, k, i, s, x, text) ==
    /\ request[r] = NoRequest
    /\ request' = [request EXCEPT ![r] =
          [op |-> op, at |-> step, key |-> k, id |-> i, season |-> s, said |-> x,
           text |-> text, seasons |-> NoSeasons, alone |-> TRUE]]
    /\ UNCHANGED <<comment, drawn>>

(* A movie's comment is inserted unseen.  A series' row is looked up first *)
(* and, where there is one, takes the season in and keeps its text.        *)
AddComment(r, k, s, x) ==
    IF ~IsSeries(k) THEN Begin(r, "add", "insert", k, NoComment, s, x, x)
    ELSE IF RowOf(k) = {} THEN Begin(r, "add", "insert", k, NoComment, s, x, NoText)
    ELSE \E i \in RowOf(k) : Begin(r, "add", "lookup", k, i, s, x, comment[i].text)

InsertComment(r) ==
    /\ At(r, "insert")
    /\ LET q == request[r]
       IN  IF IsSeries(q.key)
           THEN \E t \in Times :
                   AddCommentRow(r, q.key, NoText,
                      [NoSeasons EXCEPT ![q.season] = [text |-> q.said, addedAt |-> t]])
           ELSE AddCommentRow(r, q.key, q.said, NoSeasons)

(* The path's id must name the row that (title, user, group) resolves to.  *)
(* A movie's new text replaces the old; a series' row is left without one. *)
UpdateComment(r, k, i, s, x) ==
    /\ i \in RowOf(k)
    /\ Begin(r, "update", "lookup", k, i, s, x, IF IsSeries(k) THEN NoText ELSE x)

(* A series only; the row keeps its text. *)
DeleteCommentSeason(r, k, i, s) ==
    /\ IsSeries(k) /\ i \in RowOf(k)
    /\ Begin(r, "deleteSeason", "lookup", k, i, s, NoText, comment[i].text)

(* The path's id goes to the store as it came. *)
DeleteComment(r, k, i) ==
    Begin(r, "delete", "write", k, i, NoComment, NoText, NoText)

(* Wrong on purpose: the season's addedAt is set anew. *)
ChangedAnew(q, found) ==
    CASE q.op = "deleteSeason" /\ found[q.season] # NoComment
           -> {[found EXCEPT ![q.season] = NoComment]}
      [] q.op \in {"add", "update"} /\ (q.op = "add" <=> found[q.season] = NoComment)
           -> {[found EXCEPT ![q.season] = [text |-> q.said, addedAt |-> t]] : t \in Times}
      [] OTHER -> {}

(* What the service makes of the seasons it read: an add needs the season  *)
(* to have no comment, an update or a delete needs it to have one; an      *)
(* update keeps the time the season's comment was added.                   *)
Changed(q, found) ==
    CASE q.op = "add" /\ found[q.season] = NoComment
           -> {[found EXCEPT ![q.season] = [text |-> q.said, addedAt |-> t]] : t \in Times}
      [] q.op = "update" /\ found[q.season] # NoComment
           -> {[found EXCEPT ![q.season].text = q.said]}
      [] q.op = "deleteSeason" /\ found[q.season] # NoComment
           -> {[found EXCEPT ![q.season] = NoComment]}
      [] OTHER -> {}

(* The lookup's second query, and the decision.  A movie's seasons are     *)
(* dropped whatever they are.                                              *)
ReadSeasons(r) ==
    /\ At(r, "lookup")
    /\ LET q    == request[r]
           next == IF IsSeries(q.key) THEN Changed(q, SeasonsOf(q.id)) ELSE {NoSeasons}
       IN  IF next = {} THEN Fail(r)
           ELSE /\ \E f \in next :
                      request' = [request EXCEPT ![r].at = "write", ![r].seasons = f,
                                                 ![r].alone = TRUE]
                /\ UNCHANGED <<comment, drawn>>

(* Wrong on purpose: the row stays when its last season goes. *)
NeverLast(q) == q.op = "delete"

(* With the last season the whole row goes. *)
DeletesRow(q) == \/ q.op = "delete"
                 \/ q.op = "deleteSeason" /\ Commented(q.seasons) = {}

WriteComment(r) ==
    /\ At(r, "write")
    /\ LET q == request[r]
       IN  IF DeletesRow(q) THEN DeleteCommentRow(r, q.id)
           ELSE UpdateCommentRow(r, q.id, q.text, q.seasons)

(* The client goes away or the server stops between two statements. *)
Abandon(r) == request[r] # NoRequest /\ Fail(r)

-----------------------------------------------------------------------------
Next == \E r \in Requests :
              \/ \E k \in Key, i \in Ids : DeleteComment(r, k, i)
              \/ \E k \in Key, s \in Seasons :
                    \/ \E i \in Ids : DeleteCommentSeason(r, k, i, s)
                    \/ \E x \in Texts : \/ AddComment(r, k, s, x)
                                        \/ \E i \in Ids : UpdateComment(r, k, i, s, x)
              \/ InsertComment(r) \/ ReadSeasons(r) \/ WriteComment(r)
              \/ Abandon(r)

Spec == Init /\ [][Next]_vars

-----------------------------------------------------------------------------
(* Properties *)

(* The comment invariants of docs/CONVENTIONS.md: a movie's comment has a  *)
(* text and no seasons, a series' comment has no text and at least one     *)
(* season, however lookups, stale writes and deletes of the last season    *)
(* interleave.                                                             *)
TextOrSeasons ==
    \A i \in Ids : comment[i] # NoComment =>
       IF IsSeries(comment[i].key)
       THEN comment[i].text = NoText /\ Commented(comment[i].seasons) # {}
       ELSE comment[i].text # NoText /\ comment[i].seasons = NoSeasons

(* A comment is changed by its author only, and by a request to its own    *)
(* group: an id taken from another group's list reaches nothing, whatever  *)
(* happens between the lookup and the write.  Only a delete may name it    *)
(* under another title of the group.                                       *)
OnlyTheNamedComment ==
    [][\A i \in Ids : comment[i] # NoComment /\ comment'[i] # comment[i] =>
         \E r \in Requests :
            /\ request[r] # NoRequest /\ request'[r] = NoRequest
            /\ request[r].id = i
            /\ request[r].key.user = comment[i].key.user
            /\ request[r].key.group = comment[i].key.group
            /\ request[r].op # "delete" => request[r].key = comment[i].key]_vars

(* A write that no other write to its row overlapped does what was asked:  *)
(* the other seasons stay as they are, an add fills a season that had no   *)
(* comment, an update keeps when the season's comment was added.           *)
UnracedWrite ==
    [][\A r \in Requests, i \in Ids :
         /\ WriteComment(r)
         /\ request[r].alone /\ request[r].op # "delete"
         /\ request[r].id = i /\ comment[i] # NoComment
         => LET q   == request[r]
                old == SeasonsOf(i)
                new == SeasonsOf(i)'
            IN  /\ \A s \in Seasons \ {q.season} : new[s] = old[s]
                /\ IsSeries(q.key) =>
                     /\ old[q.season] = NoComment <=> q.op = "add"
                     /\ new[q.season] = NoComment <=> q.op = "deleteSeason"
                     /\ q.op = "update" =>
                          new[q.season].addedAt = old[q.season].addedAt]_vars
=============================================================================
