---------------------------- MODULE CommentsProofs ----------------------------
(***************************************************************************)
(* Theorems about Comments, for every set of users, groups, titles,        *)
(* seasons, ids and requests: its types, that a comment has a text or      *)
(* seasons, that only the named comment changes, and what a write does     *)
(* that nothing overlapped.                                                *)
(***************************************************************************)
EXTENDS Comments, TLAPS

(* What a request knows and relies on.  A delete knows nothing; any other  *)
(* request past its first step works on an id that was drawn and that can  *)
(* name no row but the one of its key; one about to write holds a text or  *)
(* seasons as its title has them, and, unless its row was written since it *)
(* read it, the seasons it would decide on now.                            *)
Sound(q) ==
    /\ q.op = "delete" => q.at = "write"
    /\ q.at = "insert" => q.op = "add"
    /\ q.at # "insert" => q.id \in Ids
    /\ q.op # "delete" =>
          /\ q.season \in Seasons
          /\ q.op # "deleteSeason" => q.said \in Texts
          /\ q.op = "deleteSeason" => IsSeries(q.key)
          /\ IsSeries(q.key) => q.text = NoText
          /\ ~IsSeries(q.key) => q.text \in Texts
    /\ q.op # "delete" /\ q.at # "insert" =>
          /\ q.id \in drawn
          /\ comment[q.id] # NoComment => comment[q.id].key = q.key
    /\ q.op # "delete" /\ q.at = "write" =>
          /\ IsSeries(q.key) /\ Commented(q.seasons) = {} => q.op = "deleteSeason"
          /\ ~IsSeries(q.key) => q.seasons = NoSeasons
          /\ IsSeries(q.key) /\ q.alone => q.seasons \in Changed(q, SeasonsOf(q.id))

RequestsAreSound == \A r \in Requests : request[r] # NoRequest => Sound(request[r])

RowsAreDrawn == \A i \in Ids : comment[i] # NoComment => i \in drawn

(* The inductive invariant. *)
IInv == TypeOK /\ RowsAreDrawn /\ TextOrSeasons /\ RequestsAreSound

-----------------------------------------------------------------------------
(* Operators *)

LEMMA SeasonsType ==
    ASSUME TypeOK, NEW i \in Ids
    PROVE  SeasonsOf(i) \in BySeason
  BY DEF SeasonsOf, TypeOK, Comment, NoSeasons, BySeason

(* What a change makes of well-formed seasons is well formed, and only a   *)
(* delete can leave none.                                                  *)
LEMMA ChangedFacts ==
    ASSUME NEW q \in Request, NEW found \in BySeason, NEW f \in Changed(q, found),
           q.season \in Seasons,
           q.op # "deleteSeason" => q.said \in Texts
    PROVE  /\ f \in BySeason
           /\ q.op # "deleteSeason" => f[q.season] # NoComment
           /\ q.op = "deleteSeason" => f[q.season] = NoComment
           /\ \A s \in Seasons \ {q.season} : f[s] = found[s]
           /\ q.op \in {"add", "update", "deleteSeason"}
           /\ found[q.season] = NoComment <=> q.op = "add"
           /\ q.op = "update" => f[q.season].addedAt = found[q.season].addedAt
  <1> USE CommentsAssumption
  <1>1. CASE q.op = "add" /\ found[q.season] = NoComment
    <2>1. PICK t \in Times : f = [found EXCEPT ![q.season] = [text |-> q.said, addedAt |-> t]]
      BY <1>1 DEF Changed
    <2>2. [text |-> q.said, addedAt |-> t] \in SeasonComment
      BY <1>1, <2>1 DEF SeasonComment
    <2> QED
      BY <1>1, <2>1, <2>2 DEF BySeason
  <1>2. CASE q.op = "update" /\ found[q.season] # NoComment
    <2>1. f = [found EXCEPT ![q.season].text = q.said]
      BY <1>2 DEF Changed
    <2>2. found[q.season] \in SeasonComment
      BY <1>2 DEF BySeason
    <2>3. /\ [found[q.season] EXCEPT !.text = q.said] \in SeasonComment
          /\ [found[q.season] EXCEPT !.text = q.said].addedAt = found[q.season].addedAt
      BY <1>2, <2>2 DEF SeasonComment
    <2> QED
      BY <1>2, <2>1, <2>3 DEF BySeason
  <1>3. CASE q.op = "deleteSeason" /\ found[q.season] # NoComment
    <2>1. f = [found EXCEPT ![q.season] = NoComment]
      BY <1>3 DEF Changed
    <2> QED
      BY <1>3, <2>1 DEF BySeason
  <1> QED
    BY <1>1, <1>2, <1>3 DEF Changed

-----------------------------------------------------------------------------
(* How a step leaves the requests sound *)

(* A request stays sound over a step that neither brings its row back nor  *)
(* changes its key, and tells it if the row has changed.                   *)
LEMMA KeepsSound ==
    ASSUME NEW q \in Request, Sound(q),
           NEW p \in {q, [q EXCEPT !.alone = FALSE]},
           drawn \subseteq drawn',
           q.id \in drawn => /\ comment[q.id] = NoComment => comment'[q.id] = NoComment
                             /\ comment'[q.id] # NoComment
                                   => comment'[q.id].key = comment[q.id].key,
           q.id \in Ids /\ comment'[q.id] # comment[q.id] => p.alone = FALSE
    PROVE  Sound(p)'
  <1>1. CASE p = q
    <2>1. ASSUME q.id \in Ids, q.alone
          PROVE  SeasonsOf(q.id)' = SeasonsOf(q.id)
      BY <1>1, <2>1 DEF SeasonsOf
    <2> QED
      BY <1>1, <2>1 DEF Sound
  <1>2. CASE p = [q EXCEPT !.alone = FALSE]
    <2>1. /\ p.op = q.op /\ p.at = q.at /\ p.key = q.key /\ p.id = q.id
          /\ p.season = q.season /\ p.said = q.said /\ p.text = q.text
          /\ p.seasons = q.seasons /\ ~p.alone
      BY <1>2 DEF Request
    <2> QED
      BY <2>1 DEF Sound
  <1> QED
    BY <1>1, <1>2

(* A request that takes a step of its own and leaves the rows alone. *)
LEMMA OwnStep ==
    ASSUME IInv, NEW r \in Requests, NEW q \in Request \cup {NoRequest},
           q # NoRequest => Sound(q),
           request' = [request EXCEPT ![r] = q], UNCHANGED <<comment, drawn>>
    PROVE  IInv'
  <1>1. TypeOK' /\ RowsAreDrawn' /\ TextOrSeasons'
    BY DEF IInv, TypeOK, RowsAreDrawn, TextOrSeasons
  <1>2. ASSUME NEW p \in Request, Sound(p) PROVE Sound(p)'
    BY <1>2, KeepsSound
  <1>3. RequestsAreSound'
    <2> SUFFICES ASSUME NEW o \in Requests, request'[o] # NoRequest
                 PROVE  Sound(request[o])'
      BY DEF RequestsAreSound
    <2>1. PICK p \in Request : p = request'[o] /\ Sound(p)
      BY DEF IInv, TypeOK, RequestsAreSound
    <2>2. Sound(p)'
      BY <1>2, <2>1
    <2> QED
      BY <2>1, <2>2 DEF Sound
  <1> QED
    BY <1>1, <1>3 DEF IInv

(* A request that commits a write to one row. *)
LEMMA CommitStep ==
    ASSUME IInv, NEW self \in Requests, NEW i \in Ids, Done(self, i),
           drawn \subseteq drawn',
           \A j \in Ids : j # i => comment'[j] = comment[j],
           i \in drawn => /\ comment[i] = NoComment => comment'[i] = NoComment
                          /\ comment'[i] # NoComment => comment'[i].key = comment[i].key
    PROVE  /\ request' \in [Requests -> Request \cup {NoRequest}]
           /\ RequestsAreSound'
  <1> USE RequestAssumption
  <1>1. ASSUME NEW o \in Requests, request'[o] # NoRequest
        PROVE  /\ request[o] \in Request /\ Sound(request[o])
               /\ request'[o] \in {request[o], [request[o] EXCEPT !.alone = FALSE]}
               /\ request[o].id = i => request'[o] = [request[o] EXCEPT !.alone = FALSE]
    BY <1>1 DEF Done, IInv, TypeOK, RequestsAreSound
  <1>2. ASSUME NEW q \in Request
        PROVE  [q EXCEPT !.alone = FALSE] \in Request /\ [q EXCEPT !.alone = FALSE].alone = FALSE
    BY DEF Request
  <1>3. ASSUME NEW o \in Requests, request'[o] # NoRequest
        PROVE  request'[o] \in Request
    BY <1>1, <1>2, <1>3
  <1>4. request' \in [Requests -> Request \cup {NoRequest}]
    BY <1>3 DEF Done
  <1>5. ASSUME NEW o \in Requests, request'[o] # NoRequest
        PROVE  Sound(request[o])'
    <2>1. PICK q \in Request : q = request[o] /\ Sound(q)
      BY <1>1, <1>5
    <2>2. PICK p \in {q, [q EXCEPT !.alone = FALSE]} : p = request'[o]
      BY <1>1, <1>5, <2>1
    <2>3. q.id = i => p.alone = FALSE
      BY <1>1, <1>2, <1>5, <2>1, <2>2
    <2>4. q.id \in drawn => /\ comment[q.id] = NoComment => comment'[q.id] = NoComment
                            /\ comment'[q.id] # NoComment
                                  => comment'[q.id].key = comment[q.id].key
      BY DEF IInv, TypeOK
    <2>5. q.id \in Ids /\ comment'[q.id] # comment[q.id] => p.alone = FALSE
      BY <2>3
    <2>6. Sound(p)'
      BY <2>1, <2>4, <2>5, KeepsSound
    <2> QED
      BY <2>2, <2>6 DEF Sound
  <1> QED
    BY <1>4, <1>5 DEF RequestsAreSound

-----------------------------------------------------------------------------
(* The store's transactions *)

(* A text and seasons as a title of the key has them. *)
Fits(k, text, f) == IF IsSeries(k) THEN text = NoText /\ Commented(f) # {}
                    ELSE text # NoText /\ f = NoSeasons

LEMMA FailInv ==
    ASSUME IInv, NEW r \in Requests, Fail(r)
    PROVE  IInv'
  BY OwnStep DEF Fail

LEMMA AddRowInv ==
    ASSUME IInv, NEW r \in Requests, NEW k \in Key, NEW text \in Texts \cup {NoText},
           NEW f \in BySeason, Fits(k, text, f), AddCommentRow(r, k, text, f)
    PROVE  IInv'
  <1> USE CommentsAssumption
  <1> DEFINE new == [key |-> k, text |-> text, seasons |-> f]
  <1>1. CASE RowOf(k) # {}
    BY <1>1, FailInv DEF AddCommentRow
  <1>2. CASE RowOf(k) = {}
    <2>1. PICK i \in Ids \ drawn : /\ comment' = [comment EXCEPT ![i] = new]
                                 /\ drawn' = drawn \cup {i}
                                 /\ Done(r, i)
      BY <1>2 DEF AddCommentRow
    <2>2. new \in Comment
      BY DEF Comment
    <2>3. request' \in [Requests -> Request \cup {NoRequest}] /\ RequestsAreSound'
      BY <2>1, CommitStep DEF IInv, TypeOK
    <2>4. TypeOK'
      BY <2>1, <2>2, <2>3 DEF IInv, TypeOK
    <2>5. RowsAreDrawn'
      BY <2>1 DEF IInv, TypeOK, RowsAreDrawn
    <2>6. TextOrSeasons'
      <3>1. comment'[i] = new /\ \A j \in Ids \ {i} : comment'[j] = comment[j]
        BY <2>1 DEF IInv, TypeOK
      <3>2. new.key = k /\ new.text = text /\ new.seasons = f
        OBVIOUS
      <3> HIDE DEF new
      <3> QED
        BY <3>1, <3>2 DEF IInv, TextOrSeasons, Fits
    <2> QED
      BY <2>3, <2>4, <2>5, <2>6 DEF IInv
  <1> QED
    BY <1>1, <1>2

LEMMA UpdateRowInv ==
    ASSUME IInv, NEW r \in Requests, NEW i \in Ids, NEW text \in Texts \cup {NoText},
           NEW f \in BySeason, comment[i] # NoComment => Fits(comment[i].key, text, f),
           UpdateCommentRow(r, i, text, f)
    PROVE  IInv'
  <1> USE CommentsAssumption
  <1>1. \/ comment' = comment
        \/ /\ comment[i] # NoComment
           /\ comment' = [comment EXCEPT ![i].text = text, ![i].seasons = f]
    BY DEF UpdateCommentRow
  <1> DEFINE new == [comment[i] EXCEPT !.text = text, !.seasons = f]
  <1>2. comment[i] # NoComment =>
           /\ new \in Comment /\ new.key = comment[i].key
           /\ new.text = text /\ new.seasons = f
    BY DEF IInv, TypeOK, Comment
  <1>3. /\ \A j \in Ids : j # i => comment'[j] = comment[j]
        /\ \/ comment'[i] = comment[i]
           \/ comment[i] # NoComment /\ comment'[i] = new
        /\ comment' = [comment EXCEPT ![i] = comment'[i]]
    <2>1. CASE comment' = comment
      BY <2>1 DEF IInv, TypeOK
    <2>2. CASE /\ comment[i] # NoComment
               /\ comment' = [comment EXCEPT ![i].text = text, ![i].seasons = f]
      <3>1. comment'[i] = new
        BY <2>2 DEF IInv, TypeOK
      <3>2. \A j \in Ids : j # i => comment'[j] = comment[j]
        BY <2>2 DEF IInv, TypeOK
      <3>3. comment' = [j \in Ids |-> comment'[j]]
        BY <2>2 DEF IInv, TypeOK
      <3> HIDE DEF new
      <3>4. comment' = [comment EXCEPT ![i] = comment'[i]]
        BY <3>2, <3>3 DEF IInv, TypeOK
      <3> QED
        BY <2>2, <3>1, <3>2, <3>4
    <2> QED
      BY <1>1, <2>1, <2>2
  <1> HIDE DEF new
  <1>4. request' \in [Requests -> Request \cup {NoRequest}] /\ RequestsAreSound'
    BY <1>2, <1>3, CommitStep DEF UpdateCommentRow
  <1>5. TypeOK'
    BY <1>2, <1>3, <1>4 DEF IInv, TypeOK, UpdateCommentRow
  <1>6. RowsAreDrawn'
    BY <1>3 DEF IInv, RowsAreDrawn, UpdateCommentRow
  <1>7. TextOrSeasons'
    BY <1>2, <1>3 DEF IInv, TextOrSeasons, Fits
  <1> QED
    BY <1>4, <1>5, <1>6, <1>7 DEF IInv

LEMMA DeleteRowInv ==
    ASSUME IInv, NEW r \in Requests, NEW i \in Ids, DeleteCommentRow(r, i)
    PROVE  IInv'
  <1>1. /\ \A j \in Ids : j # i => comment'[j] = comment[j]
        /\ comment'[i] \in {comment[i], NoComment}
        /\ comment' = [comment EXCEPT ![i] = comment'[i]]
    BY DEF IInv, TypeOK, DeleteCommentRow
  <1>2. request' \in [Requests -> Request \cup {NoRequest}] /\ RequestsAreSound'
    BY <1>1, CommitStep DEF DeleteCommentRow
  <1>3. TypeOK'
    BY <1>1, <1>2 DEF IInv, TypeOK, DeleteCommentRow
  <1>4. RowsAreDrawn' /\ TextOrSeasons'
    BY <1>1 DEF IInv, RowsAreDrawn, TextOrSeasons, DeleteCommentRow
  <1> QED
    BY <1>2, <1>3, <1>4 DEF IInv

-----------------------------------------------------------------------------
(* Every step keeps the invariant. *)

(* A request let in, with what it knows. *)
LEMMA BeginInv ==
    ASSUME IInv, NEW r \in Requests, NEW k \in Key,
           NEW op \in {"add", "update", "delete", "deleteSeason"},
           NEW step \in {"insert", "lookup", "write"},
           NEW i \in Ids \cup {NoComment}, NEW s \in Seasons \cup {NoComment},
           NEW x \in Texts \cup {NoText}, NEW text \in Texts \cup {NoText},
           Begin(r, op, step, k, i, s, x, text),
           op = "delete" <=> step = "write",
           step = "insert" => op = "add",
           step # "insert" => i \in Ids,
           op # "delete" => /\ s \in Seasons
                            /\ op # "deleteSeason" => x \in Texts
                            /\ op = "deleteSeason" => IsSeries(k)
                            /\ IsSeries(k) => text = NoText
                            /\ ~IsSeries(k) => text \in Texts,
           step = "lookup" => i \in RowOf(k)
    PROVE  IInv'
  <1> DEFINE q == [op |-> op, at |-> step, key |-> k, id |-> i, season |-> s, said |-> x,
                   text |-> text, seasons |-> NoSeasons, alone |-> TRUE]
  <1>1. q \in Request
    BY DEF Request, NoSeasons, BySeason
  <1>2. step = "lookup" => i \in drawn /\ comment[i].key = k
    BY DEF IInv, RowsAreDrawn, RowOf
  <1>3. Sound(q)
    BY <1>2 DEF Sound
  <1>4. request' = [request EXCEPT ![r] = q] /\ UNCHANGED <<comment, drawn>>
    BY DEF Begin
  <1> HIDE DEF q
  <1> QED
    BY <1>1, <1>3, <1>4, OwnStep

(* The five kinds of step of a request. *)
LEMMA InvStep == IInv /\ [Next]_vars => IInv'
  <1> SUFFICES ASSUME IInv, [Next]_vars PROVE IInv'
    OBVIOUS
  <1> USE CommentsAssumption, RequestAssumption
  <1>a. ASSUME NEW k \in Key, NEW i \in RowOf(k)
        PROVE  /\ i \in Ids /\ comment[i].text \in Texts \cup {NoText}
               /\ IsSeries(k) => comment[i].text = NoText
    BY <1>a DEF RowOf, IInv, TypeOK, Comment, TextOrSeasons
  <1>1. ASSUME NEW r \in Requests, NEW k \in Key, NEW s \in Seasons, NEW x \in Texts,
               AddComment(r, k, s, x)
        PROVE  IInv'
    <2>1. CASE ~IsSeries(k)
      BY <1>1, <2>1, BeginInv DEF AddComment
    <2>2. CASE IsSeries(k) /\ RowOf(k) = {}
      BY <1>1, <2>2, BeginInv DEF AddComment
    <2>3. CASE IsSeries(k) /\ RowOf(k) # {}
      <3>1. PICK i \in RowOf(k) : Begin(r, "add", "lookup", k, i, s, x, comment[i].text)
        BY <1>1, <2>3 DEF AddComment
      <3> QED
        BY <1>a, <2>3, <3>1, BeginInv
    <2> QED
      BY <2>1, <2>2, <2>3
  <1>2. ASSUME NEW r \in Requests, NEW k \in Key, NEW i \in Ids, NEW s \in Seasons,
               NEW x \in Texts, UpdateComment(r, k, i, s, x)
        PROVE  IInv'
    BY <1>2, BeginInv DEF UpdateComment
  <1>3. ASSUME NEW r \in Requests, NEW k \in Key, NEW i \in Ids, NEW s \in Seasons,
               DeleteCommentSeason(r, k, i, s)
        PROVE  IInv'
    BY <1>3, <1>a, BeginInv DEF DeleteCommentSeason
  <1>4. ASSUME NEW r \in Requests, NEW k \in Key, NEW i \in Ids, DeleteComment(r, k, i)
        PROVE  IInv'
    BY <1>4, BeginInv DEF DeleteComment
  <1>5. ASSUME NEW r \in Requests, InsertComment(r) PROVE IInv'
    <2> DEFINE q == request[r]
    <2>1. q \in Request /\ Sound(q) /\ q.at = "insert"
      BY <1>5 DEF InsertComment, At, IInv, TypeOK, RequestsAreSound
    <2>2. q.key \in Key /\ q.season \in Seasons /\ q.said \in Texts
      BY <2>1 DEF Sound, Request
    <2>3. CASE IsSeries(q.key)
      <3>1. PICK t \in Times : AddCommentRow(r, q.key, NoText,
                     [NoSeasons EXCEPT ![q.season] = [text |-> q.said, addedAt |-> t]])
        BY <1>5, <2>3 DEF InsertComment
      <3> DEFINE f == [NoSeasons EXCEPT ![q.season] = [text |-> q.said, addedAt |-> t]]
      <3>2. [text |-> q.said, addedAt |-> t] \in SeasonComment
        BY <2>2 DEF SeasonComment
      <3>3. f \in BySeason /\ f[q.season] # NoComment
        BY <2>2, <3>2 DEF NoSeasons, BySeason
      <3> HIDE DEF f
      <3>4. Fits(q.key, NoText, f)
        BY <2>2, <2>3, <3>3 DEF Fits, Commented
      <3> QED
        BY <2>2, <3>1, <3>3, <3>4, AddRowInv DEF f
    <2>4. CASE ~IsSeries(q.key)
      <3>1. NoSeasons \in BySeason /\ Fits(q.key, q.said, NoSeasons)
        BY <2>2, <2>4 DEF NoSeasons, BySeason, Fits
      <3> QED
        BY <1>5, <2>2, <2>4, <3>1, AddRowInv DEF InsertComment
    <2> QED
      BY <2>3, <2>4
  <1>6. ASSUME NEW r \in Requests, ReadSeasons(r) PROVE IInv'
    <2> DEFINE q    == request[r]
               next == IF IsSeries(q.key) THEN Changed(q, SeasonsOf(q.id)) ELSE {NoSeasons}
    <2>1. q \in Request /\ Sound(q) /\ q.at = "lookup"
      BY <1>6 DEF ReadSeasons, At, IInv, TypeOK, RequestsAreSound
    <2>2. CASE Fail(r)
      BY <2>2, FailInv
    <2>3. ASSUME NEW f \in next,
                 request' = [request EXCEPT ![r].at = "write", ![r].seasons = f,
                                            ![r].alone = TRUE],
                 UNCHANGED <<comment, drawn>>
          PROVE  IInv'
      <3> DEFINE moved == [q EXCEPT !.at = "write", !.seasons = f, !.alone = TRUE]
      <3>1. q.id \in Ids /\ q.op # "delete" /\ SeasonsOf(q.id) \in BySeason
        BY <2>1, SeasonsType DEF Sound, IInv
      <3>2. /\ f \in BySeason
            /\ IsSeries(q.key) /\ Commented(f) = {} => q.op = "deleteSeason"
        <4>1. CASE IsSeries(q.key)
          BY <2>1, <2>3, <3>1, <4>1, ChangedFacts DEF Sound, Commented
        <4>2. CASE ~IsSeries(q.key)
          BY <2>3, <4>2 DEF NoSeasons, BySeason
        <4> QED
          BY <4>1, <4>2
      <3>3. /\ moved \in Request /\ moved.at = "write" /\ moved.seasons = f
            /\ moved.op = q.op /\ moved.key = q.key /\ moved.id = q.id
            /\ moved.season = q.season /\ moved.said = q.said /\ moved.text = q.text
        BY <2>1, <3>2 DEF Request
      <3>4. request' = [request EXCEPT ![r] = moved]
        BY <2>3 DEF IInv, TypeOK
      <3> HIDE DEF moved
      <3>5. Changed(moved, SeasonsOf(moved.id)) = Changed(q, SeasonsOf(q.id))
        BY <3>3 DEF Changed
      <3>6. Sound(moved)
        BY <2>1, <2>3, <3>1, <3>2, <3>3, <3>5 DEF Sound
      <3> QED
        BY <2>3, <3>3, <3>4, <3>6, OwnStep
    <2> QED
      BY <1>6, <2>2, <2>3 DEF ReadSeasons
  <1>7. ASSUME NEW r \in Requests, WriteComment(r) PROVE IInv'
    <2> DEFINE q == request[r]
    <2>1. q \in Request /\ Sound(q) /\ q.at = "write"
      BY <1>7 DEF WriteComment, At, IInv, TypeOK, RequestsAreSound
    <2>2. q.id \in Ids /\ q.text \in Texts \cup {NoText} /\ q.seasons \in BySeason
      BY <2>1 DEF Sound, Request
    <2>3. CASE DeletesRow(q)
      BY <1>7, <2>2, <2>3, DeleteRowInv DEF WriteComment
    <2>4. CASE ~DeletesRow(q)
      <3>1. Fits(q.key, q.text, q.seasons)
        BY <2>1, <2>4 DEF DeletesRow, Sound, Fits
      <3>2. comment[q.id] # NoComment => comment[q.id].key = q.key
        BY <2>1, <2>4 DEF DeletesRow, Sound
      <3> QED
        BY <1>7, <2>2, <2>4, <3>1, <3>2, UpdateRowInv DEF WriteComment
    <2> QED
      BY <2>3, <2>4
  <1>8. ASSUME NEW r \in Requests, Abandon(r) PROVE IInv'
    BY <1>8, FailInv DEF Abandon
  <1>9. CASE UNCHANGED vars
    BY <1>9 DEF vars, IInv, TypeOK, RowsAreDrawn, TextOrSeasons, RequestsAreSound, Sound,
                SeasonsOf
  <1> QED
    BY <1>1, <1>2, <1>3, <1>4, <1>5, <1>6, <1>7, <1>8, <1>9 DEF Next

LEMMA InvAlways == Spec => []IInv
  <1>1. Init => IInv
    BY RequestAssumption DEF Init, IInv, TypeOK, RowsAreDrawn, TextOrSeasons, RequestsAreSound
  <1> QED
    BY <1>1, InvStep, PTL DEF Spec

-----------------------------------------------------------------------------
(* The theorems *)

(* Comments is type correct: the rows and the requests in flight hold what *)
(* the schema and the service say they hold.                               *)
THEOREM CommentTypesCorrect == Spec => []TypeOK
  <1>1. IInv => TypeOK
    BY DEF IInv
  <1> QED
    BY <1>1, InvAlways, PTL

(* The comment invariants of docs/CONVENTIONS.md: a movie's comment has a  *)
(* text and no seasons, a series' comment seasons and no text.             *)
THEOREM TextXorSeasons == Spec => []TextOrSeasons
  <1>1. IInv => TextOrSeasons
    BY DEF IInv
  <1> QED
    BY <1>1, InvAlways, PTL

(* Whoever changes a row works on it: a write reaches the row of its       *)
(* request's id, and an insert no row that is there.                       *)
LEMMA WhoChanges ==
    ASSUME IInv, [Next]_vars, NEW i \in Ids, comment[i] # NoComment, comment'[i] # comment[i]
    PROVE  \E r \in Requests : WriteComment(r) /\ request[r].id = i /\ request'[r] = NoRequest
  <1>1. ASSUME NEW r \in Requests, InsertComment(r)
        PROVE  comment'[i] = comment[i]
    <2>1. ASSUME NEW k, NEW text, NEW f, AddCommentRow(r, k, text, f)
          PROVE  comment'[i] = comment[i]
      BY <2>1 DEF AddCommentRow, Fail, IInv, TypeOK, RowsAreDrawn
    <2> QED
      BY <1>1, <2>1 DEF InsertComment
  <1>2. ASSUME NEW r \in Requests, WriteComment(r)
        PROVE  request[r].id = i /\ request'[r] = NoRequest
    <2> DEFINE q == request[r]
    <2>1. q.id # i => comment'[i] = comment[i]
      BY <1>2 DEF WriteComment, DeleteCommentRow, UpdateCommentRow, IInv, TypeOK
    <2>2. Done(r, q.id)
      BY <1>2 DEF WriteComment, DeleteCommentRow, UpdateCommentRow
    <2> QED
      BY <2>1, <2>2 DEF Done
  <1>3. ASSUME NEW r \in Requests,
               \/ \E k \in Key, j \in Ids : DeleteComment(r, k, j)
               \/ \E k \in Key, s \in Seasons, j \in Ids : DeleteCommentSeason(r, k, j, s)
               \/ \E k \in Key, s \in Seasons, x \in Texts : AddComment(r, k, s, x)
               \/ \E k \in Key, s \in Seasons, x \in Texts, j \in Ids : UpdateComment(r, k, j, s, x)
               \/ ReadSeasons(r) \/ Abandon(r)
        PROVE  comment' = comment
    BY <1>3 DEF DeleteComment, DeleteCommentSeason, AddComment, UpdateComment, ReadSeasons,
                Abandon, Fail, Begin
  <1>4. CASE UNCHANGED vars
    BY <1>4 DEF vars
  <1> QED
    BY <1>1, <1>2, <1>3, <1>4 DEF Next

(* A comment is changed by its author, under its group's URL; by anything  *)
(* but a delete, under its title's as well.                                *)
THEOREM OnlyNamedChanges == Spec => OnlyTheNamedComment
  <1>1. ASSUME IInv, [Next]_vars, NEW i \in Ids,
               comment[i] # NoComment, comment'[i] # comment[i]
        PROVE  \E r \in Requests :
                  /\ request[r] # NoRequest /\ request'[r] = NoRequest
                  /\ request[r].id = i
                  /\ request[r].key.user = comment[i].key.user
                  /\ request[r].key.group = comment[i].key.group
                  /\ request[r].op # "delete" => request[r].key = comment[i].key
    <2>1. PICK r \in Requests : WriteComment(r) /\ request[r].id = i /\ request'[r] = NoRequest
      BY <1>1, WhoChanges
    <2>2. request[r] # NoRequest /\ request[r].at = "write" /\ Sound(request[r])
      BY <1>1, <2>1 DEF WriteComment, At, IInv, RequestsAreSound
    <2>3. request[r].op # "delete" => request[r].key = comment[i].key
      BY <1>1, <2>1, <2>2 DEF Sound
    <2>4. request[r].op = "delete" => /\ request[r].key.user = comment[i].key.user
                                      /\ request[r].key.group = comment[i].key.group
      BY <1>1, <2>1 DEF WriteComment, DeletesRow, DeleteCommentRow
    <2> QED
      BY <2>1, <2>2, <2>3, <2>4
  <1>2. IInv /\ [Next]_vars =>
           [\A i \in Ids : comment[i] # NoComment /\ comment'[i] # comment[i] =>
               \E r \in Requests :
                  /\ request[r] # NoRequest /\ request'[r] = NoRequest
                  /\ request[r].id = i
                  /\ request[r].key.user = comment[i].key.user
                  /\ request[r].key.group = comment[i].key.group
                  /\ request[r].op # "delete" => request[r].key = comment[i].key]_vars
    BY <1>1
  <1> QED
    BY <1>2, InvAlways, PTL DEF Spec, OnlyTheNamedComment

(* A write that nothing overlapped does what was asked and nothing else.   *)
THEOREM UnracedDoesAsAsked == Spec => UnracedWrite
  <1> DEFINE A == \A r \in Requests, i \in Ids :
         /\ WriteComment(r)
         /\ request[r].alone /\ request[r].op # "delete"
         /\ request[r].id = i /\ comment[i] # NoComment
         => LET q   == request[r]
                old == SeasonsOf(i)
                new == SeasonsOf(i)'
            IN  /\ \A s \in Seasons \ {q.season} : new[s] = old[s]
                /\ IsSeries(q.key) =>
                     /\ old[q.season] = NoComment <=> q.op = "add"
                     /\ new[q.season] = NoComment <=> q.op = "deleteSeason"
                     /\ q.op = "update" =>
                          new[q.season].addedAt = old[q.season].addedAt
  <1>1. ASSUME IInv, NEW r \in Requests, NEW i \in Ids,
               WriteComment(r), request[r].alone, request[r].op # "delete",
               request[r].id = i, comment[i] # NoComment
        PROVE  LET q   == request[r]
                   old == SeasonsOf(i)
                   new == SeasonsOf(i)'
               IN  /\ \A s \in Seasons \ {q.season} : new[s] = old[s]
                   /\ IsSeries(q.key) =>
                        /\ old[q.season] = NoComment <=> q.op = "add"
                        /\ new[q.season] = NoComment <=> q.op = "deleteSeason"
                        /\ q.op = "update" =>
                             new[q.season].addedAt = old[q.season].addedAt
    <2> DEFINE q   == request[r]
               old == SeasonsOf(i)
    <2>1. q \in Request /\ Sound(q) /\ q.at = "write"
      BY <1>1 DEF WriteComment, At, IInv, TypeOK, RequestsAreSound
    <2>2. q.key = comment[i].key /\ old \in BySeason
      BY <1>1, <2>1, SeasonsType DEF Sound, IInv
    <2>3. SeasonsOf(i)' = q.seasons
      <3>1. CASE DeletesRow(q)
        <4>1. comment'[i] = NoComment
          BY <1>1, <2>2, <3>1 DEF WriteComment, DeleteCommentRow, IInv, TypeOK
        <4>2. Commented(q.seasons) = {} /\ q.seasons \in BySeason
          BY <1>1, <2>1, <3>1 DEF DeletesRow, Request
        <4>3. q.seasons = NoSeasons
          BY <4>2 DEF Commented, NoSeasons, BySeason
        <4> QED
          BY <4>1, <4>3 DEF SeasonsOf, NoSeasons
      <3>2. CASE ~DeletesRow(q)
        <4>1. comment' = [comment EXCEPT ![i].text = q.text, ![i].seasons = q.seasons]
          BY <1>1, <2>2, <3>2 DEF WriteComment, UpdateCommentRow
        <4>2. comment[i] \in Comment
          BY <1>1 DEF IInv, TypeOK
        <4> DEFINE new == [comment[i] EXCEPT !.text = q.text, !.seasons = q.seasons]
        <4>3. comment'[i] = new
          BY <1>1, <4>1 DEF IInv, TypeOK
        <4>4. new \in Comment /\ new.seasons = q.seasons
          BY <2>1, <4>2 DEF Comment, Request
        <4> HIDE DEF new
        <4> QED
          BY <4>3, <4>4, CommentsAssumption DEF SeasonsOf
      <3> QED
        BY <3>1, <3>2
    <2>4. CASE IsSeries(q.key)
      <3>1. q.seasons \in Changed(q, old)
        BY <1>1, <2>1, <2>4 DEF Sound
      <3> QED
        BY <1>1, <2>1, <2>2, <2>3, <3>1, ChangedFacts DEF Sound
    <2>5. CASE ~IsSeries(q.key)
      <3>1. q.seasons = NoSeasons /\ old = NoSeasons
        BY <1>1, <2>1, <2>2, <2>5 DEF Sound, IInv, TextOrSeasons, SeasonsOf
      <3> QED
        BY <2>3, <2>5, <3>1
    <2> QED
      BY <2>4, <2>5
  <1>2. IInv => A
    BY <1>1
  <1> HIDE DEF A
  <1>3. IInv /\ [Next]_vars => [A]_vars
    BY <1>2
  <1> QED
    BY <1>3, InvAlways, PTL DEF Spec, UnracedWrite, A
=============================================================================
