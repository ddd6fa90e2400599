---------------------------- MODULE RatingsProofs ----------------------------
(***************************************************************************)
(* Theorems about Ratings, for every set of users, groups, titles, seasons *)
(* and requests and every scale of notes: its types, the unique key, that  *)
(* what was deleted stays deleted, that a series' note is the mean of its  *)
(* seasons' (the sum stays closed: the writes and the property state the   *)
(* same bounds on it), and that a write touches its own season only.       *)
(***************************************************************************)
EXTENDS Ratings, FiniteSetTheorems, TLAPS

(* A note is a note, and a mean of notes is one by definition. *)
LEMMA NoteTypes ==
    ASSUME NEW f
    PROVE  OverallNotes(f) \subseteq Notes
  BY DEF OverallNotes

(* The requests stay well formed when a write ends one and tells the       *)
(* others that their row has changed.                                      *)
LEMMA DoneType ==
    ASSUME TypeOK, NEW self, NEW i, Done(self, i)
    PROVE  request' \in [Requests -> Request \cup {NoRequest}]
  <1>1. ASSUME NEW r \in Requests, request[r] # NoRequest
        PROVE  [request[r] EXCEPT !.alone = FALSE] \in Request
    BY <1>1 DEF TypeOK, Request
  <1>2. ASSUME NEW r \in Requests
        PROVE  request'[r] \in Request \cup {NoRequest}
    BY <1>1 DEF Done, TypeOK
  <1> QED
    BY <1>2 DEF Done

(* A request that fails leaves the rows alone. *)
LEMMA FailType ==
    ASSUME TypeOK, NEW r \in Requests, Fail(r)
    PROVE  TypeOK'
  BY DEF Fail, TypeOK

(* What a season update makes of what it read is a note per season. *)
LEMMA DecidedType ==
    ASSUME NEW q \in Request, NEW found \in BySeason
    PROVE  Decided(q, found) \subseteq BySeason
  BY DEF Decided, BySeason, Request

(* Inserting, rewriting and deleting a row leave well-formed rows. *)
LEMMA StoreType ==
    ASSUME TypeOK, NEW r \in Requests, NEW note \in Notes, NEW f \in BySeason
    PROVE  /\ \A k \in Key : AddRatingRow(r, k, note, f) => TypeOK'
           /\ \A i \in Ids : UpdateRatingRow(r, i, note, f) => TypeOK'
           /\ \A i \in Ids : DeleteRatingRow(r, i) => TypeOK'
  <1>1. ASSUME NEW k \in Key, AddRatingRow(r, k, note, f) PROVE TypeOK'
    <2>1. [key |-> k, note |-> note, seasons |-> f] \in Row
      BY DEF Row
    <2>2. CASE RowOf(k) # {}
      BY <1>1, <2>2 DEF AddRatingRow, TypeOK
    <2>3. CASE RowOf(k) = {}
      BY <1>1, <2>1, <2>3, DoneType DEF AddRatingRow, TypeOK
    <2> QED
      BY <2>2, <2>3
  <1>2. ASSUME NEW i \in Ids, UpdateRatingRow(r, i, note, f) PROVE TypeOK'
    <2>1. row[i] # NoRow => [row[i] EXCEPT !.note = note, !.seasons = f] \in Row
      BY DEF TypeOK, Row
    <2>2. row' \in [Ids -> Row \cup {NoRow}]
      BY <1>2, <2>1 DEF UpdateRatingRow, TypeOK
    <2> QED
      BY <1>2, <2>2, DoneType DEF UpdateRatingRow, TypeOK
  <1>3. ASSUME NEW i \in Ids, DeleteRatingRow(r, i) PROVE TypeOK'
    BY <1>3, DoneType DEF DeleteRatingRow, TypeOK
  <1> QED
    BY <1>1, <1>2, <1>3

(* A request that has read a row names one: only an insert does not. *)
NamesARow == \A r \in Requests : request[r] # NoRequest /\ request[r].at # "insert"
                                   => request[r].id \in Ids

TypeInv == TypeOK /\ NamesARow

(* A request whose slot is freed names nothing; the others keep their row. *)
LEMMA NamesStep ==
    ASSUME TypeInv, NEW r \in Requests
    PROVE  /\ Fail(r) => NamesARow'
           /\ \A i : Done(r, i) => NamesARow'
  <1>1. ASSUME Fail(r) PROVE NamesARow'
    BY <1>1 DEF Fail, TypeInv, TypeOK, NamesARow
  <1>2. ASSUME NEW i, Done(r, i) PROVE NamesARow'
    <2> SUFFICES ASSUME NEW q \in Requests, request'[q] # NoRequest, request'[q].at # "insert"
                 PROVE  request'[q].id \in Ids
      BY DEF NamesARow
    <2>1. CASE request'[q] = request[q]
      BY <2>1 DEF TypeInv, NamesARow
    <2>2. CASE request[q] # NoRequest /\ request'[q] = [request[q] EXCEPT !.alone = FALSE]
      <3>1. request'[q].at = request[q].at /\ request'[q].id = request[q].id
        BY <2>2 DEF TypeInv, TypeOK, Request
      <3> QED
        BY <2>2, <3>1 DEF TypeInv, NamesARow
    <2> QED
      BY <1>2, <2>1, <2>2 DEF Done
  <1> QED
    BY <1>1, <1>2

(* Every step keeps the types. *)
LEMMA TypeStep == TypeInv /\ [Next]_vars => TypeInv'
  <1> SUFFICES ASSUME TypeInv, [Next]_vars PROVE TypeInv'
    OBVIOUS
  <1> USE RatingsAssumption, RequestAssumption
  <1>0. TypeOK /\ NamesARow
    BY DEF TypeInv
  <1>a. NoSeasons \in BySeason
    BY DEF NoSeasons, BySeason
  <1>b. 0 \in Notes /\ Given \subseteq Notes
    BY DEF Notes
  <1>c. ASSUME NEW r \in Requests, NEW op \in {"add", "update", "delete", "deleteSeason"},
               NEW at \in {"read", "reread", "insert"}, NEW i \in Ids \cup {NoRow},
               NEW k \in Key, NEW s \in Seasons, NEW n \in Notes,
               at = "insert" \/ i \in Ids,
               Begin(r, op, at, i, k, s, n), UNCHANGED <<row, drawn>>
        PROVE  TypeInv'
    <2> DEFINE q == [op |-> op, at |-> at, id |-> i, key |-> k, season |-> s, note |-> n,
                     seasons |-> NoSeasons, alone |-> TRUE]
    <2>1. q \in Request
      BY <1>a DEF Request
    <2>2. request' = [request EXCEPT ![r] = q]
      BY <1>c DEF Begin
    <2>3. TypeOK'
      BY <1>0, <1>c, <2>1, <2>2 DEF TypeOK
    <2>4. NamesARow'
      BY <1>0, <1>c, <2>2 DEF TypeOK, NamesARow
    <2> QED
      BY <2>3, <2>4 DEF TypeInv
  <1>1. ASSUME NEW r \in Requests, NEW k \in Key, NEW s \in Seasons, NEW n \in Given,
               AddRating(r, k, s, n)
        PROVE  TypeInv'
    <2>1. n \in Notes
      BY <1>b
    <2>2. UNCHANGED <<row, drawn>>
      BY <1>1 DEF AddRating
    <2>3. CASE Begin(r, "add", "insert", NoRow, k, s, n)
      BY <1>c, <2>1, <2>2, <2>3
    <2>4. CASE \E i \in RowOf(k) : Begin(r, "add", "reread", i, k, s, n)
      <3>1. PICK i \in Ids : Begin(r, "add", "reread", i, k, s, n)
        BY <2>4 DEF RowOf
      <3> QED
        BY <1>c, <2>1, <2>2, <3>1
    <2> QED
      BY <1>1, <2>3, <2>4 DEF AddRating
  <1>2. ASSUME NEW r \in Requests, NEW op \in {"update", "delete", "deleteSeason"},
               NEW i \in Ids, NEW u \in Users, NEW s \in Seasons, NEW n \in Notes,
               ReadRating(r, op, i, u, s, n)
        PROVE  TypeInv'
    <2>1. row[i].key \in Key
      BY <1>0, <1>2 DEF ReadRating, TypeOK, Row
    <2>2. Begin(r, op, "read", i, row[i].key, s, n) /\ UNCHANGED <<row, drawn>>
      BY <1>2 DEF ReadRating
    <2> QED
      BY <1>c, <2>1, <2>2
  <1>3. ASSUME NEW r \in Requests, InsertRating(r) PROVE TypeInv'
    <2> DEFINE q     == request[r]
               first == [NoSeasons EXCEPT ![q.season] = q.note]
    <2>1. q \in Request /\ q.key \in Key /\ q.note \in Notes
      BY <1>0, <1>3 DEF InsertRating, TypeOK, Request
    <2>2. first \in BySeason
      BY <2>1, <1>a DEF BySeason, Request
    <2>3. \E x \in Notes, f \in BySeason : AddRatingRow(r, q.key, x, f)
      <3>1. CASE IsSeries(q.key)
        <4>1. PICK x \in OverallNotes(first) : AddRatingRow(r, q.key, x, first)
          BY <1>3, <3>1 DEF InsertRating
        <4> HIDE DEF first
        <4> QED
          BY <2>2, <4>1, NoteTypes
      <3>2. CASE ~IsSeries(q.key)
        BY <1>3, <1>a, <2>1, <3>2 DEF InsertRating
      <3> QED
        BY <3>1, <3>2
    <2>4. TypeOK'
      BY <1>0, <2>1, <2>3, StoreType
    <2>5. NamesARow'
      <3>1. Fail(r) \/ \E i : Done(r, i)
        BY <2>3 DEF AddRatingRow, Fail
      <3> QED
        BY <3>1, NamesStep
    <2> QED
      BY <2>4, <2>5 DEF TypeInv
  <1>4. ASSUME NEW i \in Ids PROVE SeasonsOf(i) \in BySeason
    BY <1>0, <1>a, <1>4 DEF SeasonsOf, TypeOK, Row
  <1>5. ASSUME NEW r \in Requests, ReadPrevious(r) PROVE TypeInv'
    <2> DEFINE q     == request[r]
               found == SeasonsOf(q.id)
               moved(at) == [q EXCEPT !.at = at, !.alone = TRUE]
    <2>1. q \in Request /\ q.id \in Ids /\ found \in BySeason
      BY <1>0, <1>4, <1>5 DEF ReadPrevious, TypeOK, NamesARow
    <2>2. CASE Fail(r)
      BY <1>0, <2>2, FailType, NamesStep DEF TypeInv
    <2>3. ASSUME NEW at \in {"write", "reread"},
                 request' = [request EXCEPT ![r].at = at, ![r].alone = TRUE],
                 UNCHANGED <<row, drawn>>
          PROVE  TypeInv'
      <3>1. moved(at) \in Request /\ moved(at).id = q.id
        BY <2>1 DEF Request
      <3>2. request' = [request EXCEPT ![r] = moved(at)]
        BY <1>0, <2>3 DEF TypeOK
      <3> HIDE DEF moved, q
      <3>3. TypeOK'
        BY <1>0, <2>3, <3>1, <3>2 DEF TypeOK
      <3>4. NamesARow'
        BY <1>0, <2>1, <3>1, <3>2 DEF TypeOK, NamesARow
      <3> QED
        BY <3>3, <3>4 DEF TypeInv
    <2> QED
      BY <1>5, <2>2, <2>3 DEF ReadPrevious
  <1>6. ASSUME NEW r \in Requests, ReadSeasons(r) PROVE TypeInv'
    <2> DEFINE q == request[r]
    <2>1. q \in Request /\ q.id \in Ids /\ SeasonsOf(q.id) \in BySeason
      BY <1>0, <1>4, <1>6 DEF ReadSeasons, TypeOK, NamesARow
    <2>2. CASE Fail(r)
      BY <1>0, <2>2, FailType, NamesStep DEF TypeInv
    <2>3. ASSUME NEW f \in Decided(q, SeasonsOf(q.id)),
                 request' = [request EXCEPT ![r].at = "write", ![r].seasons = f,
                                            ![r].alone = TRUE],
                 UNCHANGED <<row, drawn>>
          PROVE  TypeInv'
      <3> DEFINE moved == [q EXCEPT !.at = "write", !.seasons = f, !.alone = TRUE]
      <3>1. f \in BySeason
        BY <2>1, DecidedType
      <3>2. moved \in Request /\ moved.id = q.id
        BY <2>1, <3>1 DEF Request
      <3>3. request' = [request EXCEPT ![r] = moved]
        BY <1>0, <2>3 DEF TypeOK
      <3> HIDE DEF moved, q
      <3>4. TypeOK'
        BY <1>0, <2>3, <3>2, <3>3 DEF TypeOK
      <3>5. NamesARow'
        BY <1>0, <2>1, <3>2, <3>3 DEF TypeOK, NamesARow
      <3> QED
        BY <3>4, <3>5 DEF TypeInv
    <2> QED
      BY <1>6, <2>2, <2>3 DEF ReadSeasons
  <1>7. ASSUME NEW r \in Requests, WriteRating(r) PROVE TypeInv'
    <2> DEFINE q == request[r]
    <2>1. q \in Request /\ q.id \in Ids
      BY <1>0, <1>7 DEF WriteRating, TypeOK, NamesARow
    <2>2. q.note \in Notes /\ q.seasons \in BySeason
      BY <2>1 DEF Request
    <2>3. \/ DeleteRatingRow(r, q.id)
          \/ \E x \in Notes, f \in BySeason : UpdateRatingRow(r, q.id, x, f)
      BY <1>7, <1>a, <2>2, NoteTypes DEF WriteRating
    <2>4. TypeOK'
      BY <1>0, <1>a, <1>b, <2>1, <2>3, StoreType
    <2>5. Done(r, q.id)
      BY <2>3 DEF DeleteRatingRow, UpdateRatingRow
    <2> QED
      BY <2>4, <2>5, NamesStep DEF TypeInv
  <1>8. ASSUME NEW r \in Requests, Abandon(r) PROVE TypeInv'
    BY <1>0, <1>8, FailType, NamesStep DEF Abandon, TypeInv
  <1>9. CASE UNCHANGED vars
    BY <1>0, <1>9 DEF vars, TypeInv, TypeOK, NamesARow
  <1> QED
    BY <1>1, <1>2, <1>3, <1>5, <1>6, <1>7, <1>8, <1>9, <1>b DEF Next

(* So the types hold in every state. *)
LEMMA TypeAlways == Spec => []TypeInv
  <1>1. Init => TypeInv
    BY DEF Init, TypeInv, TypeOK, NamesARow
  <1> QED
    BY <1>1, TypeStep, PTL DEF Spec

(* Ratings is type correct: the rows and the requests in flight hold what  *)
(* the schema and the service say they hold.                               *)
THEOREM RatingTypesCorrect == Spec => []TypeOK
  <1>1. TypeInv => TypeOK
    BY DEF TypeInv
  <1> QED
    BY <1>1, TypeAlways, PTL

-----------------------------------------------------------------------------
(* How one step changes one row: it may insert it under an id that was     *)
(* never drawn, if no row has its key; rewrite it under its key; or delete *)
(* it.                                                                     *)
RowStep(i) ==
    \/ row'[i] = row[i]
    \/ row'[i] = NoRow
    \/ row[i] # NoRow /\ row'[i].key = row[i].key
    \/ i \notin drawn /\ RowOf(row'[i].key) = {}

(* Every step changes one row at most, and that one as RowStep says; a row *)
(* is under an id that was drawn.                                          *)
LEMMA OneRowStep ==
    ASSUME TypeInv, [Next]_vars
    PROVE  /\ drawn \subseteq drawn'
           /\ \A i \in Ids : RowStep(i)
           /\ \A i, j \in Ids : i # j => row'[i] = row[i] \/ row'[j] = row[j]
           /\ \A i \in Ids : row[i] = NoRow /\ row'[i] # NoRow => i \in drawn'
  <1>1. CASE UNCHANGED <<row, drawn>>
    BY <1>1 DEF RowStep
  <1>2. ASSUME NEW r \in Requests, NEW k, NEW note, NEW f, AddRatingRow(r, k, note, f)
        PROVE  /\ drawn \subseteq drawn'
               /\ \A i \in Ids : RowStep(i)
               /\ \A i, j \in Ids : i # j => row'[i] = row[i] \/ row'[j] = row[j]
               /\ \A i \in Ids : row[i] = NoRow /\ row'[i] # NoRow => i \in drawn'
    <2>1. CASE RowOf(k) # {}
      BY <1>1, <1>2, <2>1 DEF AddRatingRow
    <2>2. CASE RowOf(k) = {}
      <3>1. PICK i \in Ids \ drawn :
               /\ row' = [row EXCEPT ![i] = [key |-> k, note |-> note, seasons |-> f]]
               /\ drawn' = drawn \cup {i}
        BY <1>2, <2>2 DEF AddRatingRow
      <3>2. \A j \in Ids : row'[j] = IF j = i THEN [key |-> k, note |-> note, seasons |-> f]
                                              ELSE row[j]
        BY <3>1 DEF TypeInv, TypeOK
      <3>3. \A j \in Ids : RowStep(j)
        BY <2>2, <3>1, <3>2 DEF RowStep
      <3> QED
        BY <3>1, <3>2, <3>3
    <2> QED
      BY <2>1, <2>2
  <1>3. ASSUME NEW r \in Requests, NEW i \in Ids, NEW note, NEW f,
               UpdateRatingRow(r, i, note, f) \/ DeleteRatingRow(r, i)
        PROVE  /\ drawn' = drawn
               /\ \A j \in Ids : RowStep(j)
               /\ \A j \in Ids \ {i} : row'[j] = row[j]
               /\ row[i] = NoRow => row'[i] = NoRow
    <2>1. CASE DeleteRatingRow(r, i)
      BY <2>1 DEF DeleteRatingRow, RowStep, TypeInv, TypeOK
    <2>2. CASE UpdateRatingRow(r, i, note, f) /\ row[i] = NoRow
      BY <2>2 DEF UpdateRatingRow, RowStep
    <2>3. CASE UpdateRatingRow(r, i, note, f) /\ row[i] # NoRow
      <3>1. row[i] \in Row
        BY <2>3 DEF TypeInv, TypeOK
      <3>2. row'[i].key = row[i].key /\ \A j \in Ids \ {i} : row'[j] = row[j]
        BY <2>3, <3>1 DEF UpdateRatingRow, TypeInv, TypeOK, Row
      <3> QED
        BY <2>3, <3>2 DEF UpdateRatingRow, RowStep
    <2> QED
      BY <1>3, <2>1, <2>2, <2>3
  <1>4. ASSUME NEW r \in Requests, InsertRating(r)
        PROVE  \E k, note, f : AddRatingRow(r, k, note, f)
    BY <1>4 DEF InsertRating
  <1>5. ASSUME NEW r \in Requests, WriteRating(r)
        PROVE  \E i \in Ids : \E note, f : UpdateRatingRow(r, i, note, f) \/ DeleteRatingRow(r, i)
    <2>1. request[r].id \in Ids
      BY <1>5 DEF WriteRating, TypeInv, NamesARow
    <2> QED
      BY <1>5, <2>1 DEF WriteRating
  <1>6. ASSUME NEW r \in Requests,
               \/ \E k \in Key, s \in Seasons, n \in Given : AddRating(r, k, s, n)
               \/ \E i \in Ids, u \in Users, s \in Seasons :
                     \/ \E n \in Given : ReadRating(r, "update", i, u, s, n)
                     \/ ReadRating(r, "deleteSeason", i, u, s, 0)
                     \/ ReadRating(r, "delete", i, u, s, 0)
               \/ ReadPrevious(r) \/ ReadSeasons(r) \/ Abandon(r)
        PROVE  UNCHANGED <<row, drawn>>
    BY <1>6 DEF AddRating, ReadRating, ReadPrevious, ReadSeasons, Abandon, Fail
  <1>7. CASE UNCHANGED vars
    BY <1>1, <1>7 DEF vars
  <1> QED
    BY <1>1, <1>2, <1>3, <1>4, <1>5, <1>6, <1>7 DEF Next

(* Rows are under drawn ids, and a key has one row. *)
RowsAreDrawn == \A i \in Ids : row[i] # NoRow => i \in drawn

(* Every step keeps that. *)
LEMMA KeyStep ==
    TypeInv /\ RowsAreDrawn /\ OneRatingPerKey /\ [Next]_vars => (RowsAreDrawn /\ OneRatingPerKey)'
  <1> SUFFICES ASSUME TypeInv, RowsAreDrawn, OneRatingPerKey, [Next]_vars
               PROVE  RowsAreDrawn' /\ OneRatingPerKey'
    OBVIOUS
  <1>1. RowsAreDrawn'
    BY OneRowStep DEF RowsAreDrawn
  <1>2. ASSUME NEW i \in Ids, NEW j \in Ids, i # j,
               row'[i] # NoRow, row'[j] # NoRow, row'[i].key = row'[j].key,
               row'[j] = row[j]
        PROVE  FALSE
    BY <1>2, OneRowStep DEF RowStep, RowOf, OneRatingPerKey
  <1>3. OneRatingPerKey'
    BY <1>2, OneRowStep DEF OneRatingPerKey
  <1> QED
    BY <1>1, <1>3

(* A user never has two ratings of a title in a group. *)
THEOREM KeysStayUnique == Spec => []OneRatingPerKey
  <1>1. Init => RowsAreDrawn /\ OneRatingPerKey
    BY DEF Init, RowsAreDrawn, OneRatingPerKey
  <1> QED
    BY <1>1, KeyStep, TypeAlways, PTL DEF Spec

(* A rating that was deleted never comes back under its id. *)
THEOREM DeletedNeverReturns == Spec => DeletedStaysDeleted
  <1>1. TypeInv /\ [Next]_vars => [\A i \in drawn : row[i] = NoRow => row'[i] = NoRow]_vars
    <2> SUFFICES ASSUME TypeInv, [Next]_vars, NEW i \in drawn, row[i] = NoRow
                 PROVE  row'[i] = NoRow
      OBVIOUS
    <2>1. i \in Ids
      BY DEF TypeInv, TypeOK
    <2> QED
      BY <2>1, OneRowStep DEF RowStep
  <1> QED
    BY <1>1, TypeAlways, PTL DEF Spec, DeletedStaysDeleted

-----------------------------------------------------------------------------
(* Seasons *)

(* What a request past its insert relies on: its id was drawn, a row that  *)
(* is there has its key, and what is left to write are the seasons as they *)
(* are, but for its own, for as long as nobody else wrote the row.         *)
RequestSound(r) ==
    LET q == request[r]
    IN  /\ q.id \in drawn
        /\ row[q.id] # NoRow => row[q.id].key = q.key
        /\ q.at = "read" => q.seasons = NoSeasons
        /\ q.at = "write" /\ q.op # "delete" =>
             /\ IsSeries(q.key) /\ q.op # "deleteSeason" => Rated(q.seasons) # {}
             /\ ~IsSeries(q.key) => q.op = "update" /\ q.seasons = NoSeasons
             /\ q.alone => \A s \in Seasons \ {q.season} :
                              q.seasons[s] = SeasonsOf(q.id)[s]

AllSound == \A r \in Requests :
               request[r] # NoRequest /\ request[r].at # "insert" => RequestSound(r)

(* The inductive invariant: NoteIsMean needs that a write knows whether    *)
(* its row is a series', and OnlyItsSeason what a request has read.        *)
SeasonInv == TypeInv /\ RowsAreDrawn /\ AllSound /\ NoteIsMean

(* A row's note is one of its seasons', and they are some; or it has none. *)
MeanRow(rw) == IF IsSeries(rw.key)
               THEN Rated(rw.seasons) # {} /\ rw.note \in OverallNotes(rw.seasons)
               ELSE rw.seasons = NoSeasons

LEMMA MeanRows ==
    ASSUME NEW rw \in Row
    PROVE  MeanRow(rw) <=>
             IF IsSeries(rw.key)
             THEN LET n == Cardinality(Rated(rw.seasons))
                      total == Sum(rw.seasons)
                  IN  /\ n > 0
                      /\ 2 * (n * rw.note - total) <= n
                      /\ 2 * (total - n * rw.note) <= n
             ELSE rw.seasons = NoSeasons
  <1> DEFINE S == Rated(rw.seasons)
  <1>1. IsFiniteSet(S) /\ Cardinality(S) \in Nat
    BY RatingsAssumption, FS_Subset, FS_CardinalityType DEF Rated
  <1>2. Cardinality(S) = 0 <=> S = {}
    BY <1>1, FS_EmptySet
  <1>3. Cardinality(S) > 0 <=> S # {}
    <2> HIDE DEF S
    <2> QED
      BY <1>1, <1>2
  <1> QED
    BY <1>3 DEF MeanRow, OverallNotes, Row

(* A write ends its request and tells those that read its row; it touches  *)
(* no other row.                                                           *)
LEMMA WriteTells ==
    ASSUME TypeInv, NEW r \in Requests, InsertRating(r) \/ WriteRating(r)
    PROVE  /\ request'[r] = NoRequest
           /\ \A q \in Requests \ {r} :
                \/ /\ request'[q] = request[q]
                   /\ request[q] # NoRequest /\ request[q].id \in Ids =>
                         row'[request[q].id] = row[request[q].id]
                \/ /\ request[q] # NoRequest
                   /\ request'[q] = [request[q] EXCEPT !.alone = FALSE]
  <1>1. \/ Fail(r)
        \/ \E i \in Ids : Done(r, i) /\ \A j \in Ids \ {i} : row'[j] = row[j]
    <2>1. ASSUME InsertRating(r) PROVE Fail(r) \/ \E i \in Ids : Done(r, i) /\ \A j \in Ids \ {i} : row'[j] = row[j]
      <3>1. PICK k, note, f : AddRatingRow(r, k, note, f)
        BY <2>1 DEF InsertRating
      <3> QED
        BY <3>1 DEF AddRatingRow, Fail, TypeInv, TypeOK
    <2>2. ASSUME WriteRating(r) PROVE \E i \in Ids : Done(r, i) /\ \A j \in Ids \ {i} : row'[j] = row[j]
      <3>1. request[r].id \in Ids
        BY <2>2 DEF WriteRating, TypeInv, NamesARow
      <3>2. DeleteRatingRow(r, request[r].id)
            \/ \E note, f : UpdateRatingRow(r, request[r].id, note, f)
        BY <2>2 DEF WriteRating
      <3> QED
        BY <3>1, <3>2 DEF DeleteRatingRow, UpdateRatingRow, TypeInv, TypeOK
    <2> QED
      BY <2>1, <2>2
  <1>2. CASE Fail(r)
    BY <1>2 DEF Fail, TypeInv, TypeOK
  <1>3. ASSUME NEW i \in Ids, Done(r, i), \A j \in Ids \ {i} : row'[j] = row[j]
        PROVE  /\ request'[r] = NoRequest
               /\ \A q \in Requests \ {r} :
                    \/ /\ request'[q] = request[q]
                       /\ request[q] # NoRequest /\ request[q].id \in Ids =>
                             row'[request[q].id] = row[request[q].id]
                    \/ /\ request[q] # NoRequest
                       /\ request'[q] = [request[q] EXCEPT !.alone = FALSE]
    BY <1>3 DEF Done
  <1> QED
    BY <1>1, <1>2, <1>3

(* A request stays sound through the steps of the others. *)
LEMMA OthersStaySound ==
    ASSUME SeasonInv, [Next]_vars, NEW r \in Requests, RequestSound(r),
           request[r] # NoRequest, request[r].at # "insert",
           \/ request'[r] = request[r] /\ row'[request[r].id] = row[request[r].id]
           \/ request'[r] = [request[r] EXCEPT !.alone = FALSE]
    PROVE  RequestSound(r)'
  <1> DEFINE q == request[r]
  <1>1. q \in Request /\ q.id \in Ids /\ q.id \in drawn /\ drawn \subseteq drawn'
    BY OneRowStep DEF SeasonInv, TypeInv, TypeOK, NamesARow, RequestSound
  <1>2. row'[q.id] # NoRow => row'[q.id].key = q.key
    BY <1>1, OneRowStep DEF RowStep, RequestSound, SeasonInv
  <1>3. CASE request'[r] = request[r] /\ row'[q.id] = row[q.id]
    BY <1>1, <1>2, <1>3 DEF RequestSound, SeasonsOf
  <1>4. CASE request'[r] = [q EXCEPT !.alone = FALSE]
    <2>1. /\ request'[r].id = q.id /\ request'[r].key = q.key /\ request'[r].at = q.at
          /\ request'[r].op = q.op /\ request'[r].seasons = q.seasons
          /\ ~request'[r].alone
      <3> HIDE DEF q
      <3> QED
        BY <1>1, <1>4 DEF Request
    <2> QED
      BY <1>1, <1>2, <2>1 DEF RequestSound
  <1> QED
    BY <1>3, <1>4

(* A read moves its request on and changes little of it. *)
LEMMA Moved ==
    ASSUME TypeOK, NEW r \in Requests, request[r] # NoRequest, NEW at,
           request' = [request EXCEPT ![r].at = at, ![r].alone = TRUE]
    PROVE  LET p == request'[r]
               q == request[r]
           IN  /\ p.at = at /\ p.id = q.id /\ p.key = q.key /\ p.op = q.op
               /\ p.season = q.season /\ p.seasons = q.seasons
  <1>1. request'[r] = [request[r] EXCEPT !.at = at, !.alone = TRUE]
    BY DEF TypeOK
  <1>2. request[r] \in Request
    BY DEF TypeOK
  <1>3. ASSUME NEW q \in Request
        PROVE  LET p == [q EXCEPT !.at = at, !.alone = TRUE]
               IN  /\ p.at = at /\ p.id = q.id /\ p.key = q.key /\ p.op = q.op
                   /\ p.season = q.season /\ p.seasons = q.seasons
    BY DEF Request
  <1> QED
    BY <1>1, <1>2, <1>3

(* Every step keeps the requests sound. *)
LEMMA SoundStep == SeasonInv /\ [Next]_vars => AllSound'
  <1> SUFFICES ASSUME SeasonInv, [Next]_vars, NEW r \in Requests,
                      request'[r] # NoRequest, request'[r].at # "insert"
               PROVE  RequestSound(r)'
    BY DEF AllSound
  <1> USE RatingsAssumption, RequestAssumption DEF SeasonInv, TypeInv
  <1>1. CASE request'[r] = request[r] /\ UNCHANGED row
    BY <1>1, OthersStaySound DEF AllSound
  <1>2. ASSUME NEW q \in Requests, InsertRating(q) \/ WriteRating(q) PROVE RequestSound(r)'
    <2>1. r # q
      BY <1>2, WriteTells
    <2>2. CASE /\ request'[r] = request[r]
               /\ request[r] # NoRequest /\ request[r].id \in Ids =>
                     row'[request[r].id] = row[request[r].id]
      BY <2>2, OthersStaySound DEF AllSound, NamesARow
    <2>3. CASE request[r] # NoRequest /\ request'[r] = [request[r] EXCEPT !.alone = FALSE]
      <3>1. request[r].at # "insert"
        BY <2>3 DEF TypeOK, Request
      <3> QED
        BY <2>3, <3>1, OthersStaySound DEF AllSound
    <2> QED
      BY <1>2, <2>1, <2>2, <2>3, WriteTells
  (* A request that begins with a row it found. *)
  <1>3. ASSUME NEW q \in Requests, NEW op, NEW at \in {"read", "reread", "insert"},
               NEW i, NEW k, NEW s, NEW n, Begin(q, op, at, i, k, s, n), UNCHANGED <<row, drawn>>,
               at # "insert" => i \in Ids /\ row[i] # NoRow /\ row[i].key = k
        PROVE  RequestSound(r)'
    <2>1. CASE r # q
      BY <1>1, <1>3, <2>1 DEF Begin, TypeOK
    <2>2. CASE r = q
      <3>1. /\ request'[r].at = at /\ request'[r].id = i /\ request'[r].key = k
            /\ request'[r].seasons = NoSeasons
        BY <1>3, <2>2 DEF Begin, TypeOK
      <3>2. i \in drawn /\ row[i].key = k /\ at # "write"
        BY <1>3, <3>1 DEF RowsAreDrawn
      <3> QED
        BY <1>3, <3>1, <3>2 DEF RequestSound
    <2> QED
      BY <2>1, <2>2
  <1>4. ASSUME NEW q \in Requests, NEW k \in Key, NEW s \in Seasons, NEW n \in Given,
               AddRating(q, k, s, n)
        PROVE  RequestSound(r)'
    <2>1. \/ Begin(q, "add", "insert", NoRow, k, s, n)
          \/ \E i \in RowOf(k) : Begin(q, "add", "reread", i, k, s, n)
      BY <1>4 DEF AddRating
    <2>2. UNCHANGED <<row, drawn>>
      BY <1>4 DEF AddRating
    <2> QED
      BY <1>3, <2>1, <2>2 DEF RowOf
  <1>5. ASSUME NEW q \in Requests, NEW op, NEW i \in Ids, NEW u, NEW s, NEW n,
               ReadRating(q, op, i, u, s, n)
        PROVE  RequestSound(r)'
    BY <1>3, <1>5 DEF ReadRating
  <1>6. ASSUME NEW q \in Requests, Fail(q) PROVE RequestSound(r)'
    BY <1>1, <1>6 DEF Fail, TypeOK
  (* It has looked at the row's seasons; a movie's are none. *)
  <1>7. ASSUME ReadPrevious(r), request'[r].at = "write", UNCHANGED <<row, drawn>>
        PROVE  RequestSound(r)'
    <2> DEFINE q == request[r]
    <2> DEFINE Moves(at) == request' = [request EXCEPT ![r].at = at, ![r].alone = TRUE]
    <2>1. q # NoRequest /\ RequestSound(r) /\ q.id \in Ids /\ q.at = "read"
      BY <1>7 DEF ReadPrevious, AllSound, NamesARow
    <2>2. \/ Moves("write") /\ (q.op = "delete" \/ (q.op = "update" /\ ~IsSeries(q.key)))
          \/ Moves("reread")
          \/ Fail(r)
      BY <1>7 DEF ReadPrevious
    <2>3. /\ q.op = "delete" \/ (q.op = "update" /\ ~IsSeries(q.key))
          /\ request'[r].id = q.id /\ request'[r].key = q.key /\ request'[r].op = q.op
          /\ request'[r].seasons = q.seasons
      <3>1. ~Fail(r)
        BY DEF Fail, TypeOK
      <3>2. ~Moves("reread")
        BY <1>7, <2>1, Moved
      <3> QED
        BY <2>1, <2>2, <3>1, <3>2, Moved
    <2>4. CASE q.op = "delete"
      BY <1>7, <2>1, <2>3, <2>4 DEF RequestSound
    <2>5. CASE q.op = "update" /\ ~IsSeries(q.key)
      <3> PICK i \in Ids : i = q.id
        BY <2>1
      <3>1. SeasonsOf(i)' = NoSeasons
        BY <1>7, <2>1, <2>5 DEF RequestSound, SeasonsOf, NoteIsMean
      <3> QED
        BY <1>7, <2>1, <2>3, <2>5, <3>1 DEF RequestSound, SeasonsOf
    <2> QED
      BY <2>3, <2>4, <2>5
  (* It has decided on the seasons to write: but for its own they are what *)
  (* it read, and unless it deletes, its own has a note.                   *)
  <1>8. ASSUME ReadSeasons(r), request'[r].at = "write"
        PROVE  RequestSound(r)'
    <2> DEFINE q == request[r]
    <2>1. q \in Request /\ RequestSound(r) /\ q.id \in Ids
      BY <1>8 DEF ReadSeasons, AllSound, NamesARow, TypeOK
    <2>2. /\ IsSeries(q.key) /\ UNCHANGED <<row, drawn>>
          /\ \E f \in Decided(q, SeasonsOf(q.id)) :
               request' = [request EXCEPT ![r].at = "write", ![r].seasons = f, ![r].alone = TRUE]
      <3>1. ~Fail(r)
        BY DEF Fail, TypeOK
      <3> QED
        BY <1>8, <3>1 DEF ReadSeasons
    <2>3. PICK f \in Decided(q, SeasonsOf(q.id)) :
             request' = [request EXCEPT ![r].at = "write", ![r].seasons = f, ![r].alone = TRUE]
      BY <2>2
    <2>4. /\ request'[r].id = q.id /\ request'[r].key = q.key /\ request'[r].op = q.op
          /\ request'[r].season = q.season /\ request'[r].seasons = f
      <3>1. request'[r] = [q EXCEPT !.at = "write", !.seasons = f, !.alone = TRUE]
        BY <2>3 DEF TypeOK
      <3>2. ASSUME NEW p \in Request, NEW z, z = [p EXCEPT !.at = "write", !.seasons = f, !.alone = TRUE]
            PROVE  /\ z.id = p.id /\ z.key = p.key /\ z.op = p.op
                   /\ z.season = p.season /\ z.seasons = f
        BY <3>2 DEF Request
      <3> QED
        BY <2>1, <3>1, <3>2
    <2> PICK i \in Ids : i = q.id
      BY <2>1
    <2>5. SeasonsOf(i) \in BySeason
      BY DEF SeasonsOf, TypeOK, Row, NoSeasons, BySeason
    <2>6. /\ \A s \in Seasons \ {q.season} : f[s] = SeasonsOf(i)[s]
          /\ q.op # "deleteSeason" => Rated(f) # {}
      <3>1. q.season \in Seasons /\ q.note \in Notes /\ q.note # Unrated
        BY <2>1 DEF Request
      <3> QED
        BY <2>3, <2>5, <3>1 DEF Decided, Rated, BySeason
    <2>7. /\ i \in drawn' /\ SeasonsOf(i)' = SeasonsOf(i)
          /\ row'[i] # NoRow => row'[i].key = q.key
      BY <2>1, <2>2 DEF RequestSound, SeasonsOf
    <2>8. request'[r].id = i /\ request'[r].key = q.key /\ IsSeries(q.key)
      BY <2>2, <2>4
    <2>9. SeasonsOf(request[r].id)' = SeasonsOf(i)'
      BY <2>8 DEF SeasonsOf
    <2> HIDE DEF q
    <2> QED
      BY <1>8, <2>4, <2>6, <2>7, <2>8, <2>9 DEF RequestSound
  <1>9. CASE UNCHANGED vars
    BY <1>1, <1>9 DEF vars
  <1>10. ASSUME NEW q \in Requests, ReadPrevious(q) \/ ReadSeasons(q), q # r
         PROVE  RequestSound(r)'
    <2>1. request'[r] = request[r] /\ UNCHANGED row
      BY <1>10 DEF ReadPrevious, ReadSeasons, Fail, TypeOK
    <2> QED
      BY <1>1, <2>1
  <1>11. CASE ReadPrevious(r)
    <2>1. ~Fail(r)
      BY DEF Fail, TypeOK
    <2>2. \E at \in {"write", "reread"} :
             /\ request' = [request EXCEPT ![r].at = at, ![r].alone = TRUE]
             /\ UNCHANGED <<row, drawn>>
      BY <1>11, <2>1 DEF ReadPrevious
    <2>3. PICK at \in {"write", "reread"} :
             /\ request' = [request EXCEPT ![r].at = at, ![r].alone = TRUE]
             /\ UNCHANGED <<row, drawn>>
      BY <2>2
    <2>4. RequestSound(r) /\ request[r] # NoRequest
      BY <1>11 DEF ReadPrevious, AllSound
    <2>5. CASE at = "write"
      BY <1>7, <1>11, <2>3, <2>4, <2>5, Moved
    <2>6. CASE at = "reread"
      <3>1. /\ request'[r].id = request[r].id /\ request'[r].key = request[r].key
            /\ request'[r].at = "reread"
        BY <2>3, <2>4, <2>6, Moved
      <3>2. /\ request'[r].id \in drawn'
            /\ row'[request'[r].id] # NoRow => row'[request'[r].id].key = request'[r].key
        BY <2>3, <2>4, <3>1 DEF RequestSound
      <3> QED
        BY <3>1, <3>2 DEF RequestSound
    <2> QED
      BY <2>5, <2>6
  <1>12. CASE ReadSeasons(r)
    <2>1. ~Fail(r)
      BY DEF Fail, TypeOK
    <2>2. \E f : request' = [request EXCEPT ![r].at = "write", ![r].seasons = f, ![r].alone = TRUE]
      BY <1>12, <2>1 DEF ReadSeasons
    <2>3. request'[r].at = "write"
      <3>1. request[r] \in Request
        BY <1>12 DEF ReadSeasons, TypeOK
      <3>2. \E f : request'[r] = [request[r] EXCEPT !.at = "write", !.seasons = f, !.alone = TRUE]
        BY <2>2 DEF TypeOK
      <3>3. ASSUME NEW p \in Request, NEW f
            PROVE  [p EXCEPT !.at = "write", !.seasons = f, !.alone = TRUE].at = "write"
        BY DEF Request
      <3> QED
        BY <3>1, <3>2, <3>3
    <2> QED
      BY <1>8, <1>12, <2>3
  <1> QED
    BY <1>2, <1>4, <1>5, <1>6, <1>9, <1>10, <1>11, <1>12 DEF Next, Abandon

(* A row that is inserted or rewritten has the mean of its seasons. *)
LEMMA MeanStep == SeasonInv /\ [Next]_vars => NoteIsMean'
  <1> SUFFICES ASSUME SeasonInv, [Next]_vars PROVE NoteIsMean'
    OBVIOUS
  <1> USE RatingsAssumption, RequestAssumption
  <1>1. TypeOK /\ TypeOK'
    BY TypeStep DEF SeasonInv, TypeInv
  <1> SUFFICES ASSUME NEW i \in Ids, row'[i] # NoRow
               PROVE  MeanRow(row'[i])
    <2>1. \A i \in Ids : row'[i] # NoRow => row'[i] \in Row
      BY <1>1 DEF TypeOK
    <2> QED
      BY <2>1, MeanRows DEF NoteIsMean
  <1>2. row[i] # NoRow => MeanRow(row[i])
    <2>1. row[i] # NoRow => row[i] \in Row
      BY <1>1 DEF TypeOK
    <2> QED
      BY <2>1, MeanRows DEF NoteIsMean, SeasonInv
  <1>3. CASE row'[i] = row[i]
    BY <1>2, <1>3
  <1>4. ASSUME NEW r \in Requests, InsertRating(r) PROVE MeanRow(row'[i])
    <2> DEFINE q == request[r]
               first == [NoSeasons EXCEPT ![q.season] = q.note]
    <2>1. q \in Request
      BY <1>1, <1>4 DEF InsertRating, TypeOK
    <2>2. ASSUME NEW x, NEW f, AddRatingRow(r, q.key, x, f),
                 IF IsSeries(q.key) THEN Rated(f) # {} /\ x \in OverallNotes(f)
                                    ELSE f = NoSeasons
          PROVE  MeanRow(row'[i])
      <3>1. CASE row'[i] = [key |-> q.key, note |-> x, seasons |-> f]
        <4>1. row'[i].key = q.key /\ row'[i].note = x /\ row'[i].seasons = f
          BY <3>1
        <4> QED
          BY <2>2, <4>1 DEF MeanRow
      <3> QED
        BY <1>1, <1>3, <2>2, <3>1 DEF AddRatingRow, TypeOK
    <2>3. CASE IsSeries(q.key)
      <3>1. PICK x \in OverallNotes(first) : AddRatingRow(r, q.key, x, first)
        BY <1>4, <2>3 DEF InsertRating
      <3>2. q.season \in Rated(first)
        BY <2>1 DEF Request, Rated, NoSeasons
      <3> QED
        BY <2>2, <2>3, <3>1, <3>2
    <2>4. CASE ~IsSeries(q.key)
      <3>1. AddRatingRow(r, q.key, q.note, NoSeasons)
        BY <1>4, <2>4 DEF InsertRating
      <3> QED
        BY <2>2, <2>4, <3>1
    <2> QED
      BY <2>3, <2>4
  <1>5. ASSUME NEW r \in Requests, WriteRating(r) PROVE MeanRow(row'[i])
    <2> DEFINE q == request[r]
    <2>1. q \in Request /\ RequestSound(r) /\ q.at = "write"
      BY <1>1, <1>5 DEF WriteRating, SeasonInv, AllSound, TypeOK
    <2>2. ASSUME NEW x, NEW f, UpdateRatingRow(r, q.id, x, f),
                 IF IsSeries(q.key) THEN Rated(f) # {} /\ x \in OverallNotes(f)
                                    ELSE f = NoSeasons
          PROVE  MeanRow(row'[i])
      <3>1. CASE i # q.id \/ row[i] = NoRow
        BY <1>1, <1>3, <2>2, <3>1 DEF UpdateRatingRow, TypeOK
      <3>2. CASE i = q.id /\ row[i] # NoRow
        <4>1. row'[i] = [row[i] EXCEPT !.note = x, !.seasons = f]
          BY <1>1, <2>2, <3>2 DEF UpdateRatingRow, TypeOK
        <4>2. row[i] \in Row /\ row[i].key = q.key
          BY <1>1, <2>1, <3>2 DEF RequestSound, TypeOK
        <4>3. row'[i].key = q.key /\ row'[i].note = x /\ row'[i].seasons = f
          BY <4>1, <4>2 DEF Row
        <4> QED
          BY <2>2, <4>3 DEF MeanRow
      <3> QED
        BY <3>1, <3>2
    <2>3. CASE DeleteRatingRow(r, q.id)
      BY <1>1, <1>3, <2>3 DEF DeleteRatingRow, TypeOK
    <2>4. CASE q.op # "delete" /\ Rated(q.seasons) # {}
      <3>1. PICK x \in OverallNotes(q.seasons) : UpdateRatingRow(r, q.id, x, q.seasons)
        BY <1>5, <2>4 DEF WriteRating
      <3>2. IsSeries(q.key)
        BY <2>1, <2>4 DEF RequestSound, Rated, NoSeasons
      <3> QED
        BY <2>2, <2>4, <3>1, <3>2
    <2>5. CASE Rated(q.seasons) = {} /\ q.op \notin {"delete", "deleteSeason"}
      <3>1. UpdateRatingRow(r, q.id, q.note, NoSeasons) /\ ~IsSeries(q.key)
        BY <1>5, <2>1, <2>5 DEF WriteRating, RequestSound
      <3> QED
        BY <2>2, <3>1
    <2> QED
      BY <1>5, <2>3, <2>4, <2>5 DEF WriteRating
  <1>6. ASSUME ~\E r \in Requests : InsertRating(r) \/ WriteRating(r)
        PROVE  row' = row
    <2>1. ASSUME NEW r \in Requests, NEW k, NEW s, NEW n, AddRating(r, k, s, n)
          PROVE  row' = row
      BY <2>1 DEF AddRating
    <2>2. ASSUME NEW r \in Requests, NEW op, NEW j, NEW u, NEW s, NEW n,
                 ReadRating(r, op, j, u, s, n)
          PROVE  row' = row
      BY <2>2 DEF ReadRating
    <2>3. ASSUME NEW r \in Requests, ReadPrevious(r) PROVE row' = row
      BY <2>3 DEF ReadPrevious, Fail
    <2>4. ASSUME NEW r \in Requests, ReadSeasons(r) PROVE row' = row
      BY <2>4 DEF ReadSeasons, Fail
    <2>5. ASSUME NEW r \in Requests, Abandon(r) PROVE row' = row
      BY <2>5 DEF Abandon, Fail
    <2>6. CASE UNCHANGED vars
      BY <2>6 DEF vars
    <2> QED
      BY <1>6, <2>1, <2>2, <2>3, <2>4, <2>5, <2>6 DEF Next
  <1> QED
    BY <1>3, <1>4, <1>5, <1>6

(* The seasons are sound in every state. *)
LEMMA SeasonAlways == Spec => []SeasonInv
  <1>1. Init => SeasonInv
    BY RequestAssumption DEF Init, SeasonInv, TypeInv, TypeOK, NamesARow, RowsAreDrawn, AllSound, NoteIsMean
  <1>2. SeasonInv /\ [Next]_vars => SeasonInv'
    <2> SUFFICES ASSUME SeasonInv, [Next]_vars PROVE SeasonInv'
      OBVIOUS
    <2>1. RowsAreDrawn'
      BY OneRowStep DEF RowsAreDrawn, SeasonInv
    <2> QED
      BY <2>1, TypeStep, SoundStep, MeanStep DEF SeasonInv
  <1> QED
    BY <1>1, <1>2, PTL DEF Spec

(* A series' note is always the mean of its season notes, and a rating is  *)
(* never left without one; a movie's has none.                             *)
THEOREM NoteStaysMean == Spec => []NoteIsMean
  <1>1. SeasonInv => NoteIsMean
    BY DEF SeasonInv
  <1> QED
    BY <1>1, SeasonAlways, PTL

(* A write that no other write overlapped changes its own season only.     *)
THEOREM WritesTouchOneSeason == Spec => OnlyItsSeason
  <1>1. SeasonInv /\ [Next]_vars =>
          [\A r \in Requests, i \in Ids :
             /\ request[r] # NoRequest /\ request[r].id = i /\ request[r].alone
             /\ request[r].op # "delete" /\ WriteRating(r)
             => \A s \in Seasons \ {request[r].season} :
                   SeasonsOf(i)[s] = SeasonsOf(i)'[s]]_vars
    <2> SUFFICES ASSUME SeasonInv, NEW r \in Requests, NEW i \in Ids,
                        request[r] # NoRequest, request[r].id = i, request[r].alone,
                        request[r].op # "delete", WriteRating(r),
                        NEW s \in Seasons \ {request[r].season}
                 PROVE  SeasonsOf(i)[s] = SeasonsOf(i)'[s]
      OBVIOUS
    <2> DEFINE q == request[r]
    <2>1. TypeOK /\ RequestSound(r) /\ q.at = "write"
      BY DEF WriteRating, SeasonInv, TypeInv, AllSound
    <2>2. q.seasons \in BySeason /\ q.note \in Notes /\ NoSeasons \in BySeason
      <3>1. q \in Request
        BY <2>1 DEF TypeOK
      <3> QED
        BY <3>1 DEF Request, BySeason, NoSeasons
    <2>3. q.seasons[s] = SeasonsOf(i)[s] /\ NoSeasons[s] = Unrated
      BY <2>1 DEF RequestSound, NoSeasons
    <2>4. ASSUME NEW x \in Notes, NEW f \in BySeason,
                 UpdateRatingRow(r, i, x, f), f[s] = SeasonsOf(i)[s]
          PROVE  SeasonsOf(i)[s] = SeasonsOf(i)'[s]
      <3>1. CASE row[i] = NoRow
        BY <2>4, <3>1 DEF UpdateRatingRow, SeasonsOf
      <3>2. CASE row[i] # NoRow
        <4>1. row[i] \in Row /\ row'[i] = [row[i] EXCEPT !.note = x, !.seasons = f]
          BY <2>1, <2>4, <3>2 DEF UpdateRatingRow, TypeOK
        <4>2. row'[i].seasons = f
          BY <4>1 DEF Row
        <4>3. row'[i] # NoRow
          <5>1. row'[i] \in Row
            BY <4>1 DEF Row
          <5> QED
            BY <5>1, RatingsAssumption
        <4> QED
          BY <2>4, <4>2, <4>3 DEF SeasonsOf
      <3> QED
        BY <3>1, <3>2
    <2>5. CASE Rated(q.seasons) # {}
      <3>1. \E x \in Notes : UpdateRatingRow(r, i, x, q.seasons)
        BY <2>5, NoteTypes DEF WriteRating
      <3> QED
        BY <2>3, <2>2, <2>4, <3>1
    <2>6. CASE Rated(q.seasons) = {}
      <3>1. SeasonsOf(i)[s] = Unrated
        BY <2>3, <2>6 DEF Rated
      <3>2. CASE DeleteRatingRow(r, i)
        <4>1. SeasonsOf(i)' = NoSeasons
          BY <2>1, <3>2 DEF DeleteRatingRow, TypeOK, SeasonsOf
        <4> QED
          BY <2>3, <3>1, <4>1
      <3>3. CASE UpdateRatingRow(r, i, q.note, NoSeasons)
        BY <2>3, <2>2, <2>4, <3>1, <3>3
      <3> QED
        BY <2>6, <3>2, <3>3 DEF WriteRating
    <2> QED
      BY <2>5, <2>6
  <1> QED
    BY <1>1, SeasonAlways, PTL DEF Spec, OnlyItsSeason
=============================================================================
