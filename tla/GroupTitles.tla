---------------------------- MODULE GroupTitles ----------------------------
(***************************************************************************)
(* The titles of one group and what the group has watched: a row per title *)
(* with its own watched flag and date, and for a series a row per season   *)
(* from which the title's flag and date are recomputed.                    *)
(*                                                                         *)
(* A season update is one transaction of several statements at READ        *)
(* COMMITTED: it locks its own season row when it writes it, then reads    *)
(* the other seasons without locking them.  Each statement is a step here. *)
(***************************************************************************)
EXTENDS Integers

CONSTANTS Titles,
          Series,     \* the titles that are series; the others are movies
          Seasons,    \* season numbers
          MaxDate,    \* bound: watched dates are 1..MaxDate
          Calls,      \* calls of the handlers that may overlap
          Keep,       \* a field the call leaves out
          NoRow,      \* a row that is not there
          NoCall      \* a slot that is free

NoDate == 0
Dates  == 1..MaxDate
Row    == [watched : BOOLEAN, at : Dates \cup {NoDate}]
Blank  == [watched |-> FALSE, at |-> NoDate]

ASSUME GroupTitlesAssumption ==
    /\ Series \subseteq Titles /\ MaxDate \in Nat
    /\ NoRow \notin Row
    /\ Keep \notin BOOLEAN /\ Keep \notin Dates \cup {NoDate} \cup Seasons

VARIABLES
    row,      \* group_titles, by title
    season,   \* group_title_seasons, by title and season
    member,   \* the caller is in the group
    deleted,  \* the group is soft-deleted
    call      \* the calls in flight

titleVars == <<row, season, member, deleted, call>>

SeasonRows == [Seasons -> Row \cup {NoRow}]

(* "held": the season's row is written and locked, and not yet committed.  *)
(* "rolled": the title's new row is computed too.                          *)
Call == [at : {"movie", "moving", "series", "merged", "held", "rolled", "add", "remove"},
         title : Titles, season : Seasons \cup {Keep},
         watched : BOOLEAN \cup {Keep}, date : Dates \cup {NoDate, Keep},
         row : Row,           \* what the call is about to write
         seen : SeasonRows]   \* the seasons the title's row is computed from

ASSUME CallAssumption == NoCall \notin Call

TitlesTypeOK ==
    /\ row \in [Titles -> Row \cup {NoRow}]
    /\ season \in [Titles -> SeasonRows]
    /\ member \in BOOLEAN /\ deleted \in BOOLEAN
    /\ call \in [Calls -> Call \cup {NoCall}]

-----------------------------------------------------------------------------
CallerSees == member /\ ~deleted

CallAt(c, step)  == call[c] # NoCall /\ call[c].at = step
EndCall(c)       == call' = [call EXCEPT ![c] = NoCall]
Advance(c, step) == call' = [call EXCEPT ![c].at = step]

BeginCall(c, step, t, s, w, d) ==
    /\ call[c] = NoCall
    /\ call' = [call EXCEPT ![c] =
          [at |-> step, title |-> t, season |-> s, watched |-> w, date |-> d,
           row |-> Blank, seen |-> [z \in Seasons |-> NoRow]]]

(* ErrUpdatingWatchedAtWhenWatchedIsFalse *)
Refused(old, w, d) == d \in Dates /\ w # TRUE /\ ~old.watched

(* Unwatching clears the date, whatever date came with it. *)
DateToWrite(w, d) == IF w = FALSE THEN NoDate ELSE d

(* Only the fields the call names are changed. *)
Merged(old, q) == [watched |-> IF q.watched = Keep THEN old.watched ELSE q.watched,
                   at      |-> IF q.date = Keep THEN old.at ELSE q.date]

(* Wrong on purpose: every season must be watched. *)
RollupOfAll(seasons) ==
    LET watched == {s \in Seasons : seasons[s] # NoRow /\ seasons[s].watched}
        dates   == {seasons[s].at : s \in watched} \cup {NoDate}
    IN  [watched |-> \A s \in Seasons : seasons[s] # NoRow => s \in watched,
         at |-> CHOOSE d \in dates : \A e \in dates : e <= d]

(* The recompute rule: watched if at least one season is, at the latest    *)
(* date among the watched ones.                                            *)
Rollup(seasons) ==
    LET watched == {s \in Seasons : seasons[s] # NoRow /\ seasons[s].watched}
        dates   == {seasons[s].at : s \in watched} \cup {NoDate}
    IN  [watched |-> watched # {}, at |-> CHOOSE d \in dates : \A e \in dates : e <= d]

TitlesInit ==
    /\ row = [t \in Titles |-> NoRow]
    /\ season = [t \in Titles |-> [s \in Seasons |-> NoRow]]
    /\ member = TRUE /\ deleted = FALSE
    /\ call = [c \in Calls |-> NoCall]

-----------------------------------------------------------------------------
(* Adding and removing a title *)

StartAddTitle(c, t) ==
    /\ CallerSees /\ row[t] = NoRow
    /\ BeginCall(c, "add", t, Keep, Keep, Keep)
    /\ UNCHANGED <<row, season, member, deleted>>

(* UpsertGroupTitle: a title added meanwhile is reset. *)
UpsertGroupTitle(c) ==
    /\ CallAt(c, "add")
    /\ row' = [row EXCEPT ![call[c].title] = Blank]
    /\ EndCall(c)
    /\ UNCHANGED <<season, member, deleted>>

StartRemoveTitle(c, t) ==
    /\ CallerSees /\ row[t] # NoRow
    /\ BeginCall(c, "remove", t, Keep, Keep, Keep)
    /\ UNCHANGED <<row, season, member, deleted>>

(* The seasons cascade, so the delete waits for a transaction that has     *)
(* written one of them; the two may deadlock, and then the database aborts *)
(* one or the other.                                                       *)
DeleteGroupTitle(c) ==
    /\ CallAt(c, "remove")
    /\ LET t == call[c].title
       IN  /\ \A q \in Calls : CallAt(q, "held") \/ CallAt(q, "rolled") => call[q].title # t
           /\ row' = IF member THEN [row EXCEPT ![t] = NoRow] ELSE row
           /\ season' = IF member THEN [season EXCEPT ![t] = [s \in Seasons |-> NoRow]]
                        ELSE season
    /\ EndCall(c)
    /\ UNCHANGED <<member, deleted>>

-----------------------------------------------------------------------------
(* UpdateGroupTitleWatched without a season, whatever the title's type *)

StartWatchedForMovie(c, t, w, d) ==
    /\ CallerSees /\ row[t] # NoRow
    /\ ~Refused(row[t], w, d)
    /\ w # Keep \/ d # Keep      \* "no fields to update"
    /\ BeginCall(c, "movie", t, Keep, w, DateToWrite(w, d))
    /\ UNCHANGED <<row, season, member, deleted>>

(* GetGroupTitleRow: the fields the call does not name are read now ... *)
GetGroupTitleRow(c) ==
    /\ CallAt(c, "movie")
    /\ LET q == call[c]
       IN  IF row[q.title] = NoRow THEN EndCall(c)
           ELSE call' = [call EXCEPT ![c].at = "moving",
                                           ![c].row = Merged(row[q.title], q)]
    /\ UNCHANGED <<row, season, member, deleted>>

(* Wrong on purpose: an upsert. *)
UpsertWatchedRow(c) ==
    /\ CallAt(c, "moving")
    /\ row' = [row EXCEPT ![call[c].title] = call[c].row]
    /\ EndCall(c)
    /\ UNCHANGED <<season, member, deleted>>

(* ... and written back, to a title that is still there. *)
UpdateGroupTitleWatchedRow(c) ==
    /\ CallAt(c, "moving")
    /\ LET t == call[c].title
       IN  row' = IF row[t] = NoRow THEN row ELSE [row EXCEPT ![t] = call[c].row]
    /\ EndCall(c)
    /\ UNCHANGED <<season, member, deleted>>

-----------------------------------------------------------------------------
(* UpdateGroupTitleWatched with a season *)

(* The date rule is applied to a season that has a row, and to no other. *)
StartWatchedForTVSeries(c, t, s, w, d) ==
    /\ CallerSees /\ t \in Series /\ row[t] # NoRow
    /\ season[t][s] # NoRow => ~Refused(season[t][s], w, d)
    /\ BeginCall(c, "series", t, s, w, DateToWrite(w, d))
    /\ UNCHANGED <<row, season, member, deleted>>

(* GetGroupRow, GetGroupTitleRow and GetGroupTitleSeasonRow *)
GetGroupTitleSeasonRow(c) ==
    /\ CallAt(c, "series")
    /\ LET q   == call[c]
           old == season[q.title][q.season]
       IN  IF ~CallerSees \/ row[q.title] = NoRow THEN EndCall(c)
           ELSE call' = [call EXCEPT ![c].at = "merged",
                               ![c].row = Merged(IF old = NoRow THEN Blank ELSE old, q)]
    /\ UNCHANGED <<row, season, member, deleted>>

Locked(t, s) == \E q \in Calls : /\ CallAt(q, "held") \/ CallAt(q, "rolled")
                                 /\ call[q].title = t /\ call[q].season = s

(* UpsertGroupTitleSeason: waits for the season's row, and fails on its    *)
(* foreign key when the title has gone.                                    *)
UpsertGroupTitleSeason(c) ==
    /\ CallAt(c, "merged")
    /\ ~Locked(call[c].title, call[c].season)
    /\ IF row[call[c].title] = NoRow THEN EndCall(c) ELSE Advance(c, "held")
    /\ UNCHANGED <<row, season, member, deleted>>

(* Wrong on purpose: the seasons are read before the update is written. *)
SeenBefore(q) == season[q.title]

(* What the transaction sees: the committed seasons and its own. *)
SeenBy(q) == [season[q.title] EXCEPT ![q.season] = q.row]

GetGroupTitleSeasonRows(c) ==
    /\ CallAt(c, "held")
    /\ call' = [call EXCEPT ![c].at = "rolled", ![c].seen = SeenBy(call[c])]
    /\ UNCHANGED <<row, season, member, deleted>>

(* The title's row is written last and both commit. *)
CommitSeason(c) ==
    /\ CallAt(c, "rolled")
    /\ LET q == call[c]
       IN  /\ row' = [row EXCEPT ![q.title] = Rollup(q.seen)]
           /\ season' = [season EXCEPT ![q.title][q.season] = q.row]
    /\ EndCall(c)
    /\ UNCHANGED <<member, deleted>>

-----------------------------------------------------------------------------
(* The client goes away, the server stops or the database aborts the       *)
(* transaction.                                                            *)
AbandonCall(c) ==
    /\ call[c] # NoCall
    /\ EndCall(c)
    /\ UNCHANGED <<row, season, member, deleted>>

(* The group as the membership service changes it meanwhile *)
LeaveOrJoin == member' = ~member /\ UNCHANGED <<row, season, deleted, call>>

SoftDelete == /\ ~deleted /\ deleted' = TRUE
              /\ UNCHANGED <<row, season, member, call>>

TitlesNext ==
    \/ \E c \in Calls, t \in Titles :
          \/ StartAddTitle(c, t) \/ StartRemoveTitle(c, t)
          \/ \E w \in BOOLEAN \cup {Keep}, d \in Dates \cup {NoDate, Keep} :
                \/ StartWatchedForMovie(c, t, w, d)
                \/ \E s \in Seasons : StartWatchedForTVSeries(c, t, s, w, d)
    \/ \E c \in Calls :
          \/ UpsertGroupTitle(c) \/ DeleteGroupTitle(c)
          \/ GetGroupTitleRow(c) \/ UpdateGroupTitleWatchedRow(c)
          \/ GetGroupTitleSeasonRow(c) \/ UpsertGroupTitleSeason(c)
          \/ GetGroupTitleSeasonRows(c) \/ CommitSeason(c)
          \/ AbandonCall(c)
    \/ LeaveOrJoin \/ SoftDelete

TitlesSpec == TitlesInit /\ [][TitlesNext]_titleVars

-----------------------------------------------------------------------------
(* Properties *)

(* A title that comes into the group comes in blank, with no season of an  *)
(* earlier stay: neither a removal nor an update that was under way when   *)
(* it was removed brings anything back.                                    *)
RemovedComesBackBlank ==
    [][\A t \in Titles : row[t] = NoRow =>
          /\ row'[t] \in {NoRow, Blank}
          /\ \A s \in Seasons : season'[t][s] = NoRow]_titleVars

(* Once a season is recorded as watched the series shows as watched, on    *)
(* that season's date or a later one, whatever other updates of the series *)
(* are under way.                                                          *)
WatchedSeasonShows ==
    [][\A c \in Calls : CommitSeason(c) =>
         LET t == call[c].title
             s == call[c].season
         IN  season'[t][s].watched =>
                row'[t].watched /\ season'[t][s].at <= row'[t].at]_titleVars

(* A season update leaves the series' row as the recompute rule says,      *)
(* unless another season committed after it read them: an error that an    *)
(* earlier race left behind is repaired by the next update.                *)
RollupUnlessRaced ==
    [][\A c \in Calls :
         LET t == call[c].title
             s == call[c].season
         IN  /\ CommitSeason(c)
             /\ \A z \in Seasons \ {s} : season[t][z] = call[c].seen[z]
             => /\ row'[t].watched = (\E z \in Seasons : season'[t][z] # NoRow
                                                          /\ season'[t][z].watched)
                /\ \A z \in Seasons :
                      season'[t][z] # NoRow /\ season'[t][z].watched
                      => season'[t][z].at <= row'[t].at
                /\ row'[t].at # NoDate =>
                      \E z \in Seasons : season'[t][z] # NoRow /\ season'[t][z].watched
                                         /\ season'[t][z].at = row'[t].at]_titleVars

(* The store's statement (internal/postgres/groups.go) of a season update: *)
(* "top-level watched is true if AT LEAST ONE season is watched".          *)
TopIsWatchedIfASeasonIs ==
    [][\A c \in Calls : CommitSeason(c) =>
         LET t == call[c].title
         IN  row'[t].watched = (\E z \in Seasons : season'[t][z] # NoRow
                                                    /\ season'[t][z].watched)]_titleVars
=============================================================================
