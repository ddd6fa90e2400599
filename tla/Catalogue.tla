------------------------------ MODULE Catalogue ------------------------------
(***************************************************************************)
(* The catalogue of titles: requests that add and delete titles, and the   *)
(* scheduled sync, whose workers refresh every title from the provider     *)
(* while requests go on.                                                   *)
(*                                                                         *)
(* A refresh reads a row, asks the provider and writes the whole row back; *)
(* nothing holds the row in between.  A call of the provider fails or      *)
(* answers anything.  A queue is a set here: titles are listed once, so    *)
(* the order of the jobs tells nothing apart.                              *)
(***************************************************************************)
EXTENDS FiniteSets, Paging

CONSTANTS Ids,       \* IMDb ids
          Contents,  \* what a sync refreshes: image, seasons, episodes, ratings
          Origins,   \* everything else, as one AddNewTitle mapped it; never twice
          Requests,  \* requests in flight
          Workers,   \* goroutines of a sync
          NoTitle,   \* an id that is not in the catalogue
          Idle,      \* a request slot that is free, a worker at its channel
          Gone       \* a worker that has returned

Title == [origin : Origins, content : Contents]

(* `alone` is history: no other step has taken the row's origin away since *)
(* this one read it.                                                       *)
Request == [at : {"fetch", "insert", "read", "readBack", "answer", "fallback", "delete"},
            id : Ids, title : Title \cup {NoTitle}, alone : BOOLEAN]
Job     == [at : {"load", "fetch", "write"},
            id : Ids, title : Title \cup {NoTitle}, alone : BOOLEAN]

ASSUME CatalogueAssumption ==
    /\ Workers # {}
    /\ NoTitle \notin Title
    /\ Idle \notin Request \cup Job /\ Gone \notin Request \cup Job /\ Gone # Idle

(* All titles fit in a listing, see Paging. *)
ASSUME ListingAssumption == IsFiniteSet(Ids) /\ Cardinality(Ids) <= MaxRows

VARIABLES
    title,     \* titles, by id
    drawn,     \* the origins used
    request,   \* the requests in flight
    main,      \* where syncTitles is
    listed,    \* the ids it was given
    unsent,    \* those it has not sent yet
    queue,     \* those in the channel
    worker,    \* what each worker is doing
    processed  \* those some worker is through with

syncVars == <<main, listed, unsent, queue, worker, processed>>
vars     == <<title, drawn, request, syncVars>>

TypeOK ==
    /\ title \in [Ids -> Title \cup {NoTitle}]
    /\ drawn \in SUBSET Origins
    /\ request \in [Requests -> Request \cup {Idle}]
    /\ main \in {"off", "send", "wait"}
    /\ listed \in SUBSET Ids /\ unsent \in SUBSET Ids
    /\ queue \in SUBSET Ids /\ processed \in SUBSET Ids
    /\ worker \in [Workers -> Job \cup {Idle, Gone}]

(* A catalogue that was filled before. *)
Init == /\ title \in [Ids -> Title \cup {NoTitle}]
        /\ \A s, t \in Ids : s # t /\ title[s] # NoTitle /\ title[t] # NoTitle =>
              title[s].origin # title[t].origin
        /\ drawn = {o \in Origins : \E t \in Ids : title[t] # NoTitle /\ title[t].origin = o}
        /\ request = [r \in Requests |-> Idle]
        /\ main = "off" /\ listed = {} /\ unsent = {} /\ queue = {} /\ processed = {}
        /\ worker = [w \in Workers |-> Gone]

-----------------------------------------------------------------------------
(* Requests *)

At(r, step) == request[r] # Idle /\ request[r].at = step

Begin(r, step, t) ==
    /\ request[r] = Idle
    /\ request' = [request EXCEPT ![r] = [at |-> step, id |-> t, title |-> NoTitle,
                                          alone |-> TRUE]]
    /\ UNCHANGED <<title, drawn, syncVars>>

End(r) == request' = [request EXCEPT ![r] = Idle]

(* What others hold of a row whose origin goes. *)
Stale(records, t) ==
    [x \in DOMAIN records |->
        IF records[x] \in Request \cup Job /\ records[x].id = t
        THEN [records[x] EXCEPT !.alone = FALSE] ELSE records[x]]

(* POST /titles refuses a title that is there ... *)
AddTitle(r, t) == title[t] = NoTitle /\ Begin(r, "fetch", t)

(* ... POST /groups/titles reads it instead. *)
AddTitleToGroup(r, t) == Begin(r, IF title[t] = NoTitle THEN "fetch" ELSE "read", t)

(* MapProviderTitleToDb and the two dates *)
MappedTitle(o, c) == [origin |-> o, content |-> c]

(* AddNewTitle asks the provider *)
FetchNewTitle(r) ==
    /\ At(r, "fetch")
    /\ \E o \in Origins \ drawn, c \in Contents :
          /\ drawn' = drawn \cup {o}
          /\ request' = [request EXCEPT ![r].at = "insert",
                                        ![r].title = MappedTitle(o, c)]
    /\ UNCHANGED <<title, syncVars>>

(* Wrong on purpose: a duplicate is answered with what was not stored. *)
InsertUnchecked(r) ==
    /\ At(r, "insert")
    /\ LET t == request[r].id
       IN  title' = IF title[t] = NoTitle THEN [title EXCEPT ![t] = request[r].title]
                    ELSE title
    /\ request' = [request EXCEPT ![r].at = "answer", ![r].alone = TRUE]
    /\ UNCHANGED <<drawn, syncVars>>

(* InsertTitle: of two requests that add a title, one finds it there.      *)
InsertTitle(r) ==
    /\ At(r, "insert")
    /\ LET t == request[r].id
       IN  /\ title' = IF title[t] = NoTitle THEN [title EXCEPT ![t] = request[r].title]
                       ELSE title
           /\ request' = [request EXCEPT ![r].alone = TRUE,
                             ![r].at = IF title[t] = NoTitle THEN "answer" ELSE "readBack"]
    /\ UNCHANGED <<drawn, syncVars>>

(* The one that finds it there answers the stored title, ... *)
ReadBack(r) ==
    /\ At(r, "readBack")
    /\ LET t == request[r].id
       IN  /\ title[t] # NoTitle
           /\ request' = [request EXCEPT ![r].at = "answer", ![r].title = title[t],
                                         ![r].alone = TRUE]
    /\ UNCHANGED <<title, drawn, syncVars>>

(* ... but for any error of that read, the title being gone among them, it *)
(* answers the one it mapped, which was never stored.                      *)
ReadBackFails(r) ==
    /\ At(r, "readBack")
    /\ request' = [request EXCEPT ![r].at = "fallback"]
    /\ UNCHANGED <<title, drawn, syncVars>>

(* GetTitleById fails when the title went after TitleExists. *)
ReadTitle(r) ==
    /\ At(r, "read")
    /\ LET t == request[r].id
       IN  IF title[t] = NoTitle THEN End(r)
           ELSE request' = [request EXCEPT ![r].at = "answer", ![r].title = title[t],
                                           ![r].alone = TRUE]
    /\ UNCHANGED <<title, drawn, syncVars>>

DeleteTitle(r, t) == title[t] # NoTitle /\ Begin(r, "delete", t)

DeleteTitleRow(r) ==
    /\ At(r, "delete")
    /\ LET t == request[r].id
       IN  /\ title' = [title EXCEPT ![t] = NoTitle]
           /\ request' = [Stale(request, t) EXCEPT ![r] = Idle]
           /\ worker' = Stale(worker, t)
    /\ UNCHANGED <<drawn, main, listed, unsent, queue, processed>>

(* The answer is sent, a call fails or the client goes away. *)
EndRequest(r) ==
    /\ request[r] # Idle
    /\ End(r)
    /\ UNCHANGED <<title, drawn, syncVars>>

-----------------------------------------------------------------------------
(* syncTitles *)

(* The scheduled process starts: ListTitleIds, and the workers. *)
StartSync ==
    /\ main = "off"
    /\ main' = "send"
    /\ listed' = {t \in Ids : title[t] # NoTitle}
    /\ unsent' = listed'
    /\ worker' = [w \in Workers |-> Idle]
    /\ UNCHANGED <<title, drawn, request, queue, processed>>

(* The channel has room for every job. *)
SendJob ==
    /\ main = "send"
    /\ \E t \in unsent : /\ unsent' = unsent \ {t}
                         /\ queue' = queue \cup {t}
    /\ UNCHANGED <<title, drawn, request, main, listed, worker, processed>>

(* Wrong on purpose: the channel is never closed; a worker returns when it *)
(* finds it empty.                                                         *)
NeverClosed == FALSE
ClosedWhenEmpty == TRUE

Closed == main = "wait"

CloseJobs ==
    /\ main = "send" /\ unsent = {}
    /\ main' = "wait"
    /\ UNCHANGED <<title, drawn, request, listed, unsent, queue, worker, processed>>

(* wg.Wait returns and the process ends. *)
EndSync ==
    /\ main = "wait"
    /\ \A w \in Workers : worker[w] = Gone
    /\ main' = "off"
    /\ listed' = {} /\ unsent' = {} /\ queue' = {} /\ processed' = {}
    /\ UNCHANGED <<title, drawn, request, worker>>

-----------------------------------------------------------------------------
(* A worker *)

Working(w) == worker[w] \in Job

Does(w, step) == Working(w) /\ worker[w].at = step

TakeJob(w) ==
    /\ worker[w] = Idle
    /\ \E t \in queue :
          /\ queue' = queue \ {t}
          /\ worker' = [worker EXCEPT ![w] = [at |-> "load", id |-> t, title |-> NoTitle,
                                              alone |-> TRUE]]
    /\ UNCHANGED <<title, drawn, request, main, listed, unsent, processed>>

ExitWorker(w) ==
    /\ worker[w] = Idle
    /\ Closed /\ queue = {}
    /\ worker' = [worker EXCEPT ![w] = Gone]
    /\ UNCHANGED <<title, drawn, request, main, listed, unsent, queue, processed>>

(* processTitle returns; an error is logged and the worker goes on. *)
EndJob(w) ==
    /\ worker' = [worker EXCEPT ![w] = Idle]
    /\ processed' = processed \cup {worker[w].id}
    /\ UNCHANGED <<main, listed, unsent, queue>>

(* A title that has gone since it was listed is skipped. *)
LoadTitle(w) ==
    /\ Does(w, "load")
    /\ LET t == worker[w].id
       IN  IF title[t] = NoTitle THEN EndJob(w)
           ELSE /\ worker' = [worker EXCEPT ![w].at = "fetch", ![w].title = title[t],
                                            ![w].alone = TRUE]
                /\ UNCHANGED <<main, listed, unsent, queue, processed>>
    /\ UNCHANGED <<title, drawn, request>>

(* Wrong on purpose: the row is mapped anew, as for a title that is added. *)
RemadeTitle(old, c) == MappedTitle(CHOOSE o \in Origins : o # old.origin, c)

(* refreshTitle *)
RefreshedTitle(old, c) == [old EXCEPT !.content = c]

FetchTitle(w) ==
    /\ Does(w, "fetch")
    /\ \E c \in Contents :
          worker' = [worker EXCEPT ![w].at = "write",
                                   ![w].title = RefreshedTitle(worker[w].title, c)]
    /\ UNCHANGED <<title, drawn, request, main, listed, unsent, queue, processed>>

(* UpdateTitle: the whole row, if it is there. *)
UpdateTitle(w) ==
    /\ Does(w, "write")
    /\ LET t   == worker[w].id
           new == worker[w].title
       IN  /\ title' = IF title[t] = NoTitle THEN title ELSE [title EXCEPT ![t] = new]
           /\ request' = IF title[t] # NoTitle /\ title[t].origin # new.origin
                         THEN Stale(request, t) ELSE request
    /\ EndJob(w)
    /\ UNCHANGED drawn

(* The provider or the database fails the job. *)
FailJob(w) ==
    /\ Working(w)
    /\ EndJob(w)
    /\ UNCHANGED <<title, drawn, request>>

-----------------------------------------------------------------------------
Serve(r) ==
    \/ \E t \in Ids : AddTitle(r, t) \/ AddTitleToGroup(r, t) \/ DeleteTitle(r, t)
    \/ FetchNewTitle(r) \/ InsertTitle(r) \/ ReadBack(r) \/ ReadBackFails(r) \/ ReadTitle(r)
    \/ DeleteTitleRow(r) \/ EndRequest(r)

Main == SendJob \/ CloseJobs \/ EndSync

Work(w) == \/ TakeJob(w) \/ ExitWorker(w)
           \/ LoadTitle(w) \/ FetchTitle(w) \/ UpdateTitle(w) \/ FailJob(w)

Next == \/ \E r \in Requests : Serve(r)
        \/ StartSync \/ Main
        \/ \E w \in Workers : Work(w)

Spec == Init /\ [][Next]_vars

(* The Go scheduler keeps the process running, and every call of the       *)
(* provider and of the database returns, with an answer or an error.       *)
Fairness == WF_vars(Main) /\ \A w \in Workers : WF_vars(Work(w))

FairSpec == Spec /\ Fairness

-----------------------------------------------------------------------------
(* Properties *)

(* Every title listed is in one place: still to send, in the channel, with *)
(* one worker, or processed; and once all workers have returned, whatever  *)
(* failed on the way, every one was processed.                             *)
EachTitleOnce ==
    LET held == {worker[w].id : w \in {v \in Workers : Working(v)}}
    IN  main # "off" =>
          /\ listed = unsent \cup queue \cup held \cup processed
          /\ unsent \cap (queue \cup held \cup processed) = {}
          /\ queue \cap (held \cup processed) = {}
          /\ held \cap processed = {}
          /\ \A v, w \in Workers :
                Working(v) /\ Working(w) /\ worker[v].id = worker[w].id => v = w
          /\ (\A w \in Workers : worker[w] = Gone) => processed = listed

(* A sync never brings a deleted title back, never touches a title but its *)
(* job's, and leaves the fields it does not refresh as they are; unless    *)
(* the title was deleted and added again since the worker read it.         *)
RefreshKeepsTheRest ==
    [][\A w \in Workers, t \in Ids :
          Working(w) /\ worker'[w] \notin Job /\ title'[t] # title[t] =>
             /\ t = worker[w].id
             /\ title[t] # NoTitle /\ title'[t] # NoTitle
             /\ worker[w].alone => title'[t].origin = title[t].origin]_vars

(* A request answers a title that is stored: the one it inserted, found,   *)
(* or read back because another request had added it first; unless that    *)
(* one was deleted, or rewritten by a sync that had read an earlier title  *)
(* of that id, since.  A request whose read-back failed is not among these *)
(* (ReadBackFails): it answers what it mapped itself, while another row,   *)
(* or none, is stored.                                                     *)
AnswersWhatIsStored ==
    \A r \in Requests :
       At(r, "answer") /\ request[r].alone =>
          LET stored == title[request[r].id]
          IN  stored # NoTitle /\ stored.origin = request[r].title.origin

(* A client that pages through the catalogue as it is sees every title on  *)
(* one page, whatever size it asks for.                                    *)
EveryRowOnOnePage == Cardinality({t \in Ids : title[t] # NoTitle}) \in PagedOnce

(* A sync comes to its end, whatever its calls answer and whatever         *)
(* requests do meanwhile.                                                  *)
SyncEnds == main = "send" ~> main = "off"
=============================================================================
