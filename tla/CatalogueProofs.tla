--------------------------- MODULE CatalogueProofs ---------------------------
(***************************************************************************)
(* Theorems about Catalogue, for every set of ids, titles, requests and    *)
(* workers: its types, that each title listed is processed once, that a    *)
(* refresh loses nothing, and that an answer is what is stored; and about  *)
(* Paging, for every width, size and number of rows.                       *)
(***************************************************************************)
EXTENDS Catalogue, FiniteSetTheorems, TLAPS

(* What a request relies on: past the provider it holds a title, and while *)
(* it is alone, the row it found or stored is there.                       *)
RequestSound(q) ==
    /\ q.at \in {"insert", "readBack", "answer", "fallback"} => q.title \in Title
    /\ q.at = "answer" /\ q.alone => /\ title[q.id] # NoTitle
                                     /\ title[q.id].origin = q.title.origin

(* What a worker relies on, once it has read its row. *)
JobSound(j) ==
    j.at \in {"fetch", "write"} =>
       /\ j.title \in Title
       /\ j.alone => /\ title[j.id] # NoTitle
                     /\ title[j.id].origin = j.title.origin

AllSound == /\ \A r \in Requests : request[r] # Idle => RequestSound(request[r])
            /\ \A w \in Workers : Working(w) => JobSound(worker[w])

(* Between two syncs nothing is left of the last one; a worker has         *)
(* returned only when there is nothing left to do.                         *)
PoolSound ==
    /\ main = "off" => /\ listed = {} /\ unsent = {} /\ queue = {} /\ processed = {}
                       /\ \A w \in Workers : worker[w] = Gone
    /\ main = "wait" => unsent = {}
    /\ main # "off" => \A w \in Workers : worker[w] = Gone => main = "wait" /\ queue = {}

(* The inductive invariant. *)
IInv == TypeOK /\ AllSound /\ PoolSound /\ EachTitleOnce

-----------------------------------------------------------------------------
(* Records that others mark *)

LEMMA MarkedFacts ==
    /\ \A q \in Request : /\ [q EXCEPT !.alone = FALSE] \in Request
                          /\ ~[q EXCEPT !.alone = FALSE].alone
    /\ \A j \in Job : /\ [j EXCEPT !.alone = FALSE] \in Job
                      /\ ~[j EXCEPT !.alone = FALSE].alone
                      /\ [j EXCEPT !.alone = FALSE].id = j.id
  BY DEF Request, Job

LEMMA StaleRequests ==
    ASSUME CatalogueAssumption, TypeOK, NEW t
    PROVE  /\ Stale(request, t) \in [Requests -> Request \cup {Idle}]
           /\ \A r \in Requests :
                 /\ request[r] = Idle => Stale(request, t)[r] = Idle
                 /\ request[r] # Idle =>
                      /\ Stale(request, t)[r] \in {request[r], [request[r] EXCEPT !.alone = FALSE]}
                      /\ Stale(request, t)[r] # Idle
                      /\ request[r].id = t => ~Stale(request, t)[r].alone
  <1>1. Idle \notin Request \cup Job
    BY DEF CatalogueAssumption
  <1>2. ASSUME NEW r \in Requests
        PROVE  /\ request[r] = Idle => Stale(request, t)[r] = Idle
               /\ request[r] # Idle =>
                    /\ Stale(request, t)[r] \in Request
                    /\ Stale(request, t)[r] \in {request[r], [request[r] EXCEPT !.alone = FALSE]}
                    /\ request[r].id = t => ~Stale(request, t)[r].alone
    <2>1. request[r] \in Request \cup {Idle}
      BY DEF TypeOK
    <2>2. Stale(request, t)[r] = IF request[r] \in Request \cup Job /\ request[r].id = t
                                 THEN [request[r] EXCEPT !.alone = FALSE] ELSE request[r]
      BY DEF Stale, TypeOK
    <2> QED
      BY <1>1, <2>1, <2>2, MarkedFacts
  <1>3. Stale(request, t) = [r \in Requests |-> Stale(request, t)[r]]
    BY DEF Stale, TypeOK
  <1>4. \A r \in Requests : Stale(request, t)[r] \in Request \cup {Idle}
    BY <1>2
  <1>5. Stale(request, t) \in [Requests -> Request \cup {Idle}]
    BY <1>3, <1>4
  <1> QED
    BY <1>1, <1>2, <1>5

LEMMA StaleWorkers ==
    ASSUME CatalogueAssumption, TypeOK, NEW t
    PROVE  /\ Stale(worker, t) \in [Workers -> Job \cup {Idle, Gone}]
           /\ \A w \in Workers :
                 /\ ~Working(w) => Stale(worker, t)[w] = worker[w]
                 /\ Working(w) =>
                      /\ Stale(worker, t)[w] \in Job
                      /\ Stale(worker, t)[w] \in {worker[w], [worker[w] EXCEPT !.alone = FALSE]}
                      /\ Stale(worker, t)[w].id = worker[w].id
                      /\ worker[w].id = t => ~Stale(worker, t)[w].alone
  <1>2. ASSUME NEW w \in Workers
        PROVE  /\ ~Working(w) => Stale(worker, t)[w] = worker[w]
               /\ Working(w) =>
                    /\ Stale(worker, t)[w] \in Job
                    /\ Stale(worker, t)[w] \in {worker[w], [worker[w] EXCEPT !.alone = FALSE]}
                    /\ Stale(worker, t)[w].id = worker[w].id
                    /\ worker[w].id = t => ~Stale(worker, t)[w].alone
    <2>1. /\ worker[w] \notin Job => worker[w] \notin Request \cup Job
          /\ Working(w) <=> worker[w] \in Job
      BY DEF TypeOK, Working, CatalogueAssumption
    <2>2. Stale(worker, t)[w] = IF worker[w] \in Request \cup Job /\ worker[w].id = t
                                THEN [worker[w] EXCEPT !.alone = FALSE] ELSE worker[w]
      BY DEF Stale, TypeOK
    <2> QED
      BY <2>1, <2>2, MarkedFacts
  <1>3. Stale(worker, t) = [w \in Workers |-> Stale(worker, t)[w]]
    BY DEF Stale, TypeOK
  <1>4. \A w \in Workers : Stale(worker, t)[w] \in Job \cup {Idle, Gone}
    BY <1>2 DEF TypeOK, Working
  <1>5. Stale(worker, t) \in [Workers -> Job \cup {Idle, Gone}]
    BY <1>3, <1>4
  <1> QED
    BY <1>2, <1>5

(* A request, a job, stays sound unless its row goes or takes another      *)
(* origin while it is not told.                                            *)
LEMMA RequestKeeps ==
    ASSUME NEW q \in Request, RequestSound(q), NEW p \in {q, [q EXCEPT !.alone = FALSE]},
           p.alone /\ title[q.id] # NoTitle => /\ title'[q.id] # NoTitle
                                               /\ title'[q.id].origin = title[q.id].origin
    PROVE  RequestSound(p)'
  <1>1. CASE p = q
    BY <1>1 DEF RequestSound
  <1>2. CASE p = [q EXCEPT !.alone = FALSE]
    <2>1. p.at = q.at /\ p.title = q.title /\ ~p.alone
      BY <1>2 DEF Request
    <2> QED
      BY <2>1 DEF RequestSound
  <1> QED
    BY <1>1, <1>2

LEMMA JobKeeps ==
    ASSUME NEW j \in Job, JobSound(j), NEW k \in {j, [j EXCEPT !.alone = FALSE]},
           k.alone /\ title[j.id] # NoTitle => /\ title'[j.id] # NoTitle
                                               /\ title'[j.id].origin = title[j.id].origin
    PROVE  JobSound(k)'
  <1>1. CASE k = j
    BY <1>1 DEF JobSound
  <1>2. CASE k = [j EXCEPT !.alone = FALSE]
    <2>1. k.at = j.at /\ k.title = j.title /\ ~k.alone
      BY <1>2 DEF Job
    <2> QED
      BY <2>1 DEF JobSound
  <1> QED
    BY <1>1, <1>2

-----------------------------------------------------------------------------
(* The pool *)

(* A step that leaves every worker its title. *)
LEMMA SameJobs ==
    ASSUME PoolSound, EachTitleOnce, TypeOK,
           UNCHANGED <<main, listed, unsent, queue, processed>>,
           \A w \in Workers : /\ worker'[w] \in Job <=> worker[w] \in Job
                              /\ worker'[w] = Gone <=> worker[w] = Gone
                              /\ worker[w] \in Job => worker'[w].id = worker[w].id
    PROVE  PoolSound' /\ EachTitleOnce'
  <1>1. PoolSound'
    BY DEF PoolSound
  <1>2. EachTitleOnce'
    BY DEF EachTitleOnce, Working
  <1> QED
    BY <1>1, <1>2

(* A worker that is through with its title. *)
LEMMA JobEnds ==
    ASSUME CatalogueAssumption, PoolSound, EachTitleOnce, TypeOK,
           NEW w \in Workers, Working(w), EndJob(w)
    PROVE  PoolSound' /\ EachTitleOnce'
  <1>1. main # "off" /\ main' = main
    BY DEF PoolSound, Working, EndJob, CatalogueAssumption
  <1>2. worker'[w] = Idle /\ Idle \notin Job /\ Idle # Gone
    BY DEF EndJob, TypeOK, CatalogueAssumption
  <1>3. \A v \in Workers \ {w} : worker'[v] = worker[v]
    BY DEF EndJob, TypeOK
  <1>4. PoolSound'
    BY <1>1, <1>2, <1>3 DEF PoolSound, EndJob
  <1>5. EachTitleOnce'
    BY <1>1, <1>2, <1>3 DEF EachTitleOnce, Working, EndJob
  <1> QED
    BY <1>4, <1>5

(* A step of the pool that touches neither the titles nor the requests. *)
LEMMA WorkerOwn ==
    ASSUME CatalogueAssumption, TypeOK, AllSound, UNCHANGED <<title, drawn, request>>,
           NEW w \in Workers, NEW j \in Job \cup {Idle, Gone}, j \in Job => JobSound(j),
           worker' = [worker EXCEPT ![w] = j]
    PROVE  AllSound' /\ worker' \in [Workers -> Job \cup {Idle, Gone}]
  <1>1. worker' \in [Workers -> Job \cup {Idle, Gone}]
    BY DEF TypeOK
  <1>2. \A r \in Requests : request'[r] # Idle => RequestSound(request[r])'
    BY DEF AllSound, RequestSound
  <1>3. \A v \in Workers : worker'[v] \in Job => JobSound(worker'[v])
    BY DEF AllSound, Working, TypeOK
  <1>4. \A k \in Job : JobSound(k) => JobSound(k)'
    BY DEF JobSound
  <1>5. \A v \in Workers : Working(v)' => JobSound(worker[v])'
    <2> SUFFICES ASSUME NEW v \in Workers, worker'[v] \in Job
                 PROVE  JobSound(worker[v])'
      BY DEF Working
    <2>1. JobSound(worker'[v])
      BY <1>3
    <2> QED
      BY <2>1 DEF JobSound
  <1> QED
    BY <1>1, <1>2, <1>5 DEF AllSound

LEMMA StartSyncKeeps == ASSUME CatalogueAssumption, IInv, StartSync PROVE IInv'
  <1> USE DEF IInv
  <1>1. main = "off" /\ main' = "send" /\ queue' = {} /\ processed' = {}
        /\ listed' = unsent' /\ listed' \subseteq Ids
    BY DEF StartSync, PoolSound
  <1>2. \A w \in Workers : worker'[w] = Idle /\ worker'[w] \notin Job /\ worker'[w] # Gone
    BY DEF StartSync, CatalogueAssumption
  <1>3. TypeOK'
    BY <1>1 DEF TypeOK, StartSync
  <1>4. AllSound'
    BY <1>2 DEF AllSound, Working, StartSync, RequestSound
  <1>5. PoolSound'
    BY <1>1, <1>2 DEF PoolSound
  <1>6. EachTitleOnce'
    BY <1>1, <1>2 DEF EachTitleOnce, Working, CatalogueAssumption
  <1> QED
    BY <1>3, <1>4, <1>5, <1>6

LEMMA MainKeeps == ASSUME CatalogueAssumption, IInv, Main PROVE IInv'
  <1> USE DEF IInv
  <1>1. CASE SendJob
    <2>1. TypeOK' /\ PoolSound'
      BY <1>1 DEF SendJob, TypeOK, PoolSound
    <2>2. AllSound'
      BY <1>1 DEF SendJob, AllSound, Working, RequestSound, JobSound
    <2>3. EachTitleOnce'
      BY <1>1 DEF SendJob, EachTitleOnce, Working, PoolSound
    <2> QED
      BY <2>1, <2>2, <2>3
  <1>2. CASE CloseJobs
    <2>1. TypeOK' /\ PoolSound'
      BY <1>2 DEF CloseJobs, TypeOK, PoolSound
    <2>2. AllSound'
      BY <1>2 DEF CloseJobs, AllSound, Working, RequestSound, JobSound
    <2>3. EachTitleOnce'
      BY <1>2 DEF CloseJobs, EachTitleOnce, Working
    <2> QED
      BY <2>1, <2>2, <2>3
  <1>3. CASE EndSync
    <2>1. TypeOK' /\ PoolSound'
      BY <1>3 DEF EndSync, TypeOK, PoolSound
    <2>2. AllSound'
      BY <1>3 DEF EndSync, AllSound, Working, RequestSound, JobSound
    <2>3. EachTitleOnce'
      BY <1>3 DEF EndSync, EachTitleOnce
    <2> QED
      BY <2>1, <2>2, <2>3
  <1> QED
    BY <1>1, <1>2, <1>3 DEF Main

LEMMA TakeJobKeeps ==
    ASSUME CatalogueAssumption, IInv, NEW w \in Workers, TakeJob(w) PROVE IInv'
  <1> USE DEF IInv
  <1>1. PICK t \in queue :
          /\ queue' = queue \ {t}
          /\ worker' = [worker EXCEPT ![w] = [at |-> "load", id |-> t, title |-> NoTitle,
                                              alone |-> TRUE]]
    BY DEF TakeJob
  <1> DEFINE j == [at |-> "load", id |-> t, title |-> NoTitle, alone |-> TRUE]
  <1>2. t \in Ids /\ j \in Job /\ JobSound(j)
    BY DEF TypeOK, Job, JobSound
  <1>3. /\ worker[w] = Idle /\ Idle \notin Job /\ Idle # Gone /\ j # Gone
        /\ UNCHANGED <<title, drawn, request, main, listed, unsent, processed>>
    BY <1>2 DEF TakeJob, CatalogueAssumption
  <1>4. AllSound' /\ worker' \in [Workers -> Job \cup {Idle, Gone}]
    BY <1>1, <1>2, <1>3, WorkerOwn
  <1>5. TypeOK'
    BY <1>1, <1>3, <1>4 DEF TypeOK
  <1>6. worker'[w] = j /\ \A v \in Workers \ {w} : worker'[v] = worker[v]
    BY <1>1 DEF TypeOK
  <1>7. main # "off"
    BY <1>3 DEF PoolSound
  <1>8. PoolSound'
    BY <1>1, <1>3, <1>6, <1>7 DEF PoolSound
  <1>9. EachTitleOnce'
    <2>1. j.id = t
      OBVIOUS
    <2>2. \A v \in Workers : worker[v] \in Job => worker[v].id # t
      BY <1>7 DEF EachTitleOnce, Working
    <2>3. /\ Working(w)' /\ ~Working(w) /\ worker'[w].id = t
          /\ \A v \in Workers \ {w} : (Working(v)' <=> Working(v)) /\ worker'[v] = worker[v]
      BY <1>2, <1>3, <1>6, <2>1 DEF Working
    <2>4. {worker'[v].id : v \in {u \in Workers : Working(u)'}}
          = {worker[v].id : v \in {u \in Workers : Working(u)}} \cup {t}
      BY <2>3
    <2>5. \A u, v \in Workers :
             Working(u)' /\ Working(v)' /\ worker'[u].id = worker'[v].id => u = v
      BY <1>7, <2>2, <2>3 DEF EachTitleOnce, Working
    <2>6. ~(\A v \in Workers : worker'[v] = Gone)
      BY <1>3, <1>6
    <2> DEFINE held == {worker[v].id : v \in {u \in Workers : Working(u)}}
    <2>7. /\ listed = unsent \cup queue \cup held \cup processed
          /\ unsent \cap (queue \cup held \cup processed) = {}
          /\ queue \cap (held \cup processed) = {} /\ held \cap processed = {}
      BY <1>7 DEF EachTitleOnce
    <2>8. t \notin held
      BY <2>2 DEF Working
    <2>9. held' = held \cup {t}
      BY <2>4
    <2> HIDE DEF held
    <2>10. /\ listed' = unsent' \cup queue' \cup held' \cup processed'
           /\ unsent' \cap (queue' \cup held' \cup processed') = {}
           /\ queue' \cap (held' \cup processed') = {} /\ held' \cap processed' = {}
      BY <1>1, <1>3, <2>7, <2>8, <2>9
    <2> QED
      BY <2>5, <2>6, <2>10 DEF EachTitleOnce, held
  <1> QED
    BY <1>4, <1>5, <1>8, <1>9

LEMMA ExitWorkerKeeps ==
    ASSUME CatalogueAssumption, IInv, NEW w \in Workers, ExitWorker(w) PROVE IInv'
  <1> USE DEF IInv
  <1>1. /\ worker[w] = Idle /\ Idle \notin Job /\ Gone \notin Job
        /\ main = "wait" /\ queue = {} /\ worker' = [worker EXCEPT ![w] = Gone]
        /\ UNCHANGED <<title, drawn, request, main, listed, unsent, queue, processed>>
    BY DEF ExitWorker, Closed, CatalogueAssumption
  <1>2. AllSound' /\ worker' \in [Workers -> Job \cup {Idle, Gone}]
    BY <1>1, WorkerOwn
  <1>3. TypeOK'
    BY <1>1, <1>2 DEF TypeOK
  <1>4. worker'[w] = Gone /\ \A v \in Workers \ {w} : worker'[v] = worker[v]
    BY <1>1 DEF TypeOK
  <1>5. PoolSound'
    BY <1>1, <1>4 DEF PoolSound
  <1>6. EachTitleOnce'
    BY <1>1, <1>4 DEF EachTitleOnce, Working, PoolSound
  <1> QED
    BY <1>2, <1>3, <1>5, <1>6

(* A job that ends without a write. *)
LEMMA JobEndsQuietly ==
    ASSUME CatalogueAssumption, IInv, NEW w \in Workers, Working(w), EndJob(w),
           UNCHANGED <<title, drawn, request>>
    PROVE  IInv'
  <1>1. AllSound' /\ worker' \in [Workers -> Job \cup {Idle, Gone}]
    BY WorkerOwn DEF IInv, EndJob, CatalogueAssumption
  <1>2. worker[w].id \in Ids
    BY DEF Working, Job
  <1>3. TypeOK'
    BY <1>1, <1>2 DEF IInv, TypeOK, EndJob
  <1> QED
    BY <1>1, <1>3, JobEnds DEF IInv

(* A job that goes on. *)
LEMMA JobGoesOn ==
    ASSUME CatalogueAssumption, IInv, NEW w \in Workers, Working(w),
           NEW j \in Job, JobSound(j), j.id = worker[w].id,
           worker' = [worker EXCEPT ![w] = j],
           UNCHANGED <<title, drawn, request, main, listed, unsent, queue, processed>>
    PROVE  IInv'
  <1>1. AllSound' /\ worker' \in [Workers -> Job \cup {Idle, Gone}]
    BY WorkerOwn DEF IInv
  <1>2. TypeOK'
    BY <1>1 DEF IInv, TypeOK
  <1>3. \A v \in Workers : /\ worker'[v] \in Job <=> worker[v] \in Job
                           /\ worker'[v] = Gone <=> worker[v] = Gone
                           /\ worker[v] \in Job => worker'[v].id = worker[v].id
    BY DEF IInv, TypeOK, Working, CatalogueAssumption
  <1> QED
    BY <1>1, <1>2, <1>3, SameJobs DEF IInv

LEMMA LoadTitleKeeps ==
    ASSUME CatalogueAssumption, IInv, NEW w \in Workers, LoadTitle(w) PROVE IInv'
  <1>1. Working(w) /\ worker[w] \in Job /\ UNCHANGED <<title, drawn, request>>
    BY DEF LoadTitle, Does, Working
  <1>2. CASE title[worker[w].id] = NoTitle
    BY <1>1, <1>2, JobEndsQuietly DEF LoadTitle
  <1>3. CASE title[worker[w].id] # NoTitle
    <2> DEFINE j == [worker[w] EXCEPT !.at = "fetch", !.title = title[worker[w].id],
                                      !.alone = TRUE]
    <2>1. worker' = [worker EXCEPT ![w] = j] /\ UNCHANGED <<main, listed, unsent, queue, processed>>
      BY <1>1, <1>3 DEF LoadTitle, IInv, TypeOK, Job
    <2>2. title[worker[w].id] \in Title
      BY <1>1, <1>3 DEF IInv, TypeOK, Job
    <2>3. j \in Job /\ j.id = worker[w].id /\ j.title = title[j.id]
      BY <1>1, <2>2 DEF Job
    <2>4. JobSound(j)
      BY <1>3, <2>2, <2>3 DEF JobSound
    <2> HIDE DEF j
    <2> QED
      BY <1>1, <2>1, <2>3, <2>4, JobGoesOn
  <1> QED
    BY <1>2, <1>3

LEMMA RefreshedTitleFacts ==
    ASSUME NEW old \in Title, NEW c \in Contents
    PROVE  RefreshedTitle(old, c) \in Title /\ RefreshedTitle(old, c).origin = old.origin
  BY DEF RefreshedTitle, Title

LEMMA FetchTitleKeeps ==
    ASSUME CatalogueAssumption, IInv, NEW w \in Workers, FetchTitle(w) PROVE IInv'
  <1>1. /\ Working(w) /\ worker[w] \in Job /\ worker[w].at = "fetch"
        /\ UNCHANGED <<title, drawn, request, main, listed, unsent, queue, processed>>
    BY DEF FetchTitle, Does, Working
  <1>2. JobSound(worker[w]) /\ worker[w].title \in Title
    BY <1>1 DEF IInv, AllSound, JobSound
  <1>3. PICK c \in Contents :
          worker' = [worker EXCEPT ![w].at = "write",
                                   ![w].title = RefreshedTitle(worker[w].title, c)]
    BY DEF FetchTitle
  <1> DEFINE new == RefreshedTitle(worker[w].title, c)
             j == [worker[w] EXCEPT !.at = "write", !.title = new]
  <1>4. new \in Title /\ new.origin = worker[w].title.origin
    BY <1>2, RefreshedTitleFacts
  <1> HIDE DEF new
  <1>5. worker' = [worker EXCEPT ![w] = j]
    BY <1>1, <1>3 DEF IInv, TypeOK, Job, new
  <1>6. j \in Job /\ j.id = worker[w].id /\ j.title = new /\ j.alone = worker[w].alone
    BY <1>1, <1>4 DEF Job
  <1>7. JobSound(j)
    BY <1>1, <1>2, <1>4, <1>6 DEF JobSound
  <1> HIDE DEF j
  <1> QED
    BY <1>1, <1>5, <1>6, <1>7, JobGoesOn

LEMMA UpdateTitleKeeps ==
    ASSUME CatalogueAssumption, IInv, NEW w \in Workers, UpdateTitle(w) PROVE IInv'
  <1> DEFINE t == worker[w].id
             new == worker[w].title
  <1>1. /\ Working(w) /\ worker[w] \in Job /\ worker[w].at = "write" /\ t \in Ids
        /\ EndJob(w) /\ drawn' = drawn
    BY DEF UpdateTitle, Does, Working, Job
  <1>2. JobSound(worker[w]) /\ new \in Title
    BY <1>1 DEF IInv, AllSound, JobSound
  <1> HIDE DEF t, new
  <1>3. /\ title' \in [Ids -> Title \cup {NoTitle}]
        /\ \A s \in Ids \ {t} : title'[s] = title[s]
        /\ title[t] = NoTitle => title'[t] = NoTitle
        /\ title[t] # NoTitle => title'[t] = new
        /\ request' = IF title[t] # NoTitle /\ title[t].origin # new.origin
                      THEN Stale(request, t) ELSE request
    BY <1>1, <1>2 DEF UpdateTitle, IInv, TypeOK, t, new
  <1>4. /\ worker' = [worker EXCEPT ![w] = Idle] /\ Idle \notin Job
        /\ worker' \in [Workers -> Job \cup {Idle, Gone}]
        /\ \A v \in Workers \ {w} : worker'[v] = worker[v]
        /\ ~Working(w)'
    BY <1>1 DEF EndJob, IInv, TypeOK, CatalogueAssumption, Working
  <1>5. \A r \in Requests :
           /\ request'[r] \in Request \cup {Idle}
           /\ request[r] = Idle => request'[r] = Idle
           /\ request[r] # Idle =>
                /\ request'[r] \in {request[r], [request[r] EXCEPT !.alone = FALSE]}
                /\ request[r].id = t /\ title[t] # NoTitle /\ title[t].origin # new.origin
                     => ~request'[r].alone
    BY <1>3, StaleRequests DEF IInv, TypeOK
  <1>7. request' \in [Requests -> Request \cup {Idle}]
    BY <1>3, StaleRequests DEF IInv, TypeOK
  <1>8. TypeOK'
    BY <1>1, <1>3, <1>4, <1>7 DEF IInv, TypeOK, EndJob, t
  <1>9. ASSUME NEW r \in Requests, request'[r] # Idle PROVE RequestSound(request[r])'
    <2>1. request[r] \in Request /\ RequestSound(request[r])
      BY <1>5, <1>9 DEF IInv, TypeOK, AllSound
    <2>2. request'[r].alone /\ title[request[r].id] # NoTitle =>
             /\ title'[request[r].id] # NoTitle
             /\ title'[request[r].id].origin = title[request[r].id].origin
      BY <1>2, <1>3, <1>5, <1>9, <2>1 DEF Request, CatalogueAssumption
    <2> QED
      BY <1>5, <1>9, <2>1, <2>2, RequestKeeps DEF RequestSound
  <1>10. ASSUME NEW v \in Workers, Working(v)' PROVE JobSound(worker[v])'
    <2>1. v # w /\ worker'[v] = worker[v] /\ Working(v) /\ worker[v] \in Job
      BY <1>4, <1>10 DEF Working
    <2>2. JobSound(worker[v])
      BY <2>1 DEF IInv, AllSound
    <2>3. main # "off"
      BY <1>1 DEF IInv, PoolSound, Working, CatalogueAssumption
    <2>4. worker[v].id # t /\ worker[v].id \in Ids
      BY <1>1, <2>1, <2>3 DEF IInv, EachTitleOnce, t, Job
    <2> QED
      BY <1>3, <2>1, <2>2, <2>4 DEF JobSound
  <1>11. AllSound'
    BY <1>9, <1>10 DEF AllSound
  <1>12. PoolSound' /\ EachTitleOnce'
    BY <1>1, JobEnds DEF IInv
  <1> QED
    BY <1>8, <1>11, <1>12 DEF IInv

LEMMA WorkKeeps ==
    ASSUME CatalogueAssumption, IInv, NEW w \in Workers, Work(w) PROVE IInv'
  <1>1. ASSUME FailJob(w) PROVE IInv'
    BY <1>1, JobEndsQuietly DEF FailJob
  <1> QED
    BY <1>1, TakeJobKeeps, ExitWorkerKeeps, LoadTitleKeeps, FetchTitleKeeps, UpdateTitleKeeps
       DEF Work

-----------------------------------------------------------------------------
(* Requests *)

(* A step of a request that leaves the titles and the pool alone. *)
LEMMA RequestOwn ==
    ASSUME CatalogueAssumption, IInv, UNCHANGED <<title, syncVars>>, drawn' \in SUBSET Origins,
           NEW r \in Requests, NEW q \in Request \cup {Idle}, q # Idle => RequestSound(q),
           request' = [request EXCEPT ![r] = q]
    PROVE  IInv'
  <1> USE DEF IInv, syncVars
  <1>1. TypeOK'
    BY DEF TypeOK
  <1>2. AllSound'
    <2>1. \A o \in Requests : request'[o] # Idle => RequestSound(request'[o])
      BY DEF AllSound, TypeOK
    <2>2. \A o \in Requests : request'[o] # Idle => RequestSound(request[o])'
      BY <2>1 DEF RequestSound
    <2>3. \A w \in Workers : Working(w)' => JobSound(worker[w])'
      BY DEF AllSound, Working, JobSound
    <2> QED
      BY <2>2, <2>3 DEF AllSound
  <1>3. PoolSound' /\ EachTitleOnce'
    BY DEF PoolSound, EachTitleOnce, Working
  <1> QED
    BY <1>1, <1>2, <1>3

LEMMA BeginKeeps ==
    ASSUME CatalogueAssumption, IInv, NEW r \in Requests, NEW t \in Ids,
           NEW step \in {"fetch", "read", "delete"}, Begin(r, step, t)
    PROVE  IInv'
  <1> DEFINE q == [at |-> step, id |-> t, title |-> NoTitle, alone |-> TRUE]
  <1>1. q \in Request /\ RequestSound(q)
    BY DEF Request, RequestSound
  <1>2. /\ request' = [request EXCEPT ![r] = q] /\ UNCHANGED <<title, syncVars>>
        /\ drawn' \in SUBSET Origins
    BY DEF Begin, IInv, TypeOK
  <1> HIDE DEF q
  <1> QED
    BY <1>1, <1>2, RequestOwn

LEMMA EndKeeps ==
    ASSUME CatalogueAssumption, IInv, NEW r \in Requests, End(r),
           UNCHANGED <<title, drawn, syncVars>>
    PROVE  IInv'
  <1>1. request' = [request EXCEPT ![r] = Idle] /\ drawn' \in SUBSET Origins
    BY DEF End, IInv, TypeOK
  <1>2. Idle \in Request \cup {Idle}
    OBVIOUS
  <1> QED
    BY <1>1, <1>2, RequestOwn DEF syncVars

LEMMA FetchNewTitleKeeps ==
    ASSUME CatalogueAssumption, IInv, NEW r \in Requests, FetchNewTitle(r) PROVE IInv'
  <1>1. request[r] \in Request
    BY DEF FetchNewTitle, At, IInv, TypeOK
  <1>2. PICK o \in Origins \ drawn, c \in Contents :
          /\ drawn' = drawn \cup {o}
          /\ request' = [request EXCEPT ![r].at = "insert", ![r].title = MappedTitle(o, c)]
    BY DEF FetchNewTitle
  <1> DEFINE q == [request[r] EXCEPT !.at = "insert", !.title = MappedTitle(o, c)]
  <1>3. MappedTitle(o, c) \in Title
    BY DEF MappedTitle, Title
  <1>4. q \in Request /\ RequestSound(q)
    BY <1>1, <1>3 DEF Request, RequestSound
  <1>5. request' = [request EXCEPT ![r] = q]
    BY <1>1, <1>2 DEF IInv, TypeOK, Request
  <1> HIDE DEF q
  <1> QED
    BY <1>2, <1>4, <1>5, RequestOwn DEF FetchNewTitle, IInv, TypeOK

LEMMA ReadBackKeeps ==
    ASSUME CatalogueAssumption, IInv, NEW r \in Requests, ReadBack(r) PROVE IInv'
  <1>1. request[r] \in Request /\ request[r].at = "readBack" /\ RequestSound(request[r])
    BY DEF ReadBack, At, IInv, TypeOK, AllSound
  <1> DEFINE t == request[r].id
             q == [request[r] EXCEPT !.at = "answer", !.title = title[t], !.alone = TRUE]
  <1>2. title[t] \in Title /\ title[t] # NoTitle
    BY <1>1 DEF ReadBack, IInv, TypeOK, Request
  <1>3. q \in Request /\ RequestSound(q)
    BY <1>1, <1>2 DEF Request, RequestSound
  <1>4. request' = [request EXCEPT ![r] = q]
    BY <1>1 DEF ReadBack, IInv, TypeOK, Request
  <1> HIDE DEF q
  <1> QED
    BY <1>3, <1>4, RequestOwn DEF ReadBack, IInv, TypeOK

LEMMA ReadBackFailsKeeps ==
    ASSUME CatalogueAssumption, IInv, NEW r \in Requests, ReadBackFails(r) PROVE IInv'
  <1>1. request[r] \in Request /\ request[r].at = "readBack" /\ RequestSound(request[r])
    BY DEF ReadBackFails, At, IInv, TypeOK, AllSound
  <1> DEFINE q == [request[r] EXCEPT !.at = "fallback"]
  <1>2. q \in Request /\ RequestSound(q)
    BY <1>1 DEF Request, RequestSound
  <1>3. request' = [request EXCEPT ![r] = q]
    BY <1>1 DEF ReadBackFails, IInv, TypeOK, Request
  <1> HIDE DEF q
  <1> QED
    BY <1>2, <1>3, RequestOwn DEF ReadBackFails, IInv, TypeOK

LEMMA ReadTitleKeeps ==
    ASSUME CatalogueAssumption, IInv, NEW r \in Requests, ReadTitle(r) PROVE IInv'
  <1>1. request[r] \in Request /\ request[r].id \in Ids
    BY DEF ReadTitle, At, IInv, TypeOK, Request
  <1>2. CASE title[request[r].id] = NoTitle
    BY <1>2, EndKeeps DEF ReadTitle
  <1>3. CASE title[request[r].id] # NoTitle
    <2> DEFINE q == [request[r] EXCEPT !.at = "answer", !.title = title[request[r].id],
                                       !.alone = TRUE]
    <2>1. title[request[r].id] \in Title
      BY <1>1, <1>3 DEF IInv, TypeOK
    <2>2. q \in Request /\ RequestSound(q)
      BY <1>1, <1>3, <2>1 DEF Request, RequestSound
    <2>3. request' = [request EXCEPT ![r] = q]
      BY <1>1, <1>3 DEF ReadTitle, IInv, TypeOK, Request
    <2> HIDE DEF q
    <2> QED
      BY <2>2, <2>3, RequestOwn DEF ReadTitle, IInv, TypeOK
  <1> QED
    BY <1>2, <1>3

(* A title is stored where there was none, so nobody alone holds that id. *)
LEMMA InsertTitleKeeps ==
    ASSUME CatalogueAssumption, IInv, NEW r \in Requests, InsertTitle(r) PROVE IInv'
  <1> DEFINE t == request[r].id
  <1>1. /\ request[r] \in Request /\ request[r].title \in Title /\ t \in Ids
        /\ drawn' = drawn /\ UNCHANGED syncVars
    BY DEF InsertTitle, At, IInv, TypeOK, AllSound, RequestSound, Request
  <1>2. CASE title[t] # NoTitle
    <2> DEFINE q == [request[r] EXCEPT !.alone = TRUE, !.at = "readBack"]
    <2>1. request' = [request EXCEPT ![r] = q] /\ title' = title
      BY <1>1, <1>2 DEF InsertTitle, IInv, TypeOK, Request
    <2>2. q \in Request /\ RequestSound(q)
      BY <1>1, <1>2 DEF Request, RequestSound
    <2> HIDE DEF q
    <2> QED
      BY <1>1, <2>1, <2>2, RequestOwn DEF IInv, TypeOK
  <1>3. CASE title[t] = NoTitle
    <2> DEFINE q == [request[r] EXCEPT !.alone = TRUE, !.at = "answer"]
    <2>1. /\ request' = [request EXCEPT ![r] = q]
          /\ title' = [title EXCEPT ![t] = request[r].title]
      BY <1>1, <1>3 DEF InsertTitle, IInv, TypeOK, Request
    <2>2. /\ q \in Request /\ q.id = t /\ q.at = "answer" /\ q.title = request[r].title
      BY <1>1 DEF Request
    <2> HIDE DEF q
    <2>3. title'[t] = request[r].title /\ title'[t] # NoTitle
      BY <1>1, <2>1 DEF IInv, TypeOK, CatalogueAssumption
    <2>4. request'[r] = q
      BY <2>1 DEF IInv, TypeOK
    <2>5. \A s \in Ids : title[s] # NoTitle => title'[s] = title[s]
      BY <1>3, <2>1 DEF IInv, TypeOK
    <2>6. ASSUME NEW o \in Requests, request'[o] # Idle PROVE RequestSound(request[o])'
      <3>1. CASE o = r
        BY <1>1, <2>2, <2>3, <2>4, <3>1 DEF RequestSound
      <3>2. CASE o # r
        <4>1. /\ request'[o] = request[o] /\ request[o] \in Request
              /\ RequestSound(request[o]) /\ request[o].id \in Ids
          BY <2>1, <2>6, <3>2 DEF IInv, TypeOK, AllSound, Request
        <4> QED
          BY <2>5, <4>1, RequestKeeps DEF RequestSound
      <3> QED
        BY <3>1, <3>2
    <2>7. ASSUME NEW w \in Workers, Working(w)' PROVE JobSound(worker[w])'
      <3>1. worker' = worker /\ worker[w] \in Job /\ JobSound(worker[w]) /\ worker[w].id \in Ids
        BY <1>1, <2>7 DEF IInv, AllSound, Working, syncVars, Job
      <3> QED
        BY <2>5, <3>1, JobKeeps DEF JobSound
    <2>8. AllSound'
      BY <2>6, <2>7 DEF AllSound
    <2>9. TypeOK'
      BY <1>1, <2>1, <2>2 DEF IInv, TypeOK, syncVars
    <2>10. PoolSound' /\ EachTitleOnce'
      BY <1>1 DEF IInv, PoolSound, EachTitleOnce, Working, syncVars
    <2> QED
      BY <2>8, <2>9, <2>10 DEF IInv
  <1> QED
    BY <1>2, <1>3

(* A title goes, and whoever holds it is told. *)
LEMMA DeleteTitleRowKeeps ==
    ASSUME CatalogueAssumption, IInv, NEW r \in Requests, DeleteTitleRow(r) PROVE IInv'
  <1> DEFINE t == request[r].id
  <1>1. /\ request[r] \in Request /\ t \in Ids /\ drawn' = drawn
        /\ UNCHANGED <<main, listed, unsent, queue, processed>>
        /\ title' = [title EXCEPT ![t] = NoTitle]
        /\ request' = [Stale(request, t) EXCEPT ![r] = Idle]
        /\ worker' = Stale(worker, t)
    BY DEF DeleteTitleRow, At, IInv, TypeOK, Request
  <1> HIDE DEF t
  <1>2. TypeOK'
    <2>1. request' \in [Requests -> Request \cup {Idle}]
      BY <1>1, StaleRequests DEF IInv
    <2>2. worker' \in [Workers -> Job \cup {Idle, Gone}]
      BY <1>1, StaleWorkers DEF IInv
    <2> QED
      BY <1>1, <2>1, <2>2 DEF IInv, TypeOK
  <1>3. \A s \in Ids \ {t} : title'[s] = title[s]
    BY <1>1 DEF IInv, TypeOK
  <1>4. ASSUME NEW o \in Requests, request'[o] # Idle PROVE RequestSound(request[o])'
    <2>1. o # r /\ request'[o] = Stale(request, t)[o]
      BY <1>1, <1>4, StaleRequests DEF IInv
    <2>2. /\ request'[o] \in {request[o], [request[o] EXCEPT !.alone = FALSE]}
          /\ request[o] \in Request /\ RequestSound(request[o]) /\ request[o].id \in Ids
          /\ request[o].id = t => ~request'[o].alone
      BY <1>4, <2>1, StaleRequests DEF IInv, TypeOK, AllSound, Request
    <2> QED
      BY <1>3, <2>2, RequestKeeps DEF RequestSound
  <1>5. ASSUME NEW w \in Workers, Working(w)' PROVE JobSound(worker[w])'
    <2>1. Working(w) /\ worker[w] \in Job
      BY <1>1, <1>5, StaleWorkers DEF IInv, Working
    <2>2. /\ worker'[w] \in {worker[w], [worker[w] EXCEPT !.alone = FALSE]}
          /\ JobSound(worker[w]) /\ worker[w].id \in Ids
          /\ worker[w].id = t => ~worker'[w].alone
      BY <1>1, <2>1, StaleWorkers DEF IInv, AllSound, Job
    <2> QED
      BY <1>3, <2>1, <2>2, JobKeeps DEF JobSound
  <1>6. AllSound'
    BY <1>4, <1>5 DEF AllSound
  <1>7. \A w \in Workers : /\ worker'[w] \in Job <=> worker[w] \in Job
                           /\ worker'[w] = Gone <=> worker[w] = Gone
                           /\ worker[w] \in Job => worker'[w].id = worker[w].id
    BY <1>1, StaleWorkers DEF IInv, Working, CatalogueAssumption
  <1>8. PoolSound' /\ EachTitleOnce'
    BY <1>1, <1>7, SameJobs DEF IInv
  <1> QED
    BY <1>2, <1>6, <1>8 DEF IInv

LEMMA ServeKeeps ==
    ASSUME CatalogueAssumption, IInv, NEW r \in Requests, Serve(r) PROVE IInv'
  <1>1. ASSUME NEW t \in Ids, AddTitle(r, t) PROVE IInv'
    BY <1>1, BeginKeeps DEF AddTitle
  <1>2. ASSUME NEW t \in Ids, AddTitleToGroup(r, t) PROVE IInv'
    BY <1>2, BeginKeeps DEF AddTitleToGroup
  <1>3. ASSUME NEW t \in Ids, DeleteTitle(r, t) PROVE IInv'
    BY <1>3, BeginKeeps DEF DeleteTitle
  <1>4. ASSUME EndRequest(r) PROVE IInv'
    BY <1>4, EndKeeps DEF EndRequest
  <1> QED
    BY <1>1, <1>2, <1>3, <1>4, FetchNewTitleKeeps, InsertTitleKeeps, ReadBackKeeps,
       ReadBackFailsKeeps, ReadTitleKeeps, DeleteTitleRowKeeps DEF Serve

-----------------------------------------------------------------------------
(* The invariant and the theorems *)

LEMMA InitSound == ASSUME CatalogueAssumption, Init PROVE IInv
  <1>1. TypeOK
    BY DEF Init, TypeOK
  <1>2. AllSound /\ PoolSound /\ EachTitleOnce
    BY DEF Init, AllSound, Working, PoolSound, EachTitleOnce, CatalogueAssumption
  <1> QED
    BY <1>1, <1>2 DEF IInv

LEMMA StepSound == ASSUME CatalogueAssumption, IInv, [Next]_vars PROVE IInv'
  <1>1. CASE UNCHANGED vars
    BY <1>1 DEF vars, syncVars, IInv, TypeOK, AllSound, RequestSound, JobSound, Working,
                PoolSound, EachTitleOnce
  <1> QED
    BY <1>1, ServeKeeps, StartSyncKeeps, MainKeeps, WorkKeeps DEF Next

THEOREM AlwaysSound == Spec => []IInv
  BY CatalogueAssumption, InitSound, StepSound, PTL DEF Spec

(* The types of the rows, of the requests and of the pool. *)
THEOREM CatalogueTypesCorrect == Spec => []TypeOK
  <1>1. IInv => TypeOK
    BY DEF IInv
  <1> QED
    BY <1>1, AlwaysSound, PTL

(* syncTitles: every title listed is in one place at a time, and all have  *)
(* been processed once the workers have returned, whatever failed.         *)
THEOREM EveryTitleOnce == Spec => []EachTitleOnce
  <1>1. IInv => EachTitleOnce
    BY DEF IInv
  <1> QED
    BY <1>1, AlwaysSound, PTL

(* AddNewTitle: of requests that add one title at once, the one that       *)
(* inserts it and those that read it back answer the row that is stored.   *)
(* One whose read-back fails is at "fallback", and nothing is said of it.  *)
THEOREM AnswersAreStored == Spec => []AnswersWhatIsStored
  <1>1. IInv => AnswersWhatIsStored
    BY DEF IInv, AllSound, RequestSound, AnswersWhatIsStored, At
  <1> QED
    BY <1>1, AlwaysSound, PTL

(* processTitle: a refresh revives nothing, touches its own title only and *)
(* keeps what it does not fetch.                                           *)
THEOREM RefreshLosesNothing == Spec => RefreshKeepsTheRest
  <1> DEFINE Keeps == \A w \in Workers, t \in Ids :
                         Working(w) /\ worker'[w] \notin Job /\ title'[t] # title[t] =>
                            /\ t = worker[w].id
                            /\ title[t] # NoTitle /\ title'[t] # NoTitle
                            /\ worker[w].alone => title'[t].origin = title[t].origin
  <1>1. ASSUME CatalogueAssumption, IInv, [Next]_vars PROVE Keeps
    <2> SUFFICES ASSUME NEW w \in Workers, NEW t \in Ids, Working(w), worker'[w] \notin Job,
                        title'[t] # title[t]
                 PROVE  /\ t = worker[w].id
                        /\ title[t] # NoTitle /\ title'[t] # NoTitle
                        /\ worker[w].alone => title'[t].origin = title[t].origin
      OBVIOUS
    <2>1. ~(\E r \in Requests : Serve(r))
      <3>1. ASSUME NEW r \in Requests, DeleteTitleRow(r) PROVE FALSE
        BY <1>1, <3>1, StaleWorkers DEF DeleteTitleRow, IInv
      <3>2. ASSUME NEW r \in Requests, InsertTitle(r) PROVE FALSE
        BY <3>2 DEF InsertTitle, syncVars, Working
      <3> QED
        BY <3>1, <3>2 DEF Serve, AddTitle, AddTitleToGroup, DeleteTitle, Begin, FetchNewTitle,
                          ReadBack, ReadBackFails, ReadTitle, EndRequest
    <2>2. PICK v \in Workers : UpdateTitle(v)
      BY <1>1, <2>1 DEF Next, vars, StartSync, Main, SendJob, CloseJobs, EndSync, Work, TakeJob,
                        ExitWorker, LoadTitle, FetchTitle, FailJob
    <2>3. v = w
      BY <1>1, <2>2 DEF UpdateTitle, EndJob, Working, IInv, TypeOK
    <2>4. worker[w].at = "write" /\ JobSound(worker[w])
      BY <1>1, <2>2, <2>3 DEF UpdateTitle, Does, IInv, AllSound
    <2>5. /\ t = worker[w].id /\ title[t] # NoTitle
          /\ title'[t] = worker[w].title /\ worker[w].title \in Title
      BY <1>1, <2>2, <2>3, <2>4 DEF UpdateTitle, JobSound, IInv, TypeOK
    <2> QED
      BY <1>1, <2>4, <2>5 DEF JobSound, CatalogueAssumption
  <1> HIDE DEF Keeps
  <1>2. CatalogueAssumption /\ IInv /\ [Next]_vars => [Keeps]_vars
    BY <1>1
  <1> USE DEF Keeps
  <1> QED
    BY <1>2, CatalogueAssumption, AlwaysSound, PTL DEF Spec, RefreshKeepsTheRest

-----------------------------------------------------------------------------
(* Paging *)

(* What is left of a division by a positive number is less than it. *)
LEMMA Division ==
  ASSUME NEW a \in Nat, NEW s \in Nat \ {0}
  PROVE  /\ a \div s \in Nat
         /\ (a \div s) * s <= a
         /\ a < (a \div s) * s + s
  OBVIOUS

(* Products grow with their factors. *)
LEMMA TimesMonotone ==
  ASSUME NEW a \in Nat, NEW b \in Nat, NEW s \in Nat, a <= b
  PROVE  /\ a * s \in Nat /\ b * s \in Nat
         /\ a * s <= b * s
  <1>1. PICK d \in Nat : b = a + d
    <2>1. b - a \in Nat /\ b = a + (b - a)
      OBVIOUS
    <2> QED
      BY <2>1
  <1>2. b * s = a * s + d * s /\ d * s \in Nat /\ a * s \in Nat
    BY <1>1
  <1> QED
    BY <1>2

(* One page more is one size more. *)
LEMMA Successor ==
  ASSUME NEW a \in Int, NEW s \in Int
  PROVE  /\ (a + 1) * s = a * s + s
         /\ (a - 1) * s = a * s - s
  OBVIOUS

(* What fits an integer does not wrap. *)
LEMMA WrappedIsExact ==
  ASSUME NEW n \in 0..MaxInt
  PROVE  Wrapped(n) = n
  <1>1. MaxInt \in Nat
    BY PagingAssumption
  <1>2. (n + MaxInt + 1) \in 0..(2 * (MaxInt + 1) - 1)
    BY <1>1
  <1>3. (n + MaxInt + 1) % (2 * (MaxInt + 1)) = n + MaxInt + 1
    <2>1. ASSUME NEW x \in Nat, NEW y \in Nat \ {0}, x < y PROVE x % y = x
      BY <2>1
    <2> QED
      BY <1>1, <1>2, <2>1
  <1> QED
    BY <1>1, <1>3 DEF Wrapped

(* A normalized size is within its limits. *)
LEMMA SizesArePositive ==
  ASSUME NEW size \in GoInt
  PROVE  PageSize(size) \in 1..MaxPageSize /\ PageSize(size) \in 1..MaxInt
  BY PagingAssumption DEF PageSize, GoInt

(* The guard lets an offset through exactly when it is no greater than     *)
(* MaxInt, so the rows of a page are those the unbounded product says.     *)
LEMMA RowsOfAPage ==
  ASSUME NEW n \in 0..MaxRows, NEW size \in GoInt, NEW p \in 1..MaxInt
  PROVE  PageRows(n, size, p) =
           {k \in 1..n : /\ k > (p - 1) * PageSize(size)
                         /\ k <= (p - 1) * PageSize(size) + PageSize(size)}
  <1> DEFINE s == PageSize(size)
             d == MaxInt \div s
  <1>1. s \in Nat \ {0} /\ s <= MaxInt /\ MaxInt \in Nat /\ n \in Nat /\ n <= MaxInt
    BY SizesArePositive, PagingAssumption
  <1>2. p - 1 \in Nat /\ PageNumber(p) = p
    BY DEF PageNumber
  <1> HIDE DEF s
  <1>3. d \in Nat /\ d * s <= MaxInt /\ MaxInt < d * s + s
    BY <1>1, Division
  <1>4. CASE Selects(s, p)
    <2>1. p - 1 <= d
      BY <1>4 DEF Selects
    <2>2. (p - 1) * s \in Nat /\ d * s \in Nat /\ (p - 1) * s <= d * s
      BY <1>1, <1>2, <1>3, <2>1, TimesMonotone
    <2>3. (p - 1) * s \in 0..MaxInt
      BY <1>1, <1>3, <2>2
    <2>4. PageOffset(s, p) = (p - 1) * s
      BY <2>3, WrappedIsExact DEF PageOffset
    <2> QED
      BY <1>2, <1>4, <2>4 DEF PageRows, s
  <1>5. CASE ~Selects(s, p)
    <2>1. d + 1 \in Nat /\ d + 1 <= p - 1
      BY <1>1, <1>2, <1>3, <1>5 DEF Selects
    <2>2. (d + 1) * s <= (p - 1) * s /\ (p - 1) * s \in Nat
      BY <1>1, <1>2, <2>1, TimesMonotone
    <2>3. (d + 1) * s = d * s + s
      BY <1>1, <1>3, Successor
    <2>4. (p - 1) * s > MaxInt
      BY <1>1, <1>3, <2>2, <2>3
    <2>5. \A k \in 1..n : ~(k > (p - 1) * s)
      BY <1>1, <2>2, <2>4
    <2> QED
      BY <1>2, <1>5, <2>5 DEF PageRows, s
  <1> QED
    BY <1>4, <1>5

(* The number of pages is the rows' by the size, rounded up. *)
LEMMA PagesInAll ==
  ASSUME NEW n \in 0..MaxRows, NEW size \in GoInt
  PROVE  LET s == PageSize(size)
             t == TotalPages(n, size)
         IN  t \in 0..MaxInt /\ t * s <= n + s - 1 /\ n - 1 < t * s
  <1> DEFINE s == PageSize(size)
             t == TotalPages(n, size)
  <1>1. s \in Nat \ {0} /\ s <= MaxInt /\ MaxInt \in Nat /\ n \in Nat
        /\ n + s - 1 \in 0..MaxInt
    BY SizesArePositive, PagingAssumption
  <1>2. t = (n + s - 1) \div s
    BY <1>1, WrappedIsExact DEF TotalPages
  <1> HIDE DEF s, t
  <1>3. t \in Nat /\ t * s <= n + s - 1 /\ n + s - 1 < t * s + s
    BY <1>1, <1>2, Division
  <1>4. t * 1 <= t * s
    <2>1. 1 * t <= s * t
      BY <1>1, <1>3, TimesMonotone
    <2> QED
      BY <1>1, <1>3, <2>1
  <1>5. t <= MaxInt
    BY <1>1, <1>3, <1>4
  <1> QED
    BY <1>1, <1>3, <1>5 DEF s, t

(* A listing of every length is paged once: the pages from the first to    *)
(* the last have every row once, those beyond none.                        *)
LEMMA EveryLengthIsPagedOnce == PagedOnce = 0..MaxRows
  <1> SUFFICES ASSUME NEW n \in 0..MaxRows, NEW size \in GoInt
               PROVE  /\ \A k \in 1..n : \E p \in 1..TotalPages(n, size) :
                            k \in PageRows(n, size, p)
                      /\ \A p, q \in 1..MaxInt : p # q =>
                            PageRows(n, size, p) \cap PageRows(n, size, q) = {}
                      /\ \A p \in 1..MaxInt :
                            PageRows(n, size, p) = {} <=> p > TotalPages(n, size)
    BY DEF PagedOnce
  <1> DEFINE s == PageSize(size)
             t == TotalPages(n, size)
  <1>1. s \in Nat \ {0} /\ s <= MaxInt /\ MaxInt \in Nat /\ n \in Nat
    BY SizesArePositive, PagingAssumption
  <1>2. t \in 0..MaxInt /\ t * s <= n + s - 1 /\ n - 1 < t * s
    BY PagesInAll
  <1>3. ASSUME NEW p \in 1..MaxInt
        PROVE  /\ PageRows(n, size, p)
                     = {k \in 1..n : k > (p - 1) * s /\ k <= (p - 1) * s + s}
               /\ p - 1 \in Nat /\ (p - 1) * s \in Nat
    <2>1. p - 1 \in Nat
      BY <1>1
    <2>2. (p - 1) * s \in Nat
      BY <1>1, <2>1, TimesMonotone
    <2> QED
      BY <2>1, <2>2, RowsOfAPage
  <1> HIDE DEF s, t
  <1>4. ASSUME NEW k \in 1..n PROVE \E p \in 1..t : k \in PageRows(n, size, p)
    <2> DEFINE d == (k - 1) \div s
    <2>1. d \in Nat /\ d * s <= k - 1 /\ k - 1 < d * s + s
      BY <1>1, Division
    <2> HIDE DEF d
    <2>2. d < t
      <3>1. ASSUME t <= d PROVE FALSE
        <4>1. t * s <= d * s
          BY <1>1, <1>2, <2>1, <3>1, TimesMonotone
        <4>2. t * s \in Int /\ d * s \in Int
          BY <1>1, <1>2, <2>1
        <4> QED
          BY <1>1, <1>2, <2>1, <4>1, <4>2
      <3> QED
        BY <1>2, <2>1, <3>1
    <2>3. d + 1 \in 1..t /\ d + 1 \in 1..MaxInt /\ (d + 1) - 1 = d
      BY <1>1, <1>2, <2>1, <2>2
    <2>4. k > d * s /\ k <= d * s + s
      BY <1>1, <2>1
    <2>5. PageRows(n, size, d + 1) = {i \in 1..n : i > d * s /\ i <= d * s + s}
      BY <1>3, <2>3
    <2>6. k \in PageRows(n, size, d + 1)
      BY <2>4, <2>5
    <2> QED
      BY <2>3, <2>6
  <1>5. ASSUME NEW p \in 1..MaxInt, NEW q \in 1..MaxInt, p < q
        PROVE  PageRows(n, size, p) \cap PageRows(n, size, q) = {}
    <2>1. p - 1 \in Nat /\ q - 1 \in Nat /\ p \in Nat /\ p <= q - 1
      BY <1>1, <1>5
    <2>2. p * s <= (q - 1) * s
      BY <1>1, <2>1, TimesMonotone
    <2>3. (p - 1) * s + s = p * s
      BY <1>1, <2>1, Successor
    <2>4. (p - 1) * s + s <= (q - 1) * s
      BY <2>2, <2>3
    <2> QED
      BY <1>1, <1>3, <2>4
  <1>6. ASSUME NEW p \in 1..MaxInt PROVE PageRows(n, size, p) = {} <=> p > t
    <2>1. CASE p > t
      <3>1. t <= p - 1 /\ t \in Nat /\ p - 1 \in Nat
        BY <1>1, <1>2, <2>1
      <3>2. t * s <= (p - 1) * s /\ t * s \in Nat
        BY <1>1, <3>1, TimesMonotone
      <3>3. n - 1 < (p - 1) * s
        BY <1>1, <1>2, <1>3, <3>2
      <3> QED
        BY <1>1, <1>3, <2>1, <3>3
    <2>2. CASE p <= t
      <3>1. p * s <= t * s
        BY <1>1, <1>2, <2>2, TimesMonotone
      <3>2. (p - 1) * s + s = p * s
        BY <1>1, Successor
      <3>3. (p - 1) * s + 1 \in 1..n
        BY <1>1, <1>2, <1>3, <3>1, <3>2
      <3>4. (p - 1) * s + 1 \in PageRows(n, size, p)
        BY <1>1, <1>3, <3>3
      <3> QED
        BY <1>2, <2>2, <3>4
    <2> QED
      BY <1>2, <2>1, <2>2
  <1>7. ASSUME NEW p \in 1..MaxInt, NEW q \in 1..MaxInt, p # q
        PROVE  PageRows(n, size, p) \cap PageRows(n, size, q) = {}
    <2>1. CASE p < q
      BY <1>5, <2>1
    <2>2. CASE q < p
      BY <1>5, <2>2
    <2> QED
      BY <1>7, <2>1, <2>2
  <1> QED
    BY <1>4, <1>6, <1>7 DEF t

(* Whatever size and page a client of the listing of all titles asks for,  *)
(* however wide the integers: in every state the pages from the first to   *)
(* the last have every title once, and those beyond none, though their     *)
(* offset may overflow.                                                    *)
THEOREM PagesPartitionTheRows == Spec => []EveryRowOnOnePage
  <1> DEFINE stored == {t \in Ids : title[t] # NoTitle}
  <1>1. EveryRowOnOnePage
    <2>1. stored \subseteq Ids /\ IsFiniteSet(Ids) /\ Cardinality(Ids) <= MaxRows
      BY ListingAssumption
    <2>2. /\ IsFiniteSet(stored) /\ Cardinality(stored) <= Cardinality(Ids)
          /\ Cardinality(stored) \in Nat /\ Cardinality(Ids) \in Nat
      BY <2>1, FS_Subset, FS_CardinalityType
    <2>3. Cardinality(stored) \in 0..MaxRows
      BY <2>1, <2>2, PagingAssumption
    <2> QED
      BY <2>3, EveryLengthIsPagedOnce DEF EveryRowOnOnePage
  <1> QED
    BY <1>1, PTL
=============================================================================
