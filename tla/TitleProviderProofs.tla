------------------------- MODULE TitleProviderProofs -------------------------
(***************************************************************************)
(* Theorems about TitleProvider, for any number of calls that share the    *)
(* throttle and every interval, limit, backoff and number of retries: its  *)
(* types, the budget of requests, and what titles and searches answer.     *)
(***************************************************************************)
EXTENDS TitleProvider, FiniteSetTheorems, TLAPS

(* A call that has a slot of the throttle it has not used yet *)
Owes(r) == r.at = "wait" \/ (r.at = "do" /\ OfTmdb(r.ask))

Owing  == {c \in Calls : Owes(call[c])}
Due(T) == {c \in Owing : call[c].left <= T}

(* The bucket pays for the slots that come due until T, for every T; and   *)
(* when nextAllowed has come, for all slots and one request more.          *)
Budget ==
    /\ \A T \in Nat : credit + T >= MinInterval * Cardinality(Due(T))
    /\ credit + ahead >= MinInterval * Cardinality(Owing) + MinInterval

(* What a call has counted when it is at a request *)
CountSound(r) ==
    /\ r.ask \in {"find", "details", "search", "title", "omdbSearch"}
         => r.listed = 0 /\ r.item = 0 /\ r.got = 0
    /\ r.ask \in {"season", "omdbSeason", "lookup"} => r.item <= r.listed /\ r.got < r.item
    /\ r.ask = "season" => r.got + 1 = r.item
    /\ r.ask = "lookup" => r.got < Limit
    /\ r.ask = "rating" => r.got = r.listed

Ends     == {"answered", "failed"}
OmdbOnly == {"title", "omdbSeason", "omdbSearch"}

CallSound(r) ==
    /\ r.at = "do" => r.left = 0
    /\ r.at = "sleep" => r.attempt < MaxRetries
    /\ r.at = "begin" => r.ask = "find"
    /\ r.at # "begin" => (provider = "omdb" <=> r.ask \in OmdbOnly)
    /\ r.at \notin Ends => CountSound(r)
    /\ r.at = "answered" =>
         IF r.ask \in {"search", "lookup", "omdbSearch"}
         THEN r.got <= Limit /\ (r.got = Limit \/ r.item = r.listed)
         ELSE provider # "omdb" => r.got = r.listed
    /\ r.at = "failed" => r.ask \notin {"rating", "lookup"}

(* The inductive invariant. *)
IInv == TypeOK /\ Budget /\ \A c \in Calls : CallSound(call[c])

-----------------------------------------------------------------------------
(* What comes after a request *)

LEMMA AskFacts ==
    ASSUME ProviderAssumption, NEW r \in Call,
           NEW ask \in {"find", "details", "season", "rating", "title", "omdbSeason",
                        "search", "lookup", "omdbSearch"}
    PROVE  /\ Ask(r, ask) \in Call
           /\ Ask(r, ask).at = IF OfTmdb(ask) THEN "throttle" ELSE "do"
           /\ Ask(r, ask).ask = ask /\ Ask(r, ask).left = 0
           /\ Ask(r, ask).listed = r.listed /\ Ask(r, ask).item = r.item /\ Ask(r, ask).got = r.got
           /\ ~Owes(Ask(r, ask))
  <1>1. 0 \in 0..MaxRetries
    BY DEF ProviderAssumption
  <1>2. Ask(r, ask) \in Call
    BY <1>1 DEF Ask, Call
  <1>3. /\ Ask(r, ask).at = IF OfTmdb(ask) THEN "throttle" ELSE "do"
        /\ Ask(r, ask).ask = ask /\ Ask(r, ask).left = 0
        /\ Ask(r, ask).listed = r.listed /\ Ask(r, ask).item = r.item /\ Ask(r, ask).got = r.got
    BY DEF Ask, Call
  <1>. QED
    BY <1>2, <1>3 DEF Owes

LEMMA EndFacts ==
    ASSUME ProviderAssumption, NEW r \in Call
    PROVE  /\ Answer(r) \in Call /\ Answer(r).at = "answered" /\ Answer(r).ask = r.ask
           /\ Answer(r).listed = r.listed /\ Answer(r).item = r.item /\ Answer(r).got = r.got
           /\ Fail(r) \in Call /\ Fail(r).at = "failed" /\ Fail(r).ask = r.ask
           /\ ~Owes(Answer(r)) /\ ~Owes(Fail(r))
  <1>1. 0 \in 0..MaxRetries /\ 0 \in Items
    BY DEF ProviderAssumption, Items
  <1>2. /\ Answer(r) \in Call /\ Answer(r).at = "answered" /\ Answer(r).ask = r.ask
        /\ Answer(r).listed = r.listed /\ Answer(r).item = r.item /\ Answer(r).got = r.got
    BY <1>1 DEF Answer, Call
  <1>3. Fail(r) \in Call /\ Fail(r).at = "failed" /\ Fail(r).ask = r.ask
    BY <1>1, <1>2 DEF Fail, Call
  <1>. QED
    BY <1>2, <1>3 DEF Owes

LEMMA ProceedIsSound ==
    ASSUME ProviderAssumption, NEW r \in Call,
           NEW ask \in {"season", "omdbSeason", "lookup"},
           r.item <= r.listed, r.got <= r.item,
           ask = "season" => r.got = r.item,
           ask = "lookup" => r.got <= Limit,
           ask = "lookup" <=> r.ask \in {"search", "lookup"},
           r.ask # "omdbSearch",
           provider = "omdb" <=> ask = "omdbSeason",
           provider = "omdb" <=> r.ask \in OmdbOnly
    PROVE  Proceed(r, ask) \in Call /\ CallSound(Proceed(r, ask)) /\ ~Owes(Proceed(r, ask))
  <1>0. /\ r.item \in Items /\ r.got \in Items /\ r.listed \in Items
        /\ Items = 0..MaxItems /\ MaxItems \in Nat /\ Limit \in Nat
    BY DEF Call, Items, ProviderAssumption
  <1>1. CASE r.item < r.listed /\ (ask = "lookup" => r.got < Limit)
    <2>. DEFINE q == [r EXCEPT !.item = @ + 1]
                p == Ask(q, ask)
    <2>. HIDE DEF p
    <2>0. r.item + 1 \in Items
      BY <1>0, <1>1
    <2>1. /\ q \in Call /\ q.item = r.item + 1 /\ q.listed = r.listed /\ q.got = r.got
      BY <2>0 DEF Call
    <2>. HIDE DEF q
    <2>2. /\ p \in Call /\ ~Owes(p)
          /\ p.at = (IF OfTmdb(ask) THEN "throttle" ELSE "do") /\ p.ask = ask /\ p.left = 0
          /\ p.item = r.item + 1 /\ p.listed = r.listed /\ p.got = r.got
      BY <2>1, AskFacts DEF p
    <2>3. Proceed(r, ask) = p
      BY <1>0, <1>1 DEF Proceed, p, q
    <2>4. CountSound(p)
      BY <1>0, <1>1, <2>2 DEF CountSound
    <2>5. p.at \in {"throttle", "do"}
      BY <2>2
    <2>6. provider = "omdb" <=> p.ask \in OmdbOnly
      BY <2>2 DEF OmdbOnly
    <2>7. CallSound(p)
      BY <2>2, <2>4, <2>5, <2>6 DEF CallSound, Ends
    <2>. QED
      BY <2>2, <2>3, <2>7
  <1>2. CASE ~(r.item < r.listed /\ (ask = "lookup" => r.got < Limit)) /\ ask = "season" /\ provider = "hybrid"
    <2>1. r.item = r.listed /\ r.got = r.listed
      BY <1>0, <1>2
    <2>2. Proceed(r, ask) = Ask(r, "rating")
      BY <1>2, <2>1 DEF Proceed
    <2>. DEFINE p == Ask(r, "rating")
    <2>3. /\ p \in Call /\ ~Owes(p) /\ p.ask = "rating" /\ p.left = 0
          /\ p.at = "do" /\ p.listed = r.listed /\ p.got = r.got
      BY AskFacts DEF OfTmdb
    <2>. HIDE DEF p
    <2>4. CountSound(p)
      BY <2>1, <2>3 DEF CountSound
    <2>5. provider # "omdb" /\ p.ask \notin OmdbOnly
      BY <1>2, <2>3 DEF OmdbOnly
    <2>6. CallSound(p)
      BY <2>3, <2>4, <2>5 DEF CallSound, Ends
    <2>. QED
      BY <2>2, <2>3, <2>6 DEF p
  <1>3. CASE ~(r.item < r.listed /\ (ask = "lookup" => r.got < Limit)) /\ ~(ask = "season" /\ provider = "hybrid")
    <2>1. Proceed(r, ask) = Answer(r)
      BY <1>3 DEF Proceed
    <2>. DEFINE p == Answer(r)
    <2>2. /\ p \in Call /\ ~Owes(p) /\ p.at = "answered" /\ p.ask = r.ask
          /\ p.listed = r.listed /\ p.item = r.item /\ p.got = r.got
      BY EndFacts
    <2>. HIDE DEF p
    <2>3. IF ask = "lookup" THEN r.got <= Limit /\ (r.got = Limit \/ r.item = r.listed)
          ELSE provider # "omdb" => r.got = r.listed
      BY <1>0, <1>3
    <2>4. CallSound(p)
      BY <2>2, <2>3 DEF CallSound, Ends, OmdbOnly
    <2>. QED
      BY <2>1, <2>2, <2>4 DEF p
  <1>. QED
    BY <1>1, <1>2, <1>3

LEMMA WithoutIsSound ==
    ASSUME ProviderAssumption, NEW r \in Call, CallSound(r), r.at \in {"wait", "do", "sent"}
    PROVE  Without(r) \in Call /\ CallSound(Without(r)) /\ ~Owes(Without(r))
  <1>1. CountSound(r)
    BY DEF CallSound, Ends, OmdbOnly
  <1>2. CASE r.ask = "rating"
    <2>1. Without(r) = Answer(r)
      BY <1>2 DEF Without
    <2>. QED
      BY <1>1, <1>2, <2>1, EndFacts DEF CallSound, CountSound, Ends, OmdbOnly
  <1>3. CASE r.ask = "lookup"
    <2>1. Without(r) = Proceed(r, "lookup")
      BY <1>3 DEF Without
    <2>2. r.item <= r.listed /\ r.got <= r.item /\ r.got <= Limit
      BY <1>1, <1>3 DEF CountSound, Call, Items, ProviderAssumption
    <2>. QED
      BY <1>3, <2>1, <2>2, ProceedIsSound DEF CallSound, OmdbOnly
  <1>4. CASE r.ask \notin {"rating", "lookup"}
    <2>1. Without(r) = Fail(r)
      BY <1>4 DEF Without
    <2>. QED
      BY <1>4, <2>1, EndFacts DEF CallSound, Ends, OmdbOnly
  <1>. QED
    BY <1>2, <1>3, <1>4

-----------------------------------------------------------------------------
(* Counting slots *)

LEMMA Products ==
    ASSUME NEW m \in Nat, NEW a \in Nat, NEW b \in Nat, a <= b
    PROVE  m * a \in Nat /\ m * a <= m * b /\ m * (a + 1) = m * a + m
  <1>1. PICK k \in Nat : b = a + k
    <2>1. b - a \in Nat /\ b = a + (b - a)
      OBVIOUS
    <2>. QED
      BY <2>1
  <1>2. m * b = m * a + m * k /\ m * k \in Nat /\ m * a \in Nat
    BY <1>1
  <1>. QED
    BY <1>2

LEMMA Subsets ==
    ASSUME ProviderAssumption, NEW S \in SUBSET Calls, NEW R \in SUBSET S
    PROVE  /\ IsFiniteSet(S) /\ Cardinality(S) \in Nat /\ Cardinality(R) \in Nat
           /\ Cardinality(R) <= Cardinality(S) /\ Cardinality(S) <= Cardinality(Calls)
           /\ Cardinality(Calls) \in Nat
           /\ MinInterval * Cardinality(R) <= MinInterval * Cardinality(S)
           /\ MinInterval * Cardinality(R) \in Nat /\ MinInterval * Cardinality(S) \in Nat
           /\ Bucket \in Nat
           /\ MinInterval * Cardinality(S) + MinInterval <= Bucket
  <1>1. /\ IsFiniteSet(S) /\ IsFiniteSet(R)
        /\ Cardinality(R) <= Cardinality(S) /\ Cardinality(S) <= Cardinality(Calls)
    BY FS_Subset DEF ProviderAssumption
  <1>2. Cardinality(S) \in Nat /\ Cardinality(R) \in Nat /\ Cardinality(Calls) \in Nat
    BY <1>1, FS_CardinalityType DEF ProviderAssumption
  <1>3. MinInterval \in Nat
    BY DEF ProviderAssumption
  <1>4. /\ MinInterval * Cardinality(R) <= MinInterval * Cardinality(S)
        /\ MinInterval * Cardinality(R) \in Nat
    BY <1>1, <1>2, <1>3, Products
  <1>5. /\ MinInterval * Cardinality(S) <= MinInterval * Cardinality(Calls)
        /\ MinInterval * Cardinality(S) \in Nat
    BY <1>1, <1>2, <1>3, Products
  <1>6. /\ MinInterval * (Cardinality(Calls) + 1) = MinInterval * Cardinality(Calls) + MinInterval
        /\ MinInterval * Cardinality(Calls) \in Nat
    BY <1>2, <1>3, Products
  <1>7. Bucket = MinInterval * (Cardinality(Calls) + 1)
    BY <1>2, <1>3 DEF Bucket
  <1>. QED
    BY <1>1, <1>2, <1>3, <1>4, <1>5, <1>6, <1>7

(* A step that takes no slot keeps the invariant. *)
LEMMA CallStep ==
    ASSUME ProviderAssumption, IInv, NEW c \in Calls, NEW r \in Call, CallSound(r),
           Owes(r) => Owes(call[c]) /\ r.left = call[c].left,
           Becomes(c, r), OnlyTheCall
    PROVE  IInv'
  <1>1. /\ call' = [call EXCEPT ![c] = r] /\ provider' = provider
        /\ ahead' = ahead /\ credit' = credit
    BY DEF Becomes, OnlyTheCall
  <1>2. call \in [Calls -> Call] /\ credit \in Int /\ ahead \in Nat
    BY DEF IInv, TypeOK
  <1>3. TypeOK'
    BY <1>1, <1>2 DEF IInv, TypeOK, Bucket
  <1>4. \A d \in Calls : CallSound(call[d])'
    BY <1>1, <1>2 DEF IInv, CallSound, CountSound
  <1>5. Owing' \subseteq Owing /\ \A T \in Nat : Due(T)' \subseteq Due(T)
    BY <1>1, <1>2 DEF Owing, Due, Owes
  <1>6. Owing \in SUBSET Calls /\ \A T \in Nat : Due(T) \in SUBSET Calls
    BY DEF Owing, Due
  <1>7. MinInterval * Cardinality(Owing') + MinInterval <= credit' + ahead'
    <2>1. /\ MinInterval * Cardinality(Owing') <= MinInterval * Cardinality(Owing)
          /\ MinInterval * Cardinality(Owing') \in Nat /\ MinInterval * Cardinality(Owing) \in Nat
      BY <1>5, <1>6, Subsets
    <2>. QED
      BY <1>1, <1>2, <2>1 DEF IInv, Budget, ProviderAssumption
  <1>8. ASSUME NEW T \in Nat
        PROVE  credit' + T >= MinInterval * Cardinality(Due(T)')
    <2>1. /\ MinInterval * Cardinality(Due(T)') <= MinInterval * Cardinality(Due(T))
          /\ MinInterval * Cardinality(Due(T)') \in Nat /\ MinInterval * Cardinality(Due(T)) \in Nat
      BY <1>5, <1>6, Subsets
    <2>. QED
      BY <1>1, <1>2, <2>1 DEF IInv, Budget
  <1>9. Budget'
    <2>1. credit' + ahead' >= MinInterval * Cardinality(Owing') + MinInterval
      BY <1>1, <1>2, <1>7
    <2>. QED
      BY <1>8, <2>1 DEF Budget
  <1>. QED
    BY <1>3, <1>4, <1>9 DEF IInv

-----------------------------------------------------------------------------
(* Every step keeps the invariant *)

LEMMA InitIsSound == ASSUME ProviderAssumption, Init PROVE IInv
  <1>1. \A c \in Calls : call[c].at = "begin" /\ ~Owes(call[c])
    BY DEF Init, Owes
  <1>2. Owing = {} /\ \A T \in Nat : Due(T) = {}
    BY <1>1 DEF Owing, Due
  <1>3. Cardinality({}) = 0
    BY FS_EmptySet
  <1>4. Bucket \in Nat /\ MinInterval * Cardinality({}) + MinInterval <= Bucket
    BY Subsets
  <1>5. MinInterval \in Nat /\ MinInterval * 0 = 0
    BY DEF ProviderAssumption
  <1>6. Budget
    <2>1. credit = Bucket /\ ahead = 0
      BY DEF Init
    <2>2. ASSUME NEW T \in Nat
          PROVE  credit + T >= MinInterval * Cardinality(Due(T))
      <3>1. MinInterval * Cardinality(Due(T)) = 0
        BY <1>2, <1>3, <1>5
      <3>. QED
        BY <1>4, <2>1, <3>1
    <2>3. credit + ahead >= MinInterval * Cardinality(Owing) + MinInterval
      BY <1>2, <1>3, <1>4, <1>5, <2>1
    <2>. QED
      BY <2>2, <2>3 DEF Budget
  <1>7. TypeOK
    <2>1. 0 \in Items /\ 0 \in 0..MaxRetries
      BY DEF Items, ProviderAssumption
    <2>. QED
      BY <1>4, <2>1 DEF Init, TypeOK, Call
  <1>8. \A c \in Calls : CallSound(call[c])
    BY DEF Init, CallSound, CountSound, Ends
  <1>. QED
    BY <1>6, <1>7, <1>8 DEF IInv

LEMMA BeginsSound ==
    ASSUME ProviderAssumption, IInv, NEW c \in Calls, GetTitle(c) \/ SearchTitles(c)
    PROVE  IInv'
  <1>1. PICK ask \in {"find", "title", "search", "omdbSearch"} :
           /\ provider = "omdb" <=> ask \in OmdbOnly
           /\ Becomes(c, Ask(call[c], ask)) /\ OnlyTheCall
    BY DEF GetTitle, SearchTitles, OmdbOnly
  <1>2. /\ call[c] \in Call /\ CallSound(call[c]) /\ call[c].at = "begin"
    BY DEF IInv, TypeOK, GetTitle, SearchTitles, At
  <1>. DEFINE r == Ask(call[c], ask)
  <1>. HIDE DEF r
  <1>3. /\ r \in Call /\ ~Owes(r) /\ r.at \in {"throttle", "do"} /\ r.ask = ask /\ r.left = 0
        /\ r.listed = call[c].listed /\ r.item = call[c].item /\ r.got = call[c].got
    <2>1. ask \in {"find", "details", "season", "rating", "title", "omdbSeason",
                   "search", "lookup", "omdbSearch"}
      BY <1>1
    <2>. QED
      BY <1>2, <2>1, AskFacts DEF r
  <1>4. CountSound(r)
    BY <1>1, <1>2, <1>3 DEF CallSound, CountSound, Ends
  <1>5. CallSound(r)
    BY <1>1, <1>3, <1>4 DEF CallSound, Ends
  <1>. QED
    BY <1>1, <1>3, <1>5, CallStep DEF r

LEMMA ReserveIsSound ==
    ASSUME ProviderAssumption, IInv, NEW c \in Calls, Reserve(c)
    PROVE  IInv'
  <1>. DEFINE r == [call[c] EXCEPT !.at = IF ahead > 0 THEN "wait" ELSE "do", !.left = ahead]
  <1>. HIDE DEF r
  <1>1. /\ call' = [call EXCEPT ![c] = r] /\ provider' = provider
        /\ ahead' = ahead + MinInterval /\ credit' = credit
    BY DEF Reserve, Becomes, r
  <1>2. /\ call \in [Calls -> Call] /\ credit \in Int /\ ahead \in Nat
        /\ call[c].at = "throttle" /\ CallSound(call[c]) /\ MinInterval \in Nat
    BY DEF IInv, TypeOK, Reserve, At, ProviderAssumption
  <1>3. /\ r \in Call /\ r.left = ahead /\ r.at = (IF ahead > 0 THEN "wait" ELSE "do")
        /\ r.ask = call[c].ask
        /\ r.listed = call[c].listed /\ r.item = call[c].item /\ r.got = call[c].got
    BY <1>2 DEF r, Call
  <1>4. r.at \in {"wait", "do"} /\ (r.at = "do" => r.left = 0)
    BY <1>2, <1>3
  <1>5. CallSound(r)
    BY <1>2, <1>3, <1>4 DEF CallSound, CountSound, Ends
  <1>6. TypeOK' /\ \A d \in Calls : CallSound(call[d])'
    <2>1. TypeOK'
      BY <1>1, <1>2, <1>3 DEF IInv, TypeOK, Bucket
    <2>2. ASSUME NEW d \in Calls
          PROVE  CallSound(call[d])'
      BY <1>1, <1>2, <1>5 DEF IInv, CallSound, CountSound
    <2>. QED
      BY <2>1, <2>2
  <1>7. /\ Owing' \subseteq Owing \cup {c} /\ c \notin Owing
        /\ \A T \in Nat : T < ahead => Due(T)' \subseteq Due(T)
        /\ \A T \in Nat : Due(T)' \subseteq Owing'
    BY <1>1, <1>2, <1>3 DEF Owing, Due, Owes
  <1>8. Owing \in SUBSET Calls /\ Owing \cup {c} \in SUBSET Calls /\ \A T \in Nat : Due(T) \in SUBSET Calls
    BY DEF Owing, Due
  <1>9. /\ MinInterval * Cardinality(Owing') <= MinInterval * Cardinality(Owing) + MinInterval
        /\ MinInterval * Cardinality(Owing') \in Nat /\ MinInterval * Cardinality(Owing) \in Nat
    <2>1. IsFiniteSet(Owing) /\ Cardinality(Owing) \in Nat
      BY <1>8, Subsets
    <2>2. Cardinality(Owing \cup {c}) = Cardinality(Owing) + 1
      BY <1>7, <2>1, FS_AddElement
    <2>3. MinInterval * (Cardinality(Owing) + 1) = MinInterval * Cardinality(Owing) + MinInterval
      BY <1>2, <2>1, Products
    <2>4. /\ MinInterval * Cardinality(Owing') <= MinInterval * Cardinality(Owing \cup {c})
          /\ MinInterval * Cardinality(Owing') \in Nat
      BY <1>7, <1>8, Subsets
    <2>5. MinInterval * Cardinality(Owing) \in Nat
      BY <1>8, Subsets
    <2>. QED
      BY <2>2, <2>3, <2>4, <2>5
  <1>10. credit + ahead >= MinInterval * Cardinality(Owing) + MinInterval
    BY DEF IInv, Budget
  <1>11. credit' + ahead' >= MinInterval * Cardinality(Owing') + MinInterval
    BY <1>1, <1>2, <1>9, <1>10
  <1>12. ASSUME NEW T \in Nat
         PROVE  credit' + T >= MinInterval * Cardinality(Due(T)')
    <2>1. CASE T < ahead
      <3>1. /\ MinInterval * Cardinality(Due(T)') <= MinInterval * Cardinality(Due(T))
            /\ MinInterval * Cardinality(Due(T)') \in Nat /\ MinInterval * Cardinality(Due(T)) \in Nat
        BY <1>7, <1>8, <2>1, Subsets
      <3>2. credit + T >= MinInterval * Cardinality(Due(T))
        BY DEF IInv, Budget
      <3>. QED
        BY <1>1, <1>2, <3>1, <3>2
    <2>2. CASE T >= ahead
      <3>1. Owing' \in SUBSET Calls
        BY <1>7, <1>8
      <3>2. /\ MinInterval * Cardinality(Due(T)') <= MinInterval * Cardinality(Owing')
            /\ MinInterval * Cardinality(Due(T)') \in Nat
        BY <1>7, <3>1, Subsets
      <3>. QED
        BY <1>1, <1>2, <1>9, <1>10, <2>2, <3>2
    <2>. QED
      BY <1>2, <2>1, <2>2
  <1>13. Budget'
    BY <1>11, <1>12 DEF Budget
  <1>. QED
    BY <1>6, <1>13 DEF IInv

LEMMA SendIsSound ==
    ASSUME ProviderAssumption, IInv, NEW c \in Calls, Send(c)
    PROVE  IInv'
  <1>. DEFINE r == [call[c] EXCEPT !.at = "sent"]
  <1>. HIDE DEF r
  <1>1. /\ call' = [call EXCEPT ![c] = r] /\ provider' = provider /\ ahead' = ahead
        /\ credit' = IF OfTmdb(call[c].ask) THEN credit - MinInterval ELSE credit
    BY DEF Send, Becomes, r
  <1>2. /\ call \in [Calls -> Call] /\ credit \in Int /\ ahead \in Nat
        /\ call[c].at = "do" /\ CallSound(call[c]) /\ call[c].left = 0 /\ MinInterval \in Nat
    BY DEF IInv, TypeOK, Send, At, CallSound, ProviderAssumption
  <1>3. /\ r \in Call /\ r.at = "sent" /\ r.ask = call[c].ask
        /\ r.listed = call[c].listed /\ r.item = call[c].item /\ r.got = call[c].got
    BY <1>2 DEF r, Call
  <1>4. CallSound(r) /\ ~Owes(r)
    BY <1>2, <1>3 DEF CallSound, CountSound, Ends, Owes
  <1>5. CASE ~OfTmdb(call[c].ask)
    BY <1>1, <1>3, <1>4, <1>5, CallStep DEF Becomes, OnlyTheCall
  <1>6. CASE OfTmdb(call[c].ask)
    <2>1. TypeOK'
      <3>1. Bucket \in Nat /\ Bucket' = Bucket /\ credit <= Bucket /\ provider \in Providers
        BY Subsets DEF IInv, TypeOK, Bucket
      <3>2. credit' \in Int /\ credit' <= Bucket
        BY <1>1, <1>2, <1>6, <3>1
      <3>. QED
        BY <1>1, <1>2, <1>3, <3>1, <3>2 DEF TypeOK
    <2>2. ASSUME NEW d \in Calls
          PROVE  CallSound(call[d])'
      BY <1>1, <1>2, <1>4 DEF IInv, CallSound, CountSound
    <2>3. /\ c \in Owing /\ Owing' \subseteq Owing \ {c}
          /\ \A T \in Nat : c \in Due(T) /\ Due(T)' \subseteq Due(T) \ {c}
      BY <1>1, <1>2, <1>3, <1>4, <1>6 DEF Owing, Due, Owes
    <2>4. ASSUME NEW S \in SUBSET Calls, c \in S, NEW R, R \subseteq S \ {c}
          PROVE  /\ MinInterval * Cardinality(R) + MinInterval <= MinInterval * Cardinality(S)
                 /\ MinInterval * Cardinality(R) \in Nat /\ MinInterval * Cardinality(S) \in Nat
      <3>1. IsFiniteSet(S) /\ Cardinality(S) \in Nat /\ MinInterval * Cardinality(S) \in Nat
        BY <2>4, Subsets
      <3>2. Cardinality(S \ {c}) = Cardinality(S) - 1
        BY <2>4, <3>1, FS_RemoveElement
      <3>3. /\ MinInterval * Cardinality(R) <= MinInterval * Cardinality(S \ {c})
            /\ MinInterval * Cardinality(R) \in Nat /\ Cardinality(S \ {c}) \in Nat
        BY <2>4, Subsets
      <3>4. MinInterval * (Cardinality(S \ {c}) + 1) = MinInterval * Cardinality(S \ {c}) + MinInterval
        BY <1>2, <3>3, Products
      <3>5. Cardinality(S \ {c}) + 1 = Cardinality(S) /\ MinInterval * Cardinality(S \ {c}) \in Nat
        BY <1>2, <3>1, <3>2, <3>3, Products
      <3>. QED
        BY <1>2, <3>1, <3>3, <3>4, <3>5
    <2>5. credit' + ahead' >= MinInterval * Cardinality(Owing') + MinInterval
      <3>1. /\ MinInterval * Cardinality(Owing') + MinInterval <= MinInterval * Cardinality(Owing)
            /\ MinInterval * Cardinality(Owing') \in Nat /\ MinInterval * Cardinality(Owing) \in Nat
        BY <2>3, <2>4 DEF Owing
      <3>2. credit + ahead >= MinInterval * Cardinality(Owing) + MinInterval
        BY DEF IInv, Budget
      <3>. QED
        BY <1>1, <1>2, <1>6, <3>1, <3>2
    <2>6. ASSUME NEW T \in Nat
          PROVE  credit' + T >= MinInterval * Cardinality(Due(T)')
      <3>1. Due(T) \in SUBSET Calls
        BY DEF Due, Owing
      <3>2. /\ MinInterval * Cardinality(Due(T)') + MinInterval <= MinInterval * Cardinality(Due(T))
            /\ MinInterval * Cardinality(Due(T)') \in Nat /\ MinInterval * Cardinality(Due(T)) \in Nat
        BY <2>3, <2>4, <3>1
      <3>3. credit + T >= MinInterval * Cardinality(Due(T))
        BY DEF IInv, Budget
      <3>. QED
        BY <1>1, <1>2, <1>6, <3>2, <3>3
    <2>. QED
      BY <2>1, <2>2, <2>5, <2>6 DEF IInv, Budget
  <1>. QED
    BY <1>5, <1>6

LEMMA TickIsSound == ASSUME ProviderAssumption, IInv, Tick PROVE IInv'
  <1>1. /\ ahead' = Sooner(ahead) /\ provider' = provider
        /\ credit' = IF credit < Bucket THEN credit + 1 ELSE Bucket
        /\ call' = [c \in Calls |-> [call[c] EXCEPT !.left = Sooner(@)]]
    BY DEF Tick
  <1>2. call \in [Calls -> Call] /\ credit \in Int /\ credit <= Bucket /\ ahead \in Nat
    BY DEF IInv, TypeOK
  <1>3. \A n \in Nat : Sooner(n) \in Nat /\ Sooner(n) <= n /\ n <= Sooner(n) + 1
    BY DEF Sooner
  <1>4. ASSUME NEW c \in Calls
        PROVE  /\ call[c] \in Call /\ call'[c] \in Call /\ call'[c].left = Sooner(call[c].left)
               /\ call'[c].at = call[c].at /\ call'[c].ask = call[c].ask
               /\ call'[c].attempt = call[c].attempt
               /\ call'[c].listed = call[c].listed /\ call'[c].item = call[c].item
               /\ call'[c].got = call[c].got
    BY <1>1, <1>2, <1>3 DEF Call
  <1>5. Bucket \in Nat /\ Bucket' = Bucket
    BY Subsets DEF Bucket
  <1>6. TypeOK'
    <2>1. call' \in [Calls -> Call]
      BY <1>1, <1>4
    <2>2. ahead' \in Nat
      BY <1>1, <1>2, <1>3
    <2>3. credit' \in Int /\ credit' <= Bucket
      BY <1>1, <1>2, <1>5
    <2>. QED
      BY <1>1, <1>5, <2>1, <2>2, <2>3 DEF IInv, TypeOK
  <1>7. ASSUME NEW c \in Calls
        PROVE  CallSound(call[c])'
    <2>1. call[c].left \in Nat /\ (call[c].left = 0 => call'[c].left = 0)
      BY <1>4 DEF Call, Sooner
    <2>2. CallSound(call[c])
      BY DEF IInv
    <2>. QED
      BY <1>1, <1>4, <2>1, <2>2 DEF CallSound, CountSound
  <1>8. /\ Owing' = Owing
        /\ \A T \in Nat : Due(T)' \subseteq Due(T + 1)
    <2>1. Owing' = Owing
      BY <1>4 DEF Owing, Owes
    <2>2. ASSUME NEW T \in Nat, NEW c \in Calls, call'[c].left <= T
          PROVE  call[c].left <= T + 1
      BY <1>3, <1>4, <2>2 DEF Call
    <2>. QED
      BY <2>1, <2>2 DEF Due, Owing
  <1>9. Owing \in SUBSET Calls /\ \A T \in Nat : Due(T) \in SUBSET Calls
    BY DEF Owing, Due
  <1>10. credit' + ahead' >= MinInterval * Cardinality(Owing') + MinInterval
    <2>1. /\ MinInterval * Cardinality(Owing) + MinInterval <= Bucket
          /\ MinInterval * Cardinality(Owing) \in Nat /\ MinInterval \in Nat
      BY <1>9, Subsets DEF ProviderAssumption
    <2>2. credit + ahead >= MinInterval * Cardinality(Owing) + MinInterval
      BY DEF IInv, Budget
    <2>3. ahead' \in Nat /\ ahead <= ahead' + 1
      BY <1>1, <1>2, <1>3
    <2>. QED
      BY <1>1, <1>2, <1>5, <1>8, <2>1, <2>2, <2>3
  <1>11. ASSUME NEW T \in Nat
         PROVE  credit' + T >= MinInterval * Cardinality(Due(T)')
    <2>1. T + 1 \in Nat
      OBVIOUS
    <2>2. /\ MinInterval * Cardinality(Due(T)') <= MinInterval * Cardinality(Due(T + 1))
          /\ MinInterval * Cardinality(Due(T)') \in Nat
          /\ MinInterval * Cardinality(Due(T + 1)) \in Nat
          /\ MinInterval * Cardinality(Due(T + 1)) + MinInterval <= Bucket /\ MinInterval \in Nat
      BY <1>8, <1>9, <2>1, Subsets DEF ProviderAssumption
    <2>3. credit + (T + 1) >= MinInterval * Cardinality(Due(T + 1))
      BY <2>1 DEF IInv, Budget
    <2>. QED
      BY <1>1, <1>2, <1>5, <2>2, <2>3
  <1>. QED
    BY <1>6, <1>7, <1>10, <1>11 DEF IInv, Budget

(* The steps of one call that take no slot and send nothing *)
LEMMA GoroutineIsSound ==
    ASSUME ProviderAssumption, IInv, NEW c \in Calls, TimerFires(c) \/ Abort(c) \/ WakeUp(c) \/ Cancel(c)
    PROVE  IInv'
  <1>1. call[c] \in Call /\ CallSound(call[c]) /\ MaxRetries \in Nat
    BY DEF IInv, TypeOK, ProviderAssumption
  <1>2. CASE TimerFires(c)
    <2>. DEFINE r == [call[c] EXCEPT !.at = "do"]
    <2>. HIDE DEF r
    <2>1. call[c].at = "wait" /\ call[c].left = 0 /\ Becomes(c, r) /\ OnlyTheCall
      BY <1>2 DEF TimerFires, At, r
    <2>2. /\ r \in Call /\ r.at = "do" /\ r.left = call[c].left /\ r.ask = call[c].ask
          /\ r.listed = call[c].listed /\ r.item = call[c].item /\ r.got = call[c].got
      BY <1>1 DEF r, Call
    <2>3. CallSound(r) /\ (Owes(r) => Owes(call[c]))
      BY <1>1, <2>1, <2>2 DEF CallSound, CountSound, Ends, Owes
    <2>. QED
      BY <2>1, <2>2, <2>3, CallStep
  <1>3. CASE Abort(c)
    <2>1. /\ call[c].at \in {"wait", "do", "sent"}
          /\ Becomes(c, Without(call[c])) /\ OnlyTheCall
      BY <1>3 DEF Abort, At
    <2>. QED
      BY <1>1, <2>1, WithoutIsSound, CallStep
  <1>4. CASE WakeUp(c)
    <2>. DEFINE r == [call[c] EXCEPT !.at = "throttle", !.attempt = @ + 1]
    <2>. HIDE DEF r
    <2>1. call[c].at = "sleep" /\ Becomes(c, r) /\ OnlyTheCall
      BY <1>4 DEF WakeUp, At, r
    <2>2. call[c].attempt + 1 \in 0..MaxRetries
      BY <1>1, <2>1 DEF CallSound, Call
    <2>3. /\ r \in Call /\ r.at = "throttle" /\ r.ask = call[c].ask
          /\ r.listed = call[c].listed /\ r.item = call[c].item /\ r.got = call[c].got
      BY <1>1, <2>2 DEF r, Call
    <2>4. CallSound(r) /\ ~Owes(r)
      BY <1>1, <2>1, <2>3 DEF CallSound, CountSound, Ends, Owes
    <2>. QED
      BY <2>1, <2>3, <2>4, CallStep
  <1>5. CASE Cancel(c)
    <2>. DEFINE r == [call[c] EXCEPT !.cancelled = TRUE]
    <2>. HIDE DEF r
    <2>1. Becomes(c, r) /\ OnlyTheCall
      BY <1>5 DEF Cancel, r
    <2>2. /\ r \in Call /\ r.at = call[c].at /\ r.left = call[c].left /\ r.ask = call[c].ask
          /\ r.attempt = call[c].attempt
          /\ r.listed = call[c].listed /\ r.item = call[c].item /\ r.got = call[c].got
      BY <1>1 DEF r, Call
    <2>3. CallSound(r) /\ (Owes(r) => Owes(call[c]))
      BY <1>1, <2>2 DEF CallSound, CountSound, Owes
    <2>. QED
      BY <2>1, <2>2, <2>3, CallStep
  <1>. QED
    BY <1>2, <1>3, <1>4, <1>5

LEMMA RefusalIsSound ==
    ASSUME ProviderAssumption, IInv, NEW c \in Calls,
           Fails(c) \/ \E h \in RetryAfters \cup {NoHeader} : RateLimited(c, h)
    PROVE  IInv'
  <1>1. /\ call[c] \in Call /\ CallSound(call[c]) /\ call[c].at = "sent" /\ OnlyTheCall
        /\ MaxRetries \in Nat
    BY DEF IInv, TypeOK, ProviderAssumption, Fails, RateLimited, At
  <1>2. CASE Becomes(c, Without(call[c]))
    BY <1>1, <1>2, WithoutIsSound, CallStep
  <1>3. ASSUME NEW h \in RetryAfters \cup {NoHeader}, call[c].attempt < MaxRetries,
               Becomes(c, [call[c] EXCEPT !.at = "sleep", !.left = RetryAfterDelay(h, call[c].attempt)])
        PROVE  IInv'
    <2>. DEFINE d == RetryAfterDelay(h, call[c].attempt)
                r == [call[c] EXCEPT !.at = "sleep", !.left = d]
    <2>1. call[c].attempt \in 0..MaxRetries
      BY <1>1 DEF Call
    <2>2. Backoff(call[c].attempt) \in Nat
      <3>1. FirstBackoff \in Nat /\ MaxBackoff \in Nat /\ 2^call[c].attempt \in Nat
        BY <2>1 DEF ProviderAssumption
      <3>2. FirstBackoff * 2^call[c].attempt \in Nat
        BY <3>1
      <3>. QED
        BY <3>1, <3>2 DEF Backoff
    <2>3. d \in Nat
      BY <2>2 DEF RetryAfterDelay, ProviderAssumption
    <2>. HIDE DEF d
    <2>4. /\ r \in Call /\ r.at = "sleep" /\ r.ask = call[c].ask /\ r.attempt = call[c].attempt
          /\ r.listed = call[c].listed /\ r.item = call[c].item /\ r.got = call[c].got
      BY <1>1, <2>3 DEF Call
    <2>. HIDE DEF r
    <2>5. CallSound(r) /\ ~Owes(r)
      BY <1>1, <1>3, <2>4 DEF CallSound, CountSound, Ends, Owes
    <2>. QED
      BY <1>1, <1>3, <2>4, <2>5, CallStep DEF r, d
  <1>. QED
    BY <1>2, <1>3 DEF Fails, RateLimited

LEMMA AnswersAreSound ==
    ASSUME ProviderAssumption, IInv, NEW c \in Calls, NEW n \in Items,
           \/ Found(c) \/ Details(c, n) \/ Results(c, n) \/ OmdbResults(c, n)
           \/ ItemAnswers(c) \/ ItemIsSkipped(c) \/ RatingAnswers(c)
    PROVE  IInv'
  <1>1. /\ call[c] \in Call /\ CallSound(call[c]) /\ call[c].at = "sent" /\ OnlyTheCall
        /\ n \in Nat /\ n <= MaxItems /\ MaxItems \in Nat /\ Limit \in Nat /\ Items = 0..MaxItems
    BY DEF IInv, TypeOK, ProviderAssumption, Found, Details, Results, OmdbResults, ItemAnswers,
           ItemIsSkipped, RatingAnswers, At, Items
  <1>2. /\ CountSound(call[c]) /\ (provider = "omdb" <=> call[c].ask \in OmdbOnly)
        /\ call[c].item \in Items /\ call[c].listed \in Items /\ call[c].got \in Items
    BY <1>1 DEF CallSound, Ends, Call
  <1>3. CASE Found(c)
    <2>. DEFINE r == Ask(call[c], "details")
    <2>1. /\ r \in Call /\ ~Owes(r) /\ r.at = "throttle" /\ r.ask = "details" /\ r.left = 0
          /\ r.listed = call[c].listed /\ r.item = call[c].item /\ r.got = call[c].got
      BY <1>1, AskFacts DEF OfTmdb
    <2>. HIDE DEF r
    <2>2. call[c].ask = "find" /\ Becomes(c, r)
      BY <1>3 DEF Found, r
    <2>3. CallSound(r)
      BY <1>2, <2>1, <2>2 DEF CallSound, CountSound, Ends, OmdbOnly
    <2>. QED
      BY <1>1, <2>1, <2>2, <2>3, CallStep
  <1>4. CASE Details(c, n) \/ Results(c, n)
    <2>. DEFINE r == [call[c] EXCEPT !.listed = n]
    <2>1. PICK ask \in {"season", "omdbSeason", "lookup"} :
             /\ Becomes(c, Proceed(r, ask)) /\ call[c].ask \in {"details", "title", "search"}
             /\ ask = "season" <=> call[c].ask = "details"
             /\ ask = "omdbSeason" <=> call[c].ask = "title"
      BY <1>4 DEF Details, Results
    <2>2. /\ r \in Call /\ r.listed = n /\ r.ask = call[c].ask
          /\ r.item = call[c].item /\ r.got = call[c].got
      BY <1>1 DEF Call
    <2>. HIDE DEF r
    <2>3. r.item = 0 /\ r.got = 0
      BY <1>2, <2>1, <2>2 DEF CountSound
    <2>4. Proceed(r, ask) \in Call /\ CallSound(Proceed(r, ask)) /\ ~Owes(Proceed(r, ask))
      BY <1>1, <1>2, <2>1, <2>2, <2>3, ProceedIsSound DEF OmdbOnly
    <2>. QED
      BY <1>1, <2>1, <2>4, CallStep
  <1>5. CASE ItemAnswers(c) \/ ItemIsSkipped(c)
    <2>. DEFINE r == [call[c] EXCEPT !.got = @ + 1]
                ask == call[c].ask
    <2>1. ask \in {"season", "omdbSeason", "lookup"}
      BY <1>5 DEF ItemAnswers, ItemIsSkipped
    <2>2. /\ call[c].item <= call[c].listed /\ call[c].got < call[c].item
          /\ ask = "season" => call[c].got + 1 = call[c].item
          /\ ask = "lookup" => call[c].got < Limit
      BY <1>2, <2>1 DEF CountSound
    <2>3. call[c].got + 1 \in Items
      BY <1>1, <1>2, <2>2
    <2>4. /\ r \in Call /\ r.listed = call[c].listed /\ r.ask = ask
          /\ r.item = call[c].item /\ r.got = call[c].got + 1
      BY <1>1, <2>3 DEF Call
    <2>. HIDE DEF r
    <2>5. CASE ItemAnswers(c)
      <3>1. Becomes(c, Proceed(r, ask))
        BY <2>5 DEF ItemAnswers, r
      <3>2. Proceed(r, ask) \in Call /\ CallSound(Proceed(r, ask)) /\ ~Owes(Proceed(r, ask))
        BY <1>1, <1>2, <2>1, <2>2, <2>4, ProceedIsSound DEF OmdbOnly
      <3>. QED
        BY <1>1, <3>1, <3>2, CallStep
    <2>6. CASE ItemIsSkipped(c)
      <3>1. Becomes(c, Proceed(call[c], ask)) /\ ask # "season"
        BY <2>6 DEF ItemIsSkipped
      <3>2. call[c].got <= call[c].item /\ (ask = "lookup" => call[c].got <= Limit)
        BY <1>1, <1>2, <2>2
      <3>3. /\ Proceed(call[c], ask) \in Call /\ CallSound(Proceed(call[c], ask))
            /\ ~Owes(Proceed(call[c], ask))
        BY <1>1, <1>2, <2>1, <2>2, <3>1, <3>2, ProceedIsSound DEF OmdbOnly
      <3>. QED
        BY <1>1, <3>1, <3>3, CallStep
    <2>. QED
      BY <1>5, <2>5, <2>6
  <1>6. CASE RatingAnswers(c)
    <2>1. call[c].ask = "rating" /\ Becomes(c, Answer(call[c]))
      BY <1>6 DEF RatingAnswers
    <2>2. CallSound(Answer(call[c]))
      BY <1>1, <1>2, <2>1, EndFacts DEF CallSound, CountSound, Ends
    <2>. QED
      BY <1>1, <2>1, <2>2, EndFacts, CallStep
  <1>7. CASE OmdbResults(c, n)
    <2>. DEFINE g == IF n < Limit THEN n ELSE Limit
                a == Answer(call[c])
                r == [a EXCEPT !.listed = n, !.item = n, !.got = g]
    <2>1. g \in Items /\ g <= Limit /\ (g = Limit \/ g = n)
      BY <1>1
    <2>. HIDE DEF g
    <2>2. call[c].ask = "omdbSearch" /\ Becomes(c, r)
      BY <1>7 DEF OmdbResults, g
    <2>0. a \in Call /\ a.at = "answered" /\ a.ask = call[c].ask
      BY <1>1, EndFacts
    <2>. HIDE DEF a
    <2>3. /\ r \in Call /\ r.at = "answered" /\ r.ask = call[c].ask
          /\ r.listed = n /\ r.item = n /\ r.got = g
      BY <2>0, <2>1 DEF Call
    <2>. HIDE DEF r
    <2>4. CallSound(r) /\ ~Owes(r)
      BY <1>2, <2>1, <2>2, <2>3 DEF CallSound, Ends, Owes
    <2>. QED
      BY <1>1, <2>2, <2>3, <2>4, CallStep
  <1>. QED
    BY <1>3, <1>4, <1>5, <1>6, <1>7

LEMMA StepIsSound == ASSUME ProviderAssumption, IInv, [Next]_vars PROVE IInv'
  <1>1. CASE UNCHANGED vars
    BY <1>1 DEF vars, IInv, TypeOK, Bucket, Budget, Due, Owing, CallSound, CountSound
  <1>2. CASE Tick
    BY <1>2, TickIsSound
  <1>3. ASSUME NEW c \in Calls,
               GetTitle(c) \/ SearchTitles(c) \/ Cancel(c) \/ Goroutine(c) \/ Service(c)
        PROVE  IInv'
    <2>1. CASE GetTitle(c) \/ SearchTitles(c)
      BY <2>1, BeginsSound
    <2>2. CASE Cancel(c) \/ Goroutine(c)
      BY <2>2, GoroutineIsSound, ReserveIsSound, SendIsSound DEF Goroutine
    <2>3. CASE Service(c)
      <3>1. 0 \in Items
        BY DEF Items, ProviderAssumption
      <3>. QED
        BY <2>3, <3>1, RefusalIsSound, AnswersAreSound DEF Service
    <2>. QED
      BY <1>3, <2>1, <2>2, <2>3
  <1>. QED
    BY <1>1, <1>2, <1>3 DEF Next

-----------------------------------------------------------------------------
(* The theorems *)

THEOREM Invariance == Spec => []IInv
  <1>1. Init => IInv
    BY ProviderAssumption, InitIsSound
  <1>2. IInv /\ [Next]_vars => IInv'
    BY ProviderAssumption, StepIsSound
  <1>. QED
    BY <1>1, <1>2, PTL DEF Spec

(* No counter of a call, of the throttle or of the bucket leaves its range. *)
THEOREM ProviderTypesCorrect == Spec => []TypeOK
  <1>1. IInv => TypeOK
    BY DEF IInv
  <1>. QED
    BY <1>1, Invariance, PTL

(* Any number of goroutines, however late, keep to the throttle's budget.  *)
THEOREM BudgetIsKept == Spec => []WithinBudget
  <1>1. IInv => WithinBudget
    <2>. SUFFICES ASSUME IInv PROVE WithinBudget
      OBVIOUS
    <2>1. 0 \in Nat /\ Due(0) \in SUBSET Calls
      BY DEF Due, Owing
    <2>2. credit + 0 >= MinInterval * Cardinality(Due(0)) /\ credit \in Int
      BY <2>1 DEF IInv, Budget, TypeOK
    <2>3. MinInterval * Cardinality(Due(0)) \in Nat
      BY <2>1, ProviderAssumption, Subsets
    <2>. QED
      BY <2>2, <2>3 DEF WithinBudget
  <1>. QED
    BY <1>1, Invariance, PTL

(* A title is answered with every season TMDB lists, or not at all, and    *)
(* never fails for the rating.                                             *)
THEOREM TitlesAreWhole == Spec => []AnswerIsWhole
  <1>1. IInv => AnswerIsWhole
    BY DEF IInv, AnswerIsWhole, CallSound, IsSearch, At, Ends
  <1>. QED
    BY <1>1, Invariance, PTL

(* A search answers fewer than its limit only when it tried every result.  *)
THEOREM SearchesAreFull == Spec => []SearchIsFull
  <1>1. IInv => SearchIsFull
    BY DEF IInv, SearchIsFull, CallSound, IsSearch, At, Ends
  <1>. QED
    BY <1>1, Invariance, PTL
=============================================================================
