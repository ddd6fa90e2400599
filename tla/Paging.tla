-------------------------------- MODULE Paging --------------------------------
(***************************************************************************)
(* The arithmetic of the paged listings of titles: the policy that         *)
(* normalizes the size and the page a client asks for, the offset, which   *)
(* is guarded against overflow, and the number of pages that is answered.  *)
(*                                                                         *)
(* The ORDER BY ends in the id, so the rows a listing selects are numbered *)
(* 1..n.  Go's integers go up to MaxInt and wrap around.                   *)
(***************************************************************************)
EXTENDS Integers

CONSTANTS MaxInt,           \* math.MaxInt64
          DefaultPageSize,
          MaxPageSize,      \* has no bound but MaxInt
          MaxRows           \* bound: rows of a listing

(* With sizes so large that rows and size together overflow, the number of *)
(* pages of the listing of all titles would.                               *)
ASSUME PagingAssumption ==
    /\ MaxInt \in Nat
    /\ DefaultPageSize \in 1..MaxInt /\ MaxPageSize \in 1..MaxInt
    /\ MaxRows \in Nat /\ MaxRows + MaxPageSize - 1 <= MaxInt

GoInt == (-MaxInt - 1)..MaxInt

Wrapped(n) == ((n + MaxInt + 1) % (2 * (MaxInt + 1))) - (MaxInt + 1)

(* NormalizePageParams *)
PageSize(size) ==
    LET s == IF size <= 0 THEN DefaultPageSize ELSE size
    IN  IF s > MaxPageSize THEN MaxPageSize ELSE s

PageNumber(page) == IF page <= 0 THEN 1 ELSE page

(* Wrong on purpose: the product is computed first and looked at after. *)
SelectsByProduct(size, page) == size > 0 /\ Wrapped((page - 1) * size) >= 0

(* pageOffset: whether a page can have a row, and which rows precede it *)
Selects(size, page)    == size > 0 /\ page - 1 <= MaxInt \div size
PageOffset(size, page) == Wrapped((page - 1) * size)

(* LIMIT and OFFSET, for the page a client asks for *)
PageRows(n, size, page) ==
    LET s == PageSize(size)
        p == PageNumber(page)
    IN  {k \in 1..n : /\ Selects(s, p)
                      /\ k > PageOffset(s, p) /\ k <= PageOffset(s, p) + s}

TotalPages(n, size) == Wrapped(n + PageSize(size) - 1) \div PageSize(size)

-----------------------------------------------------------------------------
(* The lengths of the listings a client can page through: whatever size it *)
(* asks for, the pages from the first to the last show every row, no row   *)
(* is on two pages, and a page beyond the last is empty, even where its    *)
(* offset would overflow.                                                  *)
PagedOnce ==
    {n \in 0..MaxRows : \A size \in GoInt :
       /\ \A k \in 1..n : \E p \in 1..TotalPages(n, size) : k \in PageRows(n, size, p)
       /\ \A p, q \in 1..MaxInt : p # q => PageRows(n, size, p) \cap PageRows(n, size, q) = {}
       /\ \A p \in 1..MaxInt : PageRows(n, size, p) = {} <=> p > TotalPages(n, size)}
=============================================================================
