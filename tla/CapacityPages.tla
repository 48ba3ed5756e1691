---------------------------- MODULE CapacityPages ----------------------------
(***************************************************************************)
(* Paging through the latest capture (getCapacityRowsPaginated), and       *)
(* through the capacity scores (getCapacityScoreSummaryPaginated).         *)
(*                                                                         *)
(* Each page is a request and a query of its own: it reads the capture     *)
(* that is the latest then, in the order of region, family and SKU, which  *)
(* the subscriptions of a capture share.  Rows of the same key come in     *)
(* whatever order the query finds them.                                    *)
(***************************************************************************)
EXTENDS Integers, Sequences, FiniteSets, SequencesExt

CONSTANTS
    Keys,           \* positions of <<region, family, SKU>> in the order
    Subscriptions,
    PageSizes,      \* page sizes that are asked for
    MinSize,        \* a smaller page size becomes this one
    MaxSize,        \* a larger one this one
    MaxCaptures     \* bound: captures

\* The smallest page has a row, and the largest is not smaller.
ASSUME PageSizesOK ==
    /\ Keys \subseteq Nat /\ IsFiniteSet(Keys) /\ IsFiniteSet(Subscriptions)
    /\ PageSizes \subseteq Int
    /\ MinSize \in Nat \ {0} /\ MaxSize \in Nat /\ MinSize <= MaxSize
    /\ MaxCaptures \in Nat

Rows == [key : Keys, subscription : Subscriptions]
Captures == {rows \in SUBSET Rows : rows # {}}

VARIABLES
    capture,        \* the rows of the latest capture that pass the filters
    version,        \* how many captures there were
    size,           \* the page size of this reader
    pages           \* the pages the reader has read, in order

pagesVars == <<capture, version, size, pages>>

PagesInit ==
    /\ capture \in Captures
    /\ version = 0
    /\ size \in PageSizes
    /\ pages = <<>>

(* parsePaginationParams.                                                  *)
PageSize(asked) == IF asked < MinSize THEN MinSize
                   ELSE IF asked > MaxSize THEN MaxSize ELSE asked

(* ORDER BY region, skuFamily, skuName.                                    *)
Orders(rows) ==
    {s \in SetToSeqs(rows) : \A i, j \in 1..Len(s) : i < j => s[i].key <= s[j].key}

(* The page starts one row late.                                           *)
SkipsARow(s, from, to) == SubSeq(s, from + 2, IF to < Len(s) THEN to ELSE Len(s))

Slice(s, from, to) == SubSeq(s, from + 1, IF to < Len(s) THEN to ELSE Len(s))

(* PaginationDTO: the quotient is rounded up, and zero for no rows.        *)
PageCount(total, n) == (total + n - 1) \div n

(* The page asked for is not limited to the pages there are.               *)
Page(s, number, n) ==
    [rows     |-> Slice(s, (number - 1) * n, number * n),
     total    |-> Len(s),
     number   |-> number,
     version  |-> version,
     hasNext  |-> number < PageCount(Len(s), n)]

More == IF pages = <<>> THEN TRUE ELSE Last(pages).hasNext

(* The reader asks for the page after the last one it was given, as long   *)
(* as the answers say that there is one.                                   *)
ReadPage ==
    /\ More
    /\ \E s \in Orders(capture) :
          pages' = Append(pages, Page(s, Len(pages) + 1, PageSize(size)))
    /\ UNCHANGED <<capture, version, size>>

StartOver ==
    /\ pages # <<>>
    /\ pages' = <<>>
    /\ UNCHANGED <<capture, version, size>>

(* A capture is stored as a whole, with fewer or more rows.                *)
NewCapture ==
    /\ version < MaxCaptures
    /\ version' = version + 1
    /\ \E rows \in Captures : capture' = rows
    /\ UNCHANGED <<size, pages>>

PagesNext == ReadPage \/ StartOver \/ NewCapture

PagesSpec == PagesInit /\ [][PagesNext]_pagesVars

(* The scores are sliced from the summary of one read, and the page asked  *)
(* for is limited to the pages there are.                                  *)
ScorePage(s, number, n) ==
    LET count == IF PageCount(Len(s), n) > 1 THEN PageCount(Len(s), n) ELSE 1
        page  == IF number > count THEN count ELSE number
    IN  [rows |-> Slice(s, (page - 1) * n, page * n), number |-> page, count |-> count]

----------------------------------------------------------------------------
Finished == pages # <<>> /\ ~More
SameCapture == \A i \in DOMAIN pages : pages[i].version = pages[1].version
Given == UNION {{i} \X DOMAIN pages[i].rows : i \in DOMAIN pages}
Times(r) == Cardinality({p \in Given : pages[p[1]].rows[p[2]] = r})
Alone(r, rows) == \A q \in rows : q.key = r.key => q = r
RowsRead == UNION {ToSet(pages[i].rows) : i \in DOMAIN pages}

(* A reader who follows the pages to the end, and whom no capture has      *)
(* overtaken, has been given as many rows as the total says, and each row  *)
(* whose key no other row shares exactly once: pages neither overlap nor   *)
(* leave a gap.  Rows of one key in several subscriptions may come twice   *)
(* or never, since each page is sorted anew.  A page of scores always has  *)
(* rows, however far the page asked for is, as long as there are any.      *)
PagesMeet ==
    Finished /\ SameCapture /\ pages[1].version = version =>
        /\ SumFunction([i \in DOMAIN pages |-> Len(pages[i].rows)]) = Cardinality(capture)
        /\ \A r \in capture : Alone(r, capture) => Times(r) = 1
        /\ RowsRead \subseteq capture
        /\ \A s \in Orders(capture), number \in 1..Cardinality(Rows) + 1 :
              ScorePage(s, number, PageSize(size)).rows # <<>>
=============================================================================
