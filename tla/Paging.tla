------------------------------- MODULE Paging -------------------------------
(***************************************************************************)
(* Histories that are read piece by piece: operations by cursor            *)
(* (OperationsPaginator of vox-tinvest operations.rs, and the reconciler's *)
(* own loop), broker reports by page number (reports.rs), and candles by   *)
(* window of time (market_data.rs).                                        *)
(*                                                                         *)
(* The provider has one item on each page, and the first page has no       *)
(* cursor.  It may answer with a cursor that leads back, without the cursor*)
(* it promised, with a cursor after the last page, with an item of another *)
(* account, or not at all, and differently each time.                      *)
(***************************************************************************)
EXTENDS Integers, Sequences, FiniteSets, SequencesExt

CONSTANTS
  MaxPages,   \* the paginator's bound, and MAX_OPERATION_PAGES
  Histories,  \* how many pages the provider may have
  MaxTime,    \* the largest timestamp
  Spans       \* widths of a window the provider may allow

VARIABLES
  reader,    \* who reads: [kind, pages, ...]
  cursor,    \* what is asked for next
  followed,  \* cursors received
  items,     \* what was read
  reads,     \* pages, or windows, read
  result     \* "asking" for a report, "reading", "ok" or "error"

pagingVars == <<reader, cursor, followed, items, reads, result>>

\* No cursor is sent with the first request.
First == 0

PageOf(c) == IF c = First THEN 1 ELSE c

\* The paginator may be given a cursor to start from.
Starts(last) == {First} \union 2..last

Readers ==
  UNION {[kind : {"paginator"}, pages : {last}, start : Starts(last)] : last \in Histories}
  \union [kind : {"reconciler"}, pages : Histories, start : {First}]
  \union [kind : {"report"}, pages : Histories, counts : {"last", "number"}, foreign : BOOLEAN, oneYear : BOOLEAN]
  \union UNION {[kind : {"candles"}, from : {from}, to : from..MaxTime, span : Spans, times : SUBSET (0..MaxTime)] :
                  from \in 0..MaxTime}

PagingInit ==
  /\ reader \in Readers
  /\ cursor = CASE reader.kind = "candles" -> reader.from
                [] reader.kind = "report" -> 0
                [] OTHER -> reader.start
  /\ followed = IF reader.kind = "paginator" THEN {reader.start} \ {First} ELSE {}
  /\ items = <<>> /\ reads = 0
  /\ result = IF reader.kind = "candles" /\ reader.from >= reader.to THEN "error"
              ELSE IF reader.kind = "report" THEN "asking" ELSE "reading"

Fails == result' = "error" /\ UNCHANGED <<reader, cursor, followed, items, reads>>

-----------------------------------------------------------------------------
(* Operations by cursor.                                                   *)

\* {} stands for an empty cursor.
PageAnswers(page, last) ==
  {[next |-> page < last, cursor |-> IF page < last THEN {page + 1} ELSE {}, own |-> own] : own \in BOOLEAN}
  \union {[next |-> TRUE, cursor |-> {c}, own |-> TRUE] : c \in {c \in 2..page : page < last}}
  \union {[next |-> TRUE, cursor |-> {}, own |-> TRUE] : p \in {p \in {page} : p < last}}
  \union {[next |-> FALSE, cursor |-> {c}, own |-> TRUE] : c \in {c \in {last} : page = last}}

\* Mutant: the cursors that were received are not remembered.
FollowAnywhere(next, c) ==
  /\ result' = IF ~next THEN "ok" ELSE IF c = {} THEN "error" ELSE result
  /\ cursor' = IF next /\ c # {} THEN CHOOSE n \in c : TRUE ELSE cursor
  /\ UNCHANGED followed

\* A cursor that was received before ends the reading.
Follow(next, c) ==
  IF ~next THEN result' = "ok" /\ UNCHANGED <<cursor, followed>>
  ELSE IF c = {} \/ c \subseteq followed THEN result' = "error" /\ UNCHANGED <<cursor, followed>>
  ELSE /\ cursor' \in c
       /\ followed' = followed \union c
       /\ UNCHANGED result

\* collect_from: an item of another account, or a cursor after the last
\* page, is an error.
PaginatorPage ==
  /\ reader.kind = "paginator" /\ result = "reading"
  /\ IF reads >= MaxPages THEN Fails
     ELSE \E a \in PageAnswers(PageOf(cursor), reader.pages) :
            /\ reads' = reads + 1
            /\ items' = IF a.own THEN Append(items, PageOf(cursor)) ELSE items
            /\ IF ~a.own \/ (~a.next /\ a.cursor # {})
               THEN result' = "error" /\ UNCHANGED <<cursor, followed>>
               ELSE Follow(a.next, a.cursor)
            /\ UNCHANGED reader

\* operations_page drops the cursor of a last page.
OperationsPage(a) == [next |-> a.next, cursor |-> IF a.next THEN a.cursor ELSE {}]

\* Reconciler::operations does not look at the items.
ReconcilerPage ==
  /\ reader.kind = "reconciler" /\ result = "reading"
  /\ IF reads >= MaxPages THEN Fails
     ELSE \E a \in PageAnswers(PageOf(cursor), reader.pages) :
            /\ reads' = reads + 1
            /\ items' = Append(items, PageOf(cursor))
            /\ LET page == OperationsPage(a) IN Follow(page.next, page.cursor)
            /\ UNCHANGED reader

\* The provider does not answer.
PageFails == reader.kind # "candles" /\ result \in {"asking", "reading"} /\ Fails

-----------------------------------------------------------------------------
(* Reports by page number, from zero.                                      *)

\* pages_count is the last page's number, or the number of pages.
PagesCount == IF reader.counts = "last" THEN reader.pages - 1 ELSE reader.pages

ValidPage(page, count) == count > 0 => page < count

\* A report of foreign issuers covers one year.  The answer is the task that
\* generates the report.
GenerateReport ==
  /\ reader.kind = "report" /\ result = "asking"
  /\ IF reader.foreign /\ ~reader.oneYear THEN Fails
     ELSE result' = "reading" /\ UNCHANGED <<reader, cursor, followed, items, reads>>

\* The traversal ends at the page whose number is pages_count; a page that
\* does not exist is not answered.
ReportPage ==
  /\ reader.kind = "report" /\ result = "reading"
  /\ IF cursor >= reader.pages \/ ~ValidPage(cursor, PagesCount) THEN Fails
     ELSE /\ reads' = reads + 1
          /\ items' = Append(items, cursor + 1)
          /\ IF cursor = PagesCount
             THEN result' = "ok" /\ UNCHANGED cursor
             ELSE cursor' = cursor + 1 /\ UNCHANGED result
          /\ UNCHANGED <<reader, followed>>

-----------------------------------------------------------------------------
(* Candles by window.                                                      *)

\* plan_candle_history: saturating, and cut off at the end.
WindowEnd(c) ==
  LET end == IF c + reader.span > MaxTime THEN MaxTime ELSE c + reader.span
  IN IF end < reader.to THEN end ELSE reader.to

\* Both ends of a window belong to it.
WindowRead ==
  /\ reader.kind = "candles" /\ result = "reading"
  /\ cursor < reader.to
  /\ reads' = reads + 1
  /\ items' = items \o SetToSortSeq({t \in reader.times : cursor <= t /\ t <= WindowEnd(cursor)}, <)
  /\ cursor' = WindowEnd(cursor)
  /\ UNCHANGED <<reader, followed, result>>

\* merge_historic_candles: sorted by time, equal candles collapse.  A candle
\* that changed between two windows, at their common end, is a conflict.
Merge ==
  /\ reader.kind = "candles" /\ result = "reading"
  /\ cursor = reader.to
  /\ \/ items' = SetToSortSeq(ToSet(items), <) /\ result' = "ok"
     \/ /\ Len(items) > Cardinality(ToSet(items))
        /\ result' = "error" /\ UNCHANGED items
  /\ UNCHANGED <<reader, cursor, followed, reads>>

-----------------------------------------------------------------------------
PagingNext == PaginatorPage \/ ReconcilerPage \/ PageFails \/ GenerateReport \/ ReportPage \/ WindowRead \/ Merge

PagingSpec == PagingInit /\ [][PagingNext]_pagingVars

-----------------------------------------------------------------------------
(* Properties.                                                             *)

Whole ==
  IF reader.kind = "candles"
  THEN SetToSortSeq({t \in reader.times : reader.from <= t /\ t <= reader.to}, <)
  ELSE LET before == IF reader.kind = "report" THEN 0 ELSE PageOf(reader.start) - 1
       IN [i \in 1..(reader.pages - before) |-> i + before]

\* Whatever the provider answers, a history that was read without an error
\* is the whole history, in order and without repetitions, and no more than
\* the bound is read for it (collect_from, Reconciler::operations, observe,
\* plan_candle_history, merge_historic_candles).
HistoryIsWhole ==
  /\ result = "ok" => items = Whole
  /\ reader.kind \in {"paginator", "reconciler"} => reads <= MaxPages
=============================================================================
