-------------------------- MODULE SelectionHistory --------------------------
(***************************************************************************)
(* The log of selection decisions (storage/selection_history.py) and its   *)
(* pages (QueryEngine._selection_decisions).  Writers are transactions     *)
(* that take the next sequence from a counter row locked FOR UPDATE and    *)
(* commit or roll back; a reader follows the cursor from page to page,     *)
(* each page in a session of its own, while they run.                      *)
(***************************************************************************)
EXTENDS Naturals, FiniteSets, Sequences

CONSTANTS
  Deciders,      \* transactions that record a decision
  Limit,         \* decisions on a page
  MaxSequence    \* bound on the sequences allocated

VARIABLES
  counter,    \* selection_decision_counters.next_sequence, as committed
  log,        \* committed decisions: sequence, writer, whether the reader may see it
  staged,     \* per transaction: the decision it has flushed and not committed
  pages,      \* the reader: cursor and what it has listed
  first       \* the visible decisions when the first page was read

vars == <<counter, log, staged, pages, first>>

NoDecision == [seq |-> 0, by |-> "none", visible |-> FALSE]

Init ==
  /\ counter = 1
  /\ log = {}
  /\ staged = [d \in Deciders |-> NoDecision]
  /\ pages = [pc |-> "idle", cursor |-> 0, listed |-> <<>>]
  /\ first = {}

\* Faulty variant of CounterFree: the counter is read without FOR UPDATE.
CounterFreeAlways == TRUE

\* FOR UPDATE waits for the transaction that holds the counter; if that one commits, the
\* waiting one fails with a serialization error and is tried again from the start.
CounterFree == \A d \in Deciders : staged[d] = NoDecision

\* append_selection_decision
AppendDecision(d, visible) ==
  /\ CounterFree /\ staged[d] = NoDecision
  /\ counter <= MaxSequence
  /\ staged' = [staged EXCEPT ![d] = [seq |-> counter, by |-> d, visible |-> visible]]
  /\ UNCHANGED <<counter, log, pages, first>>

CommitDecision(d) ==
  /\ staged[d] # NoDecision
  /\ log' = log \cup {staged[d]}
  /\ counter' = staged[d].seq + 1
  /\ staged' = [staged EXCEPT ![d] = NoDecision]
  /\ UNCHANGED <<pages, first>>

RollBack(d) ==
  /\ staged[d] # NoDecision
  /\ staged' = [staged EXCEPT ![d] = NoDecision]
  /\ UNCHANGED <<counter, log, pages, first>>

\* list_decisions: the visible ones before the cursor (0 is none), last first.
ListDecisions(cursor, limit) ==
  LET rows == {e \in log : e.visible /\ (cursor # 0 => e.seq < cursor)}
      Rank(e) == Cardinality({f \in rows : f.seq >= e.seq})
      taken == {e \in rows : Rank(e) <= limit}
  IN [i \in 1..Cardinality(taken) |-> CHOOSE e \in taken : Rank(e) = i]

\* Faulty variant of NextCursor: the decision that did not fit is skipped.
NextCursorPast(records) == records[Len(records)].seq

\* The cursor of the next page, from the last decision on this one; 0 when there is none.
NextCursor(records) == IF Len(records) > Limit THEN records[Limit].seq ELSE 0

\* _selection_decisions: one more than the page holds is asked for.
Page ==
  LET records == ListDecisions(pages.cursor, Limit + 1)
      more == Len(records) > Limit
  IN
  /\ pages.pc # "done"
  /\ pages' = [pc |-> IF more THEN "more" ELSE "done",
               cursor |-> IF more THEN NextCursor(records) ELSE 0,
               listed |-> pages.listed
                            \o SubSeq(records, 1, IF more THEN Limit ELSE Len(records))]
  /\ first' = IF pages.pc = "idle" THEN {e \in log : e.visible} ELSE first
  /\ UNCHANGED <<counter, log, staged>>

Next ==
  \/ \E d \in Deciders : \/ \E visible \in BOOLEAN : AppendDecision(d, visible)
                         \/ CommitDecision(d) \/ RollBack(d)
  \/ Page

Spec == Init /\ [][Next]_vars

----------------------------------------------------------------------------

TypeOK ==
  /\ counter \in 1..MaxSequence + 1
  /\ pages.pc \in {"idle", "more", "done"} /\ pages.cursor \in 0..MaxSequence
  /\ \A e \in log : e.seq \in 1..MaxSequence /\ e.by \in Deciders

\* A reader that follows the cursor to the end has every decision it might see when it
\* began, each once and newest first, and none that was committed later, whatever is
\* recorded or rolled back between its pages (list_decisions pages by a sequence that is
\* committed in order).
PagesComplete ==
  pages.pc = "done" =>
    /\ {pages.listed[i] : i \in DOMAIN pages.listed} = first
    /\ \A i, j \in DOMAIN pages.listed : i < j => pages.listed[i].seq > pages.listed[j].seq

\* Sequences are given without gaps or repetition: a transaction that rolls back gives
\* its sequence up (append_selection_decision).
SequencesDense ==
  /\ {e.seq : e \in log} = 1..counter - 1
  /\ Cardinality(log) = counter - 1
=============================================================================
