---------------------------- MODULE ContextPack ----------------------------
(***************************************************************************)
(* The budgeted assembly of retrieved memories into one context pack       *)
(* (retrieval/context_pack.py, retrieval/budgeting.py): hits and conflict  *)
(* groups are dealt to lanes, the lanes are read in turn, and an item      *)
(* enters the pack when the serialized response with it still fits.        *)
(*                                                                         *)
(* A hit is a record with an id, a section and a score; a group is a       *)
(* record with its conflict and the set of its member hits.  A response is *)
(* measured in units: an envelope, one unit per code it reports, and the   *)
(* size of each memory.                                                    *)
(***************************************************************************)
EXTENDS Integers, SequencesExt

CONSTANTS
    Sections,        \* _SECTION_ORDER: the sections, in the order of the pack
    SectionCap,      \* the most hits the response model lets a section hold
    Envelope,        \* size of a response with no memory and no code
    Size,            \* per memory: its size in the response, provenance included
    Ceiling          \* HARD_RESPONSE_BYTE_CEILING

\* Scores descend; identifiers break ties.
Before(h, g) == h.score > g.score \/ (h.score = g.score /\ h.id < g.id)

GroupScore(g) == Max({h.score : h \in g.members})

GroupBefore(g, f) ==
    \/ GroupScore(g) > GroupScore(f)
    \/ GroupScore(g) = GroupScore(f) /\ g.conflict < f.conflict

HitItem(h) == [lane |-> h.section, members |-> {h}]

GroupItem(g) == [lane |-> "conflicts", members |-> g.members]

MembersOf(items) == UNION {items[i].members : i \in DOMAIN items}

Lane(name, hits, groups) ==
    IF name = "conflicts"
    THEN LET sorted == SetToSortSeq(groups, GroupBefore)
         IN  [i \in DOMAIN sorted |-> GroupItem(sorted[i])]
    ELSE LET grouped == UNION {{h.id : h \in g.members} : g \in groups}
             sorted == SetToSortSeq({h \in hits : h.section = name
                                                  /\ h.id \notin grouped}, Before)
         IN  [i \in DOMAIN sorted |-> HitItem(sorted[i])]

LaneOrder == <<Head(Sections), "conflicts">> \o Tail(Sections)

RoundRobinItems(hits, groups) ==
    LET lanes == [i \in DOMAIN LaneOrder |-> Lane(LaneOrder[i], hits, groups)]
        depth == Max({Len(lanes[i]) : i \in DOMAIN lanes})
        Round(k) == FlattenSeq([i \in DOMAIN lanes |->
                        IF k <= Len(lanes[i]) THEN <<lanes[i][k]>> ELSE <<>>])
    IN  FlattenSeq([k \in 1..depth |-> Round(k)])

\* The response model refuses a section that is too long and a memory that
\* appears twice.
ValidPack(items) ==
    /\ \A i \in DOMAIN Sections :
          Cardinality({k \in DOMAIN items : items[k].lane = Sections[i]})
              <= SectionCap
    /\ \A i, j \in DOMAIN items : i # j =>
          {h.id : h \in items[i].members} \cap {h.id : h \in items[j].members} = {}

Measure(items, codes) ==
    Envelope + codes + MapThenSumSet(LAMBDA h : Size[h.id], MembersOf(items))

Fits(items, codes, units) ==
    Measure(items, codes) <= Min({units, Ceiling})

\* Codes a response reports: a truncated one names an omission reason and
\* a warning, a narrowed request one more omission reason.
TruncationCodes == 2
Codes(omitted, narrowed) ==
    (IF omitted THEN TruncationCodes ELSE 0) + (IF narrowed THEN 1 ELSE 0)

\* Faulty variant of Consider: it measures what it has instead of the proposal.
ConsiderLate(acc, item, units) ==
    IF Fits(acc.items, TruncationCodes, units)
    THEN [acc EXCEPT !.items = Append(acc.items, item)]
    ELSE [acc EXCEPT !.omitted = TRUE]

\* One candidate of the loop, measured as part of a truncated response.
Consider(acc, item, units) ==
    LET proposed == Append(acc.items, item)
    IN  CASE acc.invalid -> acc
          [] ~acc.invalid /\ ~ValidPack(proposed) -> [acc EXCEPT !.invalid = TRUE]
          [] OTHER -> IF Fits(proposed, TruncationCodes, units)
                      THEN [acc EXCEPT !.items = proposed]
                      ELSE [acc EXCEPT !.omitted = TRUE]

\* assemble_context_pack: the greedy loop, then the final measurement with
\* the codes the response really reports.
Assemble(hits, groups, units, narrowed) ==
    LET start == [items |-> <<>>, omitted |-> FALSE, invalid |-> FALSE]
        loop == FoldLeft(LAMBDA acc, item : Consider(acc, item, units), start,
                         RoundRobinItems(hits, groups))
        outcome ==
            CASE loop.invalid -> "internal_error"
              [] ~loop.invalid /\ Fits(loop.items, Codes(loop.omitted, narrowed), units)
                    -> "pack"
              [] OTHER -> "budget_too_small"
    IN  [outcome |-> outcome,
         items |-> IF outcome = "pack" THEN loop.items ELSE <<>>,
         omitted |-> loop.omitted]
=============================================================================
