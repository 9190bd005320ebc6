------------------------------ MODULE Handoff ------------------------------
(***************************************************************************)
(* From an answer to what a model is given: the context packet             *)
(* (context_packets/service.py), the rendered handoff between agents       *)
(* (agent_succession/service.py, strict layout) and the payload a model    *)
(* consumes (model_context/continuity.py).                                 *)
(*                                                                         *)
(* Texts are lengths.  What must not be left out, authority, limitations   *)
(* and warnings, is a length of its own; each item is a block of its       *)
(* length and one line of framing.                                         *)
(***************************************************************************)
EXTENDS Naturals, Sequences, FiniteSetsExt, SequencesExt

CONSTANTS
    CharsPerToken, \* the estimator's ratio
    MandatoryChars,\* rules, authority, agents: never left out
    WarningChars,  \* one more critical warning
    OptionalChars, \* lengths of the optional sections, provenance and capabilities
    NoticeChars,   \* the notice that something was omitted
    OverflowChars  \* the notice that the mandatory part does not fit

ASSUME HandoffAssumption ==
    /\ {CharsPerToken, MandatoryChars, WarningChars} \subseteq Nat \ {0}
    /\ {NoticeChars, OverflowChars} \subseteq Nat
    /\ OptionalChars \in Seq(Nat)

Block(item) == item.size + 1

Blocks(items) == SumFunction([i \in DOMAIN items |-> Block(items[i])])

-----------------------------------------------------------------------------
(* build_context_packet *)

Tokens(item) == (item.size + CharsPerToken - 1) \div CharsPerToken

\* an item is selected if it still fits
Packed(p, item, budget) ==
    IF p.used + Tokens(item) > budget
      THEN [p EXCEPT !.excluded = Append(@, item)]
      ELSE [p EXCEPT !.selected = Append(@, item), !.used = @ + Tokens(item)]

\* items in rank order; no budget is a large one
Filled(items, budget) ==
    FoldLeft(LAMBDA p, item : Packed(p, item, budget),
             [selected |-> <<>>, excluded |-> <<>>, used |-> 0], items)

Packet(answer, budget) ==
    LET filled == Filled(answer.items, budget)
    IN [selected |-> filled.selected,
        excluded |-> filled.excluded,
        warnings |-> (IF answer.degraded THEN {"degraded"} ELSE {})
            \union (IF answer.reason = "budget_met" THEN {"upstream_budget"} ELSE {})]

-----------------------------------------------------------------------------
(* build_continuity_consumption_payload *)

Critical(packet, reduced) ==
    Len(packet.excluded) + (IF "upstream_budget" \in packet.warnings THEN 1 ELSE 0)
                         + (IF reduced THEN 1 ELSE 0)

\* _mandatory_lines
Mandatory(packet, reduced) == MandatoryChars + WarningChars * Critical(packet, reduced)

\* _select_supporting_memory
Selected(s, item, max) ==
    IF s.chars + Block(item) <= max
      THEN [s EXCEPT !.included = Append(@, item), !.chars = @ + Block(item)]
      ELSE [s EXCEPT !.omitted = Append(@, item)]

Select(items, base, max) ==
    FoldLeft(LAMBDA s, item : Selected(s, item, max),
             [included |-> <<>>, omitted |-> <<>>, chars |-> base], items)

Refused == [status |-> "mandatory_context_exceeds_budget", reduced |-> FALSE,
            included |-> <<>>, omitted |-> <<>>, chars |-> 0]

Given(selection, reduced) ==
    [status |-> "ok", reduced |-> reduced, included |-> selection.included,
     omitted |-> selection.omitted, chars |-> selection.chars]

\* the warning is recorded, but the text is not rendered again with it
OnePass_Bug(packet, max) ==
    LET first == Select(packet.selected, Mandatory(packet, FALSE), max) IN
    IF Mandatory(packet, FALSE) > max THEN Refused
    ELSE [Given(first, first.omitted # <<>>) EXCEPT
            !.chars = @ + Mandatory(packet, first.omitted # <<>>) - Mandatory(packet, FALSE)]

\* what is left out adds a warning, and the longer warnings leave less room
Consume(packet, max) ==
    LET plain   == Mandatory(packet, FALSE)
        warned  == Mandatory(packet, TRUE)
        first   == Select(packet.selected, plain, max)
        second  == Select(packet.selected, warned, max)
    IN IF plain > max THEN Refused
       ELSE IF first.omitted = <<>> THEN Given(first, FALSE)
       ELSE IF warned > max THEN Refused
       ELSE Given(second, TRUE)

-----------------------------------------------------------------------------
(* _render_strict_sections *)

\* the optional sections by priority: ranked memory, then the others
Sections(items) == [i \in DOMAIN items |-> Block(items[i])] \o OptionalChars

Composed(items, chosen) ==
    LET missing == DOMAIN Sections(items) \ chosen IN
    MandatoryChars + SumFunctionOnSet(Sections(items), chosen)
                   + (IF missing = {} THEN 0 ELSE NoticeChars)

\* a section is taken if the text with it still fits
Taken(items, max, chosen, i) ==
    IF Composed(items, chosen \union {i}) <= max THEN chosen \union {i} ELSE chosen

Render(items, max) ==
    LET all   == DOMAIN Sections(items)
        taken == FoldLeft(LAMBDA chosen, i : Taken(items, max, chosen, i),
                          {}, [i \in 1..Len(Sections(items)) |-> i])
        Text(chosen) ==
          [included |-> chosen \intersect DOMAIN items,
           omitted |-> Cardinality(DOMAIN items \ chosen),
           truncated |-> chosen # all,
           chars |-> Composed(items, chosen)]
    IN IF Composed(items, all) <= max THEN Text(all)
       ELSE IF Composed(items, {}) > max
              THEN [included |-> {}, omitted |-> Len(items), truncated |-> TRUE,
                    chars |-> OverflowChars]
       ELSE Text(taken)
=============================================================================
