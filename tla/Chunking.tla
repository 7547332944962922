------------------------------ MODULE Chunking ------------------------------
(***************************************************************************)
(* chunk_text of the ingestion service: the choice of a splitter for a     *)
(* document and the splitters themselves, one unit of the text a step.     *)
(* Text is reduced to lengths: a unit is a sentence, a paragraph or a      *)
(* line.  Only the splitter by size looks at single characters.            *)
(***************************************************************************)
EXTENDS Naturals, Sequences, FiniteSets, SequencesExt

CONSTANTS Lengths,       \* lengths of a sentence, paragraph or line
          HeadingLengths,
          Limit,         \* max_chunk_size for texts made of units
          CarryOver,     \* chunk_overlap for texts made of units
          HeaderLength,  \* of a "Key: value" block that opens a prose text
          MaxUnits,      \* bound: units of a text
          MaxChars,      \* bound: characters of a text split by size
          TokenBudgets   \* values of embedding_max_tokens

ASSUME ChunkingAssumption ==
    /\ Lengths \cup HeadingLengths \subseteq Nat \ {0} /\ TokenBudgets \subseteq Nat \ {0}
    /\ {Limit, HeaderLength, MaxUnits, MaxChars} \subseteq Nat \ {0} /\ CarryOver \in Nat

VARIABLES request,    \* override, pack, hint and setting that choose the splitter
          chars,      \* the text of the splitter by size: TRUE for a letter
          units,      \* the text of the others: kind and length of each unit
          limit, overlap, budget,
          splitter,   \* "none" before the choice, "done", or "failed"
          at,         \* the next character, or the next unit
          group,      \* indices of the units of the open chunk
          size,       \* group_size, current_size
          hasContext, \* group_has_context, group_has_heading
          heading, header,   \* sheet or section heading, header row; 0 for none
          open,       \* open_headings of the numbered sections, by level
          pieces      \* the chunks

textVars == <<request, chars, units, limit, overlap, budget>>
splitVars == <<splitter, at, group, size, hasContext, heading, header, open, pieces>>
chunkingVars == <<textVars, splitVars>>

\* Units and their places in the text.

Headings == {"chapter", "heading", "clause"}
Units(headings) ==
    [kind : {"text"}, len : Lengths] \cup [kind : headings, len : HeadingLengths]
        \cup {[kind |-> "blank", len |-> 0]}
Separator == IF request.strategy = "paragraphs" THEN 2 ELSE 1
SumOver(us, S) ==
    LET upTo[n \in 0 .. Len(us)] ==
            IF n = 0 THEN 0 ELSE upTo[n - 1] + (IF n \in S THEN us[n].len ELSE 0)
    IN upTo[Len(us)]
SumLengths(S) == SumOver(units, S)
\* _line_entries, and the spans of sentences and paragraphs.
UnitStart(i) == SumLengths(1 .. i - 1) + (i - 1) * Separator
UnitEnd(i) == UnitStart(i) + units[i].len
Members(g) == {g[k] : k \in DOMAIN g}
JoinedLength(g) == SumLengths(Members(g)) + (Len(g) - 1) * Separator
CeilDiv(a, b) == (a + b - 1) \div b
Larger(a, b) == Max({a, b})
Smaller(a, b) == Min({a, b})

\* estimate_tokens and _token_budget_char_cap.
EstimateTokens(words, length) == Larger(CeilDiv(13 * words, 10), CeilDiv(length, 4))
CharCap(tokens) == Larger(1, Smaller(4 * tokens, (20 * tokens) \div 13))

Requests == [strategy : {"none", "sentences", "paragraphs", "tokens"}, pack : BOOLEAN,
             hint : {"none", "tabular", "structured", "prose", "media"},
             setting : {"sentences", "paragraphs", "tokens"}]

\* _has_section_markers and _detect_header_block.
IsHeading(i) == units[i].kind \in Headings
HasMarkers == \E i \in DOMAIN units : IsHeading(i)
OpensWithHeader == units # <<>> /\ units[1].kind = "text" /\ units[1].len >= HeaderLength

\* _chunk_text_inner: override, then pack, then hint, then setting.
Chosen(r) ==
    CASE r.strategy # "none" -> r.strategy
      [] r.strategy = "none" /\ r.pack -> "numbered"
      [] r.strategy = "none" /\ ~r.pack ->
         CASE r.hint = "tabular" -> "rows"
           [] r.hint = "structured" -> IF HasMarkers THEN "sections" ELSE "tokens"
           [] r.hint = "prose" -> IF OpensWithHeader THEN "prose" ELSE "sentences"
           [] r.hint = "media" -> "tokens"
           [] r.hint = "none" -> r.setting

BySize == chars # <<>>

SplitInit ==
    /\ request \in {r \in Requests :
                      /\ r.strategy # "none" => ~r.pack /\ r.hint = "tabular"
                      /\ r.pack => r.hint = "none"}
    /\ \/ /\ units = <<>>
          /\ chars \in UNION {[1 .. n -> BOOLEAN] : n \in 0 .. MaxChars}
          /\ budget \in TokenBudgets /\ limit = CharCap(budget)
          /\ overlap \in 0 .. CharCap(budget) + 1
          /\ request = [strategy |-> "none", pack |-> FALSE, hint |-> "none", setting |-> "tokens"]
       \/ /\ chars = <<>>
          /\ units \in UNION {[1 .. n -> Units(IF request.pack THEN Headings ELSE {"heading"})] :
                             n \in 1 .. MaxUnits}
          /\ limit = Limit /\ overlap = CarryOver /\ budget = Max(TokenBudgets)
          /\ Chosen(request) # "tokens"
          /\ request.setting = "sentences"
    /\ splitter = "none" /\ at = 0 /\ group = <<>> /\ size = 0 /\ hasContext = FALSE
    /\ heading = 0 /\ header = 0 /\ open = [l \in 1 .. 3 |-> 0] /\ pieces = <<>>

\* An empty text has no chunks and is no failure.
Dispatch ==
    /\ splitter = "none"
    /\ splitter' = IF chars = <<>> /\ units = <<>> THEN "done" ELSE Chosen(request)
    /\ at' = IF BySize THEN 0 ELSE 1
    /\ UNCHANGED <<textVars, group, size, hasContext, heading, header, open, pieces>>

Piece(from, to, length, members) ==
    [from |-> from, to |-> to, length |-> length, members |-> members, words |-> 0,
     parents |-> {}]

----------------------------------------------------------------------------
\* _chunk_by_size

NextStart(cut) == IF cut > at + overlap THEN cut - overlap ELSE cut

WordsIn(S) == Cardinality({p \in S : chars[p + 1] /\ (p - 1 \in S => ~chars[p])})

SplitBySize ==
    /\ splitter = "tokens" /\ at < Len(chars)
    /\ LET end == Smaller(at + limit, Len(chars))
           spaces == {p \in at + 1 .. end - 1 : ~chars[p + 1]}
           cut == IF end < Len(chars) /\ spaces # {} THEN Max(spaces) ELSE end
           letters == {p \in at .. cut - 1 : chars[p + 1]}
       IN /\ pieces' = IF letters = {} THEN pieces
                       ELSE Append(pieces, [Piece(at, cut, Max(letters) - Min(letters) + 1, {})
                                           EXCEPT !.words = WordsIn(at .. cut - 1)])
          /\ at' = NextStart(cut)
    /\ UNCHANGED <<textVars, splitter, group, size, hasContext, heading, header, open>>

----------------------------------------------------------------------------
\* _chunk_by_sentences, _chunk_by_paragraphs and _chunk_prose

\* The header block is reserved from the budget and prepended to every chunk
\* that starts behind it.
HeaderApplies == splitter = "prose" /\ HeaderLength + 2 < limit
SentenceLimit == IF HeaderApplies THEN limit - HeaderLength - 2 ELSE limit
SentenceOverlap == CASE splitter = "paragraphs" -> 0
                     [] HeaderApplies -> Smaller(overlap, SentenceLimit \div 2)
                     [] OTHER -> overlap

\* The longest tail of a chunk that fits the overlap.
TailOf(g, room) ==
    LET fits(k) == SumLengths({g[j] : j \in k .. Len(g)}) <= room
    IN SubSeq(g, Min({k \in 1 .. Len(g) : fits(k)} \cup {Len(g) + 1}), Len(g))

\* One sentence more: the open chunk is closed when it would grow too large,
\* and dropped when it is blank.
Shut(acc) ==
    IF SumLengths(Members(acc.open)) = 0 THEN acc.closed ELSE Append(acc.closed, acc.open)
Take(acc, i, room, carry) ==
    LET full == acc.open # <<>> /\ SumLengths(Members(acc.open)) + units[i].len > room
    IN [closed |-> IF full THEN Shut(acc) ELSE acc.closed,
        open |-> Append(IF full THEN TailOf(acc.open, carry) ELSE acc.open, i)]

ProsePiece(g) ==
    LET from == UnitStart(g[1])
        prefix == IF HeaderApplies /\ from >= HeaderLength THEN HeaderLength + 2 ELSE 0
    IN Piece(from, UnitEnd(g[Len(g)]), prefix + JoinedLength(g), Members(g))

Emit(g) == IF SumLengths(Members(g)) = 0 THEN pieces ELSE Append(pieces, ProsePiece(g))

AddSentence ==
    /\ splitter \in {"sentences", "paragraphs", "prose"} /\ at <= Len(units)
    /\ IF splitter = "paragraphs" /\ units[at].kind = "blank"
       THEN UNCHANGED <<group, pieces>>
       ELSE LET next == Take([closed |-> <<>>, open |-> group], at, SentenceLimit, SentenceOverlap)
            IN /\ group' = next.open
               /\ pieces' = IF next.closed = <<>> THEN pieces ELSE Emit(group)
    /\ at' = at + 1
    /\ UNCHANGED <<textVars, splitter, size, hasContext, heading, header, open>>

----------------------------------------------------------------------------
\* _chunk_by_rows and _chunk_by_sections

\* _bounded_context: a third of the limit, and a note on what was cut.
BoundedContext(length) ==
    LET cap == Smaller(Larger(20, IF limit > 60 THEN limit \div 3 ELSE limit), 500)
        cut == length - cap
        digits == IF cut < 10 THEN 1 ELSE IF cut < 100 THEN 2 ELSE 3
    IN IF length <= cap THEN length ELSE cap + 12 + digits

\* The length of what context_prefix injects.
ContextLength ==
    LET part(i) == IF i = 0 THEN 0 ELSE BoundedContext(units[i].len)
    IN part(heading) + (IF heading # 0 /\ header # 0 THEN 1 ELSE 0) + part(header)

\* Mutant: the injected context is not reserved.
PackCapUnreserved == limit
PackCap == IF hasContext \/ ContextLength = 0 THEN limit
           ELSE IF limit > ContextLength + 2 THEN limit - ContextLength - 2 ELSE 1

RowPiece ==
    LET context == IF hasContext \/ ContextLength = 0 THEN 0 ELSE ContextLength + 2
    IN Piece(UnitStart(group[1]), UnitEnd(group[Len(group)]), context + JoinedLength(group),
             Members(group))
Flushed == IF group = <<>> THEN pieces ELSE Append(pieces, RowPiece)

\* _slice_oversized_line.
SliceBlock ==
    LET floor == Larger(1, limit \div 5)
        block == IF ContextLength = 0 THEN 0 ELSE BoundedContext(ContextLength) + 2
        room == IF limit > floor + 2 THEN limit - floor - 2 ELSE 0
        trimmed == Smaller(ContextLength, room)
    IN IF block + floor <= limit THEN block ELSE IF trimmed = 0 THEN 0 ELSE trimmed + 2
SliceBudget == Larger(Larger(1, limit \div 5), IF limit > SliceBlock THEN limit - SliceBlock ELSE 0)
SliceCount(i) == CeilDiv(units[i].len, SliceBudget)
Slices(i) ==
    [k \in 1 .. SliceCount(i) |->
        LET from == (k - 1) * SliceBudget
            to == Smaller(k * SliceBudget, units[i].len)
        IN Piece(UnitStart(i) + from, UnitStart(i) + to, SliceBlock + to - from, {i})]

\* Only the context of a table, and no row of it.
IsOrphan ==
    /\ group # <<>>
    /\ IF splitter = "rows" THEN Members(group) \subseteq {heading, header}
       ELSE hasContext /\ Members(group) = {heading}

TakesLines == splitter \in {"rows", "sections"} /\ at <= Len(units)
AddHeading ==
    /\ TakesLines /\ IsHeading(at)
    /\ pieces' = Flushed
    /\ heading' = at /\ header' = 0
    /\ group' = <<at>> /\ size' = units[at].len /\ hasContext' = TRUE
    /\ at' = at + 1
    /\ UNCHANGED <<textVars, splitter, open>>

AddBlankLine ==
    /\ TakesLines /\ units[at].kind = "blank"
    /\ at' = at + 1
    /\ UNCHANGED <<textVars, splitter, group, size, hasContext, heading, header, open, pieces>>

AddOversizedLine ==
    /\ TakesLines /\ units[at].kind = "text" /\ units[at].len > limit
    /\ pieces' = (IF IsOrphan THEN pieces ELSE Flushed) \o Slices(at)
    /\ group' = <<>> /\ size' = 0 /\ hasContext' = FALSE
    /\ at' = at + 1
    /\ UNCHANGED <<textVars, splitter, heading, header, open>>

\* The first row of a table is its header, and counts for the context of the
\* group it is put into before that group is flushed.
AddLine ==
    /\ TakesLines /\ units[at].kind = "text" /\ units[at].len <= limit
    /\ LET first == splitter = "rows" /\ header = 0
           row == units[at].len + 1
           newHeader == IF first THEN at ELSE header
           full == group # <<>> /\ size + row > PackCap
       IN /\ header' = newHeader
          /\ pieces' = IF full THEN Flushed ELSE pieces
          /\ group' = IF full THEN <<at>> ELSE Append(group, at)
          /\ size' = IF full THEN row ELSE size + row
          /\ hasContext' = (first \/ (hasContext /\ ~full))
    /\ at' = at + 1
    /\ UNCHANGED <<textVars, splitter, heading, open>>

----------------------------------------------------------------------------
\* split_numbered_sections

Level(i) == CASE units[i].kind = "chapter" -> 1
              [] units[i].kind = "heading" -> 2
              [] units[i].kind = "clause" -> 3

\* open_headings without those of the same or a deeper level.
Enclosing(level) == [l \in DOMAIN open |-> IF l < level THEN open[l] ELSE 0]

\* The sentences of a section that does not fit, cut into chunks.
SentenceCuts(text, room) ==
    LET run[n \in 0 .. Len(text)] == IF n = 0 THEN [closed |-> <<>>, open |-> <<>>]
                                     ELSE Take(run[n - 1], text[n], room, overlap)
    IN Shut(run[Len(text)])

\* A section that fits is one chunk; another is split by sentences, with its
\* headings in front of each chunk.  The offsets of those count from the end
\* of the heading line, the blank lines stripped from the body left out.
SectionPieces(g) ==
    LET headed == IsHeading(g[1])
        parents == IF headed
                   THEN {open[l] : l \in {l \in DOMAIN open : l < Level(g[1]) /\ open[l] # 0}}
                   ELSE {}
        prefix == SumLengths(parents) + Cardinality(parents)
        body == IF headed THEN Tail(g) ELSE g
        worded == {k \in DOMAIN body : units[body[k]].len > 0}
        text == SubSeq(body, Min(worded), Len(body))
        shift == UnitStart(text[1]) - UnitStart(body[1])
        front == prefix + (IF headed THEN units[g[1]].len + 1 ELSE 0)
        room == IF limit > front THEN limit - front ELSE 1
        cuts == SentenceCuts(text, room)
        after == IF g[Len(g)] < Len(units) THEN 1 ELSE 0
    IN IF SumLengths(Members(g)) = 0 THEN <<>>
       ELSE IF JoinedLength(g) + prefix <= limit
       THEN <<[Piece(UnitStart(g[1]), UnitEnd(g[Len(g)]) + after, prefix + JoinedLength(g), Members(g))
                 EXCEPT !.parents = parents]>>
       ELSE IF worded = {} THEN <<>>
       ELSE [k \in DOMAIN cuts |->
               [Piece(UnitStart(cuts[k][1]) - shift, UnitEnd(cuts[k][Len(cuts[k])]) - shift,
                      front + JoinedLength(cuts[k]),
                      Members(cuts[k]) \cup (IF headed THEN {g[1]} ELSE {}))
                  EXCEPT !.parents = parents]]

ClosedSection == IF group = <<>> THEN pieces ELSE pieces \o SectionPieces(group)

AddSectionLine ==
    /\ splitter = "numbered" /\ at <= Len(units) /\ ~IsHeading(at)
    /\ group' = Append(group, at)
    /\ at' = at + 1
    /\ UNCHANGED <<textVars, splitter, size, hasContext, heading, header, open, pieces>>

OpenSection ==
    /\ splitter = "numbered" /\ at <= Len(units) /\ IsHeading(at)
    /\ pieces' = ClosedSection
    /\ group' = <<at>>
    /\ open' = [Enclosing(Level(at)) EXCEPT ![Level(at)] = at]
    /\ at' = at + 1
    /\ UNCHANGED <<textVars, splitter, size, hasContext, heading, header>>

----------------------------------------------------------------------------
\* The end of the text, and check_chunks: no chunk at all is a failure.

FinishSplit ==
    /\ \/ splitter = "tokens" /\ at >= Len(chars) /\ UNCHANGED pieces
       \/ /\ splitter \in {"sentences", "paragraphs", "prose"} /\ at > Len(units)
          /\ pieces' = Emit(group)
       \/ splitter \in {"rows", "sections"} /\ at > Len(units) /\ pieces' = Flushed
       \/ splitter = "numbered" /\ at > Len(units) /\ pieces' = ClosedSection
    /\ splitter' = IF pieces' = <<>> THEN "failed" ELSE "done"
    /\ UNCHANGED <<textVars, at, group, size, hasContext, heading, header, open>>

SplitNext ==
    \/ Dispatch
    \/ SplitBySize
    \/ AddSentence
    \/ AddHeading \/ AddBlankLine \/ AddOversizedLine \/ AddLine
    \/ AddSectionLine \/ OpenSection
    \/ FinishSplit

SplitSpec == SplitInit /\ [][SplitNext]_chunkingVars

----------------------------------------------------------------------------
\* Properties

TextEnd == IF BySize THEN Len(chars)
           ELSE SumLengths(DOMAIN units) + (Len(units) - 1) * Separator

\* The state has its type; a chunk is a span of the text.
SplitTypeOK ==
    /\ Members(group) \subseteq DOMAIN units
    /\ size \in Nat /\ hasContext \in BOOLEAN
    /\ {heading, header} \cup {open[l] : l \in DOMAIN open} \subseteq DOMAIN units \cup {0}
    /\ \A k \in DOMAIN pieces : pieces[k].from < pieces[k].to /\ pieces[k].to <= TextEnd

\* The header row of a table, and a heading or header row with nothing but
\* such rows up to an oversized one.
HeaderRow(i) ==
    /\ units[i].kind = "text" /\ units[i].len <= limit /\ Chosen(request) = "rows"
    /\ ~\E j \in 1 .. i - 1 : /\ units[j].kind = "text" /\ units[j].len <= limit
                              /\ ~\E m \in j .. i : IsHeading(m)
ContextOnly(i) ==
    /\ IsHeading(i) \/ HeaderRow(i)
    /\ \E j \in i + 1 .. Len(units) :
          /\ units[j].kind = "text" /\ units[j].len > limit
          /\ \A m \in i + 1 .. j - 1 : units[m].kind = "blank" \/ HeaderRow(m)

\* The chunks of a unit cover it from its beginning on.  In numbered sections,
\* whose offsets are shifted, one of them is as long as the unit.
Covered(i) ==
    LET of == {k \in DOMAIN pieces : i \in pieces[k].members}
    IN \/ \A q \in {UnitStart(i)} \cup {pieces[k].to : k \in of} :
             q < UnitEnd(i) => \E k \in of : pieces[k].from <= q /\ q < pieces[k].to
       \/ /\ Chosen(request) = "numbered"
          /\ \E k \in of : pieces[k].to - pieces[k].from >= units[i].len

\* No text is lost: at the end every letter lies within a chunk, and every
\* sentence, paragraph, heading and row within its chunks, the slices of an
\* oversized row together making up the row.  The exceptions are the context in
\* front of an oversized row, which lives on as the context of its slices, and
\* a numbered heading without a body.
NothingLost ==
    splitter \in {"done", "failed"} =>
        /\ \A p \in 0 .. Len(chars) - 1 : chars[p + 1] =>
              \E k \in DOMAIN pieces : pieces[k].from <= p /\ p < pieces[k].to
        /\ \A i \in DOMAIN units :
              \/ units[i].kind = "blank"
              \/ Covered(i)
              \/ Chosen(request) \in {"rows", "sections"} /\ ContextOnly(i)
              \/ Chosen(request) = "numbered" /\ IsHeading(i)

\* The splitters move forward whatever the overlap: no chunk starts or ends
\* before the one in front of it, and no two are the same span.
ChunksAdvance ==
    \A k \in 2 .. Len(pieces) :
        /\ pieces[k - 1].from <= pieces[k].from /\ pieces[k - 1].to <= pieces[k].to
        /\ pieces[k - 1].from < pieces[k].from \/ pieces[k - 1].to < pieces[k].to

\* A chunk is larger than its limit only when a single unit makes it so, or
\* the sentences carried over with one more; room for injected context is
\* reserved.  By size the estimate of tokens exceeds its budget by one at most.
OversizeExplained ==
    \A k \in DOMAIN pieces :
        LET p == pieces[k]
            last == Max(p.members)
            body == SumLengths(p.members)
        IN CASE BySize -> p.length <= limit /\ EstimateTokens(p.words, p.length) <= budget + 1
             [] Chosen(request) \in {"sentences", "paragraphs", "prose"} ->
                  \/ body <= limit
                  \/ body - units[last].len <= overlap
             [] Chosen(request) \in {"rows", "sections"} ->
                  \/ p.length <= limit
                  \/ \E i \in p.members : p.members = {i} /\ (body <= limit \/ IsHeading(i))
             [] OTHER -> TRUE

\* The chunks of a numbered section carry the headings that enclose it: of
\* each higher level the nearest one before, unless a still higher one
\* follows it.
ParentsEnclose ==
    \A k \in DOMAIN pieces : Chosen(request) = "numbered" =>
        LET own == {i \in pieces[k].members : IsHeading(i)}
            encloses(j, i) == /\ j < i /\ IsHeading(j) /\ Level(j) < Level(i)
                              /\ ~\E m \in j + 1 .. i - 1 : IsHeading(m) /\ Level(m) <= Level(j)
        IN pieces[k].parents = {j \in DOMAIN units : \E i \in own : encloses(j, i)}

\* The chunks of a text: nothing is lost, they move forward, each fits its
\* limit or has a reason not to, and numbered sections know what encloses them.
SplitSound ==
    SplitTypeOK /\ NothingLost /\ ChunksAdvance /\ OversizeExplained /\ ParentsEnclose
=============================================================================
