------------------------------- MODULE Content -------------------------------
(***************************************************************************)
(* What the ingestion takes from recognized blocks: split_blocks           *)
(* (ingest/filterer.py) sends each block to the metadata, the body or the  *)
(* tables, and build_paragraphs (ingest/paragraphs.py) makes paragraphs of *)
(* the body.                                                               *)
(*                                                                         *)
(* A block is that of LayoutDedup with a field text = [says, chars].       *)
(* chars is a sequence of                                                  *)
(*   "a" lower-case letter   "A" any other letter   "D" the syllable       *)
(*   "-" hyphen   "." stop   " " blank   "/" end of line                   *)
(* where "D." ends a Korean sentence; says is the pattern that the text    *)
(* starts with, if any.                                                    *)
(***************************************************************************)
EXTENDS LayoutDedup

CONSTANTS MinChars, MaxChars    \* build_paragraphs' min_chars and max_chars
ASSUME MaxCharsAssumption == MaxChars \in Nat \ {0}

Says == {"prose", "references", "figure caption", "abstract", "keywords"}
Excluded == {"figure", "figure_caption", "formula", "header_footer", "reference"}
MetaTypes == {"title", "author", "abstract"}
TableTypes == {"table", "table_caption"}

InOrder(s) == SortBy(s, [i \in DOMAIN s |-> <<s[i].order>>])

-----------------------------------------------------------------------------
(* STEP 3: split_blocks. *)

\* the text between the title and what comes next, on the first page
IsAuthorRegion(s, b) ==
    LET page == First({s[i].page : i \in DOMAIN s})
        At(types) == {s[i].order : i \in {j \in DOMAIN s : s[j].page = page /\ s[j].type \in types}}
        titles == At({"title"})
        bounds == {o \in At({"abstract", "section_header"}) : \A t \in titles : o > t}
    IN  /\ titles # {} /\ bounds # {}
        /\ b.page = page /\ b.type = "text"
        /\ \A t \in titles : t < b.order
        /\ b.order < First(bounds)

RecoverAuthorRegions(s) ==
    [i \in DOMAIN s |-> IF IsAuthorRegion(s, s[i]) THEN [s[i] EXCEPT !.type = "author"] ELSE s[i]]

\* Low, small text; every text is taken to be short enough.  In percent:
\* footnote_bottom_ratio, footnote_max_height_ratio, footnote_max_width_ratio.
ProbableFootnote(s, b) ==
    LET page == {s[i].box : i \in {j \in DOMAIN s : s[j].page = b.page}}
        bottom == CHOOSE y \in {x[4] : x \in page} : \A x \in page : x[4] <= y
        right == CHOOSE y \in {x[3] : x \in page} : \A x \in page : x[3] <= y
        left == First({x[1] : x \in page})
    IN  /\ b.type = "text" /\ right > left /\ bottom > 0
        /\ 100 * b.box[2] >= 88 * bottom
        /\ 100 * Height(b.box) <= 2 * bottom
        /\ 100 * Width(b.box) <= 50 * (right - left)

NothingYet == [stopped |-> FALSE, started |-> FALSE, meta |-> <<>>, keywords |-> <<>>,
               body |-> <<>>, tables |-> <<>>]

\* One turn of the loop of split_blocks: where block b of s goes.
Sort(s, out, b) ==
    LET header == b.type = "section_header"
        begun == [out EXCEPT !.started = @ \/ header]
    IN  IF out.stopped THEN out
        ELSE IF b.text.says = "references" THEN [out EXCEPT !.stopped = TRUE]
        ELSE IF b.text.says = "figure caption" \/ ProbableFootnote(s, b) THEN out
        ELSE CASE b.type = "reference" -> [out EXCEPT !.stopped = TRUE]
               [] b.type = "header_footer" /\ b.text.says = "keywords" ->
                     [out EXCEPT !.keywords = Append(@, b)]
               [] b.type \in Excluded \ {"reference"}
                     /\ ~(b.type = "header_footer" /\ b.text.says = "keywords") -> out
               [] header /\ b.text.says = "abstract" -> out
               [] b.type = "abstract" /\ out.started ->
                     [out EXCEPT !.body = Append(@, [b EXCEPT !.type = "text"])]
               [] b.type \in MetaTypes /\ ~(b.type = "abstract" /\ out.started) ->
                     [out EXCEPT !.meta = Append(@, b)]
               [] b.type \in TableTypes -> [out EXCEPT !.tables = Append(@, b)]
               [] b.type = "text" \/ (header /\ b.text.says # "abstract") ->
                     [begun EXCEPT !.body = Append(@, b)]

SplitBlocks(blocks) ==
    LET s == RecoverAuthorRegions(InOrder(Deduplicate(blocks)))
    IN  FoldLeft(LAMBDA out, b : Sort(s, out, b), NothingYet, s)

\* _build_tables: a caption goes to the next table, [title, text]
NoCaption == [says |-> "prose", chars |-> <<>>]
BuildTables(tables) ==
    LET Take(out, b) ==
            IF b.type = "table_caption" THEN [out EXCEPT !.caption = b.text]
            ELSE [out EXCEPT !.caption = NoCaption,
                             !.made = Append(@, [title |-> out.caption, text |-> b.text])]
    IN  FoldLeft(Take, [caption |-> NoCaption, made |-> <<>>], InOrder(tables)).made

-----------------------------------------------------------------------------
(* STEP 4: build_paragraphs. *)

IsSpace(c) == c \in {" ", "/"}
Letters(chars) == Only(chars, {i \in DOMAIN chars : ~IsSpace(chars[i])})

\* _normalize_text: a gap is one blank, or one end of line if it holds one
NormalizeText(chars) ==
    LET ends(i) == {j \in (i + 1)..Len(chars) : ~IsSpace(chars[j])}
        keep == {i \in DOMAIN chars : ~IsSpace(chars[i])
                    \/ (i > 1 /\ ~IsSpace(chars[i - 1]) /\ ends(i) # {})}
        line == [i \in DOMAIN chars |->
                    IF i \in keep /\ IsSpace(chars[i])
                       /\ \E j \in i..(First(ends(i)) - 1) : chars[j] = "/"
                    THEN "/" ELSE IF IsSpace(chars[i]) THEN " " ELSE chars[i]]
    IN  Only(line, keep)
Strip(chars) ==
    LET solid == {i \in DOMAIN chars : ~IsSpace(chars[i])}
    IN  IF solid = {} THEN <<>>
        ELSE SubSeq(chars, First(solid), CHOOSE i \in solid : \A j \in solid : j <= i)

ContinuesSentence(before, after) ==
    before[Len(before)] # "." /\ (after[1] = "a" \/ before[Len(before)] = "-")

\* The pieces of the body with the section each stands in.  A normalized
\* text holds no blank line, so _split_initial_paragraphs returns it whole.
Items(body) ==
    LET Take(out, b) ==
            LET chars == NormalizeText(b.text.chars)
            IN  IF chars = <<>> THEN out
                ELSE IF b.type = "section_header" THEN [out EXCEPT !.section = b.order]
                ELSE [out EXCEPT !.items = Append(@, [section |-> out.section, chars |-> chars])]
    IN  FoldLeft(Take, [section |-> -1, items |-> <<>>], InOrder(body)).items

\* Wrong on purpose: short neighbours join across a section header.
MergeAcross(out, item) ==
    IF out # <<>> /\ (Len(Last(out).chars) < MinChars \/ Len(item.chars) < MinChars)
    THEN [out EXCEPT ![Len(out)].chars = @ \o <<"/", "/">> \o item.chars]
    ELSE Append(out, item)
\* _merge_short_neighbors
MergeShort(out, item) ==
    IF /\ out # <<>> /\ Last(out).section = item.section
       /\ \/ Len(Last(out).chars) < MinChars \/ Len(item.chars) < MinChars
          \/ ContinuesSentence(Last(out).chars, item.chars)
    THEN [out EXCEPT ![Len(out)].chars = @ \o <<"/", "/">> \o item.chars]
    ELSE Append(out, item)

(***************************************************************************)
(* _best_boundary.  A position is a number of characters before it.  The   *)
(* pattern is looked for in the window from start to one past limit: a     *)
(* stop and the blanks after it as far as the window reaches, or "D.".     *)
(***************************************************************************)
SentenceEnds(t, start, limit) ==
    LET window == Lo(limit + 1, Len(t))
        stops == {p \in start..(window - 1) : t[p + 1] = "."}
        korean == {p \in stops : p > start /\ t[p] = "D"}
        blanks(p) == {q \in (p + 2)..window : \A k \in (p + 2)..q : IsSpace(t[k])}
        longest(S) == CHOOSE q \in S : \A r \in S : r <= q
    IN  {p + 1 : p \in korean}
            \union {longest(blanks(p)) : p \in {q \in stops \ korean : blanks(q) # {}}}
BestBoundary(t, start, limit) ==
    LET ends == {e \in SentenceEnds(t, start, limit) : e <= limit}
    IN  IF ends = {} THEN limit ELSE CHOOSE e \in ends : \A f \in ends : f <= e

\* where the next chunk starts
Resume(t, cut) ==
    First({k \in cut..Len(t) : k = Len(t) \/ ~IsSpace(t[k + 1])})

\* _split_long_text
SplitLong(t) ==
    LET from[start \in 0..Len(t)] ==
            IF start = Len(t) THEN <<>>
            ELSE IF Len(t) - start <= MaxChars THEN <<Strip(SubSeq(t, start + 1, Len(t)))>>
            ELSE LET cut == BestBoundary(t, start, start + MaxChars)
                 IN  <<Strip(SubSeq(t, start + 1, cut))>> \o from[Resume(t, cut)]
    IN  from[0]

Paragraphs(body) ==
    LET merged == FoldLeft(MergeShort, <<>>, Items(body))
        Pieces(item) ==
            LET split == SplitLong(item.chars)
                chunks == Only(split, {k \in DOMAIN split : split[k] # <<>>})
            IN  [k \in DOMAIN chunks |-> [section |-> item.section, chars |-> chunks[k]]]
    IN  FlattenSeq([i \in DOMAIN merged |-> Pieces(merged[i])])
=============================================================================
