------------------------------- MODULE Chunker -------------------------------
(***************************************************************************)
(* How a parsed document becomes chunks (app/ingest/chunker.py).  The      *)
(* document is read line by line, as _split_into_blocks does; `chunks` is  *)
(* what chunk_markdown returns when the document ends there, so that every *)
(* document of at most MaxLines lines is looked at.                        *)
(*                                                                         *)
(* The smallest piece of text is an atom: a table row, or what a line of   *)
(* prose has up to the next sentence end or its own end.  A text is a      *)
(* sequence of lines, a line a sequence of atoms.  A line says whether its *)
(* last atom ends a sentence (`ends`; a sentence may go on over many       *)
(* lines), and how many tokens the white space before each of its atoms    *)
(* costs when something stands before it (`gap`).  A chunk also says which *)
(* atoms are its own (`body`) rather than carried over from the chunk      *)
(* before.                                                                 *)
(***************************************************************************)
EXTENDS Integers, SequencesExt

CONSTANTS TARGET_TOKENS, OVERLAP_TOKENS, MIN_CHUNK_TOKENS,
          Lines,      \* what a line of the document may be
          MaxLines    \* bound: the longest document

\* In the code 450, 60 and 24 (chunker.py:28-30).
ASSUME SizesAssumption ==
    /\ {TARGET_TOKENS, OVERLAP_TOKENS, MIN_CHUNK_TOKENS, MaxLines} \subseteq Nat
    /\ MIN_CHUNK_TOKENS <= OVERLAP_TOKENS
    /\ OVERLAP_TOKENS <= TARGET_TOKENS
    /\ 2 * MIN_CHUNK_TOKENS <= TARGET_TOKENS

NoTitle == "no title"

Kinds == {"heading", "row", "separator", "text", "blank"}

\* A heading has its level, a row is one atom, and a line of text is not blank
\* (_HEADING, _TABLE_ROW and the last branch of _split_into_blocks).
ASSUME LinesAssumption ==
    /\ Lines \subseteq [kind: Kinds, level: 0..6, title: STRING,
                        sizes: Seq(Nat \ {0}), gap: Nat, ends: BOOLEAN]
    /\ \A line \in Lines :
          /\ line.kind = "heading" => line.level > 0
          /\ line.kind \in {"row", "separator"} => Len(line.sizes) = 1
          /\ line.kind = "text" => line.sizes # <<>>

VARIABLES markdown,       \* the lines read so far
          stack,          \* the current heading path
          buffer,         \* lines of the paragraph being read
          table_buffer,   \* rows of the table being read
          blocks,         \* finished paragraphs and tables
          chunks          \* what chunk_markdown makes of it all

vars == <<markdown, stack, buffer, table_buffer, blocks, chunks>>

-----------------------------------------------------------------------------
(* Texts and their size. *)

\* The atoms alone, without what stands between them.
TokensOf(atoms) == FoldLeft(LAMBDA n, a : n + a.tokens, 0, atoms)

\* The atoms joined into one text.
CountTokens(atoms) ==
    FoldLeft(LAMBDA n, a : IF n = 0 THEN a.tokens ELSE n + a.gap + a.tokens, 0, atoms)

\* The sum the code keeps of parts it counted one by one: what joins them is
\* not in it.
Together(parts) == FoldLeft(LAMBDA n, part : n + CountTokens(part), 0, parts)

\* Only white space behind . ! or ? separates two atoms of a line.
AtomsOf(i, line) ==
    [k \in DOMAIN line.sizes |->
        [line |-> i, part |-> k, kind |-> line.kind, tokens |-> line.sizes[k],
         gap  |-> line.gap, ends |-> k < Len(line.sizes) \/ line.ends]]

\* The atoms in parts, one ending behind every atom whose `ends` is end: TRUE
\* for sentences, FALSE for the lines that sentences joined by spaces make.
CutAfter(atoms, end) ==
    LET Put(parts, a) ==
          IF parts # <<>> /\ Last(Last(parts)).ends # end
            THEN Append(Front(parts), Append(Last(parts), a))
            ELSE Append(parts, <<a>>)
    IN  FoldLeft(Put, <<>>, atoms)

Block(text, path, is_table) ==
    [text |-> text, heading_path |-> path, is_table |-> is_table]

-----------------------------------------------------------------------------
(* Blocks larger than a chunk. *)

\* Items in groups, in order: a group is closed by the item that does not fit.
Packed(items, overhead) ==
    LET Put(groups, item) ==
          IF /\ groups # <<>>
             /\ overhead + Together(Last(groups)) + CountTokens(item) <= TARGET_TOKENS
            THEN Append(Front(groups), Append(Last(groups), item))
            ELSE Append(groups, <<item>>)
    IN  FoldLeft(Put, <<>>, items)

TableHeader(rows) ==
    IF Len(rows) >= 2 /\ rows[2][1].kind = "separator"
      THEN SubSeq(rows, 1, 2)
      ELSE SubSeq(rows, 1, 1)

\* Mutant: only the first piece has the header.
SplitTableHeaderOnce(block) ==
    LET header == TableHeader(block.text)
        groups == Packed(SubSeq(block.text, Len(header) + 1, Len(block.text)),
                         CountTokens(FlattenSeq(header)))
    IN  IF groups = <<>>
          THEN <<block>>
          ELSE [g \in DOMAIN groups |->
                  Block((IF g = 1 THEN header ELSE <<>>) \o groups[g],
                        block.heading_path, TRUE)]

\* A table with nothing but a header stays as it is.
SplitTable(block) ==
    LET header == TableHeader(block.text)
        groups == Packed(SubSeq(block.text, Len(header) + 1, Len(block.text)),
                         CountTokens(FlattenSeq(header)))
    IN  IF groups = <<>>
          THEN <<block>>
          ELSE [g \in DOMAIN groups |->
                  Block(header \o groups[g], block.heading_path, TRUE)]

\* The sentences of a piece are joined by spaces; a sentence keeps the line
\* ends inside it.
SplitProse(block) ==
    LET sentences == CutAfter(FlattenSeq(block.text), TRUE)
        groups    == Packed(sentences, 0)
    IN  [g \in DOMAIN groups |->
            Block(CutAfter(FlattenSeq(groups[g]), FALSE), block.heading_path, FALSE)]

Pieces(block) ==
    IF CountTokens(FlattenSeq(block.text)) <= TARGET_TOKENS THEN <<block>>
    ELSE IF block.is_table THEN SplitTable(block)
    ELSE SplitProse(block)

-----------------------------------------------------------------------------
(* Chunks. *)

\* The last lines that fit into the overlap; the very last one in any case.
TailOverlap(text) ==
    LET Fits(k) == Together(SubSeq(text, k, Len(text))) <= OVERLAP_TOKENS
        Short   == {k \in 1..Len(text) : Fits(k)}
    IN  SubSeq(text, Min(Short \cup {Len(text)}), Len(text))

\* Mutant: after a table the overlap before it stays.
EmitKeepingCarry(s) ==
    IF s.current = <<>> THEN s
    ELSE LET own == FlattenSeq([b \in DOMAIN s.current |-> s.current[b].text])
         IN  [chunks  |-> Append(s.chunks,
                            [ordinal      |-> Len(s.chunks),
                             heading_path |-> s.current[1].heading_path,
                             text         |-> s.carry \o own,
                             body         |-> FlattenSeq(own)]),
              current |-> <<>>,
              carry   |-> IF Last(s.current).is_table THEN s.carry ELSE TailOverlap(own)]

Emit(s) ==
    IF s.current = <<>> THEN s
    ELSE LET own == FlattenSeq([b \in DOMAIN s.current |-> s.current[b].text])
         IN  [chunks  |-> Append(s.chunks,
                            [ordinal      |-> Len(s.chunks),
                             heading_path |-> s.current[1].heading_path,
                             text         |-> s.carry \o own,
                             body         |-> FlattenSeq(own)]),
              current |-> <<>>,
              carry   |-> IF Last(s.current).is_table THEN <<>> ELSE TailOverlap(own)]

StartsNewSection(current, block) ==
    block.heading_path # current[1].heading_path

TextsOf(current) == [b \in DOMAIN current |-> FlattenSeq(current[b].text)]

\* Mutant: the block that makes the chunk too big is still put into it.
TooBigAlready(current, block) == Together(TextsOf(current)) > TARGET_TOKENS

TooBig(current, block) ==
    Together(TextsOf(current)) + CountTokens(FlattenSeq(block.text)) > TARGET_TOKENS

Add(s, block) ==
    LET closed == IF /\ s.current # <<>>
                     /\ StartsNewSection(s.current, block) \/ TooBig(s.current, block)
                    THEN Emit(s) ELSE s
    IN  [closed EXCEPT !.current = Append(@, block)]

\* A small chunk joins the one before it, if that is of the same section.
Tiny(before, chunk) ==
    /\ CountTokens(FlattenSeq(chunk.text)) < MIN_CHUNK_TOKENS
    /\ before.heading_path = chunk.heading_path

Merge(merged, c) ==
    IF merged # <<>> /\ Tiny(Last(merged), c)
      THEN Append(Front(merged),
             [Last(merged) EXCEPT !.text = @ \o c.text, !.body = @ \o c.body])
      ELSE Append(merged, c)

\* Mutant: the chunks keep the numbers they had before merging.
MergeTinyUnnumbered(cs) == FoldLeft(Merge, <<>>, cs)

MergeTiny(cs) ==
    LET merged == FoldLeft(Merge, <<>>, cs)
    IN  [i \in DOMAIN merged |-> [merged[i] EXCEPT !.ordinal = i - 1]]

ChunkMarkdown(bs) ==
    LET start  == [chunks |-> <<>>, current |-> <<>>, carry |-> <<>>]
        pieces == FlattenSeq([b \in DOMAIN bs |-> Pieces(bs[b])])
    IN  MergeTiny(Emit(FoldLeft(Add, start, pieces)).chunks)

-----------------------------------------------------------------------------
(* Reading the document. *)

Init ==
    /\ markdown = <<>>
    /\ stack = <<>>
    /\ buffer = <<>>
    /\ table_buffer = <<>>
    /\ blocks = <<>>
    /\ chunks = <<>>

Flushed(text, is_table) ==
    IF text = <<>> THEN <<>> ELSE <<Block(text, stack, is_table)>>

\* One line, and what the document would be cut into if it were the last.
Read(line) ==
    /\ Len(markdown) < MaxLines
    /\ markdown' = Append(markdown, line)
    /\ chunks' = ChunkMarkdown(blocks'
          \o (IF buffer' = <<>> THEN <<>> ELSE <<Block(buffer', stack', FALSE)>>)
          \o (IF table_buffer' = <<>> THEN <<>> ELSE <<Block(table_buffer', stack', TRUE)>>))

\* Mutant: deeper levels of the path survive a heading above them.
PushedUncut(path, level, title) ==
    [l \in 1..Max({level, Len(path)}) |-> IF l = level THEN title
                        ELSE IF l <= Len(path) THEN path[l]
                        ELSE NoTitle]

\* The path down to the heading's level, its gaps filled, then its title.
Pushed(path, level, title) ==
    [l \in 1..level |-> IF l = level THEN title
                        ELSE IF l <= Len(path) THEN path[l]
                        ELSE NoTitle]

Heading(line) ==
    /\ line.kind = "heading"
    /\ blocks' = blocks \o Flushed(buffer, FALSE) \o Flushed(table_buffer, TRUE)
    /\ buffer' = <<>>
    /\ table_buffer' = <<>>
    /\ stack' = Pushed(stack, line.level, line.title)
    /\ Read(line)

TableRow(line) ==
    /\ line.kind \in {"row", "separator"}
    /\ blocks' = blocks \o Flushed(buffer, FALSE)
    /\ buffer' = <<>>
    /\ table_buffer' = Append(table_buffer, AtomsOf(Len(markdown) + 1, line))
    /\ UNCHANGED stack
    /\ Read(line)

TextLine(line) ==
    /\ line.kind = "text"
    /\ blocks' = blocks \o Flushed(table_buffer, TRUE)
    /\ table_buffer' = <<>>
    /\ buffer' = Append(buffer, AtomsOf(Len(markdown) + 1, line))
    /\ UNCHANGED stack
    /\ Read(line)

BlankLine(line) ==
    /\ line.kind = "blank"
    /\ blocks' = blocks \o Flushed(table_buffer, TRUE) \o Flushed(buffer, FALSE)
    /\ buffer' = <<>>
    /\ table_buffer' = <<>>
    /\ UNCHANGED stack
    /\ Read(line)

Next ==
    \E line \in Lines :
        Heading(line) \/ TableRow(line) \/ TextLine(line) \/ BlankLine(line)

Spec == Init /\ [][Next]_vars
-----------------------------------------------------------------------------
(* The document seen whole, as a reader sees it. *)

Before(a, b) == a.line < b.line \/ (a.line = b.line /\ a.part < b.part)

IsRow(i) == markdown[i].kind \in {"row", "separator"}

\* The rows above and at line i, without a gap, are one table.
TableStart(i) == Min({j \in 1..i : \A k \in j..i : IsRow(k)})

HeaderLines(i) ==
    LET first == TableStart(i)
    IN  {first} \cup
        {j \in {first + 1} \cap DOMAIN markdown : markdown[j].kind = "separator"}

IsHeader(a) == IsRow(a.line) /\ a.line \in HeaderLines(a.line)

\* A heading holds until one of its level or above it.
InForce(i) ==
    {j \in 1..i : /\ markdown[j].kind = "heading"
                  /\ \A k \in (j + 1)..i :
                        markdown[k].kind = "heading" => markdown[k].level > markdown[j].level}

SectionPath(i) ==
    [l \in 1..Max({markdown[j].level : j \in InForce(i)} \cup {0}) |->
        IF \E j \in InForce(i) : markdown[j].level = l
          THEN markdown[CHOOSE j \in InForce(i) : markdown[j].level = l].title
          ELSE NoTitle]

AllAtoms ==
    UNION {ToSet(AtomsOf(i, markdown[i])) :
             i \in {j \in DOMAIN markdown : markdown[j].kind \notin {"heading", "blank"}}}

Own == FlattenSeq([c \in DOMAIN chunks |-> chunks[c].body])

\* What a heading path may name.
Titles == {line.title : line \in Lines} \cup {NoTitle}

\* Two atoms the chunker may not part: the lines of one sentence, and a row
\* or a separator with its table's header.
KeptTogether(a, b) ==
    \/ a.kind = "text" /\ b.kind = "text" /\ ~a.ends /\ b.line = a.line + 1
    \/ IsRow(b.line) /\ a.line \in HeaderLines(b.line) \ {b.line}

\* Within the target, or with no place to cut.
FitsOrUncuttable(body) ==
    \/ TokensOf(body) <= TARGET_TOKENS
    \/ \A p \in 1..(Len(body) - 1) : KeptTogether(body[p], body[p + 1])

-----------------------------------------------------------------------------
(* Properties. *)

\* The shape of the result.  Heading paths are made of the document's titles.
\* Chunks are numbered from 0 without gaps, as the unique key on (document,
\* ordinal) and the order of a source's excerpts need, and none is empty
\* (chunker.py:109-119, 285-293).
TypeOK ==
    /\ markdown \in Seq(Lines)
    /\ stack \in Seq(Titles)
    /\ buffer = <<>> \/ table_buffer = <<>>
    /\ \A i \in DOMAIN chunks : /\ chunks[i].ordinal = i - 1
                                /\ chunks[i].body # <<>>

\* Nothing of the document is lost, doubled or put in another order: without
\* what is carried over, the chunks in their order are the document, but for
\* the headers that the pieces of a table repeat.  What is carried over comes
\* from the chunk just before (chunker.py:187-236, 260-293).
ChunksAreTheDocument ==
    /\ ToSet(Own) = AllAtoms
    /\ \A q \in DOMAIN Own :
          \/ \A p \in 1..(q - 1) : Before(Own[p], Own[q])
          \/ IsHeader(Own[q]) /\ \E p \in 1..(q - 1) : Own[p] = Own[q]
    /\ \A c \in DOMAIN chunks :
          ToSet(FlattenSeq(chunks[c].text)) \subseteq
             ToSet(chunks[c].body) \cup (IF c = 1 THEN {} ELSE ToSet(chunks[c - 1].body))

\* A citation names the section its text stands in: whatever a chunk has of
\* its own lies under the headings of its heading path, however headings of
\* different levels follow one another and levels are left out
\* (chunker.py:6-7, 17-19, 109-119, 225-230).
CitesItsSection ==
    \A c \in DOMAIN chunks :
        \A a \in ToSet(chunks[c].body) : SectionPath(a.line) = chunks[c].heading_path

\* Rows never stand without their table's header: wherever a table is cut, or
\* its last rows merged back, the chunk that owns a row owns the header too
\* (chunker.py:9-15, 145-170).
RowsKeepTheirHeader ==
    \A c \in DOMAIN chunks :
        \A a \in ToSet(chunks[c].body) :
            IsRow(a.line) =>
                HeaderLines(a.line) \subseteq {b.line : b \in ToSet(chunks[c].body)}

\* What a chunk has of its own fits the target, or there is no place to cut it:
\* it is one sentence, however many lines it runs over, or one row with its
\* header.  A small chunk merged into it may add less than MIN_CHUNK_TOKENS.
\* Sizes are those of the atoms: what joins sentences, rows and blocks comes on
\* top of them, since the running sums leave it out (chunker.py:145-170,
\* 228-232, 239-257, 266-283).
OnlyUncuttableExceedsTarget ==
    \A c \in DOMAIN chunks :
        LET body == chunks[c].body
        IN  \/ FitsOrUncuttable(body)
            \/ \E n \in 2..Len(body) :
                  /\ FitsOrUncuttable(SubSeq(body, 1, n - 1))
                  /\ TokensOf(SubSeq(body, n, Len(body))) < MIN_CHUNK_TOKENS
=============================================================================
