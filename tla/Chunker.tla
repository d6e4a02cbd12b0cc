------------------------------- MODULE Chunker -------------------------------
(***************************************************************************)
(* TextChunker: markdown_blocks cuts a document into blocks under their    *)
(* headings, chunk_document packs blocks into chunks of at most max_chars  *)
(* and cuts a longer block into windows that overlap.  Each action is one  *)
(* round of one of the loops, and the variables are their locals.          *)
(*                                                                         *)
(* A text is a sequence of characters, and a character its position in the *)
(* document, 1, 2, ...: where it comes from is all the properties need.    *)
(* Space is white space, which strip() removes and the joins insert.  The  *)
(* char_start and char_end of a chunk and the metadata copied from the     *)
(* document are left out, and so is last_heading_path, which is that of    *)
(* the current chunk.                                                      *)
(***************************************************************************)
EXTENDS Integers, Sequences, FiniteSets

CONSTANTS
    MaxChars,    \* TextChunker.max_chars
    Overlap,     \* TextChunker.overlap_chars
    LineKinds,   \* the lines documents are made of, see Line
    MaxLines     \* bound: lines of a document

ASSUME ChunkerAssumption ==
    MaxChars \in Nat \ {0} /\ Overlap \in 0..(MaxChars - 1) /\ MaxLines \in Nat

VARIABLES
    at,                    \* which of the two functions runs
    document,              \* auxiliary: the lines read so far, with their text
    position,              \* the characters in them, one more for each line's end
    heading_stack,         \* see PushHeading
    current_lines,         \* the lines of the block being read, by number
    text,                  \* those lines, joined
    block_path,            \* current_heading_path of markdown_blocks
    blocks,                \* the blocks read, and not yet in chunks
    current,               \* the text of the chunk that is being filled
    current_heading_path,  \* that of chunk_document
    chunks                 \* the chunks so far

blockVars == <<document, position, heading_stack, current_lines, text, block_path>>
chunkVars == <<current, current_heading_path, chunks>>
chunkerVars == <<at, blocks, blockVars, chunkVars>>

Space == 0

\* Mutant: the next window starts where the last one ended, and one further.
Step_Gap == MaxChars + 1

Step == MaxChars - Overlap

\* A heading "## title" has a level and a title, length is the title's; a bare
\* mark "##" is no heading.  No line has white space at an end, so that flush
\* has none to strip off.
Line ==
    [kind : {"heading"}, level : 1..6, length : Nat \ {0}]
      \cup [kind : {"text"}, level : {0}, length : Nat \ {0}]
      \cup [kind : {"mark"}, level : {0}, length : 1..6]
      \cup [kind : {"blank"}, level : {0}, length : {0}]

ASSUME LinesAssumption == LineKinds \subseteq Line

ChunkerInit ==
    /\ at = "markdown_blocks"
    /\ document = << >> /\ position = 0
    /\ heading_stack = << >> /\ block_path = << >>
    /\ current_lines = << >> /\ text = << >>
    /\ blocks = << >>
    /\ current = << >> /\ current_heading_path = << >>
    /\ chunks = << >>

-----------------------------------------------------------------------------
(* Texts.                                                                  *)

Length(line) == IF line.kind = "heading" THEN line.level + 1 + line.length ELSE line.length

\* In a heading the character after the number signs is white space.
LineText(line) ==
    [c \in 1..Length(line) |->
       IF line.kind = "heading" /\ c = line.level + 1 THEN Space ELSE position + c]

Joined(a, gap, b) == IF a = << >> THEN b ELSE a \o gap \o b

\* str.strip()
Strip(s) ==
    LET solid == {i \in DOMAIN s : s[i] # Space} IN
    IF solid = {} THEN << >>
    ELSE SubSeq(s, CHOOSE i \in solid : \A j \in solid : i <= j,
                   CHOOSE i \in solid : \A j \in solid : j <= i)

-----------------------------------------------------------------------------
(* markdown_blocks.                                                        *)

\* The stack has one heading of a level at most and levels grow along it: it is
\* the function from its levels to headings, and a heading_path is the same.
\* Titles are told apart by their line.
PushHeading(level, i) ==
    [n \in {m \in DOMAIN heading_stack : m < level} \cup {level} |->
       IF n = level THEN i ELSE heading_stack[n]]

\* HEADING_PATTERN on the joined lines: a heading, or a bare mark with exactly
\* one line after it, whose line end the pattern takes for its white space.
is_heading_only ==
    \/ Len(current_lines) = 1 /\ document[current_lines[1]].kind = "heading"
    \/ Len(current_lines) = 2 /\ document[current_lines[1]].kind = "mark"

\* flush: a block of the lines, unless it is a heading and nothing more.
Flushed ==
    IF current_lines = << >> \/ is_heading_only THEN blocks
    ELSE Append(blocks, [text |-> text, heading_path |-> block_path])

NextLine == Len(document) + 1

Read(line) ==
    /\ at = "markdown_blocks" /\ Len(document) < MaxLines
    /\ document' = Append(document, [kind |-> line.kind, level |-> line.level,
                                     text |-> LineText(line)])
    /\ position' = position + Length(line) + 1
    /\ UNCHANGED <<at, chunkVars>>

read_heading(line) ==
    /\ line.kind = "heading"
    /\ Read(line)
    /\ blocks' = Flushed
    /\ heading_stack' = PushHeading(line.level, NextLine)
    /\ block_path' = heading_stack'
    /\ current_lines' = << NextLine >> /\ text' = LineText(line)

read_blank(line) ==
    /\ line.kind = "blank"
    /\ Read(line)
    /\ blocks' = Flushed
    /\ block_path' = heading_stack
    /\ current_lines' = << >> /\ text' = << >>
    /\ UNCHANGED heading_stack

read_text(line) ==
    /\ line.kind \in {"text", "mark"}
    /\ Read(line)
    /\ block_path' = IF current_lines = << >> THEN heading_stack ELSE block_path
    /\ current_lines' = Append(current_lines, NextLine)
    /\ text' = Joined(text, << Space >>, LineText(line))
    /\ UNCHANGED <<blocks, heading_stack>>

end_of_content ==
    /\ at = "markdown_blocks"
    /\ at' = "chunk_document"
    /\ blocks' = Flushed
    /\ current_lines' = << >> /\ text' = << >>
    /\ UNCHANGED <<document, position, heading_stack, block_path, chunkVars>>

-----------------------------------------------------------------------------
(* chunk_document.                                                         *)

Chunk(content) == [content |-> content, heading_path |-> current_heading_path]

\* The chunks with the current one, if there is any.
Closed == IF current = << >> THEN chunks ELSE Append(chunks, Chunk(current))

\* The while loop over a block longer than max_chars is not being run.
Packing == at = "chunk_document" /\ Len(current) <= MaxChars

\* Mutant: a change of heading does not end the chunk.
NewSection_Never(block) == FALSE

NewSection(block) == current # << >> /\ block.heading_path # current_heading_path

\* What the block is to follow in its chunk.
Before(block) == IF NewSection(block) THEN << >> ELSE current

Proposed(block) == Joined(Before(block), << Space, Space >>, block.text)

TakeBlock(block) ==
    /\ Packing
    /\ blocks # << >> /\ block = Head(blocks)
    /\ blocks' = Tail(blocks)
    /\ UNCHANGED <<at, blockVars>>

add_block(block) ==
    /\ TakeBlock(block)
    /\ Len(Proposed(block)) <= MaxChars
    /\ chunks' = IF NewSection(block) THEN Closed ELSE chunks
    /\ current' = Proposed(block)
    /\ current_heading_path' = IF Before(block) = << >> THEN block.heading_path
                               ELSE current_heading_path

open_block(block) ==
    /\ TakeBlock(block)
    /\ Len(Proposed(block)) > MaxChars
    /\ chunks' = Closed
    /\ current' = block.text
    /\ current_heading_path' = block.heading_path

cut_window ==
    /\ at = "chunk_document" /\ Len(current) > MaxChars
    /\ chunks' = Append(chunks, Chunk(Strip(SubSeq(current, 1, MaxChars))))
    /\ current' = Strip(SubSeq(current, Step + 1, Len(current)))
    /\ UNCHANGED <<at, blocks, blockVars, current_heading_path>>

end_of_blocks ==
    /\ Packing
    /\ blocks = << >>
    /\ at' = "done"
    /\ chunks' = Closed
    /\ current' = << >>
    /\ UNCHANGED <<blocks, blockVars, current_heading_path>>

-----------------------------------------------------------------------------
ChunkerNext ==
    \/ \E line \in LineKinds : read_heading(line) \/ read_blank(line) \/ read_text(line)
    \/ end_of_content
    \/ blocks # << >> /\ (add_block(Head(blocks)) \/ open_block(Head(blocks)))
    \/ cut_window \/ end_of_blocks

ChunkerSpec == ChunkerInit /\ [][ChunkerNext]_chunkerVars

-----------------------------------------------------------------------------
(* Properties.                                                             *)

Solid(s) == {s[i] : i \in DOMAIN s} \ {Space}

\* The lines of a document that are dropped: a bare mark and the one after it.
Dropped(lines, i) ==
    /\ lines[i].kind = "text"
    /\ i > 1 /\ lines[i - 1].kind = "mark"
    /\ i > 2 => lines[i - 2].kind = "blank"
    /\ i < Len(lines) => lines[i + 1].kind \in {"heading", "blank"}

\* What a chunk may be: white space at neither end, no longer than max_chars,
\* and its characters in the order of the document, none twice.
WellCut(s) ==
    /\ s # << >> /\ Len(s) <= MaxChars
    /\ s = Strip(s)
    /\ \A i, j \in DOMAIN s : i < j /\ Space \notin {s[i], s[j]} => s[i] < s[j]

\* The solid characters of b that come after all those of a.
Beyond(b, a) == {c \in Solid(b) : \A d \in Solid(a) : d < c}

\* What a chunk b may be after a chunk a: it goes on where that one ends, and
\* may begin with a little of its end.
Follows(b, a) ==
    /\ Step > 1 => Beyond(b, a) # {}
    /\ Solid(b) \subseteq Solid(a) \cup Beyond(b, a)
    /\ Cardinality(Solid(a) \cap Solid(b)) <= Overlap

Contents == UNION {Solid(chunks[k].content) : k \in DOMAIN chunks}

\* No text is lost, repeated or moved on the way into the chunks: every
\* character of a text line is in some chunk, no chunk exceeds max_chars, each
\* chunk reads forward and (windows being more than a character apart) goes
\* beyond the last, and only the windows of one block share text, at most
\* overlap_chars of it.  (The joins, the windows and their strip(), the flushes
\* of markdown_blocks.)
ChunksCoverText ==
    /\ at = "done" =>
         \A i \in DOMAIN document :
            document[i].kind = "text" /\ ~Dropped(document, i) =>
              Solid(document[i].text) \subseteq Contents
    /\ \A k \in DOMAIN chunks : WellCut(chunks[k].content)
    /\ \A k \in 1..(Len(chunks) - 1) : Follows(chunks[k + 1].content, chunks[k].content)

\* The heading of line i is in force at line k: no heading of its level or a
\* higher one stands between them.
InForce(lines, i, k) ==
    /\ i <= k /\ lines[i].kind = "heading"
    /\ \A j \in (i + 1)..k : lines[j].kind = "heading" => lines[j].level > lines[i].level

\* The path has, by their levels, the headings in force at line k.
HeadingsAt(lines, path, k) ==
    /\ \A n \in DOMAIN path :
         path[n] \in DOMAIN lines /\ InForce(lines, path[n], k) /\ lines[path[n]].level = n
    /\ \A h \in DOMAIN lines : InForce(lines, h, k) => \E n \in DOMAIN path : path[n] = h
    /\ \A m, n \in DOMAIN path : m < n => path[m] < path[n]

\* It has them at every line that some of the text is from.
Under(lines, s, path) ==
    \A i \in DOMAIN lines :
       Solid(s) \cap Solid(lines[i].text) # {} => HeadingsAt(lines, path, i)

\* A chunk's heading_path names exactly the headings in force at every one of
\* its lines, outermost first, so that no text is cited under another section.
\* (The stack of markdown_blocks, the chunk ended by a change of heading.)
ChunksUnderTheirHeadings ==
    \A k \in DOMAIN chunks : Under(document, chunks[k].content, chunks[k].heading_path)
=============================================================================
