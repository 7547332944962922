----------------------------- MODULE ContextPages -----------------------------
(***************************************************************************)
(* Reading a document page by page (models/document.py:                    *)
(* windowed_document_context, served by api/v1/chunks.py and the MCP tool  *)
(* get_context).  Each call re-reads the chunks and joins them with two    *)
(* characters between; a reader follows next_offset.  Between two calls a  *)
(* chunk may be edited or added.                                           *)
(***************************************************************************)
EXTENDS Integers, Sequences, FiniteSets, SequencesExt, FiniteSetsExt

CONSTANTS
    ChunkSizes,  \* lengths of a chunk's content, 0 included
    MostChunks,  \* bound of the model on the chunks of a document
    PageSizes,   \* values of max_chars
    FirstOffsets \* offsets a reader starts from

ASSUME ContextPagesAssumption ==
    /\ ChunkSizes \subseteq Nat
    /\ PageSizes \subseteq Nat \ {0}
    /\ FirstOffsets \subseteq Nat

VARIABLES
    sizes,       \* the lengths of the document's chunks, in order
    pageSize,    \* max_chars of the reader
    nextOffset,  \* what the reader asks for next, or Finished
    reads,       \* the windows it was given: <<offset, window_end>>
    seenChunks,  \* the positions of the chunks it was given
    edited       \* whether the document changed while it was read

pageVars == <<sizes, pageSize, nextOffset, reads, seenChunks, edited>>

Finished == -1
JoinGap == 2

-----------------------------------------------------------------------------
(* Where chunk i starts and ends in the joined text, and how long that is. *)
ChunkStart(s, i) ==
    LET pos[j \in 1..Len(s)] == IF j = 1 THEN 0 ELSE pos[j - 1] + s[j - 1] + JoinGap
    IN  pos[i]
ChunkEnd(s, i) == ChunkStart(s, i) + s[i]
TotalChars(s) == IF s = <<>> THEN 0 ELSE ChunkEnd(s, Len(s))

WindowEnd(s, offset, size) == Min({offset + size, TotalChars(s)})

\* Mutant: the next page begins one character late.
FollowingPastSeparator(s, end) == IF end < TotalChars(s) THEN end + 1 ELSE Finished

Following(s, end) == IF end < TotalChars(s) THEN end ELSE Finished

Overlaps(s, i, offset, end) == ChunkEnd(s, i) > offset /\ ChunkStart(s, i) < end

-----------------------------------------------------------------------------
PagesInit ==
    /\ sizes \in SeqOf(ChunkSizes, MostChunks)
    /\ pageSize \in PageSizes
    /\ nextOffset \in FirstOffsets
    /\ reads = <<>> /\ seenChunks = {} /\ edited = FALSE

ReadPage ==
    /\ nextOffset # Finished
    /\ LET offset == Min({nextOffset, TotalChars(sizes)})
           end == WindowEnd(sizes, offset, pageSize)
       IN  /\ nextOffset' = Following(sizes, end)
           /\ reads' = Append(reads, <<offset, end>>)
           /\ seenChunks' = seenChunks \cup { i \in DOMAIN sizes : Overlaps(sizes, i, offset, end) }
    /\ UNCHANGED <<sizes, pageSize, edited>>

(* A chunk is edited, or one is added at the end, between two calls. *)
EditBetweenPages ==
    /\ reads # <<>> /\ nextOffset # Finished /\ ~edited
    /\ \/ \E i \in DOMAIN sizes, n \in ChunkSizes : sizes' = [sizes EXCEPT ![i] = n]
       \/ Len(sizes) < MostChunks /\ \E n \in ChunkSizes : sizes' = Append(sizes, n)
    /\ edited' = TRUE
    /\ UNCHANGED <<pageSize, nextOffset, reads, seenChunks>>

PagesNext == ReadPage \/ EditBetweenPages

PagesSpec == PagesInit /\ [][PagesNext]_pageVars

-----------------------------------------------------------------------------
(* The types; and a page never holds more than max_chars characters. *)
PagesTypeOK ==
    /\ sizes \in Seq(ChunkSizes) /\ pageSize \in PageSizes
    /\ nextOffset \in Nat \cup {Finished}
    /\ \A i \in DOMAIN reads : reads[i][2] - reads[i][1] \in 0..pageSize
    /\ edited \in BOOLEAN

(* A reader who follows next_offset through an unchanged document reads every
   character from where it began exactly once, up to the last. *)
PagesTile ==
    ~edited /\ reads # <<>> =>
        /\ \A i \in 1..(Len(reads) - 1) : reads[i + 1][1] = reads[i][2]
        /\ nextOffset = Finished => Last(reads)[2] = TotalChars(sizes)

(* #219: the chunks are windowed like the text: when the reader is through, it
   was given every chunk that has a character after the offset it began at. *)
ChunksOfEveryPage ==
    ~edited /\ nextOffset = Finished =>
        \A i \in DOMAIN sizes :
            sizes[i] > 0 /\ ChunkEnd(sizes, i) > Head(reads)[1] => i \in seenChunks

(* A reader gets the whole document: every character once and every chunk. *)
PagesComplete == PagesTypeOK /\ PagesTile /\ ChunksOfEveryPage
=============================================================================
