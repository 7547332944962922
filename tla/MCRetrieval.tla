---------------------------- MODULE MCRetrieval ----------------------------
(***************************************************************************)
(* Model checking of the way of a document's text: extracted, split, found *)
(* and read.  The five components share no state, so a behaviour plays one *)
(* scene and leaves the others where they are.                             *)
(***************************************************************************)
EXTENDS Extraction, Chunking, Ranking, SearchFlow, ContextPages

VARIABLE scene

mcVars == <<extractionVars, chunkingVars, rankVars, flowVars, pageVars, scene>>

(* Chunks of three documents with gaps between them, and all their rows. *)
MCChunks == {<<"a", 0>>, <<"a", 1>>, <<"a", 4>>, <<"b", 0>>, <<"b", 3>>, <<"c", 2>>}
MCRows == {"a", "b", "c"} \X (0..4)
MCReuseCount(c) == IF c[1] = "a" THEN 0 ELSE c[2]

(* A scene that is not played rests in one of its initial states. *)
ExtractionRests ==
    /\ file = [format |-> "txt", declared |-> "txt", extension |-> "txt", intact |-> TRUE,
               gated |-> TRUE, items |-> <<>>]
    /\ gate = "none" /\ storedType = "unknown" /\ exStep = "gate" /\ attempt = 0
    /\ extractor = NoSpec /\ position = 0 /\ texts = <<>> /\ charTotal = 0 /\ unchecked = 0
    /\ failures = <<>> /\ staged = <<>>

SplitRests ==
    /\ request = [strategy |-> "none", pack |-> FALSE, hint |-> "none", setting |-> "tokens"]
    /\ chars = <<>> /\ units = <<>> /\ budget = Max(TokenBudgets) /\ limit = CharCap(budget)
    /\ overlap = 0 /\ splitter = "none" /\ at = 0 /\ group = <<>> /\ size = 0
    /\ hasContext = FALSE /\ heading = 0 /\ header = 0 /\ open = [l \in 1..3 |-> 0]
    /\ pieces = <<>>

RankRests ==
    /\ rankRequest = [limit |-> Max(Limits), minScore |-> 0, diversify |-> FALSE,
                      documents |-> Documents]
    /\ rankStep = "idle" /\ hits = <<>> /\ candidates = <<>> /\ context = NoContext

FlowRests == stamp = [w \in SearchWorkspaces |-> "same"] /\ FlowInit

PagesRest ==
    /\ sizes = <<>> /\ pageSize = Max(PageSizes) /\ nextOffset = 0
    /\ reads = <<>> /\ seenChunks = {} /\ edited = FALSE

MCInit ==
    \/ scene = "extract" /\ ExtractionInit /\ SplitRests /\ RankRests /\ FlowRests /\ PagesRest
    \/ scene = "split" /\ ExtractionRests /\ SplitInit /\ RankRests /\ FlowRests /\ PagesRest
    \/ scene = "rank" /\ ExtractionRests /\ SplitRests /\ RankInit /\ FlowRests /\ PagesRest
    \/ scene = "search" /\ ExtractionRests /\ SplitRests /\ RankRests /\ FlowInit /\ PagesRest
    \/ scene = "pages" /\ ExtractionRests /\ SplitRests /\ RankRests /\ FlowRests /\ PagesInit

MCNext ==
    /\ UNCHANGED scene
    /\ \/ /\ scene = "extract" /\ ExtractionNext
          /\ UNCHANGED <<chunkingVars, rankVars, flowVars, pageVars>>
       \/ /\ scene = "split" /\ SplitNext
          /\ UNCHANGED <<extractionVars, rankVars, flowVars, pageVars>>
       \/ /\ scene = "rank" /\ RankNext
          /\ UNCHANGED <<extractionVars, chunkingVars, flowVars, pageVars>>
       \/ /\ scene = "search" /\ FlowNext
          /\ UNCHANGED <<extractionVars, chunkingVars, rankVars, pageVars>>
       \/ /\ scene = "pages" /\ PagesNext
          /\ UNCHANGED <<extractionVars, chunkingVars, rankVars, flowVars>>

MCSpec == MCInit /\ [][MCNext]_mcVars
=============================================================================
