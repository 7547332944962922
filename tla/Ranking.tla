------------------------------- MODULE Ranking -------------------------------
(***************************************************************************)
(* What one search of a workspace serves: the chunks the vector store      *)
(* returns are scored, filtered, boosted by reuse, spread over documents   *)
(* or cut to the limit (services/search.py), and get the chunks around     *)
(* them from PostgreSQL (services/context_window.py).                      *)
(*                                                                         *)
(* Scores are in hundredths.  A chunk is a pair of its document and its    *)
(* chunk_index.  A parameter of the request is chosen at the step that     *)
(* reads it.                                                               *)
(***************************************************************************)
EXTENDS Integers, Sequences, FiniteSets, SequencesExt, FiniteSetsExt

CONSTANTS
    Documents,      \* the documents of the workspace
    Chunks,         \* the chunks the vector store holds: <<document, index>>
    Rows,           \* the chunks PostgreSQL holds; a chunk edit in progress
                    \* or a lost write makes the two differ
    Scores,         \* the similarities the vector store reports
    ReuseCount(_),  \* how often the passage of a chunk was found elsewhere
    Limits,         \* the limits a request asks for
    FetchMost,      \* the most hits one query asks for (100 in the code)
    Weights,        \* WORKSPACE_REUSE_BOOST of the workspace, 0 when unset
    Windows,        \* values of context_window
    LongestAnswer   \* bound of the model on the length of an answer

ASSUME RankingAssumption ==
    /\ Chunks \subseteq Documents \X Nat
    /\ Rows \subseteq Documents \X Nat
    /\ Scores \subseteq 0..100
    /\ Limits \subseteq Nat \ {0} /\ FetchMost \in Nat
    /\ Weights \subseteq Nat /\ Windows \subseteq Nat /\ LongestAnswer \in Nat
    /\ \A c \in Chunks : ReuseCount(c) \in Nat

VARIABLES
    rankStep,     \* the step the search is at
    rankRequest,  \* limit, min_score, document_ids, and whether diversification is on
    hits,         \* the results so far, best first
    candidates,   \* what the results were before the cut to the limit
    context       \* for each result, the chunks before and after it

rankVars == <<rankStep, rankRequest, hits, candidates, context>>

-----------------------------------------------------------------------------
NoContext == "none"

(* The members of S in the order of the pairs "before", and what a list has at
   its places K in such an order. *)
Less(S) == { p \in S \X S : p[1] < p[2] }
PlaceIn(S, before, x) == 1 + Cardinality({ y \in S : <<y, x>> \in before })
Sorted(S, before) ==
    [n \in 1..Cardinality(S) |-> CHOOSE x \in S : PlaceIn(S, before, x) = n]
Arranged(list, K, before) ==
    LET order == Sorted(K, before) IN [n \in DOMAIN order |-> list[order[n]]]

(* fetch_limit: filters that are applied after the answer over-fetch. *)
FetchLimit(r) ==
    LET needed == IF r.minScore > 0 \/ r.documents # Documents
                  THEN Min({FetchMost, 3 * r.limit}) ELSE r.limit
    IN  IF r.diversify THEN Max({needed, Min({FetchMost, 3 * r.limit})}) ELSE needed

(* An answer of the vector store: at most n distinct chunks, the most similar
   first. The where clause matches tokens of document_id, so an answer may hold
   chunks of documents the request did not name. *)
Answers(n) ==
    { a \in SeqOf(Chunks \X Scores, Min({n, LongestAnswer})) :
        \A i, j \in DOMAIN a : i < j => a[i][1] # a[j][1] /\ a[i][2] >= a[j][2] }

(* A vector query answers with certainty and distance, the others with score. *)
ScoreOf(answer) ==
    IF answer.score > 0 THEN answer.score
    ELSE IF answer.certainty > 0 THEN answer.certainty
    ELSE IF answer.distance > 0 THEN Max({0, 100 - answer.distance \div 2})
    ELSE 0

Reported(similarity, vector) ==
    IF vector THEN [score |-> 0, certainty |-> similarity, distance |-> 200 - 2 * similarity]
    ELSE [score |-> similarity, certainty |-> 0, distance |-> 0]

Hit(entry, vector) ==
    [doc |-> entry[1][1], index |-> entry[1][2], reuse |-> ReuseCount(entry[1]),
     score |-> ScoreOf(Reported(entry[2], vector))]

Kept(r, h) == h.score >= r.minScore /\ h.doc \in r.documents

(* log1p of 1, 2, 3 and of anything larger, in hundredths. *)
Log1p(n) == <<69, 110, 139, 161>>[Min({n, 4})]

BoostCap == 150

Multiplier(count, weight) ==
    IF count <= 0 \/ weight <= 0 THEN 100
    ELSE Min({BoostCap, 100 + (weight * Log1p(count)) \div 100})

(* A stable sort by boosted score, highest first; no override, no sort. *)
Scaled(h, weight) == [h EXCEPT !.score = (@ * Multiplier(h.reuse, weight)) \div 100]
Boosted(hs, weight) ==
    LET scaled == [i \in DOMAIN hs |-> Scaled(hs[i], weight)]
        better == { p \in (DOMAIN hs) \X (DOMAIN hs) :
                      \/ scaled[p[1]].score > scaled[p[2]].score
                      \/ scaled[p[1]].score = scaled[p[2]].score /\ p[1] < p[2] }
    IN  IF weight <= 0 THEN hs ELSE Arranged(scaled, DOMAIN hs, better)

-----------------------------------------------------------------------------
(* The results of a document, best first, and the round of a result: how many
   of its document come up to it.  A round takes one result of each document
   that still has one, in the order in which the documents first occur. *)
Bucket(hs, d) == { i \in DOMAIN hs : hs[i].doc = d }
Round(hs, i) == Cardinality({ j \in Bucket(hs, hs[i].doc) : j <= i })
DocOrder(hs, i) == Min(Bucket(hs, hs[i].doc))
TakenBefore(hs) ==
    { p \in (DOMAIN hs) \X (DOMAIN hs) :
        \/ Round(hs, p[1]) < Round(hs, p[2])
        \/ Round(hs, p[1]) = Round(hs, p[2]) /\ DocOrder(hs, p[1]) < DocOrder(hs, p[2]) }

Prefix(s, n) == SubSeq(s, 1, Min({n, Len(s)}))

Diversified(hs, limit) ==
    IF Len(hs) <= limit THEN hs
    ELSE Prefix(Arranged(hs, DOMAIN hs, TakenBefore(hs)), limit)

-----------------------------------------------------------------------------
(* The windows of a document's results, as sorted spans of indices. *)
Spans(hs, d, k) ==
    LET indices == { hs[i].index : i \in Bucket(hs, d) }
        sorted == Sorted(indices, Less(indices))
    IN  [i \in DOMAIN sorted |-> [lo |-> Max({0, sorted[i] - k}), hi |-> sorted[i] + k]]

\* Mutant: a merged range keeps the end of its first span.
AbsorbFirst(merged, span) ==
    LET n == Len(merged)
    IN  IF n > 0 /\ span.lo <= merged[n].hi + 1 THEN merged ELSE Append(merged, span)

(* Overlapping and adjacent spans become one. *)
Absorb(merged, span) ==
    LET n == Len(merged)
    IN  IF n > 0 /\ span.lo <= merged[n].hi + 1
        THEN [merged EXCEPT ![n].hi = Max({@, span.hi})]
        ELSE Append(merged, span)

ComputeRanges(hs, d, k) ==
    LET spans == Spans(hs, d, k)
        merged[n \in 0..Len(spans)] ==
            IF n = 0 THEN <<>> ELSE Absorb(merged[n - 1], spans[n])
    IN  merged[Len(spans)]

(* get_context_chunks: the rows inside one of the ranges of their document. *)
ContextChunks(hs, k) ==
    { row \in Rows : \E i \in DOMAIN ComputeRanges(hs, row[1], k) :
        LET range == ComputeRanges(hs, row[1], k)[i]
        IN  row[2] \in range.lo..range.hi }

AssignWindows(hs, rows, k) ==
    [i \in DOMAIN hs |->
        [before |-> { r \in rows : r[1] = hs[i].doc /\ r[2] \in (hs[i].index - k)..(hs[i].index - 1) },
         after  |-> { r \in rows : r[1] = hs[i].doc /\ r[2] \in (hs[i].index + 1)..(hs[i].index + k) }]]

-----------------------------------------------------------------------------
RankRequests ==
    [limit : Limits, minScore : {0, 50}, diversify : BOOLEAN,
     documents : {Documents} \cup { {d} : d \in Documents }]

RankInit ==
    /\ rankStep = "idle"
    /\ rankRequest \in RankRequests
    /\ hits = <<>> /\ candidates = <<>> /\ context = NoContext

(* The answer of the vector store, scored and filtered. *)
ReadAnswer ==
    /\ rankStep = "idle"
    /\ \E a \in Answers(FetchLimit(rankRequest)), vector \in BOOLEAN :
         LET scored == [i \in DOMAIN a |-> Hit(a[i], vector)]
             kept == { i \in DOMAIN a : Kept(rankRequest, scored[i]) }
         IN  hits' = Arranged(scored, kept, Less(kept))
    /\ rankStep' = "read"
    /\ UNCHANGED <<rankRequest, candidates, context>>

ApplyReuseBoost ==
    /\ rankStep = "read"
    /\ \E weight \in Weights : candidates' = Boosted(hits, weight)
    /\ rankStep' = "boosted"
    /\ UNCHANGED <<rankRequest, hits, context>>

CutToLimit ==
    /\ rankStep = "boosted"
    /\ hits' = IF rankRequest.diversify THEN Diversified(candidates, rankRequest.limit)
               ELSE Prefix(candidates, rankRequest.limit)
    /\ rankStep' = "served"
    /\ UNCHANGED <<rankRequest, candidates, context>>

(* expand: PostgreSQL may fail, the results are served without context then. *)
Expand ==
    /\ rankStep = "served"
    /\ hits # <<>>
    /\ \E k \in Windows :
         \/ /\ context' = AssignWindows(hits, IF k = 0 THEN {} ELSE ContextChunks(hits, k), k)
            /\ rankStep' = "expanded"
         \/ k > 0 /\ context' = NoContext /\ rankStep' = "expansion_failed"
    /\ UNCHANGED <<rankRequest, hits, candidates>>

RankNext == ReadAnswer \/ ApplyReuseBoost \/ CutToLimit \/ Expand

RankSpec == RankInit /\ [][RankNext]_rankVars

-----------------------------------------------------------------------------
(* No result carries a document the request did not name or a score below the
   one it asked for, whatever the vector store's filter let through, and never
   more than the limit: the types of what a search serves. *)
RankTypeOK ==
    /\ rankStep \in {"idle", "read", "boosted", "served", "expanded", "expansion_failed"}
    /\ \A i \in DOMAIN hits : /\ <<hits[i].doc, hits[i].index>> \in Chunks
                              /\ hits[i].doc \in rankRequest.documents
                              /\ hits[i].score >= rankRequest.minScore
    /\ rankStep \in {"served", "expanded"} => Len(hits) <= rankRequest.limit

(* reuse_boost.py: a bounded boost never lets a barely relevant chunk pass a
   highly relevant one: of two results as the store scored them, the one more
   than half better again stays ahead. *)
SameChunk(h, g) == h.doc = g.doc /\ h.index = g.index
BoostIsBounded ==
    rankStep = "boosted" =>
        \A i, j \in DOMAIN hits :
            2 * hits[i].score > 3 * hits[j].score =>
                LET At(h) == CHOOSE n \in DOMAIN candidates : SameChunk(candidates[n], h)
                IN  At(hits[i]) < At(hits[j])

Served(d) == Cardinality(Bucket(hits, d))

(* _diversify_by_document: the limit is spread over the documents. A document
   gets a second place only when every document that still has a candidate has
   its first, no candidate is served before a better one of its document, the
   very best one of all is still the first, and no place is left empty. *)
SpreadOverDocuments ==
    rankStep = "served" /\ rankRequest.diversify =>
        /\ \A d, e \in Documents :
             Served(e) < Cardinality(Bucket(candidates, e)) => Served(d) <= Served(e) + 1
        /\ \A n \in DOMAIN hits : \E j \in DOMAIN candidates :
             /\ hits[n] = candidates[j]
             /\ \A i \in Bucket(candidates, hits[n].doc) :
                  i < j => \E m \in 1..(n - 1) : hits[m] = candidates[i]
        /\ Len(hits) = Min({rankRequest.limit, Len(candidates)})
        /\ hits # <<>> => hits[1] = candidates[1]

(* context_window.py: the rows of all results are fetched in one query over
   merged ranges. Each result still gets exactly the rows of its own document
   within some k of it, without itself. *)
WindowsExact ==
    rankStep = "expanded" =>
        \E k \in Windows : \A i \in DOMAIN hits :
            context[i].before \cup context[i].after =
                { r \in Rows : /\ r[1] = hits[i].doc
                               /\ r[2] \in (hits[i].index - k)..(hits[i].index + k)
                               /\ r[2] # hits[i].index }

(* No row is asked for twice, and two ranges of a document never touch. *)
RangesApart ==
    rankStep = "served" =>
        \A d \in Documents, k \in Windows \ {0} :
            LET ranges == ComputeRanges(hits, d, k)
            IN  \A i, j \in DOMAIN ranges : i < j => ranges[i].hi + 1 < ranges[j].lo

(* What a search of a workspace serves, before and after the cut to the limit,
   and the context it serves with it. *)
RankingSound ==
    RankTypeOK /\ BoostIsBounded /\ SpreadOverDocuments /\ WindowsExact /\ RangesApart
=============================================================================
