------------------------------ MODULE SearchFlow ------------------------------
(***************************************************************************)
(* A search request from its first retrieval to its response: the search   *)
(* of each workspace with its check of the embedding model, the merge, the *)
(* quality gate and its one fallback (api/v1/search.py, services/          *)
(* search.py, services/quality_gate.py), and the MCP tool's own loop       *)
(* (mcp_server/server.py).  What one workspace's search serves is chosen   *)
(* freely here; how it is computed is module Ranking.                      *)
(*                                                                         *)
(* A service answers one request after another and keeps, between them,    *)
(* the set of collections whose model it has checked.                      *)
(***************************************************************************)
EXTENDS Integers, Sequences, FiniteSets, SequencesExt, FiniteSetsExt

CONSTANTS
    SearchWorkspaces,  \* the caller's workspaces, as numbers
    HitScores,         \* scores of results, in hundredths
    AskedLimits,       \* limits a request asks for
    LargestLimit,      \* what a broadened limit is capped at (100 in the code)
    Concurrency,       \* search_max_workspace_concurrency
    MaxSearches        \* bound of the model: requests served

ASSUME SearchFlowAssumption ==
    /\ SearchWorkspaces \subseteq Nat \ {0} /\ SearchWorkspaces # {}
    /\ IsFiniteSet(SearchWorkspaces)
    /\ HitScores \subseteq Nat
    /\ AskedLimits \subseteq 1..LargestLimit /\ AskedLimits # {} /\ LargestLimit \in Nat
    /\ Concurrency \in Nat \ {0}

VARIABLES
    searchPhase,      \* where the request is
    wanted,            \* the request: surface, one workspace or all, mode, limit, min_score
    current,          \* the request as the retrieval at hand runs it
    tasks,            \* for each workspace, how far its search is
    found,            \* for each workspace, the results of its search
    response,         \* what the caller gets
    identityChecked,  \* _identity_checked: collections taken to match
    stamp,            \* the model each collection says it was built with
    unguarded,        \* history: collections searched unstamped or unread
    searches          \* requests begun

flowVars == <<searchPhase, wanted, current, tasks, found, response, identityChecked, stamp,
              unguarded, searches>>

-----------------------------------------------------------------------------
NoResponse == [status |-> "none", results |-> <<>>, verdict |-> "none", mode |-> "none",
               fallback |-> FALSE, sources |-> [w \in SearchWorkspaces |-> <<>>], limit |-> 0]

NoTasks == [w \in SearchWorkspaces |-> "none"]
NothingFound == [w \in SearchWorkspaces |-> <<>>]

(* "one": REST with its workspace resolved; "all": REST over every workspace of
   the caller; "mcp": the tool, over one or all. *)
Surfaces == {"one", "all", "mcp"}

FlowRequests ==
    [surface : Surfaces, mode : {"hybrid", "keyword"}, limit : AskedLimits,
     minScore : {0, 50}, scope : (SUBSET SearchWorkspaces) \ {{}}]

(* The lists of at most n results of workspace w, best first. *)
ResultLists(w, r) ==
    LET Descending(n) == { s \in [1..n -> HitScores] :
                          \A i \in 1..n : s[i] >= r.minScore /\ (i > 1 => s[i - 1] >= s[i]) }
    IN  UNION { { [i \in 1..n |-> [id |-> LargestLimit * w + i, score |-> s[i]]] : s \in Descending(n) } :
                n \in 0..r.limit }

(* _top_score and evaluate. *)
Threshold == 50
MinSufficient == 2

Evaluate(results) ==
    IF results = <<>> THEN "insufficient_evidence"
    ELSE IF Max({ results[i].score : i \in DOMAIN results }) < Threshold THEN "low_confidence"
    ELSE IF Len(results) < MinSufficient THEN "insufficient_evidence"
    ELSE "sufficient"

(* The request of the one fallback, or the same request when there is none. *)
FallbackRequest(r, verdict) ==
    CASE verdict = "low_confidence" -> [r EXCEPT !.mode = "keyword"]
      [] verdict = "insufficient_evidence" ->
            [r EXCEPT !.minScore = 0, !.limit = Min({2 * @, LargestLimit})]
      [] OTHER -> r

(* merged.sort(key=(-score, chunk_id, document_id)). *)
Before(a, b) == a.score > b.score \/ (a.score = b.score /\ a.id < b.id)

Place(h, all) == 1 + Cardinality({ g \in all : Before(g, h) })
InOrder(all) == [i \in 1..Cardinality(all) |-> CHOOSE h \in all : Place(h, all) = i]

Merge(lists, n) ==
    LET all == UNION { ToSet(lists[w]) : w \in SearchWorkspaces }
    IN  SubSeq(InOrder(all), 1, Min({n, Cardinality(all)}))

-----------------------------------------------------------------------------
FlowInit ==
    /\ searchPhase = "done"
    /\ wanted = [surface |-> "all", mode |-> "hybrid", limit |-> Min(AskedLimits),
                minScore |-> 0, scope |-> SearchWorkspaces]
    /\ current = wanted
    /\ tasks = NoTasks /\ found = NothingFound /\ response = NoResponse
    /\ identityChecked = {} /\ unguarded = {} /\ searches = 0
    /\ stamp \in [SearchWorkspaces -> {"none", "same", "other"}]

(* A search without any workspace is answered at once and is left out. *)
BeginSearch ==
    /\ searchPhase = "done" /\ searches < MaxSearches
    /\ \E r \in FlowRequests :
         /\ r.surface = "one" => Cardinality(r.scope) = 1
         /\ wanted' = r /\ current' = r
         /\ tasks' = [w \in SearchWorkspaces |-> IF w \in r.scope THEN "waiting" ELSE "none"]
    /\ searchPhase' = "retrieving"
    /\ found' = NothingFound /\ response' = NoResponse
    /\ searches' = searches + 1
    /\ UNCHANGED <<identityChecked, stamp, unguarded>>

(* The ingestion service stamps a collection that had no stamp, with its own
   model, which may be another one than the API's. *)
StampCollection(w) ==
    /\ stamp[w] = "none"
    /\ \E s \in {"same", "other"} : stamp' = [stamp EXCEPT ![w] = s]
    /\ UNCHANGED <<searchPhase, wanted, current, tasks, found, response, identityChecked,
                   unguarded, searches>>

Retrieving == searchPhase \in {"retrieving", "retrying"}
Running == { w \in SearchWorkspaces : tasks[w] \in {"checking", "querying"} }

(* An exception that is not isolated ends the first retrieval with an error and
   a fallback with the response as it was before. The searches that asyncio.gather
   leaves running go on to their next step. *)
Raise ==
    /\ searchPhase' = "done"
    /\ response' = IF searchPhase = "retrieving" THEN [response EXCEPT !.status = "error"]
                   ELSE response
    /\ UNCHANGED <<wanted, current, found, stamp, searches>>

(* The query is embedded once, before any search starts. *)
EmbedFails ==
    /\ Retrieving /\ current.mode # "keyword" /\ Running = {}
    /\ \A w \in wanted.scope : tasks[w] = "waiting"
    /\ tasks' = NoTasks
    /\ Raise /\ UNCHANGED <<identityChecked, unguarded>>

StartTask(w) ==
    /\ Retrieving /\ tasks[w] = "waiting"
    /\ Cardinality(Running) < IF wanted.surface = "all" THEN Concurrency ELSE 1
    /\ tasks' = [tasks EXCEPT ![w] = IF current.mode = "keyword" \/ w \in identityChecked
                                      THEN "querying" ELSE "checking"]
    /\ UNCHANGED <<searchPhase, wanted, current, found, response, identityChecked, stamp,
                   unguarded, searches>>

(* _ensure_identity_checked: the schema cannot be read, or the collection has no
   stamp, or it has the API's. *)
IdentityUnread(w) ==
    /\ tasks[w] = "checking"
    /\ tasks' = [tasks EXCEPT ![w] = "querying"]
    /\ unguarded' = unguarded \cup {w}
    /\ UNCHANGED <<searchPhase, wanted, current, found, response, identityChecked, stamp, searches>>

IdentityAccepted(w) ==
    /\ tasks[w] = "checking" /\ stamp[w] # "other"
    /\ tasks' = [tasks EXCEPT ![w] = "querying"]
    /\ identityChecked' = identityChecked \cup {w}
    /\ unguarded' = IF stamp[w] = "none" THEN unguarded \cup {w} ELSE unguarded
    /\ UNCHANGED <<searchPhase, wanted, current, found, response, stamp, searches>>

\* Mutant: the collection is entered before its stamp is compared.
IdentityMismatchCached(w) ==
    /\ tasks[w] = "checking" /\ stamp[w] = "other"
    /\ tasks' = [tasks EXCEPT ![w] = "failed"]
    /\ identityChecked' = identityChecked \cup {w}
    /\ IF Retrieving THEN Raise
       ELSE UNCHANGED <<searchPhase, wanted, current, found, response, stamp, searches>>
    /\ UNCHANGED unguarded

IdentityMismatch(w) ==
    /\ tasks[w] = "checking" /\ stamp[w] = "other"
    /\ tasks' = [tasks EXCEPT ![w] = "failed"]
    /\ IF Retrieving THEN Raise
       ELSE UNCHANGED <<searchPhase, wanted, current, found, response, stamp, searches>>
    /\ UNCHANGED <<identityChecked, unguarded>>

(* A collection or tenant that does not exist yet answers with nothing. *)
QueryAnswers(w) ==
    /\ Retrieving /\ tasks[w] = "querying"
    /\ \E l \in ResultLists(w, current) : found' = [found EXCEPT ![w] = l]
    /\ tasks' = [tasks EXCEPT ![w] = "answered"]
    /\ UNCHANGED <<searchPhase, wanted, current, response, identityChecked, stamp, unguarded,
                   searches>>

\* Mutant: the failure of one workspace is not isolated.
QueryFailsAlways(w) ==
    /\ Retrieving /\ tasks[w] = "querying"
    /\ tasks' = [tasks EXCEPT ![w] = "failed"]
    /\ Raise /\ UNCHANGED <<identityChecked, unguarded>>

(* Only the search over all workspaces isolates the failure of one. *)
QueryFails(w) ==
    /\ Retrieving /\ tasks[w] = "querying"
    /\ tasks' = [tasks EXCEPT ![w] = "failed"]
    /\ IF wanted.surface = "all"
       THEN UNCHANGED <<searchPhase, wanted, current, found, response, stamp, searches>>
       ELSE Raise
    /\ UNCHANGED <<identityChecked, unguarded>>

\* Mutant: the verdict on the first results is kept.
CompleteKeepsVerdict(lists, r) ==
    LET results == Merge(lists, r.limit)
    IN  [status |-> "ok", results |-> results, mode |-> r.mode, limit |-> r.limit,
         fallback |-> searchPhase = "retrying", sources |-> lists,
         verdict |-> IF wanted.surface = "mcp" THEN "none"
                     ELSE IF searchPhase = "retrying" THEN response.verdict ELSE Evaluate(results)]

Complete(lists, r) ==
    LET results == Merge(lists, r.limit)
    IN  [status |-> "ok", results |-> results, mode |-> r.mode, limit |-> r.limit,
         fallback |-> searchPhase = "retrying", sources |-> lists,
         verdict |-> IF wanted.surface = "mcp" THEN "none" ELSE Evaluate(results)]

(* All searches are in: the results are merged and judged, and a REST search
   that is not good enough is retried once. *)
Gather ==
    /\ Retrieving
    /\ \A w \in wanted.scope : tasks[w] \in {"answered", "failed"}
    /\ response' = Complete(found, current)
    /\ LET retry == FallbackRequest(current, response'.verdict)
       IN  IF searchPhase = "retrieving" /\ wanted.surface # "mcp" /\ retry # current
           THEN /\ searchPhase' = "retrying" /\ current' = retry
                /\ tasks' = [w \in SearchWorkspaces |-> IF w \in wanted.scope THEN "waiting" ELSE "none"]
           ELSE searchPhase' = "done" /\ tasks' = NoTasks /\ UNCHANGED current
    /\ found' = NothingFound
    /\ UNCHANGED <<wanted, identityChecked, stamp, unguarded, searches>>

FlowNext ==
    \/ BeginSearch \/ EmbedFails \/ Gather
    \/ \E w \in SearchWorkspaces :
         \/ StampCollection(w) \/ StartTask(w) \/ IdentityUnread(w) \/ IdentityAccepted(w)
         \/ IdentityMismatch(w) \/ QueryAnswers(w) \/ QueryFails(w)

FlowSpec == FlowInit /\ [][FlowNext]_flowVars

-----------------------------------------------------------------------------
(* The variables' types; and never more searches at a time than the semaphore
   of the request lets through. *)
FlowTypeOK ==
    /\ searchPhase \in {"retrieving", "retrying", "done"}
    /\ wanted \in FlowRequests /\ current.limit \in 1..LargestLimit
    /\ tasks \in [SearchWorkspaces -> {"none", "waiting", "checking", "querying", "answered", "failed"}]
    /\ response.status \in {"none", "ok", "error"}
    /\ identityChecked \subseteq SearchWorkspaces /\ unguarded \subseteq SearchWorkspaces
    /\ Cardinality(Running) <= Concurrency

(* #13: what is served is the best of everything the workspaces that did not
   fail answered, in order, and as much of it as the limit allows. *)
BestOfWhatAnswered ==
    searchPhase = "done" /\ response.status = "ok" =>
        LET all == UNION { ToSet(response.sources[w]) : w \in SearchWorkspaces }
        IN  /\ Len(response.results) = Min({response.limit, Cardinality(all)})
            /\ \A i \in DOMAIN response.results :
                 /\ response.results[i] \in all
                 /\ \A h \in all \ ToSet(response.results) : Before(response.results[i], h)
                 /\ \A j \in DOMAIN response.results :
                      i < j => Before(response.results[i], response.results[j])

(* An error of a search over all workspaces has its cause in the whole request:
   the query was not embedded (no search ran) or a collection's model is not
   the API's. A workspace that merely failed is not one. *)
OneFailureIsIsolated ==
    [][ /\ searchPhase = "retrieving" /\ wanted.surface = "all"
        /\ response'.status = "error" /\ response.status # "error"
        => \/ tasks' = NoTasks
           \/ \E w \in wanted.scope : stamp[w] = "other" /\ tasks[w] = "checking" ]_flowVars

(* #311: a vector query is never served from a collection built by another
   model, except one that was first searched before it had a stamp or whose
   schema could not be read: those the code lets through, with a warning. *)
MismatchNotServed ==
    searchPhase = "done" /\ response.status = "ok" /\ response.mode # "keyword" =>
        \A w \in SearchWorkspaces :
            response.sources[w] # <<>> /\ stamp[w] = "other" => w \in unguarded

(* #43: the verdict that goes with a response judges the results that are in
   it, whether or not the fallback ran and whether or not it failed. *)
VerdictOfWhatIsServed ==
    searchPhase = "done" /\ response.status = "ok" /\ wanted.surface # "mcp" =>
        response.verdict = Evaluate(response.results)

(* The response is the best of what answered, with its own verdict. *)
SearchAnswerSound == FlowTypeOK /\ BestOfWhatAnswered /\ VerdictOfWhatIsServed
=============================================================================
