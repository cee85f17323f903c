------------------------------ MODULE Retrieval ------------------------------
(***************************************************************************)
(* One unified_search of the worker: the ladder from the full query over   *)
(* its retry and the BM25 query to no result, and how the hits of the two  *)
(* indices are merged.                                                     *)
(*                                                                         *)
(* A hit is its score, its index and its place in the index's answer; what *)
(* Elasticsearch answers is left open.  Its own timeout of 250 ms does not *)
(* fail a search, it shortens the answer.                                  *)
(***************************************************************************)
EXTENDS Naturals, Sequences, SequencesExt, FiniteSetsExt

CONSTANTS
    ContextLimit,   \* hits that run_task asks for, 10 in the code
    ToolLimit,      \* and those of the tool search_shared_knowledge, 5
    Scores          \* the scores a hit may have

ASSUME LimitsAreNat == {ContextLimit, ToolLimit} \subseteq Nat
ASSUME ScoresAreNat == Scores \subseteq Nat

VARIABLES
    caller,    \* who searches
    level,     \* 1 the full query, 2 its retry, 3 BM25, 4 returned
    done,      \* the indices this level has searched
    found,     \* what it has found in each index, tagged
    answer,    \* what is returned
    asked      \* the searches so far: a level and an index each

vars == <<caller, level, done, found, answer, asked>>

Indices == <<"task_memory", "shared_memory">>
Errors == {"retryable", "permanent"}

\* run_task's context, the agent's tool, and a call with both indices disabled.
Enabled ==
    CASE caller = "run_task" -> {1, 2}
      [] caller = "search_shared" -> {2}
      [] caller = "neither" -> {}

Limit == IF caller = "run_task" THEN ContextLimit ELSE ToolLimit

\* Elasticsearch answers with at most size hits, the best first.
HitLists == {s \in BoundedSeq(Scores, Limit) :
                \A m, n \in DOMAIN s : m < n => s[m] >= s[n]}

Tagged(scores, index) ==
    [n \in DOMAIN scores |-> [score |-> scores[n], source |-> Indices[index], place |-> n]]

-----------------------------------------------------------------------------
(* merge_and_rank_results *)

\* Python's sort is stable, also in reverse.
Rank(hits, n) == Cardinality({m \in DOMAIN hits :
    hits[m].score > hits[n].score \/ (hits[m].score = hits[n].score /\ m <= n)})

SortByScore(hits) ==
    [k \in DOMAIN hits |-> hits[CHOOSE n \in DOMAIN hits : Rank(hits, n) = k]]

FirstHits(hits) == SubSeq(hits, 1, Min({Limit, Len(hits)}))

\* Mutant: the hits are cut to the limit before they are sorted.
MergeTruncated(results) == SortByScore(FirstHits(results[1] \o results[2]))

MergeAndRank(results) == FirstHits(SortByScore(results[1] \o results[2]))

-----------------------------------------------------------------------------
(* unified_search *)

NothingFound == <<<<>>, <<>>>>

Init ==
    /\ caller \in {"run_task", "search_shared", "neither"}
    /\ level = 1 /\ done = {} /\ found = NothingFound /\ answer = <<>> /\ asked = {}

Returned == level = 4

Return(hits) == level' = 4 /\ answer' = hits

DisabledSearch ==
    /\ ~Returned /\ Enabled = {}
    /\ Return(<<>>)
    /\ UNCHANGED <<caller, done, found, asked>>

\* task_memory is searched first.
Due(index) ==
    /\ ~Returned /\ index \in Enabled \ done
    /\ \A other \in Enabled : other < index => other \in done

Asks(index) == Due(index) /\ asked' = asked \cup {<<level, index>>} /\ UNCHANGED caller

Searched(index) ==
    /\ Asks(index)
    /\ \E scores \in HitLists : found' = [found EXCEPT ![index] = Tagged(scores, index)]
    /\ done' = done \cup {index}
    /\ IF done' = Enabled THEN Return(MergeAndRank(found')) ELSE UNCHANGED <<level, answer>>

\* Mutant: a permanent error of the retry ends the search, too.
GivesUpEarly(error) == level = 3 \/ error = "permanent"

\* A permanent error ends the search only on the first level.
GivesUp(error) == level = 3 \/ (level = 1 /\ error = "permanent")

\* Mutant: what the first index gave is returned after all.
ReturnFound == Return(MergeAndRank(found))

ReturnNothing == Return(<<>>)

\* Mutant: the retry is not counted.
SameLevel == UNCHANGED <<level, answer>>

NextLevel == level' = level + 1 /\ UNCHANGED answer

\* A level that fails in its second search loses the hits of the first.
SearchFails(index) ==
    /\ Asks(index)
    /\ \E error \in Errors : IF GivesUp(error) THEN ReturnNothing ELSE NextLevel
    /\ done' = {} /\ found' = NothingFound

Next ==
    \/ DisabledSearch
    \/ \E index \in DOMAIN Indices : Searched(index) \/ SearchFails(index)

Spec == Init /\ [][Next]_vars

\* The client's requests end, with an answer or an error.
FairSpec == Spec /\ WF_vars(Next)

-----------------------------------------------------------------------------
(* Properties *)

Hits == UNION {ToSet(found[index]) : index \in DOMAIN Indices}

\* Before b in the answer, if both are in it: by score, then task_memory first,
\* then as Elasticsearch ordered them.
Precedes(a, b) ==
    \/ a.score > b.score
    \/ a.score = b.score /\ a.source = "task_memory" /\ b.source = "shared_memory"
    \/ a.score = b.score /\ a.source = b.source /\ a.place < b.place

\* The answer holds the best hits of both indices, as many as asked for, in
\* order, and hits of the same score do not change places.
\* (merge_and_rank_results)
BestHits ==
    Returned =>
        /\ ToSet(answer) \subseteq Hits
        /\ Len(answer) = Min({Limit, Cardinality(Hits)})
        /\ \A m, n \in DOMAIN answer : m < n => Precedes(answer[m], answer[n])
        /\ \A hit \in Hits \ ToSet(answer), n \in DOMAIN answer : Precedes(answer[n], hit)

\* Hits are returned only if one level has searched all the indices: the answer
\* is never one index's alone because the other's search failed.
\* (_execute_full_query, _execute_bm25_query)
CompleteAnswer == Returned /\ answer # <<>> => done = Enabled

\* A search that fails has climbed the ladder to its end, unless its first level
\* failed for good.  (unified_search)
LadderClimbed ==
    Returned /\ done # Enabled => {search[1] : search \in asked} \in {{1}, {1, 2, 3}}

\* No search is repeated on its level and none goes back to an earlier one, so
\* the caller waits for at most six.  (unified_search)
NeverAsksTwice ==
    [][Enabled # {} => \E index \in Enabled :
          /\ asked' = asked \cup {<<level, index>>} /\ <<level, index>> \notin asked
          /\ \A search \in asked : search[1] <= level]_vars

\* The search always returns.  (unified_search)
AlwaysReturns == <>Returned
=============================================================================
