--------------------------- MODULE RetrievalProofs ---------------------------
(***************************************************************************)
(* For any limits, scores and answers of Elasticsearch: the ladder of      *)
(* unified_search is climbed level by level, no search is made twice, hits *)
(* are returned only if both indices gave theirs, and they are the best.   *)
(***************************************************************************)
EXTENDS Retrieval, FiniteSetTheorems, SequenceTheorems, TLAPS

Levels(searches) == {search[1] : search \in searches}

Bounded ==
    /\ level \in 1..4
    /\ done \subseteq Enabled
    /\ asked \subseteq (1..3) \X {1, 2}

\* Nothing was asked ahead, and what this level has asked it has done.
UpToDate ==
    /\ \A search \in asked : search[1] <= level
    /\ ~Returned => \A index \in {1, 2} : <<level, index>> \in asked => index \in done

\* The levels before this one have asked something, and so has this one if it
\* has done something.
Climbing ==
    ~Returned => Levels(asked) = (IF done = {} THEN 1..(level - 1) ELSE 1..level)

Inductive ==
    /\ Bounded /\ UpToDate /\ Climbing /\ LadderClimbed /\ CompleteAnswer

-----------------------------------------------------------------------------
\* One more search adds its level.
LEMMA LevelsGrow ==
    ASSUME NEW searches, NEW one, NEW index
    PROVE  Levels(searches \cup {<<one, index>>}) = Levels(searches) \cup {one}
<1>1. <<one, index>>[1] = one
  OBVIOUS
<1>2. \A number : number \in Levels(searches \cup {<<one, index>>})
                     <=> number \in Levels(searches) \/ number = one
  BY <1>1, Zenon DEF Levels
<1>3. QED
  BY <1>2

\* A search is one of the level, of an index that this level has not asked.
LEMMA SearchFacts ==
    ASSUME Bounded, UpToDate, NEW index \in DOMAIN Indices, Asks(index)
    PROVE  /\ level \in 1..3 /\ index \in {1, 2} /\ index \in Enabled \ done
           /\ <<level, index>> \notin asked
           /\ asked' = asked \cup {<<level, index>>} /\ Enabled' = Enabled
           /\ Levels(asked') = Levels(asked) \cup {level}
<1>1. index \in {1, 2} /\ index \in Enabled \ done /\ ~Returned
      /\ asked' = asked \cup {<<level, index>>} /\ caller' = caller
  BY DEF Asks, Due, Indices
<1>2. level \in 1..3
  BY <1>1 DEF Returned, Bounded
<1>3. <<level, index>> \notin asked
  BY <1>1 DEF UpToDate
<1>4. Enabled' = Enabled
  BY <1>1 DEF Enabled
<1>5. Levels(asked') = Levels(asked) \cup {level}
  BY <1>1, LevelsGrow
<1>6. QED
  BY <1>1, <1>2, <1>3, <1>4, <1>5

\* The levels asked so far, the current one included.
LEMMA LevelsAsked ==
    ASSUME Bounded, Climbing, level \in 1..3
    PROVE  Levels(asked) \cup {level} = 1..level
<1>1. ~Returned
  BY DEF Returned
<1>2. (1..(level - 1)) \cup {level} = 1..level
  OBVIOUS
<1>3. QED
  BY <1>1, <1>2 DEF Climbing

\* A search that succeeds completes its index, and the last one the answer.
LEMMA SearchedKeeps ==
    ASSUME Inductive, NEW index \in DOMAIN Indices, Searched(index)
    PROVE  Inductive'
<1>1. /\ level \in 1..3 /\ index \in {1, 2} /\ index \in Enabled \ done
      /\ <<level, index>> \notin asked
      /\ asked' = asked \cup {<<level, index>>} /\ Enabled' = Enabled
      /\ Levels(asked') = 1..level
  BY SearchFacts, LevelsAsked DEF Searched, Inductive
<1>2. done' = done \cup {index}
  BY DEF Searched
<1>3. \/ done' = Enabled /\ level' = 4
      \/ done' # Enabled /\ level' = level /\ answer' = answer
  BY DEF Searched, Return
<1>4. Bounded'
  BY <1>1, <1>2, <1>3 DEF Inductive, Bounded
<1>5. UpToDate'
  <2>1. \A search \in asked' : search[1] <= level
    BY <1>1 DEF Inductive, UpToDate
  <2>2. level <= level'
    BY <1>1, <1>3
  <2>3. \A search \in asked' : search[1] \in Nat
    BY <1>1 DEF Inductive, Bounded
  <2>4. \A search \in asked' : search[1] <= level'
    BY <1>1, <1>3, <2>1, <2>2, <2>3
  <2>5. level' # 4 => level' = level
    BY <1>3
  <2>6. \A other \in {1, 2} : <<level, other>> \in asked' => other \in done'
    BY <1>1, <1>2 DEF Inductive, UpToDate, Returned
  <2>7. QED
    BY <2>4, <2>5, <2>6 DEF UpToDate, Returned
<1>6. Climbing'
  BY <1>1, <1>2, <1>3 DEF Climbing, Returned
<1>7. LadderClimbed' /\ CompleteAnswer'
  BY <1>1, <1>3 DEF LadderClimbed, CompleteAnswer, Returned
<1>8. QED
  BY <1>4, <1>5, <1>6, <1>7 DEF Inductive

\* A search that fails ends the ladder or takes it to the next level.
LEMMA FailureKeeps ==
    ASSUME Inductive, NEW index \in DOMAIN Indices, SearchFails(index)
    PROVE  Inductive'
<1>1. /\ level \in 1..3 /\ index \in {1, 2}
      /\ asked' = asked \cup {<<level, index>>} /\ Enabled' = Enabled
      /\ Levels(asked') = 1..level
  BY SearchFacts, LevelsAsked DEF SearchFails, Inductive
<1>2. done' = {} /\ answer' \in {answer, <<>>}
  BY DEF SearchFails, ReturnNothing, NextLevel, Return
<1>3. \/ level' = 4 /\ answer' = <<>> /\ level \in {1, 3}
      \/ level' = level + 1 /\ level \in {1, 2}
  BY <1>1 DEF SearchFails, ReturnNothing, NextLevel, Return, GivesUp, Errors
<1>4. Bounded'
  BY <1>1, <1>2, <1>3 DEF Inductive, Bounded
<1>5. UpToDate'
  BY <1>1, <1>3 DEF Inductive, UpToDate, Bounded, Returned
<1>6. Climbing'
  BY <1>1, <1>2, <1>3 DEF Climbing, Returned
<1>7. LadderClimbed'
  <2>1. level' = 4 => Levels(asked') \in {{1}, {1, 2, 3}}
    <3>1. 1..1 = {1} /\ 1..3 = {1, 2, 3}
      OBVIOUS
    <3>2. level' = 4 => level = 1 \/ level = 3
      BY <1>3
    <3>3. CASE level = 1
      BY <1>1, <3>1, <3>3
    <3>4. CASE level = 3
      BY <1>1, <3>1, <3>4
    <3>5. QED
      BY <3>2, <3>3, <3>4
  <2>2. QED
    BY <2>1 DEF LadderClimbed, Levels, Returned
<1>8. CompleteAnswer'
  BY <1>1, <1>3 DEF CompleteAnswer, Returned
<1>9. QED
  BY <1>4, <1>5, <1>6, <1>7, <1>8 DEF Inductive

\* The invariant holds in every state that is reached.
LEMMA InductiveHolds == Spec => []Inductive
<1>1. Init => Inductive
  BY DEF Init, Inductive, Bounded, UpToDate, Climbing, LadderClimbed, CompleteAnswer,
         Returned, Levels
<1>2. ASSUME Inductive, [Next]_vars
      PROVE  Inductive'
  <2>1. CASE DisabledSearch
    <3>1. /\ level' = 4 /\ Enabled = {} /\ Enabled' = Enabled
          /\ done' = done /\ asked' = asked
      BY <2>1 DEF DisabledSearch, Return, Enabled
    <3>2. done = {}
      BY <1>2, <3>1 DEF Inductive, Bounded
    <3>3. \A search \in asked : search[1] <= 4
      BY <1>2 DEF Inductive, Bounded
    <3>4. QED
      BY <1>2, <3>1, <3>2, <3>3
      DEF Inductive, Bounded, UpToDate, Climbing, LadderClimbed, CompleteAnswer, Returned
  <2>2. CASE \E index \in DOMAIN Indices : Searched(index) \/ SearchFails(index)
    BY <1>2, <2>2, SearchedKeeps, FailureKeeps
  <2>3. CASE UNCHANGED vars
    BY <1>2, <2>3
    DEF vars, Inductive, Bounded, UpToDate, Climbing, LadderClimbed, CompleteAnswer,
        Returned, Enabled
  <2>4. QED
    BY <1>2, <2>1, <2>2, <2>3 DEF Next
<1>3. QED
  BY <1>1, <1>2, PTL DEF Spec

-----------------------------------------------------------------------------
\* Hits are returned only if one level has searched all the indices, whatever
\* failed before.  (_execute_full_query, _execute_bm25_query)
THEOREM AnswersAreComplete == Spec => []CompleteAnswer
<1>1. Inductive => CompleteAnswer
  BY DEF Inductive
<1>2. QED
  BY <1>1, InductiveHolds, PTL

\* A search that fails has climbed the whole ladder, or its first level failed
\* for good.  (unified_search)
THEOREM LadderIsClimbed == Spec => []LadderClimbed
<1>1. Inductive => LadderClimbed
  BY DEF Inductive
<1>2. QED
  BY <1>1, InductiveHolds, PTL

\* No search is repeated on its level and none goes back to an earlier one.
\* (unified_search)
THEOREM NoSearchTwice == Spec => NeverAsksTwice
<1> DEFINE Step == Enabled # {} => \E index \in Enabled :
                      /\ asked' = asked \cup {<<level, index>>} /\ <<level, index>> \notin asked
                      /\ \A search \in asked : search[1] <= level
<1>1. ASSUME Inductive, [Next]_vars
      PROVE  [Step]_vars
  <2>1. CASE DisabledSearch
    BY <2>1 DEF DisabledSearch
  <2>2. CASE \E index \in DOMAIN Indices : Searched(index) \/ SearchFails(index)
    <3>1. PICK index \in DOMAIN Indices : Asks(index)
      BY <2>2 DEF Searched, SearchFails
    <3>2. QED
      BY <1>1, <3>1, SearchFacts DEF Inductive, UpToDate
  <2>3. CASE UNCHANGED vars
    BY <2>3
  <2>4. QED
    BY <1>1, <2>1, <2>2, <2>3 DEF Next
<1>2. QED
  BY <1>1, InductiveHolds, PTL DEF Spec, NeverAsksTwice

-----------------------------------------------------------------------------
\* merge_and_rank_results puts hits[m] before hits[n], or they are the same.
Ahead(hits, m, n) ==
    hits[m].score > hits[n].score \/ (hits[m].score = hits[n].score /\ m <= n)

\* N hits with a score each.
Scored(hits, N) == DOMAIN hits = 1..N /\ \A n \in 1..N : hits[n].score \in Nat

\* The rank of a hit is one of the places.
LEMMA RankIsPlace ==
    ASSUME NEW N \in Nat, NEW hits, Scored(hits, N), NEW n \in 1..N
    PROVE  Rank(hits, n) \in 1..N
<1> DEFINE Up == {m \in 1..N : Ahead(hits, m, n)}
<1>1. Rank(hits, n) = Cardinality(Up)
  BY DEF Rank, Ahead, Scored
<1>2. IsFiniteSet(1..N) /\ Cardinality(1..N) = N
  BY FS_Interval
<1>3. Up \in SUBSET (1..N) /\ n \in Up
  BY DEF Ahead, Scored
<1>4. IsFiniteSet(Up) /\ Cardinality(Up) <= N
  BY <1>2, <1>3, FS_Subset
<1>5. Cardinality(Up) \in Nat /\ Cardinality(Up) # 0
  <2>1. Cardinality(Up) \in Nat
    BY <1>4, FS_CardinalityType
  <2>2. Up # {}
    BY <1>3
  <2>3. Cardinality(Up) # 0
    BY <1>4, <2>2, FS_EmptySet
  <2>4. QED
    BY <2>1, <2>3
<1>6. QED
  BY <1>1, <1>4, <1>5

\* A hit that comes before another has a lower rank.
LEMMA RankGrows ==
    ASSUME NEW N \in Nat, NEW hits, Scored(hits, N), NEW m \in 1..N, NEW n \in 1..N,
           Ahead(hits, m, n), m # n
    PROVE  Rank(hits, m) < Rank(hits, n)
<1> DEFINE Up(k) == {l \in 1..N : Ahead(hits, l, k)}
<1>1. Rank(hits, m) = Cardinality(Up(m)) /\ Rank(hits, n) = Cardinality(Up(n))
  BY DEF Rank, Ahead, Scored
<1>2. IsFiniteSet(1..N)
  BY FS_Interval
<1>3. IsFiniteSet(Up(n))
  BY <1>2, FS_Subset
<1>4. Up(m) \in SUBSET Up(n) /\ n \in Up(n) /\ n \notin Up(m)
  BY DEF Ahead, Scored
<1>5. Cardinality(Up(m)) <= Cardinality(Up(n)) /\ Cardinality(Up(m)) # Cardinality(Up(n))
  <2> HIDE DEF Up
  <2>1. QED
    BY <1>3, <1>4, FS_Subset
<1>6. Rank(hits, m) \in 1..N /\ Rank(hits, n) \in 1..N
  BY RankIsPlace
<1>7. QED
  BY <1>1, <1>5, <1>6

\* Of two hits one comes before the other.
LEMMA AheadIsTotal ==
    ASSUME NEW N \in Nat, NEW hits, Scored(hits, N), NEW m \in 1..N, NEW n \in 1..N
    PROVE  Ahead(hits, m, n) \/ Ahead(hits, n, m)
BY DEF Ahead, Scored

\* Hits of the same rank are the same.
LEMMA RankIsOneToOne ==
    ASSUME NEW N \in Nat, NEW hits, Scored(hits, N), NEW m \in 1..N, NEW n \in 1..N
    PROVE  /\ Rank(hits, m) = Rank(hits, n) => m = n
           /\ Rank(hits, m) < Rank(hits, n) => Ahead(hits, m, n) /\ m # n
<1>1. Rank(hits, m) \in 1..N /\ Rank(hits, n) \in 1..N
  BY RankIsPlace
<1>2. m # n => Rank(hits, m) < Rank(hits, n) \/ Rank(hits, n) < Rank(hits, m)
  BY AheadIsTotal, RankGrows
<1>3. m # n /\ ~Ahead(hits, m, n) => Rank(hits, n) < Rank(hits, m)
  BY AheadIsTotal, RankGrows
<1>4. QED
  BY <1>1, <1>2, <1>3

\* Every place is the rank of a hit.
LEMMA RankIsOnto ==
    ASSUME NEW N \in Nat, NEW hits, Scored(hits, N), NEW k \in 1..N
    PROVE  \E n \in 1..N : Rank(hits, n) = k
<1> DEFINE f == [n \in 1..N |-> Rank(hits, n)]
<1>1. f \in [1..N -> 1..N]
  BY RankIsPlace
<1>2. \A m, n \in 1..N : f[m] = f[n] => m = n
  BY RankIsOneToOne
<1>3. f \in Injection(1..N, 1..N)
  BY <1>1, <1>2 DEF Injection, IsInjective
<1>4. IsFiniteSet(1..N)
  BY FS_Interval
<1>5. f \in Surjection(1..N, 1..N)
  <2> HIDE DEF f
  <2>1. QED
    BY <1>3, <1>4, FS_Injection
<1>6. QED
  BY <1>5 DEF Surjection

\* Sorting moves every hit to the place that is its rank.
LEMMA SortingPermutes ==
    ASSUME NEW N \in Nat, NEW hits, Scored(hits, N)
    PROVE  \E at \in [1..N -> 1..N] :
              /\ SortByScore(hits) = [k \in 1..N |-> hits[at[k]]]
              /\ \A n \in 1..N : at[Rank(hits, n)] = n
              /\ \A k, l \in 1..N : k < l => Ahead(hits, at[k], at[l]) /\ at[k] # at[l]
<1> DEFINE at == [k \in 1..N |-> CHOOSE n \in 1..N : Rank(hits, n) = k]
<1>1. \A k \in 1..N : at[k] \in 1..N /\ Rank(hits, at[k]) = k
  BY RankIsOnto
<1>2. at \in [1..N -> 1..N]
  BY <1>1
<1>3. SortByScore(hits) = [k \in 1..N |-> hits[at[k]]]
  BY DEF SortByScore, Scored
<1> HIDE DEF at
<1>4. \A n \in 1..N : at[Rank(hits, n)] = n
  BY <1>1, RankIsPlace, RankIsOneToOne
<1>5. \A k, l \in 1..N : k < l => Ahead(hits, at[k], at[l]) /\ at[k] # at[l]
  BY <1>1, RankIsOneToOne
<1>6. QED
  BY <1>2, <1>3, <1>4, <1>5

-----------------------------------------------------------------------------
\* A hit of some search, and what a level has found in the two indices: every
\* hit with its index and its place in that index's answer.
Hit == [score : Nat, source : {"task_memory", "shared_memory"}, place : Nat]

Tags(results) ==
    /\ results \in [1..2 -> Seq(Hit)]
    /\ \A index \in 1..2 : \A n \in 1..Len(results[index]) :
          results[index][n].source = Indices[index] /\ results[index][n].place = n

HitsOf(results) == ToSet(results[1]) \cup ToSet(results[2])

\* The two answers one after the other: all their hits, each once, and the
\* order of rank is the order of the answer.
LEMMA HitsInARow ==
    ASSUME NEW results, Tags(results)
    PROVE  \E N \in Nat : LET hits == results[1] \o results[2] IN
              /\ Scored(hits, N) /\ \A n \in 1..N : hits[n] \in Hit
              /\ HitsOf(results) = {hits[n] : n \in 1..N}
              /\ N = Cardinality(HitsOf(results))
              /\ \A m, n \in 1..N : m # n => hits[m] # hits[n]
              /\ \A m, n \in 1..N : Ahead(hits, m, n) /\ m # n => Precedes(hits[m], hits[n])
<1> DEFINE one == results[1]
           two == results[2]
           hits == one \o two
           L == Len(one)
           N == Len(one) + Len(two)
<1>1. one \in Seq(Hit) /\ two \in Seq(Hit)
  BY DEF Tags
<1> HIDE DEF one, two
<1>2. /\ L \in Nat /\ Len(two) \in Nat /\ N \in Nat
      /\ DOMAIN one = 1..L /\ DOMAIN two = 1..Len(two)
  BY <1>1, LenProperties
<1>3. /\ \A n \in 1..L : one[n] \in Hit /\ one[n].source = "task_memory" /\ one[n].place = n
      /\ \A n \in 1..Len(two) :
            two[n] \in Hit /\ two[n].source = "shared_memory" /\ two[n].place = n
  BY <1>1, ElementOfSeq DEF Tags, Indices, one, two
<1>4. /\ hits \in Seq(Hit) /\ Len(hits) = N
      /\ \A n \in 1..N : hits[n] = IF n <= L THEN one[n] ELSE two[n - L]
  BY <1>1, ConcatProperties
<1>5. DOMAIN hits = 1..N
  BY <1>4, LenProperties
<1> HIDE DEF hits
<1>6. \A n \in 1..N : /\ n <= L => n \in 1..L /\ hits[n] = one[n]
                      /\ ~(n <= L) => n - L \in 1..Len(two) /\ hits[n] = two[n - L]
  BY <1>2, <1>4
<1>7. \A n \in 1..N :
         /\ hits[n] \in Hit
         /\ n <= L => hits[n].source = "task_memory" /\ hits[n].place = n
         /\ ~(n <= L) => hits[n].source = "shared_memory" /\ hits[n].place = n - L
  BY <1>3, <1>6
<1>8. Scored(hits, N)
  BY <1>5, <1>7 DEF Scored, Hit
<1>9. \A m, n \in 1..N : m # n => hits[m] # hits[n]
  BY <1>2, <1>7
<1>10. \A m, n \in 1..N : Ahead(hits, m, n) /\ m # n => Precedes(hits[m], hits[n])
  BY <1>2, <1>7 DEF Ahead, Precedes
<1>11. HitsOf(results) = {hits[n] : n \in 1..N}
  <2>1. HitsOf(results) = {one[n] : n \in 1..L} \cup {two[n] : n \in 1..Len(two)}
    BY <1>2 DEF HitsOf, ToSet, one, two
  <2>2. \A n \in 1..L : n \in 1..N /\ one[n] = hits[n]
    BY <1>2, <1>6
  <2>3. \A n \in 1..Len(two) : n + L \in 1..N /\ two[n] = hits[n + L]
    <3>1. \A n \in 1..Len(two) : n + L \in 1..N /\ ~(n + L <= L) /\ (n + L) - L = n
      BY <1>2
    <3>2. QED
      BY <1>6, <3>1
  <2>4. QED
    BY <1>6, <2>1, <2>2, <2>3
<1>12. N = Cardinality(HitsOf(results))
  <2> DEFINE f == [n \in 1..N |-> hits[n]]
  <2>1. f \in Bijection(1..N, HitsOf(results))
    BY <1>9, <1>11 DEF Bijection, Injection, Surjection, IsInjective
  <2>2. ExistsBijection(1..N, HitsOf(results))
    BY <2>1 DEF ExistsBijection
  <2>3. QED
    BY <1>2, <2>2, FS_CountingElements
<1>13. QED
  BY <1>2, <1>7, <1>8, <1>9, <1>10, <1>11, <1>12 DEF hits, one, two

\* The lesser of two numbers is one of them, and no more than either.
LEMMA LesserOfTwo ==
    ASSUME NEW a \in Nat, NEW b \in Nat
    PROVE  Min({a, b}) \in {a, b} /\ Min({a, b}) <= a /\ Min({a, b}) <= b
<1>1. \E x \in {a, b} : \A y \in {a, b} : x <= y
  OBVIOUS
<1>2. QED
  BY <1>1 DEF Min

\* What is returned of a level's hits are the best ones, in order.
BestOf(results, hits) ==
    /\ ToSet(hits) \subseteq HitsOf(results)
    /\ Len(hits) = Min({Limit, Cardinality(HitsOf(results))})
    /\ \A m, n \in DOMAIN hits : m < n => Precedes(hits[m], hits[n])
    /\ \A hit \in HitsOf(results) \ ToSet(hits), n \in DOMAIN hits : Precedes(hits[n], hit)

\* (merge_and_rank_results)
LEMMA MergeGivesBest ==
    ASSUME NEW results, Tags(results), Limit \in Nat
    PROVE  BestOf(results, MergeAndRank(results))
<1> DEFINE hits == results[1] \o results[2]
           sorted == SortByScore(hits)
           best == MergeAndRank(results)
<1>1. PICK N \in Nat :
         /\ Scored(hits, N) /\ \A n \in 1..N : hits[n] \in Hit
         /\ HitsOf(results) = {hits[n] : n \in 1..N}
         /\ N = Cardinality(HitsOf(results))
         /\ \A m, n \in 1..N : m # n => hits[m] # hits[n]
         /\ \A m, n \in 1..N : Ahead(hits, m, n) /\ m # n => Precedes(hits[m], hits[n])
  BY HitsInARow
<1>2. best = SubSeq(sorted, 1, Min({Limit, Len(sorted)}))
  BY DEF MergeAndRank, FirstHits
<1> HIDE DEF hits
<1>3. PICK at \in [1..N -> 1..N] :
         /\ sorted = [k \in 1..N |-> hits[at[k]]]
         /\ \A n \in 1..N : at[Rank(hits, n)] = n
         /\ \A k, l \in 1..N : k < l => Ahead(hits, at[k], at[l]) /\ at[k] # at[l]
  <2>1. Scored(hits, N)
    BY <1>1
  <2>2. \E at \in [1..N -> 1..N] :
           /\ SortByScore(hits) = [k \in 1..N |-> hits[at[k]]]
           /\ \A n \in 1..N : at[Rank(hits, n)] = n
           /\ \A k, l \in 1..N : k < l => Ahead(hits, at[k], at[l]) /\ at[k] # at[l]
    BY <2>1, SortingPermutes, SMTT(60)
  <2>3. QED
    BY <2>2, Zenon
<1> HIDE DEF sorted, best
<1>4. sorted \in Seq(Hit) /\ Len(sorted) = N /\ \A k \in 1..N : sorted[k] = hits[at[k]]
  <2>1. \A k \in 1..N : sorted[k] = hits[at[k]]
    BY <1>3
  <2>2. \A k \in 1..N : hits[at[k]] \in Hit
    BY <1>1
  <2>3. sorted \in [1..N -> Hit]
    BY <1>3, <2>2
  <2>4. sorted \in Seq(Hit) /\ Len(sorted) = N
    BY <2>3
  <2>5. QED
    BY <2>1, <2>4
<1> DEFINE M == Min({Limit, N})
<1>5. M \in 0..N /\ M \in Nat
  BY LesserOfTwo
<1> HIDE DEF M
<1>5a. \A k \in 1..M : k \in 1..N
  BY <1>5
<1>6. best = SubSeq(sorted, 1, M)
  BY <1>2, <1>4 DEF M
<1>7. /\ best \in Seq(Hit) /\ Len(best) = M
      /\ \A k \in 1..M : best[k] = hits[at[k]]
  <2>1. \A k \in 1..M : sorted[k] \in Hit
    BY <1>4, <1>5a, ElementOfSeq
  <2>2. /\ best \in Seq(Hit) /\ Len(best) = (IF 1 <= M THEN M - 1 + 1 ELSE 0)
        /\ \A k \in 1..(M - 1 + 1) : best[k] = sorted[1 + k - 1]
    BY <1>5, <1>6, <2>1, SubSeqProperties
  <2>3. M - 1 + 1 = M /\ \A k \in 1..M : 1 + k - 1 = k
    BY <1>5
  <2>4. best \in Seq(Hit) /\ Len(best) = M
    <3>1. (IF 1 <= M THEN M - 1 + 1 ELSE 0) = M
      BY <1>5
    <3>2. QED
      BY <2>2, <3>1
  <2>5. ASSUME NEW k \in 1..M
        PROVE  best[k] = hits[at[k]]
    <3>1. best[k] = sorted[1 + k - 1]
      BY <2>2, <2>3
    <3>2. sorted[1 + k - 1] = sorted[k]
      BY <2>3
    <3>3. sorted[k] = hits[at[k]]
      BY <1>4, <1>5a
    <3>4. QED
      BY <3>1, <3>2, <3>3
  <2>6. QED
    BY <2>4, <2>5
<1>8. DOMAIN best = 1..M
  BY <1>7, LenProperties
<1>9. ToSet(best) = {hits[at[k]] : k \in 1..M}
  BY <1>7, <1>8 DEF ToSet
<1>10. ToSet(best) \subseteq HitsOf(results)
  BY <1>1, <1>3, <1>5a, <1>9
<1>11. \A k, l \in 1..N : k < l => Precedes(hits[at[k]], hits[at[l]])
  BY <1>1, <1>3
<1>12. ASSUME NEW k \in DOMAIN best, NEW l \in DOMAIN best, k < l
       PROVE  Precedes(best[k], best[l])
  <2>1. k \in 1..M /\ l \in 1..M /\ k \in 1..N /\ l \in 1..N
    BY <1>5a, <1>8
  <2>2. Precedes(hits[at[k]], hits[at[l]])
    BY <1>11, <1>12, <2>1
  <2>3. QED
    BY <1>7, <2>1, <2>2
<1>13. ASSUME NEW hit \in HitsOf(results) \ ToSet(best), NEW k \in DOMAIN best
       PROVE  Precedes(best[k], hit)
  <2>1. PICK n \in 1..N : hit = hits[n]
    BY <1>1, <1>13
  <2>2. Rank(hits, n) \in 1..N /\ at[Rank(hits, n)] = n
    BY <1>1, <1>3, RankIsPlace
  <2>3. Rank(hits, n) \notin 1..M
    BY <1>9, <1>13, <2>1, <2>2
  <2>4. k \in 1..M /\ k \in 1..N /\ k < Rank(hits, n)
    <3>1. k \in 1..M /\ k \in 1..N
      BY <1>5a, <1>8
    <3>2. \A r \in 1..N : r \notin 1..M => k < r
      BY <1>5, <3>1
    <3>3. QED
      BY <2>2, <2>3, <3>1, <3>2
  <2>5. QED
    BY <1>7, <1>11, <2>1, <2>2, <2>4
<1>14. QED
  BY <1>1, <1>7, <1>10, <1>12, <1>13 DEF BestOf, M, best
-----------------------------------------------------------------------------
\* What a level has found so far is tagged with its index and place, and
\* nothing is found before a search is done.
Sound ==
    /\ Tags(found)
    /\ done = {} => found = NothingFound
    /\ Returned => BestOf(found, answer)

\* The limit is a number, whoever searches.
LEMMA LimitIsNat == Limit \in Nat
BY LimitsAreNat DEF Limit

\* Nothing is the best of nothing.
LEMMA NothingIsBest ==
    Tags(NothingFound) /\ BestOf(NothingFound, <<>>)
<1>1. NothingFound[1] = <<>> /\ NothingFound[2] = <<>> /\ 1..2 = {1, 2}
  BY DEF NothingFound
<1>2. <<>> \in Seq(Hit) /\ Len(<<>>) = 0 /\ DOMAIN <<>> = {} /\ ToSet(<<>>) = {}
  BY EmptySeq DEF ToSet
<1>3. Tags(NothingFound)
  <2>1. NothingFound \in [1..2 -> Seq(Hit)]
    <3>1. NothingFound \in Seq({<<>>}) /\ Len(NothingFound) = 2
      BY DEF NothingFound
    <3>2. NothingFound \in [1..2 -> {<<>>}]
      BY <3>1, LenProperties
    <3>3. QED
      BY <1>2, <3>2
  <2>2. \A index \in 1..2 : Len(NothingFound[index]) = 0
    BY <1>1, <1>2
  <2>3. QED
    BY <2>1, <2>2 DEF Tags
<1>4. HitsOf(NothingFound) = {}
  BY <1>1, <1>2 DEF HitsOf
<1>5. Min({Limit, Cardinality(HitsOf(NothingFound))}) = 0
  <2>1. Cardinality({}) = 0
    BY FS_EmptySet
  <2>2. Min({Limit, 0}) = 0
    BY LimitIsNat, LesserOfTwo
  <2>3. QED
    BY <1>4, <2>1, <2>2
<1>6. BestOf(NothingFound, <<>>)
  BY <1>2, <1>4, <1>5 DEF BestOf
<1>7. QED
  BY <1>3, <1>6

\* The hits of one index, tagged.
LEMMA TaggedHits ==
    ASSUME NEW scores \in HitLists, NEW index \in 1..2
    PROVE  /\ Tagged(scores, index) \in Seq(Hit)
           /\ \A n \in 1..Len(Tagged(scores, index)) :
                 /\ Tagged(scores, index)[n].source = Indices[index]
                 /\ Tagged(scores, index)[n].place = n
<1>1. PICK m \in 0..Limit : scores \in [1..m -> Scores]
  BY DEF HitLists, BoundedSeq, SeqOf
<1>2. m \in Nat
  BY <1>1, LimitIsNat
<1>3. Indices[index] \in {"task_memory", "shared_memory"}
  BY DEF Indices
<1> DEFINE tagged == Tagged(scores, index)
<1>4. tagged = [n \in 1..m |-> [score |-> scores[n], source |-> Indices[index], place |-> n]]
  BY <1>1 DEF Tagged
<1>5. \A n \in 1..m :
         /\ tagged[n] = [score |-> scores[n], source |-> Indices[index], place |-> n]
         /\ scores[n] \in Nat
  BY <1>1, <1>4, ScoresAreNat
<1>6. tagged \in [1..m -> Hit]
  BY <1>2, <1>3, <1>4, <1>5 DEF Hit
<1> HIDE DEF tagged
<1>7. tagged \in Seq(Hit) /\ Len(tagged) = m
  BY <1>2, <1>6
<1>8. QED
  BY <1>5, <1>7 DEF tagged

\* A search that succeeds adds tagged hits, and merges them if it is the last.
LEMMA SearchedIsSound ==
    ASSUME Inductive, Sound, NEW index \in DOMAIN Indices, Searched(index)
    PROVE  Sound'
<1>1. index \in 1..2 /\ done' = done \cup {index} /\ Limit' = Limit /\ ~Returned
  BY DEF Indices, Searched, Asks, Due, Limit
<1>2. PICK scores \in HitLists : found' = [found EXCEPT ![index] = Tagged(scores, index)]
  BY DEF Searched
<1>3. Tags(found')
  BY <1>1, <1>2, TaggedHits DEF Sound, Tags
<1>4. Returned' => answer' = MergeAndRank(found')
  BY <1>1 DEF Searched, Return, Returned
<1>5. BestOf(found', MergeAndRank(found'))
  BY <1>3, LimitIsNat, MergeGivesBest
<1>6. Returned' => BestOf(found, answer)'
  BY <1>1, <1>4, <1>5 DEF BestOf
<1>7. QED
  BY <1>1, <1>3, <1>6 DEF Sound, Tags

\* A search that fails leaves nothing behind.
LEMMA FailureIsSound ==
    ASSUME Inductive, Sound, NEW index \in DOMAIN Indices, SearchFails(index)
    PROVE  Sound'
<1>1. level \in 1..3
  BY SearchFacts DEF SearchFails, Inductive
<1>2. found' = NothingFound /\ Limit' = Limit
  BY DEF SearchFails, Asks, Limit
<1>3. level' = 4 => answer' = <<>>
  BY <1>1 DEF SearchFails, ReturnNothing, NextLevel, Return, GivesUp, Errors
<1>4. Tags(found') /\ (Returned' => BestOf(found, answer)')
  BY <1>2, <1>3, NothingIsBest DEF BestOf, Returned
<1>5. QED
  BY <1>2, <1>4 DEF Sound, Tags, NothingFound

\* The invariant holds in every state that is reached.
LEMMA SoundHolds == Spec => []Sound
<1>1. Init => Sound
  BY NothingIsBest DEF Init, Sound, Returned
<1>2. ASSUME Inductive, Sound, [Next]_vars
      PROVE  Sound'
  <2>1. CASE DisabledSearch
    <3>1. /\ done = {} /\ done' = done /\ found' = found /\ answer' = <<>>
          /\ Limit' = Limit
      BY <1>2, <2>1 DEF DisabledSearch, Return, Inductive, Bounded, Limit
    <3>2. found' = NothingFound /\ Tags(found')
      BY <1>2, <3>1 DEF Sound
    <3>3. BestOf(found, answer)'
      BY <3>1, <3>2, NothingIsBest DEF BestOf
    <3>4. QED
      BY <3>2, <3>3 DEF Sound, Tags, NothingFound
  <2>2. CASE \E index \in DOMAIN Indices : Searched(index) \/ SearchFails(index)
    BY <1>2, <2>2, SearchedIsSound, FailureIsSound
  <2>3. CASE UNCHANGED vars
    BY <1>2, <2>3 DEF vars, Sound, Tags, NothingFound, Returned, BestOf, Limit
  <2>4. QED
    BY <1>2, <2>1, <2>2, <2>3 DEF Next
<1>3. QED
  BY <1>1, <1>2, InductiveHolds, PTL DEF Spec

\* The answer holds the best hits of both indices, as many as asked for, in
\* order, and hits of the same score do not change places, whatever
\* Elasticsearch answers.  (merge_and_rank_results)
THEOREM AnswersAreBest == Spec => []BestHits
<1>1. Sound => BestHits
  <2>1. Hits = HitsOf(found)
    <3>1. DOMAIN Indices = {1, 2}
      BY DEF Indices
    <3>2. QED
      BY <3>1 DEF Hits, HitsOf
  <2>2. QED
    BY <2>1 DEF Sound, BestHits, BestOf
<1>2. QED
  BY <1>1, SoundHolds, PTL
=============================================================================
