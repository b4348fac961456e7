------------------------------ MODULE VectorMemory ------------------------------
(***************************************************************************)
(* The agents' memory: packages/core/src/memory/vector-store.ts.           *)
(*                                                                         *)
(* Contents and queries are taken with one distinct term each (after       *)
(* stop words and suffixes are gone), however often it occurs: normalized, *)
(* such a vector has one column, which is -1, 0 or 1 as the logarithm      *)
(* log(N / (1 + df)) is negative, zero or positive.  Agents, categories    *)
(* and metadata are left out.                                              *)
(***************************************************************************)
EXTENDS Integers, Sequences, Undefined

CONSTANTS
    Terms,            \* the terms
    ReindexThreshold, \* REINDEX_THRESHOLD: 50 in the code
    MaxMemories       \* bounds the entries

ASSUME MemoryAssumption == ReindexThreshold \in Nat \ {0} /\ MaxMemories \in Nat

VARIABLES
    memories,         \* entries: the term of each, and its column in tfidf
    df,               \* df: how many entries have each term
    idfCache,         \* idfCache, as a sign
    sinceLastReindex  \* sinceLastReindex

vectorVars == <<memories, df, idfCache, sinceLastReindex>>

Sign == {-1, 0, 1}
MemoryEntry == [term : Terms, tfidf : Sign]

MemoryTypeOK ==
    /\ Len(memories) <= MaxMemories
    /\ \A i \in DOMAIN memories : memories[i] \in MemoryEntry
    /\ df \in [Terms -> 0..MaxMemories]
    /\ idfCache \in [Terms -> Sign]
    /\ sinceLastReindex \in 0..ReindexThreshold

\* A term that the cache does not have counts 0.
MemoryInit ==
    /\ memories = <<>>
    /\ df = [t \in Terms |-> 0]
    /\ idfCache = [t \in Terms |-> 0]
    /\ sinceLastReindex = 0

-----------------------------------------------------------------------------
\* log(n / (1 + docFreq)).
Idf(n, docFreq) == IF docFreq = 0 THEN 0
                   ELSE IF n > 1 + docFreq THEN 1 ELSE IF n = 1 + docFreq THEN 0 ELSE -1

\* computeTfidf of contents or a query, with the cache of the moment.
Tfidf(t, idf) == [term |-> t, tfidf |-> idf[t]]

\* cosineSimilarity: vectors of different terms have no column in common.
Similarity(v, w) == IF v.term = w.term THEN v.tfidf * w.tfidf ELSE 0

\* Mutant: the older vectors stay as they are.
NotReindexed(entries, idf) == entries

\* reindex: every vector anew.
Reindexed(entries, idf) == [i \in DOMAIN entries |-> Tfidf(entries[i].term, idf)]

\* add().
AddMemory(t) ==
    /\ Len(memories) < MaxMemories
    /\ df' = [df EXCEPT ![t] = @ + 1]
    /\ idfCache' = [u \in Terms |-> Idf(Len(memories) + 1, df'[u])]
    /\ LET entries == Append(memories, Tfidf(t, idfCache'))
       IN  IF sinceLastReindex + 1 >= ReindexThreshold
              THEN memories' = Reindexed(entries, idfCache') /\ sinceLastReindex' = 0
              ELSE memories' = entries /\ sinceLastReindex' = sinceLastReindex + 1

MemoryNext == \E t \in Terms : AddMemory(t)

MemorySpec == MemoryInit /\ [][MemoryNext]_vectorVars

-----------------------------------------------------------------------------
(* Properties.                                                             *)

\* search: the score of an entry.
Score(query, i) == Similarity(Tfidf(query, idfCache), memories[i])

\* Right after all vectors were computed anew, no entry is ranked above one that has
\* the very words of the query.
ReindexedRanksMatches ==
    sinceLastReindex = 0 =>
       \A i, j \in DOMAIN memories : Score(memories[i].term, i) >= Score(memories[i].term, j)
=============================================================================
