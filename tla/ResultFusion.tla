---------------------------- MODULE ResultFusion ----------------------------
(***************************************************************************)
(* mergeResults (commands/search.ts): the grid of result lists that        *)
(* several providers gave for several sub-queries becomes one ranked list. *)
(* Hits with one canonical URL are one row; rows whose titles are near     *)
(* duplicates, directly or along a chain, are one cluster; clusters are    *)
(* ranked by the reciprocal-rank score of their representative.            *)
(*                                                                         *)
(* A hit is its URL: the title the URL came with is in Near, and every     *)
(* other field follows the URL through the merge untouched.                *)
(***************************************************************************)
EXTENDS Integers, Sequences, FiniteSets, SequencesExt, Lists

CONSTANTS
    Url,      \* the URLs as the providers write them
    Canonical, \* their canonical form
    Near,     \* the pairs {u, v} whose titles reach the clustering threshold
    MaxRank,  \* bound on the length of one result list
    Scale     \* a common multiple of the scores' denominators

ASSUME FusionAssumption ==
    /\ Canonical \in [Url -> Url]
    /\ \A pair \in Near : pair \subseteq Url /\ Cardinality(pair) = 2
    /\ MaxRank \in Nat /\ Scale \in Nat \ {0}
    /\ \A rank \in 1..MaxRank : Scale % (60 + rank) = 0

\* 1 / (60 + rank), times the common multiple: exact.
Weight(rank) == Scale \div (60 + rank)

\* A grid is a sequence of [provider, lists], one list for each sub-query.
\* Its hits in encounter order:
HitsOf(arm) ==
    FlattenSeq([q \in DOMAIN arm.lists |->
        [n \in DOMAIN arm.lists[q] |->
            [url |-> arm.lists[q][n], rank |-> n, provider |-> arm.provider]]])
Hits(grid) == FlattenSeq([a \in DOMAIN grid |-> HitsOf(grid[a])])

\* One more hit: the first writer of a canonical URL keeps its fields, the
\* others count.
Tally(rows, h) ==
    IF \E n \in DOMAIN rows : Canonical[rows[n].url] = Canonical[h.url]
    THEN [n \in DOMAIN rows |->
            IF Canonical[rows[n].url] # Canonical[h.url] THEN rows[n]
            ELSE [rows[n] EXCEPT
                    !.occurrences = @ + 1,
                    !.bestPos = IF h.rank < @ THEN h.rank ELSE @,
                    !.score = @ + Weight(h.rank),
                    !.mergedFrom = IF h.provider \in ToSet(@) THEN @ ELSE Append(@, h.provider)]]
    ELSE Append(rows, [url |-> h.url, occurrences |-> 1, bestPos |-> h.rank, also |-> <<>>,
                       score |-> Weight(h.rank), mergedFrom |-> <<h.provider>>])

Tallied(hits) ==
    LET upTo[n \in 0..Len(hits)] == IF n = 0 THEN <<>> ELSE Tally(upTo[n - 1], hits[n])
    IN  upTo[Len(hits)]

-----------------------------------------------------------------------------
\* Near-duplicate titles: union-find over the rows, the lower root wins.

\* Mutant: only the row itself changes its root, not those that share it.
UnionOne(root, i, j) ==
    [n \in DOMAIN root |-> IF n = j THEN root[i] ELSE root[n]]

Union(root, i, j) ==
    LET low == IF root[i] < root[j] THEN root[i] ELSE root[j] IN
    [n \in DOMAIN root |-> IF root[n] \in {root[i], root[j]} THEN low ELSE root[n]]

Unite(rows, root, i, j) ==
    IF {rows[i].url, rows[j].url} \in Near THEN Union(root, i, j) ELSE root

\* The scan goes over the pairs i < j in order: one row with all later ones,
Scan(rows, root, i) ==
    LET upTo[k \in 0..(Len(rows) - i)] ==
          IF k = 0 THEN root ELSE Unite(rows, upTo[k - 1], i, i + k)
    IN  upTo[Len(rows) - i]

\* then the next.
Roots(rows) ==
    LET upTo[i \in 0..Len(rows)] ==
          IF i = 0 THEN [n \in DOMAIN rows |-> n] ELSE Scan(rows, upTo[i - 1], i)
    IN  upTo[Len(rows)]

\* Whether row a stands before row b on its merits alone.
Better(a, b) ==
    \/ a.score > b.score
    \/ a.score = b.score /\ a.occurrences > b.occurrences
    \/ a.score = b.score /\ a.occurrences = b.occurrences /\ a.bestPos < b.bestPos

\* The best member represents the cluster with its own score; occurrences add
\* up, providers unite, and the other members' URLs are listed.
Absorb(c, m) ==
    [best |-> IF Better(m, c.best) THEN m ELSE c.best,
     occurrences |-> c.occurrences + m.occurrences,
     mergedFrom |-> c.mergedFrom \o Among(m.mergedFrom, ToSet(m.mergedFrom) \ ToSet(c.mergedFrom))]

Gathered(members) ==
    LET upTo[n \in 0..Len(members)] ==
          IF n = 0 THEN [best |-> members[1], occurrences |-> 0, mergedFrom |-> <<>>]
          ELSE Absorb(upTo[n - 1], members[n])
    IN  upTo[Len(members)]

MergeCluster(members) ==
    LET c == Gathered(members)
        others == Among(members, {m \in ToSet(members) : m.url # c.best.url})
    IN [c.best EXCEPT !.occurrences = c.occurrences,
                      !.mergedFrom = c.mergedFrom,
                      !.also = [n \in DOMAIN others |-> others[n].url]]

\* One row for each root, of the rows that share it.
Clustered(rows) ==
    LET root == Roots(rows)
        indexes == [n \in DOMAIN rows |-> n]
        cluster(r) == LET in == Among(indexes, {n \in DOMAIN rows : root[n] = r})
                      IN  MergeCluster([n \in DOMAIN in |-> rows[in[n]]])
        survivors == Among(indexes, {n \in DOMAIN rows : root[n] = n})
    IN [n \in DOMAIN survivors |-> cluster(survivors[n])]

\* A stable sort.
Ranked(rows) ==
    LET ahead(n) == {m \in DOMAIN rows : \/ Better(rows[m], rows[n])
                                         \/ m < n /\ ~Better(rows[n], rows[m])}
    IN [k \in DOMAIN rows |-> rows[CHOOSE n \in DOMAIN rows : Cardinality(ahead(n)) = k - 1]]

mergeResults(grid) == Ranked(Clustered(Tallied(Hits(grid))))

-----------------------------------------------------------------------------
\* What a reader of the list relies on, said without its algorithm.

\* The canonical URLs a row stands for.
KeysOf(row) == {Canonical[u] : u \in {row.url} \cup ToSet(row.also)}

KeysIn(hits) == {Canonical[hits[n].url] : n \in DOMAIN hits}

\* How the first hit with a canonical URL spells it.
IsFirst(hits, n) == \A m \in 1..(n - 1) : Canonical[hits[m].url] # Canonical[hits[n].url]
FirstSpelling(hits, k) ==
    hits[CHOOSE n \in DOMAIN hits : IsFirst(hits, n) /\ Canonical[hits[n].url] = k].url

\* Canonical URLs are connected by a chain of near-duplicate titles, those of
\* their first spellings: the least sets that no such step leads out of.
ClosedUnderNear(hits, K) ==
    \A k \in K, l \in KeysIn(hits) : {FirstSpelling(hits, k), FirstSpelling(hits, l)} \in Near => l \in K
Connected(hits) ==
    {K \in SUBSET KeysIn(hits) :
        /\ K # {} /\ ClosedUnderNear(hits, K)
        /\ \A J \in SUBSET K : J # {} /\ ClosedUnderNear(hits, J) => J = K}

\* The list partitions the hits by those chains, and each row counts its hits
\* and names their providers, none twice.
Accounts(rows, grid) ==
    LET hits == Hits(grid) IN
    /\ {KeysOf(rows[n]) : n \in DOMAIN rows} = Connected(hits)
    /\ Cardinality(Connected(hits)) = Len(rows)
    /\ \A n \in DOMAIN rows :
         LET mine == {m \in DOMAIN hits : Canonical[hits[m].url] \in KeysOf(rows[n])} IN
         /\ rows[n].occurrences = Cardinality(mine)
         /\ ToSet(rows[n].mergedFrom) = {hits[m].provider : m \in mine}
         /\ Len(rows[n].mergedFrom) = Cardinality(ToSet(rows[n].mergedFrom))
=============================================================================
