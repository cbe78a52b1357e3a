------------------------------ MODULE Retrieval ------------------------------
(***************************************************************************)
(* One search of a user's knowledge base, retrieve() of                    *)
(* retrieval/user_scoped.py: the vector query, the chunk rows, the cached  *)
(* BM25 index, the fusion, and the texts of what was found.  Each step is  *)
(* one call to a store or one critical section, and the knowledge bases    *)
(* change between them as SearchableContent lets them.  What the           *)
(* similarity scores are is not modelled: any ranking may come back.       *)
(*                                                                         *)
(* A body has one chunk, so a body is also a chunk id.  A title comes from *)
(* the user's own rows (get_attribution) and is left out.                  *)
(***************************************************************************)
EXTENDS Naturals, FiniteSets, RankFusion

CONSTANTS
    User,
    Body,
    Wordless,    \* bodies in whose text _tokenize finds no word
    Call,        \* callers of retrieve()
    K,           \* hits asked for
    MaxChanges   \* bound: steps of the knowledge bases

ASSUME BodyAssumption == IsFiniteSet(Body)
ASSUME WordlessAssumption == Wordless \subseteq Body
ASSUME KAssumption == K \in Nat /\ MaxChanges \in Nat

VARIABLES
    held, vecs, chunked,
    bm25,      \* bm25[u]: the chunks of u's entry in _bm25_cache, {} if none
    call,      \* call[c]: the search c is in
    changes,   \* steps of the knowledge bases so far
    removed    \* users who lost content since the process started (history)

Content == INSTANCE SearchableContent

content == <<held, vecs, chunked, changes, removed>>

-----------------------------------------------------------------------------

CallRecord ==
    [pc : {"idle", "dense", "read", "index", "resolve", "done", "failed"},
     user : User, hybrid : BOOLEAN, dense : Seq(Body), chunks : SUBSET Body,
     index : SUBSET Body, docs : SUBSET Body]
Searching(u, hybrid) ==
    [pc |-> "dense", user |-> u, hybrid |-> hybrid, dense |-> <<>>, chunks |-> {},
     index |-> {}, docs |-> {}]

RetrievalTypeOK ==
    /\ held \in [User -> SUBSET Body] /\ vecs \in [User -> SUBSET Body]
    /\ chunked \in SUBSET Body
    /\ bm25 \in [User -> SUBSET Body]
    /\ call \in [Call -> CallRecord]
    /\ changes \in 0..MaxChanges
    /\ removed \subseteq User

\* The API process has just started. What users have is what syncs before it left.
RetrievalInit ==
    /\ held \in [User -> SUBSET Body]
    /\ vecs = held
    /\ chunked = UNION Range(held)
    /\ bm25 = [u \in User |-> {}]
    /\ call \in [Call -> {[Searching(u, FALSE) EXCEPT !.pc = "idle"] : u \in User}]
    /\ changes = 0
    /\ removed = {}

\* A sync or a removal goes on meanwhile.
ContentChanges ==
    /\ changes < MaxChanges
    /\ Content!Next /\ Content!vars' # Content!vars
    /\ changes' = changes + 1
    /\ removed' = removed \cup {u \in User : ~(held[u] \subseteq held'[u])}
    /\ UNCHANGED <<bm25, call>>

Go(c, next) == call' = [call EXCEPT ![c] = next]

StartSearch(c, u, hybrid) == Go(c, Searching(u, hybrid))

\* vectors.query: as many hits as there are, up to k, or 2k for fusion.
Dense(c) ==
    LET u == call[c].user
        k == IF call[c].hybrid THEN 2 * K ELSE K
    IN  /\ call[c].pc = "dense"
        /\ \E q \in Rankings(vecs[u], k) :
              /\ Len(q) = k \/ Range(q) = vecs[u]
              /\ Go(c, [call[c] EXCEPT !.dense = q,
                            !.pc = IF call[c].hybrid THEN "read" ELSE "resolve"])
        /\ UNCHANGED <<content, bm25>>

\* get_user_chunks, outside the lock.
ReadChunks(c) ==
    /\ call[c].pc = "read"
    /\ Go(c, [call[c] EXCEPT !.pc = "index", !.chunks = held[call[c].user]])
    /\ UNCHANGED <<content, bm25>>

\* Mutant of Valid: an index with more chunks than were read is kept.
Valid_NotSmaller(u, chunks) == bm25[u] # {} /\ Cardinality(bm25[u]) >= Cardinality(chunks)

\* _sparse_index, under the lock: the count decides.
Valid(u, chunks) == bm25[u] # {} /\ Cardinality(bm25[u]) = Cardinality(chunks)

UseIndex(c) ==
    LET u == call[c].user
        chunks == call[c].chunks
    IN  /\ call[c].pc = "index"
        /\ Valid(u, chunks)
        /\ Go(c, [call[c] EXCEPT !.pc = "resolve", !.index = bm25[u]])
        /\ UNCHANGED <<content, bm25>>

\* A user without chunks gets no index, and the cache stays as it is. BM25Okapi
\* divides by the number of distinct words, and raises when there is none.
BuildIndex(c) ==
    LET u == call[c].user
        chunks == call[c].chunks
        raises == chunks # {} /\ chunks \subseteq Wordless
    IN  /\ call[c].pc = "index"
        /\ ~Valid(u, chunks)
        /\ Go(c, [call[c] EXCEPT !.pc = IF raises THEN "failed" ELSE "resolve",
                                 !.index = chunks])
        /\ bm25' = IF raises \/ chunks = {} THEN bm25 ELSE [bm25 EXCEPT ![u] = chunks]
        /\ UNCHANGED content

\* get_chunk_texts: what this user may read now.
Texts(u) == held[u] \cap chunked

\* _sparse_hits scores above zero only what has a word of the query; fusion;
\* _to_documents drops what does not resolve. The order of what is left is not kept.
Resolve(c) ==
    LET found == call[c]
        texts == Texts(found.user)
        Top(q) == IF Len(q) > K THEN SubSeq(q, 1, K) ELSE q
    IN  /\ found.pc = "resolve"
        /\ \E sparse \in (IF found.hybrid THEN Rankings(found.index \ Wordless, 2 * K)
                          ELSE {<<>>}) :
              LET hits == Top(IF found.hybrid THEN rrf(found.dense, sparse)
                              ELSE found.dense)
              IN  Go(c, [Searching(found.user, found.hybrid) EXCEPT
                             !.pc = "done",
                             !.docs = Range(hits) \cap texts])
        /\ UNCHANGED <<content, bm25>>

SearchStep(c) ==
    Dense(c) \/ ReadChunks(c) \/ UseIndex(c) \/ BuildIndex(c) \/ Resolve(c)

-----------------------------------------------------------------------------
(* Properties.                                                             *)

\* The BM25 index a search uses has exactly the chunks it has read, although the
\* cache is checked by count only and filled by whichever search comes last, for
\* every user who has lost nothing since the process started.
IndexIsExact ==
    \A c \in Call : call[c].pc = "resolve" /\ call[c].hybrid /\ call[c].user \notin removed
        => call[c].index = call[c].chunks

\* The order of a fusion: a chunk found by both sides comes before every chunk
\* found by one ("so fusion can rescue a chunk one retriever ranked low"), and a
\* chunk neither side ranks lower comes first. Nothing is lost or repeated.
FusionOrder(d, s) ==
    LET fused == rrf(d, s)
        Both == Range(d) \cap Range(s)
        First(x, y) == Rank(fused, x) < Rank(fused, y)
    IN  /\ Range(fused) = Range(d) \cup Range(s) /\ IsInjective(fused)
        /\ \A x \in Both : \A y \in Range(fused) \ Both : First(x, y)
        /\ \A x, y \in Both :
              Rank(d, x) < Rank(d, y) /\ Rank(s, x) < Rank(s, y) => First(x, y)
=============================================================================
