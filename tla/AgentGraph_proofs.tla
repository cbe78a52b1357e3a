--------------------------- MODULE AgentGraph_proofs ---------------------------
(***************************************************************************)
(* The agent of AgentGraph and the searches of Retrieval, for any users,   *)
(* callers and contents: what an answer is written from, and which chunks  *)
(* a search sees.                                                          *)
(***************************************************************************)
EXTENDS AgentGraph, FiniteSetTheorems, SequenceTheorems, TLAPS

\* How often an invocation in state x has graded and rewritten.
Progress(x) ==
    /\ x.pc \in {"resolve", "classify"} => x.attempt = 0 /\ x.first = "none"
    /\ x.pc \in {"search", "retrieve"} =>
          x.first = IF x.attempt = 0 THEN "none" ELSE "poor"
    /\ x.pc = "rewrite" => x.attempt = 0 /\ x.first = "poor"
    /\ x.pc \in {"synthesize", "answered"} =>
          x.first # "none" /\ x.attempt = IF x.first = "poor" THEN 1 ELSE 0

ActiveText(x) == IF x.resolved_question # "none" THEN x.resolved_question ELSE "asked"

\* Which text each of its nodes was given.
Texted(x) ==
    /\ x.resolved_question \in {"none", "asked", "resolved"}
    /\ x.resolved_question = "resolved" => x.history
    /\ x.pc = "resolve" => x.stream /\ x.resolved_question = "none"
    /\ x.pc \in {"classify", "search", "retrieve", "rewrite", "synthesize", "answered"} =>
          (x.resolved_question # "none" <=> x.stream)
    /\ x.rewritten_question \in {"none", "rewritten"}
    /\ x.rewritten_question = "rewritten" => x.attempt = 1
    /\ x.pc \in {"search", "retrieve", "rewrite", "synthesize", "answered"} =>
          x.classified = ActiveText(x)
    /\ x.pc \in {"retrieve", "rewrite", "synthesize", "answered"} =>
          /\ x.searched \in {ActiveText(x), "rewritten"}
          /\ x.searched = "rewritten" => x.rewritten_question = "rewritten"
    /\ x.pc \in {"rewrite", "synthesize", "answered"} => x.graded = ActiveText(x)
    /\ x.pc = "answered" => x.synthesized = ActiveText(x)

AgentInv == \A a \in Agent : Progress(agent[a]) /\ Texted(agent[a])

\* Sets of chunks read at different times.
Comparable(X, Y) == X \subseteq Y \/ Y \subseteq X

\* What was read of the chunks of a user who has lost none: versions of what the user
\* possesses now, each an earlier or a later one than every other.
Versions(u) ==
    {bm25[u]} \cup {call[c].chunks : c \in {x \in Call : call[x].user = u}}

IndexInv ==
    /\ \A u \in User \ removed :
          /\ \A X \in Versions(u) : X \subseteq held[u]
          /\ \A X, Y \in Versions(u) : Comparable(X, Y)
    /\ IndexIsExact

Inv == TypeOK /\ AgentInv /\ IndexInv

-----------------------------------------------------------------------------
(* The types.                                                              *)

LEMMA NumbersTyped ==
  /\ changes \in 0..MaxChanges /\ changes < MaxChanges => changes + 1 \in 0..MaxChanges
  /\ others \in 0..MaxSearches /\ others < MaxSearches => others + 1 \in 0..MaxSearches
BY KAssumption, AgentAssumption

LEMMA RankingsTyped ==
  ASSUME NEW S \in SUBSET Body, NEW n \in Nat, NEW q \in Rankings(S, n)
  PROVE  q \in Seq(Body)
BY DEF Rankings

LEMMA SearchingTyped ==
  ASSUME NEW u \in User, NEW hybrid \in BOOLEAN
  PROVE  Searching(u, hybrid) \in CallRecord
BY DEF Searching, CallRecord

LEMMA NewAgentTyped ==
  ASSUME NEW u \in User, NEW stream \in BOOLEAN, NEW history \in BOOLEAN
  PROVE  NewAgent(u, stream, history) \in AgentRecord
BY DEF NewAgent, AgentRecord, Text, Route, Grade

LEMMA TypeInit == Init => TypeOK
<1>. SUFFICES ASSUME Init PROVE TypeOK
  OBVIOUS
<1>1. held \in [User -> SUBSET Body] /\ vecs \in [User -> SUBSET Body]
  BY DEF Init, RetrievalInit
<1>2. chunked \in SUBSET Body
  BY <1>1 DEF Init, RetrievalInit, Range
<1>3. call \in [Call -> CallRecord]
  <2>. DEFINE Idle(u) == [Searching(u, FALSE) EXCEPT !.pc = "idle"]
  <2>1. \A x \in CallRecord : [x EXCEPT !.pc = "idle"] \in CallRecord
    BY DEF CallRecord
  <2>2. \A u \in User : Idle(u) \in CallRecord
    BY <2>1, SearchingTyped
  <2>3. call \in [Call -> {Idle(u) : u \in User}]
    BY DEF Init, RetrievalInit
  <2>. HIDE DEF Idle
  <2>. QED
    BY <2>2, <2>3
<1>4. agent \in [Agent -> AgentRecord]
  <2>. DEFINE Idle(u) == [NewAgent(u, FALSE, FALSE) EXCEPT !.pc = "idle"]
  <2>1. \A x \in AgentRecord : [x EXCEPT !.pc = "idle"] \in AgentRecord
    BY DEF AgentRecord
  <2>2. \A u \in User : Idle(u) \in AgentRecord
    BY <2>1, NewAgentTyped
  <2>3. agent \in [Agent -> {Idle(u) : u \in User}]
    BY DEF Init
  <2>. HIDE DEF Idle
  <2>. QED
    BY <2>2, <2>3
<1>5. bm25 \in [User -> SUBSET Body] /\ removed \subseteq User
  BY DEF Init, RetrievalInit
<1>6. changes \in 0..MaxChanges /\ others \in 0..MaxSearches
  BY KAssumption, AgentAssumption DEF Init, RetrievalInit
<1>. QED
  BY <1>1, <1>2, <1>3, <1>4, <1>5, <1>6 DEF TypeOK, RetrievalTypeOK

\* What the knowledge bases may do meanwhile, one body at a time.
LEMMA ContentTyped ==
  ASSUME TypeOK, Content!Next
  PROVE  /\ held' \in [User -> SUBSET Body] /\ vecs' \in [User -> SUBSET Body]
         /\ chunked' \in SUBSET Body
<1>. USE DEF TypeOK, RetrievalTypeOK
<1>1. ASSUME NEW b \in Body, Content!Chunk(b)
      PROVE  /\ held' \in [User -> SUBSET Body] /\ vecs' \in [User -> SUBSET Body]
             /\ chunked' \in SUBSET Body
  BY <1>1 DEF Content!Chunk
<1>2. ASSUME NEW u \in User, NEW b \in Body,
             Content!AddVectors(u, b) \/ Content!DropVectors(u, b)
      PROVE  /\ held' \in [User -> SUBSET Body] /\ vecs' \in [User -> SUBSET Body]
             /\ chunked' \in SUBSET Body
  BY <1>2 DEF Content!AddVectors, Content!DropVectors
<1>3. ASSUME NEW u \in User, NEW b \in Body,
             Content!Possess(u, b) \/ Content!Disown(u, b)
      PROVE  /\ held' \in [User -> SUBSET Body] /\ vecs' \in [User -> SUBSET Body]
             /\ chunked' \in SUBSET Body
  BY <1>3 DEF Content!Possess, Content!Disown
<1>. QED
  BY <1>1, <1>2, <1>3 DEF Content!Next

\* What a step of a search makes of its record old, and of the index.
SearchIs(old, next) ==
    \/ /\ next.chunks = old.chunks /\ next.docs = old.docs   \* Dense
       /\ next.pc = "resolve" => ~next.hybrid
       /\ bm25' = bm25
    \/ /\ next.chunks = held[old.user] /\ next.docs = old.docs   \* ReadChunks
       /\ next.pc = "index"
       /\ bm25' = bm25
    \/ /\ next.chunks = old.chunks /\ next.docs = old.docs   \* UseIndex
       /\ next.index = bm25[old.user] /\ Cardinality(bm25[old.user]) = Cardinality(old.chunks)
       /\ bm25' = bm25
    \/ /\ next.chunks = old.chunks /\ next.docs = old.docs   \* BuildIndex
       /\ next.index = old.chunks
       /\ bm25' = bm25 \/ bm25' = [bm25 EXCEPT ![old.user] = old.chunks]
    \/ /\ next.chunks = {} /\ next.docs \subseteq held[old.user]   \* Resolve
       /\ next.pc = "done"
       /\ bm25' = bm25

\* A search keeps its user, and what it reads are chunks of the knowledge bases.
LEMMA SearchTyped ==
  ASSUME TypeOK, NEW c \in Call, SearchStep(c)
  PROVE  /\ bm25' \in [User -> SUBSET Body]
         /\ \E next \in CallRecord :
               /\ call' = [call EXCEPT ![c] = next]
               /\ next.user = call[c].user /\ SearchIs(call[c], next)
<1>. DEFINE old == call[c]
<1>1. old \in CallRecord /\ old.user \in User
  BY DEF TypeOK, RetrievalTypeOK, CallRecord
<1>2. held[old.user] \in SUBSET Body /\ vecs[old.user] \in SUBSET Body
      /\ bm25[old.user] \in SUBSET Body /\ bm25 \in [User -> SUBSET Body]
  BY <1>1 DEF TypeOK, RetrievalTypeOK
<1>3. CASE Dense(c)
  <2>. DEFINE k == IF old.hybrid THEN 2 * K ELSE K
              pc == IF old.hybrid THEN "read" ELSE "resolve"
  <2>1. k \in Nat
    BY KAssumption
  <2>2. PICK q \in Rankings(vecs[old.user], k) :
          call' = [call EXCEPT ![c] = [old EXCEPT !.dense = q, !.pc = pc]]
    BY <1>3 DEF Dense, Go
  <2>. DEFINE next == [old EXCEPT !.dense = q, !.pc = pc]
  <2>3. q \in Seq(Body)
    <3>. HIDE DEF k
    <3>. QED  BY <1>2, <2>1, RankingsTyped
  <2>4. pc \in {"read", "resolve"} /\ (pc = "resolve" => ~old.hybrid)
    OBVIOUS
  <2>5. next \in CallRecord /\ next.user = old.user
        /\ next.chunks = old.chunks /\ next.docs = old.docs
        /\ next.pc = pc /\ next.hybrid = old.hybrid
    <3>. HIDE DEF pc, k
    <3>. QED  BY <1>1, <2>3, <2>4 DEF CallRecord
  <2>6. bm25' = bm25
    BY <1>3 DEF Dense
  <2>. HIDE DEF next
  <2>. QED
    BY <1>2, <2>2, <2>4, <2>5, <2>6 DEF SearchIs, next
<1>4. CASE ReadChunks(c)
  <2>. DEFINE next == [old EXCEPT !.pc = "index", !.chunks = held[old.user]]
  <2>1. next \in CallRecord /\ next.user = old.user
        /\ next.chunks = held[old.user] /\ next.docs = old.docs /\ next.pc = "index"
    BY <1>1, <1>2 DEF CallRecord
  <2>2. call' = [call EXCEPT ![c] = next] /\ bm25' = bm25
    BY <1>4 DEF ReadChunks, Go
  <2>. HIDE DEF next
  <2>. QED
    BY <1>2, <2>1, <2>2 DEF SearchIs
<1>5. CASE UseIndex(c)
  <2>. DEFINE next == [old EXCEPT !.pc = "resolve", !.index = bm25[old.user]]
  <2>1. next \in CallRecord /\ next.user = old.user
        /\ next.chunks = old.chunks /\ next.docs = old.docs /\ next.index = bm25[old.user]
    BY <1>1, <1>2 DEF CallRecord
  <2>2. call' = [call EXCEPT ![c] = next] /\ bm25' = bm25
        /\ Cardinality(bm25[old.user]) = Cardinality(old.chunks)
    BY <1>5 DEF UseIndex, Go, Valid
  <2>. HIDE DEF next
  <2>. QED
    BY <1>2, <2>1, <2>2 DEF SearchIs
<1>6. CASE BuildIndex(c)
  <2>. DEFINE pc == IF old.chunks # {} /\ old.chunks \subseteq Wordless THEN "failed" ELSE "resolve"
              next == [old EXCEPT !.pc = pc, !.index = old.chunks]
  <2>1. next \in CallRecord /\ next.user = old.user /\ old.chunks \in SUBSET Body
        /\ next.chunks = old.chunks /\ next.docs = old.docs /\ next.index = old.chunks
    BY <1>1 DEF CallRecord
  <2>2. call' = [call EXCEPT ![c] = next]
    BY <1>6 DEF BuildIndex, Go
  <2>3. bm25' = bm25 \/ bm25' = [bm25 EXCEPT ![old.user] = old.chunks]
    BY <1>6 DEF BuildIndex
  <2>. HIDE DEF next
  <2>4. bm25' \in [User -> SUBSET Body]
    BY <1>1, <1>2, <2>1, <2>3
  <2>. QED
    BY <2>1, <2>2, <2>3, <2>4 DEF SearchIs
<1>7. CASE Resolve(c)
  <2>1. PICK docs \in SUBSET held[old.user] :
          call' = [call EXCEPT ![c] =
                     [Searching(old.user, old.hybrid) EXCEPT !.pc = "done", !.docs = docs]]
    BY <1>7 DEF Resolve, Go, Texts
  <2>. DEFINE next == [Searching(old.user, old.hybrid) EXCEPT !.pc = "done", !.docs = docs]
  <2>2. old.hybrid \in BOOLEAN
    BY <1>1, Zenon DEF CallRecord
  <2>3. \A x \in CallRecord :
          [x EXCEPT !.pc = "done", !.docs = docs] \in CallRecord
    BY <1>2, <2>1 DEF CallRecord
  <2>4. Searching(old.user, old.hybrid) \in CallRecord
    BY <1>1, <2>2, SearchingTyped
  <2>5. next \in CallRecord /\ next.user = old.user
        /\ next.chunks = {} /\ next.docs = docs /\ next.pc = "done"
    BY <2>3, <2>4 DEF Searching
  <2>6. bm25' = bm25
    BY <1>7 DEF Resolve
  <2>. HIDE DEF next
  <2>. QED
    BY <1>2, <2>1, <2>5, <2>6 DEF SearchIs, next
<1>. QED
  BY <1>3, <1>4, <1>5, <1>6, <1>7 DEF SearchStep

-----------------------------------------------------------------------------
(* The nodes of the agent.                                                 *)

\* Each node leads from a state of the graph to a state of the graph.
LEMMA NodeStep ==
  ASSUME TypeOK, AgentInv, NEW a \in Agent, Invoke(a) \/ Node(a)
  PROVE  \E next \in AgentRecord :
            agent' = [agent EXCEPT ![a] = next] /\ Progress(next) /\ Texted(next)
<1>. DEFINE old == agent[a]
<1>1. old \in AgentRecord /\ old.user \in User /\ Progress(old) /\ Texted(old)
  BY DEF TypeOK, AgentRecord, AgentInv
<1>2. Active(a) = ActiveText(old) /\ Active(a) \in Text
  BY <1>1 DEF Active, ActiveText, AgentRecord, Text
<1>3. ASSUME NEW u \in User, NEW stream \in BOOLEAN, NEW history \in BOOLEAN
      PROVE  /\ NewAgent(u, stream, history) \in AgentRecord
             /\ Progress(NewAgent(u, stream, history)) /\ Texted(NewAgent(u, stream, history))
  <2>1. Progress(NewAgent(u, stream, history)) /\ Texted(NewAgent(u, stream, history))
    BY DEF NewAgent, Progress, Texted
  <2>. QED
    BY <2>1, NewAgentTyped
<1>4. CASE Invoke(a)
  BY <1>3, <1>4 DEF Invoke, Becomes
<1>5. CASE Raises(a)
  <2>. DEFINE next == [NewAgent(old.user, FALSE, FALSE) EXCEPT !.pc = "failed"]
  <2>1. \A x \in AgentRecord : [x EXCEPT !.pc = "failed"] \in AgentRecord
    BY DEF AgentRecord
  <2>2. next \in AgentRecord
    BY <1>1, <1>3, <2>1
  <2>3. Progress(next) /\ Texted(next)
    BY DEF NewAgent, Progress, Texted
  <2>. QED
    BY <1>5, <2>2, <2>3 DEF Raises, Becomes
<1>6. CASE ResolveQuery(a)
  <2>1. PICK text \in {"asked"} \cup (IF old.history THEN {"resolved"} ELSE {}) :
          agent' = [agent EXCEPT ![a] = [old EXCEPT !.pc = "classify", !.resolved_question = text]]
    BY <1>6 DEF ResolveQuery, Becomes
  <2>. DEFINE next == [old EXCEPT !.pc = "classify", !.resolved_question = text]
  <2>2. text \in {"asked", "resolved"} /\ (text = "resolved" => old.history)
    BY <2>1
  <2>3. next \in AgentRecord
    BY <1>1, <2>2 DEF AgentRecord, Text
  <2>4. Progress(next) /\ Texted(next)
    BY <1>1, <1>6, <2>2 DEF ResolveQuery, AgentRecord, Progress, Texted
  <2>. QED
    BY <2>1, <2>3, <2>4
<1>7. CASE ClassifyQuery(a)
  <2>1. PICK route \in Route :
          agent' = [agent EXCEPT ![a] = [old EXCEPT !.pc = "search", !.route = route,
                                             !.attempt = 0, !.classified = Active(a)]]
    BY <1>7 DEF ClassifyQuery, Becomes
  <2>. DEFINE next == [old EXCEPT !.pc = "search", !.route = route, !.attempt = 0,
                                  !.classified = Active(a)]
  <2>2. next \in AgentRecord
    <3>1. route \in Route \cup {"none"} /\ 0 \in 0..1
      OBVIOUS
    <3>. HIDE DEF Active, Text, Route, Grade
    <3>. QED
      BY <1>1, <1>2, <3>1 DEF AgentRecord
  <2>3. Progress(next) /\ Texted(next)
    BY <1>1, <1>2, <1>7 DEF ClassifyQuery, AgentRecord, Progress, Texted, ActiveText
  <2>. QED
    BY <2>1, <2>2, <2>3
<1>8. CASE Retrieve(a)
  <2>. DEFINE next == [old EXCEPT !.pc = "retrieve", !.searched = SearchText(a)]
  <2>1. agent' = [agent EXCEPT ![a] = next]
    BY <1>8 DEF Retrieve, Becomes
  <2>2. next \in AgentRecord
    <3>1. SearchText(a) \in Text
      BY <1>2 DEF SearchText, Text
    <3>. QED
      BY <1>1, <3>1 DEF AgentRecord
  <2>3. Progress(next) /\ Texted(next)
    BY <1>1, <1>2, <1>8 DEF Retrieve, SearchText, AgentRecord, Progress, Texted, ActiveText
  <2>. QED
    BY <2>1, <2>2, <2>3
<1>9. CASE GradeDocuments(a)
  <2>1. PICK grade \in Grade :
          agent' = [agent EXCEPT ![a] =
                      [old EXCEPT !.pc = decide_next(grade, old.attempt),
                                  !.first = IF @ = "none" THEN grade ELSE @,
                                  !.graded = Active(a)]]
    BY <1>9 DEF GradeDocuments, Becomes
  <2>. DEFINE next == [old EXCEPT !.pc = decide_next(grade, old.attempt),
                                  !.first = IF @ = "none" THEN grade ELSE @,
                                  !.graded = Active(a)]
  <2>2. next \in AgentRecord
    BY <1>1, <1>2 DEF AgentRecord, decide_next
  <2>3. Progress(next) /\ Texted(next)
    BY <1>1, <1>2, <1>9
       DEF GradeDocuments, decide_next, Grade, AgentRecord, Progress, Texted, ActiveText
  <2>. QED
    BY <2>1, <2>2, <2>3
<1>10. CASE RewriteQuery(a)
  <2>1. PICK text \in {"none", "rewritten"} :
          agent' = [agent EXCEPT ![a] = [old EXCEPT !.pc = "search", !.rewritten_question = text,
                                             !.attempt = Attempts(@)]]
    BY <1>10 DEF RewriteQuery, Becomes
  <2>. DEFINE next == [old EXCEPT !.pc = "search", !.rewritten_question = text,
                                  !.attempt = Attempts(@)]
  <2>2. old.attempt = 0 /\ old.first = "poor"
    BY <1>1, <1>10 DEF RewriteQuery, Progress
  <2>3. next \in AgentRecord
    <3>1. text \in Text /\ Attempts(old.attempt) \in 0..1
      BY <2>2 DEF Attempts, Text
    <3>. QED
      BY <1>1, <3>1 DEF AgentRecord
  <2>4. Progress(next) /\ Texted(next)
    BY <1>1, <1>10, <2>2
       DEF RewriteQuery, Attempts, AgentRecord, Progress, Texted, ActiveText
  <2>. QED
    BY <2>1, <2>3, <2>4
<1>11. CASE Synthesize(a)
  <2>. DEFINE next == [old EXCEPT !.pc = "answered", !.synthesized = Active(a)]
  <2>1. agent' = [agent EXCEPT ![a] = next]
    BY <1>11 DEF Synthesize, Becomes
  <2>2. next \in AgentRecord
    BY <1>1, <1>2 DEF AgentRecord
  <2>3. Progress(next) /\ Texted(next)
    BY <1>1, <1>2, <1>11 DEF Synthesize, AgentRecord, Progress, Texted, ActiveText
  <2>. QED
    BY <2>1, <2>2, <2>3
<1>. QED
  BY <1>4, <1>5, <1>6, <1>7, <1>8, <1>9, <1>10, <1>11 DEF Node

\* What a step does to agents and searches.
LEMMA StepIs ==
  ASSUME [Next]_vars
  PROVE  \/ UNCHANGED vars
         \/ \E a \in Agent :
               /\ Invoke(a) \/ Node(a)
               /\ UNCHANGED <<searches, others>>
               /\ \/ UNCHANGED call
                  \/ \E hybrid \in BOOLEAN : StartSearch(a, agent[a].user, hybrid)
         \/ \E c \in Call, u \in User, hybrid \in BOOLEAN :
               /\ StartSearch(c, u, hybrid)
               /\ others < MaxSearches /\ others' = others + 1
               /\ UNCHANGED <<searches, agent>>
         \/ \E c \in Call : SearchStep(c) /\ UNCHANGED <<content, agent, others>>
         \/ ContentChanges /\ UNCHANGED <<agent, others>>
<1>1. ASSUME NEW a \in Agent, Invoke(a) \/ Node(a)
      PROVE  /\ UNCHANGED <<searches, others>>
             /\ \/ UNCHANGED call
                \/ \E hybrid \in BOOLEAN : StartSearch(a, agent[a].user, hybrid)
  <2>1. CASE Retrieve(a)
    BY <2>1 DEF Retrieve
  <2>. QED
    BY <1>1, <2>1 DEF Node, Invoke, Raises, ResolveQuery, ClassifyQuery, GradeDocuments,
                      RewriteQuery, Synthesize
<1>2. ASSUME NEW c \in Call, OtherSearch(c)
      PROVE  \E u \in User, hybrid \in BOOLEAN :
               /\ StartSearch(c, u, hybrid)
               /\ others < MaxSearches /\ others' = others + 1
               /\ UNCHANGED <<searches, agent>>
  BY <1>2 DEF OtherSearch
<1>3. ASSUME NEW c \in Call, SearchStep(c) PROVE UNCHANGED content
  BY <1>3 DEF SearchStep, Dense, ReadChunks, UseIndex, BuildIndex, Resolve
<1>4. CASE \E a \in Agent : Invoke(a) \/ Node(a)
  BY <1>1, <1>4
<1>5. CASE \E c \in Call : OtherSearch(c)
  BY <1>2, <1>5
<1>6. CASE \E c \in Call : SearchStep(c) /\ UNCHANGED <<agent, others>>
  BY <1>3, <1>6
<1>. QED
  BY <1>4, <1>5, <1>6 DEF Next

LEMMA StartTyped ==
  ASSUME TypeOK, NEW c \in Call, NEW u \in User, NEW hybrid \in BOOLEAN,
         StartSearch(c, u, hybrid)
  PROVE  call' \in [Call -> CallRecord]
BY SearchingTyped DEF StartSearch, Go, TypeOK, RetrievalTypeOK

LEMMA TypeStep ==
  ASSUME Inv, [Next]_vars
  PROVE  TypeOK'
<1>. USE DEF TypeOK, RetrievalTypeOK
<1>1. TypeOK /\ AgentInv
  BY DEF Inv
<1>2. CASE UNCHANGED vars
  BY <1>1, <1>2 DEF vars
<1>3. ASSUME NEW a \in Agent, Invoke(a) \/ Node(a), UNCHANGED <<searches, others>>,
             \/ UNCHANGED call
             \/ \E hybrid \in BOOLEAN : StartSearch(a, agent[a].user, hybrid)
      PROVE  TypeOK'
  <2>1. agent' \in [Agent -> AgentRecord]
    BY <1>1, <1>3, NodeStep
  <2>2. a \in Call /\ agent[a].user \in User
    BY <1>1, AgentAssumption DEF AgentRecord
  <2>3. call' \in [Call -> CallRecord]
    BY <1>1, <1>3, <2>2, StartTyped
  <2>. QED
    BY <1>1, <1>3, <2>1, <2>3 DEF searches
<1>4. ASSUME NEW c \in Call, NEW u \in User, NEW hybrid \in BOOLEAN, StartSearch(c, u, hybrid),
             others < MaxSearches, others' = others + 1, UNCHANGED <<searches, agent>>
      PROVE  TypeOK'
  BY <1>1, <1>4, StartTyped, NumbersTyped DEF searches
<1>5. ASSUME NEW c \in Call, SearchStep(c), UNCHANGED <<content, agent, others>> PROVE TypeOK'
  BY <1>1, <1>5, SearchTyped DEF content
<1>6. CASE ContentChanges /\ UNCHANGED <<agent, others>>
  BY <1>1, <1>6, ContentTyped, NumbersTyped DEF ContentChanges
<1>. QED
  BY <1>2, <1>3, <1>4, <1>5, <1>6, StepIs

LEMMA AgentStep ==
  ASSUME Inv, [Next]_vars
  PROVE  AgentInv'
<1>1. CASE agent' = agent
  BY <1>1 DEF Inv, AgentInv
<1>2. ASSUME NEW a \in Agent, Invoke(a) \/ Node(a) PROVE AgentInv'
  <2>1. PICK next \in AgentRecord :
          agent' = [agent EXCEPT ![a] = next] /\ Progress(next) /\ Texted(next)
    BY <1>2, NodeStep DEF Inv
  <2>. QED
    BY <2>1 DEF Inv, TypeOK, AgentInv
<1>. QED
  BY <1>1, <1>2, StepIs DEF vars

-----------------------------------------------------------------------------
(* The index.                                                              *)

\* Sets of chunks that are comparable and as many are the same.
LEMMA ComparableAndAsMany ==
  ASSUME NEW X \in SUBSET Body, NEW Y \in SUBSET Body, Comparable(X, Y),
         Cardinality(X) = Cardinality(Y)
  PROVE  X = Y
<1>1. IsFiniteSet(X) /\ IsFiniteSet(Y)
  BY BodyAssumption, FS_Subset
<1>2. CASE X \subseteq Y
  BY <1>1, <1>2, FS_Subset
<1>3. CASE Y \subseteq X
  BY <1>1, <1>3, FS_Subset
<1>. QED
  BY <1>2, <1>3 DEF Comparable

LEMMA VersionsTyped ==
  ASSUME TypeOK, NEW u \in User
  PROVE  /\ \A X \in Versions(u) : X \in SUBSET Body
         /\ bm25[u] \in Versions(u)
         /\ \A c \in Call : call[c].user = u => call[c].chunks \in Versions(u)
BY DEF TypeOK, RetrievalTypeOK, CallRecord, Versions

\* Versions come from older ones, from what is possessed, or are empty.
LEMMA VersionsGrow ==
  ASSUME TypeOK, NEW u \in User, NEW c \in Call, NEW next \in CallRecord,
         call' = [call EXCEPT ![c] = next],
         next.user = u => next.chunks \in Versions(u) \cup {{}, held[u]},
         bm25'[u] \in Versions(u)
  PROVE  Versions(u)' \subseteq Versions(u) \cup {{}, held[u]}
<1>1. \A x \in Call : call'[x] = IF x = c THEN next ELSE call[x]
  BY DEF TypeOK, RetrievalTypeOK
<1>2. ASSUME NEW x \in Call, call'[x].user = u
      PROVE  call'[x].chunks \in Versions(u) \cup {{}, held[u]}
  BY <1>1, <1>2, VersionsTyped
<1>. QED
  BY <1>2 DEF Versions

\* A search brings no other version into play.
LEMMA SearchVersions ==
  ASSUME TypeOK, NEW c \in Call, SearchStep(c), NEW u \in User
  PROVE  Versions(u)' \subseteq Versions(u) \cup {{}, held[u]}
<1>. DEFINE old == call[c]
<1>1. PICK next \in CallRecord :
        call' = [call EXCEPT ![c] = next] /\ next.user = old.user /\ SearchIs(old, next)
  BY SearchTyped
<1>2. next.chunks \in {old.chunks, {}, held[old.user]}
  BY <1>1 DEF SearchIs
<1>3. bm25'[u] = bm25[u] \/ (bm25'[u] = old.chunks /\ old.user = u)
  BY <1>1 DEF SearchIs, TypeOK, RetrievalTypeOK
<1>4. bm25'[u] \in Versions(u)
  BY <1>3, VersionsTyped
<1>5. next.user = u => next.chunks \in Versions(u) \cup {{}, held[u]}
  BY <1>1, <1>2, VersionsTyped
<1>. QED
  BY <1>1, <1>4, <1>5, VersionsGrow

LEMMA StartVersions ==
  ASSUME TypeOK, NEW c \in Call, NEW v \in User, NEW hybrid \in BOOLEAN,
         StartSearch(c, v, hybrid), bm25' = bm25, NEW u \in User
  PROVE  Versions(u)' \subseteq Versions(u) \cup {{}, held[u]}
<1>1. Searching(v, hybrid).chunks = {}
  BY DEF Searching
<1>2. call' = [call EXCEPT ![c] = Searching(v, hybrid)]
  BY DEF StartSearch, Go
<1>3. bm25'[u] \in Versions(u) /\ Searching(v, hybrid) \in CallRecord
  BY SearchingTyped, VersionsTyped
<1>. QED
  BY <1>1, <1>2, <1>3, VersionsGrow

\* As long as a user loses nothing, what is read of the user's chunks only grows.
LEMMA VersionsStep ==
  ASSUME Inv, [Next]_vars, NEW u \in User \ removed'
  PROVE  /\ u \notin removed /\ held[u] \subseteq held'[u]
         /\ Versions(u)' \subseteq Versions(u) \cup {{}, held[u]}
<1>1. TypeOK
  BY DEF Inv
<1>2. CASE ContentChanges
  <2>1. bm25' = bm25 /\ call' = call
    BY <1>2 DEF ContentChanges
  <2>2. u \notin removed /\ held[u] \subseteq held'[u]
    BY <1>2 DEF ContentChanges
  <2>. QED
    BY <2>1, <2>2 DEF Versions
<1>3. CASE held' = held /\ removed' = removed /\ bm25' = bm25 /\ call' = call
  BY <1>3 DEF Versions
<1>4. ASSUME NEW a \in Agent, UNCHANGED <<searches, others>>,
             NEW hybrid \in BOOLEAN, StartSearch(a, agent[a].user, hybrid)
      PROVE  Versions(u)' \subseteq Versions(u) \cup {{}, held[u]}
  <2>1. a \in Call /\ agent[a].user \in User
    BY <1>1, AgentAssumption DEF TypeOK, AgentRecord
  <2>. QED
    BY <1>1, <1>4, <2>1, StartVersions DEF searches
<1>5. ASSUME NEW c \in Call, NEW v \in User, NEW hybrid \in BOOLEAN, StartSearch(c, v, hybrid),
             UNCHANGED <<searches, agent>>
      PROVE  Versions(u)' \subseteq Versions(u) \cup {{}, held[u]}
  BY <1>1, <1>5, StartVersions DEF searches
<1>6. ASSUME NEW c \in Call, SearchStep(c), UNCHANGED <<content, agent, others>>
      PROVE  Versions(u)' \subseteq Versions(u) \cup {{}, held[u]}
  BY <1>1, <1>6, SearchVersions
<1>. QED
  BY <1>2, <1>3, <1>4, <1>5, <1>6, StepIs DEF vars, searches, content

LEMMA IndexStep ==
  ASSUME Inv, [Next]_vars
  PROVE  IndexIsExact'
<1>1. TypeOK /\ IndexInv
  BY DEF Inv
<1>2. removed \subseteq removed'
  BY StepIs DEF vars, searches, content, ContentChanges
<1>3. CASE call' = call
  BY <1>1, <1>2, <1>3 DEF IndexInv, IndexIsExact
<1>4. ASSUME NEW c \in Call, NEW next, call' = [call EXCEPT ![c] = next],
             next.pc = "resolve" /\ next.hybrid /\ next.user \notin removed =>
                next.index = next.chunks
      PROVE  IndexIsExact'
  <2>1. \A x \in Call : call'[x] = IF x = c THEN next ELSE call[x]
    BY <1>1, <1>4 DEF TypeOK, RetrievalTypeOK
  <2>. QED
    BY <1>1, <1>2, <1>4, <2>1 DEF IndexInv, IndexIsExact
<1>5. ASSUME NEW c \in Call, NEW u, NEW hybrid, StartSearch(c, u, hybrid) PROVE IndexIsExact'
  <2>1. Searching(u, hybrid).pc = "dense" /\ call' = [call EXCEPT ![c] = Searching(u, hybrid)]
    BY <1>5 DEF StartSearch, Go, Searching
  <2>. QED
    BY <1>4, <2>1
<1>6. ASSUME NEW c \in Call, SearchStep(c) PROVE IndexIsExact'
  <2>. DEFINE old == call[c]
  <2>1. PICK next \in CallRecord :
          call' = [call EXCEPT ![c] = next] /\ next.user = old.user /\ SearchIs(old, next)
    BY <1>1, <1>6, SearchTyped
  <2>2. ASSUME old.user \notin removed, Cardinality(bm25[old.user]) = Cardinality(old.chunks)
        PROVE  bm25[old.user] = old.chunks
    <3>1. old.user \in User
      BY <1>1 DEF TypeOK, RetrievalTypeOK, CallRecord
    <3>2. /\ bm25[old.user] \in Versions(old.user) /\ old.chunks \in Versions(old.user)
          /\ bm25[old.user] \in SUBSET Body /\ old.chunks \in SUBSET Body
      BY <1>1, <3>1, VersionsTyped
    <3>3. Comparable(bm25[old.user], old.chunks)
      BY <1>1, <2>2, <3>1, <3>2 DEF IndexInv
    <3>. QED
      BY <2>2, <3>2, <3>3, ComparableAndAsMany
  <2>3. next.pc = "resolve" /\ next.hybrid /\ next.user \notin removed =>
           next.index = next.chunks
    BY <2>1, <2>2 DEF SearchIs
  <2>. QED
    BY <1>4, <2>1, <2>3
<1>7. \A a \in Agent : a \in Call
  BY AgentAssumption
<1>. QED
  BY <1>3, <1>5, <1>6, <1>7, StepIs DEF vars, ContentChanges

-----------------------------------------------------------------------------
(* The theorems.                                                           *)

LEMMA InvInit == Init => Inv
<1>. SUFFICES ASSUME Init PROVE Inv
  OBVIOUS
<1>1. AgentInv
  <2>1. \A a \in Agent : \E u \in User :
          agent[a] = [NewAgent(u, FALSE, FALSE) EXCEPT !.pc = "idle"]
    BY DEF Init
  <2>2. \A u \in User : LET x == [NewAgent(u, FALSE, FALSE) EXCEPT !.pc = "idle"]
                        IN  Progress(x) /\ Texted(x)
    BY DEF NewAgent, Progress, Texted
  <2>. QED
    BY <2>1, <2>2 DEF AgentInv
<1>2. \A c \in Call : call[c].pc = "idle" /\ call[c].chunks = {}
  <2>1. \A c \in Call : \E u \in User : call[c] = [Searching(u, FALSE) EXCEPT !.pc = "idle"]
    BY DEF Init, RetrievalInit
  <2>. QED
    BY <2>1 DEF Searching
<1>3. \A u \in User : Versions(u) \subseteq {{}}
  BY <1>2 DEF Versions, Init, RetrievalInit
<1>4. IndexInv
  BY <1>2, <1>3 DEF IndexInv, IndexIsExact, Comparable
<1>. QED
  BY <1>1, <1>4, TypeInit DEF Inv

LEMMA InvStep == Inv /\ [Next]_vars => Inv'
<1>. SUFFICES ASSUME Inv, [Next]_vars PROVE Inv'
  OBVIOUS
<1>1. ASSUME NEW u \in User \ removed'
      PROVE  /\ \A X \in Versions(u)' : X \subseteq held'[u]
             /\ \A X, Y \in Versions(u)' : Comparable(X, Y)
  <2>1. /\ u \notin removed /\ held[u] \subseteq held'[u]
        /\ Versions(u)' \subseteq Versions(u) \cup {{}, held[u]}
    BY VersionsStep
  <2>2. /\ \A X \in Versions(u) : X \subseteq held[u]
        /\ \A X, Y \in Versions(u) : Comparable(X, Y)
    BY <2>1 DEF Inv, IndexInv
  <2>. QED
    BY <2>1, <2>2 DEF Comparable
<1>2. IndexInv'
  BY <1>1, IndexStep DEF IndexInv, Comparable
<1>. QED
  BY <1>2, TypeStep, AgentStep DEF Inv

THEOREM Invariance == Spec => []Inv
BY InvInit, InvStep, PTL DEF Spec

\* Agents and searches keep their types; above all, no invocation counts a second
\* attempt.
THEOREM Types == Spec => []TypeOK
<1>1. Inv => TypeOK
  BY DEF Inv
<1>. QED
  BY <1>1, Invariance, PTL

\* An answer is written from the first passages unless they were graded poor, and
\* then after exactly one rewrite and one more search.
THEOREM PoorGradesRewriteOnce == Spec => []PoorIsRetriedOnce
<1>1. Inv => PoorIsRetriedOnce
  BY DEF Inv, AgentInv, Progress, PoorIsRetriedOnce
<1>. QED
  BY <1>1, Invariance, PTL

\* Classification, the first search, grading and synthesis are given the resolved
\* question in the streaming graph, and the one asked in the plain graph.
THEOREM NodesShareTheQuestion == Spec => []OneQuestionIsAnswered
<1>1. Inv => OneQuestionIsAnswered
  <2>. DEFINE x(a) == agent[a]
              question(a) == IF x(a).stream THEN x(a).resolved_question ELSE "asked"
              second(a) == IF x(a).attempt = 1 THEN {"rewritten"} ELSE {}
  <2>. SUFFICES ASSUME Inv, NEW a \in Agent, x(a).pc = "answered"
                PROVE  /\ \/ question(a) = "asked"
                          \/ question(a) = "resolved" /\ x(a).history
                       /\ x(a).classified = question(a)
                       /\ x(a).searched \in {question(a)} \cup second(a)
                       /\ x(a).graded = question(a)
                       /\ x(a).synthesized = question(a)
    BY DEF OneQuestionIsAnswered
  <2>1. Texted(x(a))
    BY DEF Inv, AgentInv
  <2>2. question(a) = ActiveText(x(a))
    BY <2>1 DEF Texted, ActiveText
  <2>. QED
    BY <2>1, <2>2 DEF Texted
<1>. QED
  BY <1>1, Invariance, PTL

\* For a user who has lost nothing since the process started, the index of a search
\* is over exactly the chunks the search has read.
THEOREM CountDecidesSoundly == Spec => []IndexIsExact
<1>1. Inv => IndexIsExact
  BY DEF Inv, IndexInv
<1>. QED
  BY <1>1, Invariance, PTL
=============================================================================
