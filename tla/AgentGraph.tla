------------------------------ MODULE AgentGraph ------------------------------
(***************************************************************************)
(* The agent of POST /agent_query and of the streaming endpoint:           *)
(* [resolve ->] classify -> retrieve -> grade -> [rewrite -> retrieve ->   *)
(* grade] -> synthesize, over the searches of Retrieval.  One action is    *)
(* one node with the edge that leaves it.  A call to a model returns       *)
(* anything of its type, or raises.  The searches of calls that are no     *)
(* agents stand for those of other invocations in the process.             *)
(*                                                                         *)
(* A question is told apart only by where its text comes from.  Synthesis  *)
(* of the streaming path is outside the graph (Conversations).             *)
(***************************************************************************)
EXTENDS Retrieval

CONSTANTS
    Agent,       \* invocations followed here, each the caller of its searches
    MaxSearches  \* bound: searches of the other callers

ASSUME AgentAssumption == Agent \subseteq Call /\ MaxSearches \in Nat

VARIABLES
    agent,   \* agent[a]: the AgentState of invocation a
    others   \* searches of the other callers so far

vars == <<held, vecs, chunked, bm25, call, changes, removed, agent, others>>
searches == <<held, vecs, chunked, bm25, changes, removed>>

-----------------------------------------------------------------------------

Route == {"definitional", "multi_hop", "general"}
Grade == {"relevant", "partial", "poor"}
Text == {"none", "asked", "resolved", "rewritten"}

\* The first grade, and the texts the nodes were given, are history.
AgentRecord ==
    [pc : {"idle", "resolve", "classify", "search", "retrieve", "rewrite",
           "synthesize", "answered", "failed"},
     user : User, stream : BOOLEAN, history : BOOLEAN,
     resolved_question : Text, rewritten_question : Text,
     route : Route \cup {"none"}, attempt : 0..1, first : Grade \cup {"none"},
     classified : Text, searched : Text, graded : Text, synthesized : Text]
NewAgent(u, stream, history) ==
    [pc |-> IF stream THEN "resolve" ELSE "classify",
     user |-> u, stream |-> stream, history |-> history,
     resolved_question |-> "none", rewritten_question |-> "none",
     route |-> "none", attempt |-> 0, first |-> "none",
     classified |-> "none", searched |-> "none", graded |-> "none",
     synthesized |-> "none"]

TypeOK ==
    /\ RetrievalTypeOK
    /\ agent \in [Agent -> AgentRecord]
    /\ others \in 0..MaxSearches

Init ==
    /\ RetrievalInit
    /\ agent \in [Agent -> {[NewAgent(u, FALSE, FALSE) EXCEPT !.pc = "idle"] : u \in User}]
    /\ others = 0

\* Mutant of Active: the nodes of the streaming graph are left on state["question"].
Active_Asked(a) == "asked"

\* _active_question, and state["question"] where nothing was resolved.
Active(a) ==
    IF agent[a].resolved_question # "none" THEN agent[a].resolved_question ELSE "asked"

Becomes(a, next) == agent' = [agent EXCEPT ![a] = next]

\* Only the streaming endpoint hands over turns.
Invoke(a) ==
    /\ agent[a].pc = "idle"
    /\ \E u \in User, stream, history \in BOOLEAN :
          (history => stream) /\ Becomes(a, NewAgent(u, stream, history))
    /\ UNCHANGED <<searches, call, others>>

\* Nothing catches what is raised here: by the model in rewrite_query, synthesize or
\* for HyDE's passage, by a store or the embedding in a search. ainvoke raises it.
Raises(a) ==
    /\ \/ agent[a].pc = "resolve" /\ agent[a].history
       \/ agent[a].pc \in {"search", "rewrite", "synthesize"}
       \/ agent[a].pc = "retrieve" /\ call[a].pc = "failed"
    /\ Becomes(a, [NewAgent(agent[a].user, FALSE, FALSE) EXCEPT !.pc = "failed"])
    /\ UNCHANGED <<searches, call, others>>

\* The model repeats a question that stands for itself; so does the code when the
\* model returns nothing.
ResolveQuery(a) ==
    /\ agent[a].pc = "resolve"
    /\ \E text \in {"asked"} \cup (IF agent[a].history THEN {"resolved"} ELSE {}) :
          Becomes(a, [agent[a] EXCEPT !.pc = "classify", !.resolved_question = text])
    /\ UNCHANGED <<searches, call, others>>

\* Whatever goes wrong, the route is then general.
ClassifyQuery(a) ==
    /\ agent[a].pc = "classify"
    /\ \E route \in Route :
          Becomes(a, [agent[a] EXCEPT !.pc = "search", !.route = route, !.attempt = 0,
                                      !.classified = Active(a)])
    /\ UNCHANGED <<searches, call, others>>

\* An empty rewrite falls back on the question.
SearchText(a) ==
    IF agent[a].rewritten_question = "rewritten" THEN "rewritten" ELSE Active(a)

\* build_retriever: hybrid for definitional, dense for general, and dense over a
\* made-up passage for multi_hop.
Retrieve(a) ==
    /\ agent[a].pc = "search"
    /\ StartSearch(a, agent[a].user, agent[a].route = "definitional")
    /\ Becomes(a, [agent[a] EXCEPT !.pc = "retrieve", !.searched = SearchText(a)])
    /\ UNCHANGED <<searches, others>>

\* Mutant of decide_next: one rewrite too many.
decide_next_Twice(grade, attempt) ==
    IF grade = "poor" /\ attempt <= 1 THEN "rewrite" ELSE "synthesize"

decide_next(grade, attempt) ==
    IF grade = "poor" /\ attempt < 1 THEN "rewrite" ELSE "synthesize"

\* Whatever goes wrong, the grade is then partial.
GradeDocuments(a) ==
    /\ agent[a].pc = "retrieve" /\ call[a].pc = "done"
    /\ \E grade \in Grade :
          Becomes(a, [agent[a] EXCEPT
              !.pc = decide_next(grade, agent[a].attempt),
              !.first = IF @ = "none" THEN grade ELSE @, !.graded = Active(a)])
    /\ UNCHANGED <<searches, call, others>>

\* Mutant of Attempts: the attempt is not counted.
Attempts_Uncounted(attempt) == attempt

Attempts(attempt) == attempt + 1
RewriteQuery(a) ==
    /\ agent[a].pc = "rewrite"
    /\ \E text \in {"none", "rewritten"} :
          Becomes(a, [agent[a] EXCEPT !.pc = "search", !.rewritten_question = text,
                                      !.attempt = Attempts(@)])
    /\ UNCHANGED <<searches, call, others>>

\* synthesize, or the first step of synthesize_streaming.
Synthesize(a) ==
    /\ agent[a].pc = "synthesize"
    /\ Becomes(a, [agent[a] EXCEPT !.pc = "answered", !.synthesized = Active(a)])
    /\ UNCHANGED <<searches, call, others>>

\* A search of an invocation that is not followed.
OtherSearch(c) ==
    /\ others < MaxSearches /\ others' = others + 1
    /\ c \notin Agent /\ call[c].pc \in {"idle", "done", "failed"}
    /\ \E u \in User, hybrid \in BOOLEAN : StartSearch(c, u, hybrid)
    /\ UNCHANGED <<searches, agent>>

Node(a) ==
    \/ Raises(a) \/ ResolveQuery(a) \/ ClassifyQuery(a) \/ Retrieve(a)
    \/ GradeDocuments(a) \/ RewriteQuery(a) \/ Synthesize(a)

Next ==
    \/ \E a \in Agent : Invoke(a) \/ Node(a)
    \/ \E c \in Call : OtherSearch(c) \/ (SearchStep(c) /\ UNCHANGED <<agent, others>>)
    \/ ContentChanges /\ UNCHANGED <<agent, others>>

Spec == Init /\ [][Next]_vars

\* The graph is run to its end by whoever invoked it, and so is a search; a call
\* to a model returns or raises. Nobody has to invoke or to sync.
FairSpec ==
    /\ Spec
    /\ \A a \in Agent : WF_vars(Node(a))
    /\ \A c \in Call : WF_vars(SearchStep(c) /\ UNCHANGED <<agent, others>>)

-----------------------------------------------------------------------------
(* Properties.                                                             *)

\* An answer is written from the first passages unless they were graded poor, and
\* then after exactly one rewrite and one more search, whatever that one yields.
PoorIsRetriedOnce ==
    \A a \in Agent : agent[a].pc \in {"synthesize", "answered"} =>
        /\ agent[a].first # "none"
        /\ agent[a].attempt = IF agent[a].first = "poor" THEN 1 ELSE 0

\* Classification, the first search, grading and synthesis work on one question, and
\* that is the one resolve_query made of the turns handed over in the streaming graph
\* (_active_question), and the one asked in the plain graph: no node of either is left
\* on the other's, also after a rewrite, which only a second search may use.
OneQuestionIsAnswered ==
    \A a \in Agent : agent[a].pc = "answered" =>
        LET question == IF agent[a].stream THEN agent[a].resolved_question ELSE "asked"
            second == IF agent[a].attempt = 1 THEN {"rewritten"} ELSE {}
        IN  /\ question = "asked" \/ (question = "resolved" /\ agent[a].history)
            /\ agent[a].classified = question
            /\ agent[a].searched \in {question} \cup second
            /\ agent[a].graded = question
            /\ agent[a].synthesized = question

\* Every invocation of either graph ends, with an answer or with an exception.
InvocationEnds ==
    \A a \in Agent :
        agent[a].pc \in {"resolve", "classify"} ~> agent[a].pc \in {"answered", "failed"}
=============================================================================
