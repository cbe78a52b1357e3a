----------------------------- MODULE MCAgentGraph -----------------------------
(* An instance of AgentGraph for TLC, with the fusion over bounded rankings. *)
EXTENDS AgentGraph

\* The one state in which the process has just started, for users without content.
Fresh ==
    /\ others = 0 /\ changes = 0 /\ chunked = {}
    /\ \A a \in Agent : agent[a].pc = "idle"
    /\ \A c \in Call : call[c].pc = "idle"

\* What both retrievers find comes first, in whichever order both agree on: for the
\* hits a search has at hand, and, in one state, since this depends on none, for all
\* pairs of rankings of up to three of four chunks (_rrf and its constant 60).
FusionIsSound ==
    /\ \A c \in Call : call[c].pc = "resolve" /\ call[c].hybrid =>
          \A s \in Rankings(call[c].index \ Wordless, 2 * K) : FusionOrder(call[c].dense, s)
    /\ Fresh => \A d, s \in Rankings(1..4, 3) : FusionOrder(d, s)
=============================================================================
