---------------------------- MODULE Conversations ----------------------------
(***************************************************************************)
(* A user's chat: the turns of conversations.db, the server's handling of  *)
(* POST /agent_query_stream and of DELETE and GET /sessions/{id}, and the  *)
(* Chat panels of the user's browser tabs, which share a session id        *)
(* through localStorage and read each answer off a stream of frames.       *)
(*                                                                         *)
(* The API is one process and the stream handler runs on its event loop,   *)
(* so append_turn is one step and two appends never overlap; clear_session *)
(* and get_recent_turns run in the thread pool.  A read-only or one-row    *)
(* statement is one step.  What the agent retrieves is AgentGraph: here it *)
(* fails or it answers.  An answer is its number of tokens, and a frame is *)
(* handled when its last byte is in the buffer, so reading goes frame by   *)
(* frame wherever the network cuts the bytes.                              *)
(***************************************************************************)
EXTENDS Naturals, Sequences, FiniteSets, SequencesExt

CONSTANTS
    Tab,          \* the user's browser tabs
    NumRequests,  \* bound: questions asked, in the order they are asked
    NumSessions,  \* bound: session ids drawn
    Window,       \* MEMORY_WINDOW_SIZE
    Limit,        \* fetchTurns' limit
    MaxTokens,    \* bound: tokens of an answer
    Reloaded,     \* bound: tabs that may be loaded again
    MaxFaults     \* bound: reloads, restarts, lost connections, failed calls

Request == 1..NumRequests
Session == 1..NumSessions

ASSUME BoundsAssumption ==
    {NumRequests, NumSessions, Window, Limit, MaxTokens, MaxFaults} \subseteq Nat
ASSUME NumSessionsAssumption == NumSessions > 0

VARIABLES
    turns,    \* turns[s]: the rows of table turns with session s, by turn_index
    request,  \* request[r]: the handler of question r
    wire,     \* wire[r]: the frames sent to r's page and not yet handled there
    page,     \* page[t]: the Chat component in tab t
    stored,   \* the session id in localStorage, which is the last one drawn
    faults

vars == <<turns, request, wire, page, stored, faults>>

-----------------------------------------------------------------------------

Turn == [role : {"user", "assistant"}, req : Request, n : Nat]
\* metadata and answer_complete change nothing the model has of a message.
Frame == {"token", "error", "done"}

\* mixed (history) marks a hydrated message to which a stream added its tokens.
Message == [role : {"user", "assistant"}, req : Request, n : Nat,
            pending : BOOLEAN, error : BOOLEAN, mixed : BOOLEAN]

Unbegun == {"unused", "sent", "accepted"}
Begun == {"agent", "synth", "failed", "save", "end", "stopped"}

\* sent counts tokens; forgotten (history) is set when r's session is cleared
\* after r's question was stored.
RequestRecord ==
    [pc : Unbegun \cup Begun \cup {"cut"}, session : Session, history : Seq(Turn),
     sent : Nat, open : BOOLEAN, forgotten : BOOLEAN]
\* fetched is the session whose turns the component asked for when it was mounted.
PageRecord ==
    [messages : Seq(Message), busy : BOOLEAN, req : Request \cup {0},
     session : Session, mount : {"asked", "read", "done"}, fetched : Session,
     loaded : Seq(Turn),
     reset : {"no", "clearing", "cleared"}, alive : BOOLEAN]

Mounted(s) ==
    [messages |-> <<>>, busy |-> FALSE, req |-> 0, session |-> s, mount |-> "asked",
     fetched |-> s, loaded |-> <<>>, reset |-> "no", alive |-> TRUE]

TypeOK ==
    /\ turns \in [Session -> Seq(Turn)]
    /\ request \in [Request -> RequestRecord]
    /\ wire \in [Request -> Seq(Frame)]
    /\ page \in [Tab -> PageRecord]
    /\ stored \in Session
    /\ faults \in Nat

\* Every tab has been opened on the user's first session, which has no turns.
Init ==
    /\ turns = [s \in Session |-> <<>>]
    /\ request = [r \in Request |->
            [pc |-> "unused", session |-> 1, history |-> <<>>, sent |-> 0,
             open |-> TRUE, forgotten |-> FALSE]]
    /\ wire = [r \in Request |-> <<>>]
    /\ page = [t \in Tab |-> [Mounted(1) EXCEPT !.mount = "done"]]
    /\ stored = 1
    /\ faults = 0

Fault == faults < MaxFaults /\ faults' = faults + 1

-----------------------------------------------------------------------------
(* The server.                                                             *)

\* Mutant of Recent: the newest turn is cut off, as if the question were stored.
Recent_CutsNewest(s, n) ==
    LET len == Len(turns[s])
    IN  SubSeq(turns[s], IF len > n THEN len - n + 1 ELSE 1, len - 1)

\* get_recent_turns: the last n rows, oldest first.
Recent(s, n) ==
    LET len == Len(turns[s])
    IN  SubSeq(turns[s], IF len > n THEN len - n + 1 ELSE 1, len)

UserTurn(r) == [role |-> "user", req |-> r, n |-> 0]
AssistantTurn(r) == [role |-> "assistant", req |-> r, n |-> request[r].sent]

\* Mutant of append_turn: the index of the newest row, not the next one.
append_turn_SameIndex(r, turn) ==
    turns' = [turns EXCEPT ![request[r].session] =
                  Append(IF @ = <<>> THEN @ ELSE Front(@), turn)]

append_turn(r, turn) ==
    turns' = [turns EXCEPT ![request[r].session] = Append(@, turn)]

Reads(t, r) == page[t].busy /\ page[t].req = r
Send(r, frames) ==
    wire' = [wire EXCEPT ![r] =
                IF request[r].open /\ \E t \in Tab : Reads(t, r) THEN @ \o frames ELSE @]
Goto(r, pc) == request' = [request EXCEPT ![r].pc = pc]
Return(r) == request' = [request EXCEPT ![r].pc = "end", ![r].history = <<>>]

\* agent_query_stream reads the window and returns the response.
Accept(r) ==
    /\ request[r].pc = "sent"
    /\ request' = [request EXCEPT ![r].pc = "accepted",
                       ![r].history = Recent(request[r].session, Window)]
    /\ UNCHANGED <<turns, wire, page, stored, faults>>

\* event_stream starts: the question is stored, and the agent invoked.
Begin(r) ==
    /\ request[r].pc = "accepted"
    /\ append_turn(r, UserTurn(r))
    /\ Goto(r, "agent")
    /\ UNCHANGED <<wire, page, stored, faults>>

\* Mutant of AgentError: the frame that ends every stream is missing.
AgentError_NoDone == <<"error">>

AgentError == <<"error", "done">>
AgentFails(r) ==
    /\ request[r].pc = "agent"
    /\ Send(r, AgentError)
    /\ Return(r)
    /\ UNCHANGED <<turns, page, stored, faults>>

AgentAnswers(r) ==
    /\ request[r].pc = "agent"
    /\ Goto(r, "synth")
    /\ UNCHANGED <<turns, wire, page, stored, faults>>

\* Mutant of LastFrames: done goes out before the answer is stored.
LastFrames_Done(ok) == IF ok THEN <<"done">> ELSE <<"error">>

\* synthesize_streaming yields tokens, then an error or answer_complete.
LastFrames(ok) == IF ok THEN <<>> ELSE <<"error">>
Token(r) ==
    /\ request[r].pc = "synth" /\ request[r].sent < MaxTokens
    /\ Send(r, <<"token">>)
    /\ request' = [request EXCEPT ![r].sent = @ + 1]
    /\ UNCHANGED <<turns, page, stored, faults>>

SynthesisEnds(r) ==
    /\ request[r].pc = "synth"
    /\ \E ok \in BOOLEAN :
          /\ Send(r, LastFrames(ok))
          /\ Goto(r, IF ok THEN "save" ELSE "failed")
    /\ UNCHANGED <<turns, page, stored, faults>>

\* Whatever was joined from the tokens is stored, then done is sent.
Save(r) ==
    /\ request[r].pc \in {"save", "failed"}
    /\ IF request[r].sent > 0 THEN append_turn(r, AssistantTurn(r)) ELSE UNCHANGED turns
    /\ Send(r, <<"done">>)
    /\ Return(r)
    /\ UNCHANGED <<page, stored, faults>>

\* Mutant of Stop: the connection of a stopped handler is not closed.
Stop_LeavesOpen(rq) ==
    [rq EXCEPT !.pc = IF @ \in Begun THEN "stopped" ELSE "cut", !.history = <<>>]

\* CancelledError at an await of the handler: not an Exception, nothing is saved.
Stop(rq) ==
    [rq EXCEPT !.pc = IF @ \in Begun THEN "stopped" ELSE "cut",
               !.open = FALSE, !.history = <<>>]

\* The server notices that nobody reads the stream, at any time or never.
Cancel(r) ==
    /\ request[r].pc \in {"accepted", "agent", "synth", "failed", "save"}
    /\ ~request[r].open \/ ~\E t \in Tab : Reads(t, r)
    /\ request' = [request EXCEPT ![r] = Stop(@)]
    /\ UNCHANGED <<turns, wire, page, stored, faults>>

\* A connection breaks, or the request is refused before the handler runs.
Lose(r) ==
    /\ Fault
    /\ request[r].open /\ \E t \in Tab : Reads(t, r)
    /\ request' = [request EXCEPT ![r] =
                       IF @.pc = "sent" THEN Stop(@) ELSE [@ EXCEPT !.open = FALSE]]
    /\ UNCHANGED <<turns, wire, page, stored>>

\* The API container restarts.
Restart ==
    /\ Fault
    /\ request' = [r \in Request |->
            IF request[r].pc \in {"unused", "end"} THEN request[r] ELSE Stop(request[r])]
    /\ UNCHANGED <<turns, wire, page, stored>>

Server(r) ==
    \/ Accept(r) \/ Begin(r) \/ AgentFails(r) \/ AgentAnswers(r)
    \/ Token(r) \/ SynthesisEnds(r) \/ Save(r)

-----------------------------------------------------------------------------
(* The page.                                                               *)

\* Mutant of Patchee: off by one.
Patchee_LastButOne(msgs) == Len(msgs) - 1

\* patch: a function of the last message. Without a message, spreading
\* undefined changes nothing that is shown.
Patchee(msgs) == Len(msgs)
Patched(msgs, f(_)) ==
    IF msgs = <<>> THEN msgs ELSE [msgs EXCEPT ![Patchee(msgs)] = f(@)]

\* fetchTurns on mount: the server's answer, and its arrival. "New chat" may have
\* taken another session meanwhile.
Hydrate(t) ==
    /\ page[t].mount = "asked"
    /\ page' = [page EXCEPT ![t].mount = "read",
                            ![t].loaded = Recent(page[t].fetched, Limit)]
    /\ UNCHANGED <<turns, request, wire, stored, faults>>

HydrateFails(t) ==
    /\ page[t].mount = "asked"
    /\ page' = [page EXCEPT ![t].mount = "done"]
    /\ UNCHANGED <<turns, request, wire, stored, faults>>

\* Mutant of Hydrated: rows are shown as they came.
Hydrated_Raw(turn) == turn

\* setMessages replaces the list, whatever is in it by now.
Hydrated(turn) ==
    [role |-> turn.role, req |-> turn.req, n |-> turn.n, pending |-> FALSE,
     error |-> FALSE, mixed |-> FALSE]
ShowHydrated(t) ==
    /\ page[t].mount = "read" /\ page[t].alive
    /\ page' = [page EXCEPT
            ![t].mount = "done", ![t].loaded = <<>>,
            ![t].messages = [i \in DOMAIN page[t].loaded |-> Hydrated(page[t].loaded[i])]]
    /\ UNCHANGED <<turns, request, wire, stored, faults>>

Question(r) ==
    [role |-> "user", req |-> r, n |-> 0, pending |-> FALSE, error |-> FALSE, mixed |-> FALSE]
Ask(t) ==
    \E r \in Request :
        /\ \A q \in Request : (request[q].pc = "unused") = (q >= r)
        /\ page[t].alive /\ ~page[t].busy
        /\ page' = [page EXCEPT
                ![t].busy = TRUE, ![t].req = r,
                ![t].messages = @ \o <<Question(r),
                    [Question(r) EXCEPT !.role = "assistant", !.pending = TRUE]>>]
        /\ request' = [request EXCEPT ![r].pc = "sent", ![r].session = page[t].session]
        /\ UNCHANGED <<turns, wire, stored, faults>>

AddToken(m) == [m EXCEPT !.n = @ + 1, !.mixed = ~m.pending]

\* A frame is patched into the last message. A token needs one: reading the
\* content of none throws while rendering, and nothing above catches it.
Handle(t) ==
    LET r == page[t].req
        frame == Head(wire[r])
        Error1(m) == [m EXCEPT !.n = 0, !.error = TRUE]
        Done1(m) == [m EXCEPT !.pending = FALSE]
    IN  /\ page[t].alive /\ page[t].busy /\ wire[r] # <<>>
        /\ wire' = [wire EXCEPT ![r] = Tail(@)]
        /\ page' = [page EXCEPT
                ![t].messages = CASE frame = "token" -> Patched(@, AddToken)
                                  [] frame = "error" -> Patched(@, Error1)
                                  [] frame = "done"  -> Patched(@, Done1),
                ![t].alive = ~(frame = "token" /\ page[t].messages = <<>>)]
        /\ UNCHANGED <<turns, request, stored, faults>>

\* The stream ends, or breaks: fetch or reader.read() throws.
StreamEnds(t) ==
    LET r == page[t].req IN
    /\ page[t].alive /\ page[t].busy
    /\ request[r].pc = "end" /\ request[r].open /\ wire[r] = <<>>
    /\ page' = [page EXCEPT ![t].busy = FALSE, ![t].req = 0]
    /\ UNCHANGED <<turns, request, wire, stored, faults>>

StreamBreaks(t) ==
    LET r == page[t].req
        Broken(m) == [m EXCEPT !.n = 0, !.error = TRUE, !.pending = FALSE]
    IN  /\ page[t].alive /\ page[t].busy /\ ~request[r].open
        /\ page' = [page EXCEPT ![t].busy = FALSE, ![t].req = 0,
                                ![t].messages = Patched(@, Broken)]
        /\ wire' = [wire EXCEPT ![r] = <<>>]
        /\ UNCHANGED <<turns, request, stored, faults>>

\* "New chat" is offered while no answer streams and messages are shown. It is
\* not clicked again before it is done.
NewChat(t) ==
    /\ page[t].alive /\ ~page[t].busy /\ page[t].messages # <<>>
    /\ page[t].reset = "no"
    /\ page' = [page EXCEPT ![t].reset = "clearing"]
    /\ UNCHANGED <<turns, request, wire, stored, faults>>

\* clear_session deletes what the session has, the turns of questions still
\* being answered too.
Clear(t) ==
    LET s == page[t].session IN
    /\ page[t].reset = "clearing"
    /\ turns' = [turns EXCEPT ![s] = <<>>]
    /\ request' = [r \in Request |->
            IF request[r].session = s /\ request[r].pc \in Begun
            THEN [request[r] EXCEPT !.forgotten = TRUE] ELSE request[r]]
    /\ page' = [page EXCEPT ![t].reset = "cleared"]
    /\ UNCHANGED <<wire, stored, faults>>

\* clearSession looks at no status: a refusal reads as success. Only a call that
\* never got an answer makes reset give up.
ClearFails(t) ==
    /\ Fault
    /\ page[t].reset = "clearing"
    /\ \E phase \in {"cleared", "no"} : page' = [page EXCEPT ![t].reset = phase]
    /\ UNCHANGED <<turns, request, wire, stored>>

ResetDone(t) ==
    /\ page[t].reset = "cleared" /\ stored < NumSessions /\ page[t].alive
    /\ stored' = stored + 1
    /\ page' = [page EXCEPT ![t].reset = "no", ![t].session = stored',
                            ![t].messages = <<>>]
    /\ UNCHANGED <<turns, request, wire, faults>>

\* The page is loaded again, or the user switches away and back. Its stream has
\* no reader any more.
Reload(t) ==
    /\ Fault
    /\ t \in Reloaded
    /\ page' = [page EXCEPT ![t] = Mounted(stored)]
    /\ wire' = [r \in Request |-> IF Reads(t, r) THEN <<>> ELSE wire[r]]
    /\ UNCHANGED <<turns, request, stored>>

Page(t) == Handle(t) \/ StreamEnds(t) \/ StreamBreaks(t)

Next ==
    \/ \E r \in Request : Server(r) \/ Cancel(r) \/ Lose(r)
    \/ Restart
    \/ \E t \in Tab :
          \/ Page(t) \/ Ask(t) \/ Reload(t)
          \/ Hydrate(t) \/ HydrateFails(t) \/ ShowHydrated(t)
          \/ NewChat(t) \/ Clear(t) \/ ClearFails(t) \/ ResetDone(t)

Spec == Init /\ [][Next]_vars

\* The event loop does not rest while a handler can go on, a call to the model
\* returns or raises, and a page handles what reaches it. Nobody has to ask.
FairSpec ==
    /\ Spec
    /\ WF_vars(\E r \in Request : Server(r))
    /\ WF_vars(\E t \in Tab : Page(t))

-----------------------------------------------------------------------------
(* Properties.                                                             *)

Holds(s, turn) == turn \in Range(turns[s])

\* A question is stored before the model runs and outlives every failure after
\* that, until its session is cleared; its answer is stored at most once, and
\* after it (routes.py: append_turn before ainvoke, and again after the stream).
QuestionSurvives ==
    \A r \in Request :
        LET rows == turns[request[r].session]
            asked == {i \in DOMAIN rows : rows[i] = UserTurn(r)}
            answered == {i \in DOMAIN rows : rows[i].role = "assistant" /\ rows[i].req = r}
        IN  /\ request[r].pc \in Begun /\ ~request[r].forgotten => asked # {}
            /\ \A i, j \in answered : i = j
            /\ ~request[r].forgotten => \A j \in answered : \E i \in asked : i < j

Tokens(frames) == Cardinality({i \in DOMAIN frames : frames[i] = "token"})

\* What a page shows of a pending answer, and what is still on its way, is what
\* the server has sent: no frame is lost, or patched into another message.
ShownIsSent ==
    \A t \in Tab :
        LET r == page[t].req
            last == page[t].messages[Len(page[t].messages)]
        IN  (page[t].alive /\ page[t].busy /\ request[r].open /\ page[t].messages # <<>>)
            => (last.pending /\ ~last.error
                => last.n + Tokens(wire[r]) = request[r].sent)

\* A page that waits for nothing shows nothing as pending, whichever way the
\* stream ended and whatever hydration and "New chat" did to the list meanwhile.
NothingStaysPending ==
    \A t \in Tab : page[t].alive /\ ~page[t].busy =>
        \A i \in DOMAIN page[t].messages : ~page[t].messages[i].pending

\* An answer a page shows as finished is stored as it is shown, so that it is
\* there after a reload, until its session is cleared.
ShownIsKept ==
    \A t \in Tab : \A i \in DOMAIN page[t].messages :
        LET m == page[t].messages[i] IN
        (/\ m.role = "assistant" /\ m.n > 0
         /\ ~m.pending /\ ~m.error /\ ~m.mixed /\ ~request[m.req].forgotten)
        => Holds(request[m.req].session, [role |-> "assistant", req |-> m.req, n |-> m.n])

\* A follow-up asked under an answer is resolved with that answer in its history,
\* unless newer turns fill the window: done is sent after the answer is stored.
FollowUpSeesTheAnswer ==
    \A t \in Tab :
        LET r == page[t].req
            msgs == page[t].messages
            above == msgs[Len(msgs) - 2]
        IN  (/\ page[t].busy /\ Len(msgs) > 2
             /\ request[r].pc \in {"agent", "synth", "failed", "save"})
            => \/ ~(above.role = "assistant" /\ above.n > 0 /\ ~above.error /\ ~above.mixed)
               \/ ~msgs[Len(msgs)].pending
               \/ request[above.req].forgotten
               \/ request[above.req].session # request[r].session
               \/ Len(request[r].history) = Window
               \/ \E i \in DOMAIN request[r].history :
                     request[r].history[i] =
                        [role |-> "assistant", req |-> above.req, n |-> above.n]

\* Every question is settled on its page: the composer is free again, or the page
\* has crashed.
AskedIsSettled == \A t \in Tab : page[t].busy ~> ~page[t].busy \/ ~page[t].alive

\* What the docstring of agent_query_stream says of the assistant's turn:
\* "persisted only after a complete answer". Save stores what a failed synthesis
\* has yielded, too.
OnlyCompleteAnswersAreKept ==
    [][\A r \in Request : request[r].pc = "failed" =>
          ~Holds(request[r].session, AssistantTurn(r))']_vars
=============================================================================
