------------------------- MODULE Conversations_proofs -------------------------
(***************************************************************************)
(* What pages show, what is stored, and what is on its way between them,   *)
(* for any tabs, questions and faults.                                     *)
(***************************************************************************)
EXTENDS Conversations, FiniteSetTheorems, FunctionTheorems, SequenceTheorems, TLAPS

\* A page reads the stream of a question that was asked, and no other page does.
ReadersInv ==
    /\ \A t \in Tab : page[t].busy =>
          page[t].req \in Request /\ request[page[t].req].pc # "unused"
    /\ \A t, u \in Tab : page[t].busy /\ page[u].busy /\ page[t].req = page[u].req => t = u

\* What a handler has sent by where it is; done comes last.
RequestInv ==
    \A r \in Request :
        /\ request[r].pc \in {"unused", "sent", "accepted", "agent"} => request[r].sent = 0
        /\ request[r].pc = "unused" => wire[r] = <<>>
        /\ \A i \in DOMAIN wire[r] : wire[r][i] = "done" =>
              i = Len(wire[r]) /\ request[r].pc = "end"

\* A turn is of a question of its session, and the assistant's ends it.
TurnsInv ==
    \A s \in Session : \A i \in DOMAIN turns[s] :
        LET turn == turns[s][i]
            rq == request[turn.req]
        IN  /\ rq.session = s /\ rq.pc \in Begun
            /\ turn.role = "assistant" => rq.pc = "end" /\ turn.n = rq.sent

\* What was answered is stored, until it is forgotten.
StoredInv ==
    \A r \in Request :
        request[r].pc = "end" /\ request[r].sent > 0 /\ ~request[r].forgotten =>
            Holds(request[r].session, AssistantTurn(r))

\* What a pending message misses is on its way, with the frame that settles it, as
\* long as anything is.
Waits(m, r) ==
    /\ request[r].open /\ request[r].pc = "end" =>
          wire[r] # <<>> /\ wire[r][Len(wire[r])] = "done"
    /\ ~m.error /\ (request[r].open \/ "done" \in Range(wire[r])) =>
          m.n + Tokens(wire[r]) = request[r].sent

\* Only the last message is ever pending, while the page reads its stream.
PendingInv ==
    \A t \in Tab : \A i \in DOMAIN page[t].messages :
        LET m == page[t].messages[i]
        IN  m.pending =>
              /\ page[t].busy /\ i = Len(page[t].messages)
              /\ m.role = "assistant" /\ m.req = page[t].req /\ ~m.mixed
              /\ Waits(m, page[t].req)

Kept(req, n) ==
    request[req].forgotten \/
    Holds(request[req].session, [role |-> "assistant", req |-> req, n |-> n])

\* What is on its way to a page that hydrates is stored as well.
LoadedInv ==
    \A t \in Tab : \A i \in DOMAIN page[t].loaded :
        LET turn == page[t].loaded[i]
        IN  turn.role = "assistant" => Kept(turn.req, turn.n)

Answering == {"agent", "synth", "failed", "save"}

Remembers(m, r) ==
    \/ request[m.req].forgotten
    \/ request[m.req].session # request[r].session
    \/ Len(request[r].history) = Window
    \/ \E i \in DOMAIN request[r].history :
          request[r].history[i] = [role |-> "assistant", req |-> m.req, n |-> m.n]

\* FollowUpSeesTheAnswer from the moment a handler has read the history.
HistoryInv ==
    \A t \in Tab :
        LET r == page[t].req
            msgs == page[t].messages
            above == msgs[Len(msgs) - 2]
        IN  (/\ page[t].busy /\ Len(msgs) > 2 /\ msgs[Len(msgs)].pending
             /\ request[r].pc \in Answering \cup {"accepted"}
             /\ above.role = "assistant" /\ above.n > 0 /\ ~above.error /\ ~above.mixed)
            => Remembers(above, r)

Inv ==
    /\ TypeOK /\ ReadersInv /\ RequestInv /\ TurnsInv /\ QuestionSurvives /\ StoredInv
    /\ PendingInv /\ LoadedInv /\ ShownIsKept /\ HistoryInv

-----------------------------------------------------------------------------
(* Sequences.                                                              *)

LEMMA TokensTyped ==
  ASSUME NEW q \in Seq(Frame)
  PROVE  /\ Tokens(q) \in Nat
         /\ IsFiniteSet({i \in DOMAIN q : q[i] = "token"})
<1>1. IsFiniteSet(1..Len(q)) /\ DOMAIN q = 1..Len(q)
  BY FS_Interval
<1>2. IsFiniteSet({i \in DOMAIN q : q[i] = "token"})
  BY <1>1, FS_Subset
<1>. QED
  BY <1>2, FS_CardinalityType DEF Tokens

\* Other frames count for nothing, wherever they are.
LEMMA TokensOfOthers ==
  ASSUME NEW q \in Seq(Frame), NEW frames \in Seq(Frame), \A i \in DOMAIN frames : frames[i] # "token"
  PROVE  Tokens(q \o frames) = Tokens(q)
<1>1. {i \in DOMAIN (q \o frames) : (q \o frames)[i] = "token"} = {i \in DOMAIN q : q[i] = "token"}
  OBVIOUS
<1>. QED
  BY <1>1 DEF Tokens

LEMMA TokensOfOneMore ==
  ASSUME NEW q \in Seq(Frame)
  PROVE  Tokens(q \o <<"token">>) = Tokens(q) + 1
<1>. DEFINE old == {i \in DOMAIN q : q[i] = "token"}
            new == {i \in DOMAIN (q \o <<"token">>) : (q \o <<"token">>)[i] = "token"}
<1>1. new = old \cup {Len(q) + 1} /\ Len(q) + 1 \notin old
  OBVIOUS
<1>2. IsFiniteSet(old)
  BY TokensTyped
<1>3. Cardinality(new) = Cardinality(old) + 1
  <2>. HIDE DEF old, new
  <2>. QED  BY <1>1, <1>2, FS_AddElement
<1>. QED
  BY <1>3 DEF Tokens

LEMMA TokensOfTail ==
  ASSUME NEW q \in Seq(Frame), q # <<>>
  PROVE  Tokens(q) = Tokens(Tail(q)) + (IF Head(q) = "token" THEN 1 ELSE 0)
<1>. DEFINE rest == {i \in DOMAIN Tail(q) : Tail(q)[i] = "token"}
            moved == {i \in DOMAIN q : i # 1 /\ q[i] = "token"}
            all == {i \in DOMAIN q : q[i] = "token"}
            shift == [i \in rest |-> i + 1]
<1>1. Tail(q) \in Seq(Frame) /\ Len(Tail(q)) = Len(q) - 1
      /\ \A i \in 1..Len(Tail(q)) : Tail(q)[i] = q[i + 1]
  OBVIOUS
<1>2. shift \in [rest -> moved]
  BY <1>1
<1>3. shift \in Bijection(rest, moved)
  <2>1. \A i, j \in rest : shift[i] = shift[j] => i = j
    BY <1>1
  <2>2. \A j \in moved : j - 1 \in rest /\ shift[j - 1] = j
    BY <1>1
  <2>. QED
    BY <1>2, <2>1, <2>2, Fun_IsBij
<1>4. IsFiniteSet(rest) /\ IsFiniteSet(all)
  BY <1>1, TokensTyped
<1>5. Cardinality(moved) = Cardinality(rest) /\ IsFiniteSet(moved)
  <2>. HIDE DEF rest, moved, shift
  <2>. QED  BY <1>3, <1>4, FS_Bijection DEF ExistsBijection
<1>6. Tokens(q) = Cardinality(all) /\ Tokens(Tail(q)) = Cardinality(rest)
  BY DEF Tokens
<1>7. CASE Head(q) = "token"
  <2>1. all = moved \cup {1} /\ 1 \notin moved
    BY <1>7
  <2>. HIDE DEF moved, all, rest, shift
  <2>2. Cardinality(all) = Cardinality(moved) + 1
    BY <1>5, <2>1, FS_AddElement
  <2>. QED
    BY <1>5, <1>6, <1>7, <2>2
<1>8. CASE Head(q) # "token"
  <2>1. all = moved
    BY <1>8
  <2>. HIDE DEF moved, all, rest, shift
  <2>2. Cardinality(rest) \in Nat
    BY <1>4, FS_CardinalityType
  <2>. QED
    BY <1>5, <1>6, <1>8, <2>1, <2>2
<1>. QED
  BY <1>7, <1>8

LEMMA Concatenated ==
  ASSUME NEW q \in Seq(Frame), NEW w \in Seq(Frame)
  PROVE  /\ q \o w \in Seq(Frame) /\ Len(q \o w) = Len(q) + Len(w)
         /\ \A i \in DOMAIN (q \o w) :
               \/ i \in DOMAIN q /\ (q \o w)[i] = q[i]
               \/ i - Len(q) \in DOMAIN w /\ (q \o w)[i] = w[i - Len(q)]
OBVIOUS

\* The window is the whole history, or full.
LEMMA RecentIs ==
  ASSUME TypeOK, NEW s \in Session, NEW n \in Nat
  PROVE  /\ Recent(s, n) \in Seq(Turn)
         /\ \A i \in DOMAIN Recent(s, n) : Recent(s, n)[i] \in Range(turns[s])
         /\ Len(Recent(s, n)) = n \/ Recent(s, n) = turns[s]
<1>1. turns[s] \in Seq(Turn) /\ Len(turns[s]) \in Nat
  BY DEF TypeOK
<1>2. CASE Len(turns[s]) > n
  <2>. DEFINE len == Len(turns[s])
  <2>1. Recent(s, n) = SubSeq(turns[s], len - n + 1, len)
    BY <1>2 DEF Recent
  <2>2. len - n + 1 \in Int /\ len \in Int /\ \A i \in (len - n + 1)..len : turns[s][i] \in Turn
    BY <1>1, <1>2
  <2>3. /\ SubSeq(turns[s], len - n + 1, len) \in Seq(Turn)
        /\ Len(SubSeq(turns[s], len - n + 1, len)) = n
        /\ \A i \in 1..n : SubSeq(turns[s], len - n + 1, len)[i] = turns[s][len - n + i]
    <3>. HIDE DEF len
    <3>1. /\ SubSeq(turns[s], len - n + 1, len) \in Seq(Turn)
          /\ Len(SubSeq(turns[s], len - n + 1, len)) =
                IF len - n + 1 <= len THEN len - (len - n + 1) + 1 ELSE 0
          /\ \A i \in 1..(len - (len - n + 1) + 1) :
                SubSeq(turns[s], len - n + 1, len)[i] = turns[s][(len - n + 1) + i - 1]
      BY <2>2, SubSeqProperties
    <3>. QED
      BY <1>2, <2>2, <3>1
  <2>4. \A i \in DOMAIN turns[s] : turns[s][i] \in Range(turns[s])
    BY Zenon DEF Range
  <2>5. \A i \in 1..n : len - n + i \in DOMAIN turns[s]
    BY <1>1, <1>2
  <2>6. DOMAIN Recent(s, n) = 1..n
    BY <2>1, <2>3
  <2>7. \A i \in 1..n : Recent(s, n)[i] = turns[s][len - n + i]
    BY <2>1, <2>3
  <2>8. Recent(s, n) \in Seq(Turn) /\ Len(Recent(s, n)) = n
    BY <2>1, <2>3
  <2>. HIDE DEF len
  <2>. QED
    BY <2>4, <2>5, <2>6, <2>7, <2>8
<1>3. CASE ~(Len(turns[s]) > n)
  <2>0. \A i \in DOMAIN turns[s] : turns[s][i] \in Range(turns[s])
    BY Zenon DEF Range
  <2>1. Recent(s, n) = SubSeq(turns[s], 1, Len(turns[s]))
    BY <1>3 DEF Recent
  <2>2. Recent(s, n) = turns[s]
    BY <1>1, <2>1, SubSeqFull
  <2>. QED
    BY <1>1, <2>0, <2>2
<1>. QED
  BY <1>2, <1>3

-----------------------------------------------------------------------------
(* Types.                                                                  *)

LEMMA RequestRecords ==
  ASSUME NEW rq \in RequestRecord, NEW pc \in Unbegun \cup Begun \cup {"cut"}
  PROVE  /\ [rq EXCEPT !.pc = pc] \in RequestRecord
         /\ \A h \in Seq(Turn) : [rq EXCEPT !.pc = pc, !.history = h] \in RequestRecord
         /\ \A s \in Session : [rq EXCEPT !.pc = pc, !.session = s] \in RequestRecord
         /\ [rq EXCEPT !.sent = @ + 1] \in RequestRecord
         /\ [rq EXCEPT !.open = FALSE] \in RequestRecord
         /\ [rq EXCEPT !.forgotten = TRUE] \in RequestRecord
         /\ Stop(rq) \in RequestRecord
<1>1. <<>> \in Seq(Turn)
  OBVIOUS
<1>2. [rq EXCEPT !.pc = pc] \in RequestRecord
  BY DEF RequestRecord
<1>3. \A h \in Seq(Turn) : [rq EXCEPT !.pc = pc, !.history = h] \in RequestRecord
  BY DEF RequestRecord
<1>4. \A s \in Session : [rq EXCEPT !.pc = pc, !.session = s] \in RequestRecord
  BY DEF RequestRecord
<1>5. [rq EXCEPT !.sent = @ + 1] \in RequestRecord
  BY DEF RequestRecord
<1>6. [rq EXCEPT !.open = FALSE] \in RequestRecord
  BY DEF RequestRecord
<1>7. [rq EXCEPT !.forgotten = TRUE] \in RequestRecord
  BY DEF RequestRecord
<1>8. Stop(rq) \in RequestRecord
  BY <1>1 DEF RequestRecord, Stop, Begun
<1>. QED
  BY <1>2, <1>3, <1>4, <1>5, <1>6, <1>7, <1>8

LEMMA PageRecords ==
  ASSUME NEW pg \in PageRecord
  PROVE  /\ \A m \in {"asked", "read", "done"} : [pg EXCEPT !.mount = m] \in PageRecord
         /\ \A l \in Seq(Turn) : [pg EXCEPT !.mount = "read", !.loaded = l] \in PageRecord
         /\ \A ms \in Seq(Message) :
               [pg EXCEPT !.mount = "done", !.loaded = <<>>, !.messages = ms] \in PageRecord
         /\ \A ms \in Seq(Message), r \in Request :
               [pg EXCEPT !.busy = TRUE, !.req = r, !.messages = ms] \in PageRecord
         /\ \A ms \in Seq(Message), b \in BOOLEAN :
               [pg EXCEPT !.messages = ms, !.alive = b] \in PageRecord
         /\ [pg EXCEPT !.busy = FALSE, !.req = 0] \in PageRecord
         /\ \A ms \in Seq(Message) :
               [pg EXCEPT !.busy = FALSE, !.req = 0, !.messages = ms] \in PageRecord
         /\ \A p \in {"no", "clearing", "cleared"} : [pg EXCEPT !.reset = p] \in PageRecord
         /\ \A s \in Session :
               [pg EXCEPT !.reset = "no", !.session = s, !.messages = <<>>] \in PageRecord
         /\ \A s \in Session : Mounted(s) \in PageRecord
<1>0. <<>> \in Seq(Turn) /\ <<>> \in Seq(Message)
  OBVIOUS
<1>1. \A m \in {"asked", "read", "done"} : [pg EXCEPT !.mount = m] \in PageRecord
  BY DEF PageRecord
<1>2. \A l \in Seq(Turn) : [pg EXCEPT !.mount = "read", !.loaded = l] \in PageRecord
  BY DEF PageRecord
<1>3. \A ms \in Seq(Message) :
         [pg EXCEPT !.mount = "done", !.loaded = <<>>, !.messages = ms] \in PageRecord
  BY <1>0 DEF PageRecord
<1>4. \A ms \in Seq(Message), r \in Request :
         [pg EXCEPT !.busy = TRUE, !.req = r, !.messages = ms] \in PageRecord
  BY DEF PageRecord
<1>5. \A ms \in Seq(Message), b \in BOOLEAN :
         [pg EXCEPT !.messages = ms, !.alive = b] \in PageRecord
  BY DEF PageRecord
<1>6. [pg EXCEPT !.busy = FALSE, !.req = 0] \in PageRecord
  BY DEF PageRecord
<1>7. \A ms \in Seq(Message) :
         [pg EXCEPT !.busy = FALSE, !.req = 0, !.messages = ms] \in PageRecord
  BY DEF PageRecord
<1>8. \A p \in {"no", "clearing", "cleared"} : [pg EXCEPT !.reset = p] \in PageRecord
  BY DEF PageRecord
<1>9. \A s \in Session :
         [pg EXCEPT !.reset = "no", !.session = s, !.messages = <<>>] \in PageRecord
  BY <1>0 DEF PageRecord
<1>10. \A s \in Session : Mounted(s) \in PageRecord
  BY <1>0 DEF PageRecord, Mounted
<1>. QED
  BY <1>1, <1>2, <1>3, <1>4, <1>5, <1>6, <1>7, <1>8, <1>9, <1>10

LEMMA Messages ==
  /\ \A m \in Message :
        /\ AddToken(m) \in Message
        /\ [m EXCEPT !.n = 0, !.error = TRUE] \in Message
        /\ [m EXCEPT !.pending = FALSE] \in Message
        /\ [m EXCEPT !.n = 0, !.error = TRUE, !.pending = FALSE] \in Message
  /\ \A turn \in Turn : Hydrated(turn) \in Message
  /\ \A r \in Request :
        /\ Question(r) \in Message
        /\ [Question(r) EXCEPT !.role = "assistant", !.pending = TRUE] \in Message
  /\ \A r \in Request : UserTurn(r) \in Turn
  /\ TypeOK => \A r \in Request : AssistantTurn(r) \in Turn
<1>0. \A m \in Message : AddToken(m) \in Message
  <2>1. \A m \in Message, b \in BOOLEAN : [m EXCEPT !.n = @ + 1, !.mixed = b] \in Message
    <3>1. \A m \in Message : m.n + 1 \in Nat
      BY DEF Message
    <3>2. \A m \in Message, n \in Nat, b \in BOOLEAN : [m EXCEPT !.n = n, !.mixed = b] \in Message
      BY DEF Message
    <3>. QED
      BY <3>1, <3>2
  <2>2. \A m : (~m.pending) \in BOOLEAN
    BY Zenon
  <2>. QED
    BY <2>1, <2>2, Zenon DEF AddToken
<1>1. \A m \in Message :
        /\ [m EXCEPT !.n = 0, !.error = TRUE] \in Message
        /\ [m EXCEPT !.pending = FALSE] \in Message
        /\ [m EXCEPT !.n = 0, !.error = TRUE, !.pending = FALSE] \in Message
  BY DEF Message
<1>2. \A turn \in Turn : Hydrated(turn) \in Message
  BY DEF Message, Turn, Hydrated
<1>3. \A r \in Request :
        /\ Question(r) \in Message
        /\ [Question(r) EXCEPT !.role = "assistant", !.pending = TRUE] \in Message
  BY DEF Message, Question
<1>4. \A r \in Request : UserTurn(r) \in Turn
  BY DEF Turn, UserTurn
<1>5. TypeOK => \A r \in Request : AssistantTurn(r) \in Turn
  BY DEF Turn, AssistantTurn, TypeOK, RequestRecord
<1>. QED
  BY <1>0, <1>1, <1>2, <1>3, <1>4, <1>5

-----------------------------------------------------------------------------
(* What a step may do to a question, to a stream and to a session.         *)

RequestGoes(r) ==
    /\ request[r].pc # "unused" =>
          request'[r].pc # "unused" /\ request'[r].session = request[r].session
    /\ request[r].pc \in Begun => request'[r].pc \in Begun
    /\ request'[r].pc \in Begun => request[r].pc \in Begun \/ Begin(r)
    /\ request[r].forgotten => request'[r].forgotten
    /\ request'[r].open => request[r].open
    /\ request[r].pc = "end" => request'[r].pc = "end"
    /\ request'[r].pc = "end" => request[r].pc = "end" \/ AgentFails(r) \/ Save(r)
    /\ request'[r].sent = request[r].sent \/ Token(r)
    /\ request'[r].pc \in {"unused", "sent", "accepted", "agent"} =>
          request[r].pc \in {"unused", "sent", "accepted", "agent"}
    /\ request'[r].pc = "unused" => request[r].pc = "unused"
    /\ request'[r].pc \in Answering \cup {"accepted"} =>
          \/ Accept(r)
          \/ /\ request[r].pc \in Answering \cup {"accepted"}
             /\ request'[r].history = request[r].history

\* A page asks the first question that is unused.
LEMMA AskIs ==
  ASSUME TypeOK, NEW t \in Tab, Ask(t)
  PROVE  \E r \in Request :
            /\ request[r].pc = "unused"
            /\ page[t].alive /\ ~page[t].busy
            /\ page' = [page EXCEPT
                    ![t].busy = TRUE, ![t].req = r,
                    ![t].messages = @ \o <<Question(r),
                        [Question(r) EXCEPT !.role = "assistant", !.pending = TRUE]>>]
            /\ request' = [request EXCEPT ![r].pc = "sent", ![r].session = page[t].session]
            /\ UNCHANGED <<turns, wire, stored, faults>>
<1>1. PICK r \in Request :
        /\ \A q \in Request : (request[q].pc = "unused") = (q >= r)
        /\ page[t].alive /\ ~page[t].busy
        /\ page' = [page EXCEPT
                ![t].busy = TRUE, ![t].req = r,
                ![t].messages = @ \o <<Question(r),
                    [Question(r) EXCEPT !.role = "assistant", !.pending = TRUE]>>]
        /\ request' = [request EXCEPT ![r].pc = "sent", ![r].session = page[t].session]
        /\ UNCHANGED <<turns, wire, stored, faults>>
  BY Zenon DEF Ask
<1>2. r >= r
  BY DEF Request
<1>3. request[r].pc = "unused"
  <2>1. (request[r].pc = "unused") = (r >= r)
    BY <1>1
  <2>. QED
    BY <1>2, <2>1, Zenon
<1>. QED
  BY <1>1, <1>3, Zenon

LEMMA RequestStep ==
  ASSUME TypeOK, [Next]_vars, NEW r \in Request
  PROVE  RequestGoes(r)
<1>1. r \in DOMAIN request /\ request[r] \in RequestRecord
  BY DEF TypeOK
<1>2. CASE UNCHANGED request
  BY <1>1, <1>2 DEF RequestGoes
<1>3. ASSUME NEW q \in Request, Server(q) \/ Cancel(q) \/ Lose(q)
      PROVE  RequestGoes(r)
  <2>1. CASE q # r
    <3>1. request'[r] = request[r]
      BY <1>1, <1>3, <2>1 DEF Server, Cancel, Lose, Accept, Begin, AgentFails, AgentAnswers, Token,
            SynthesisEnds, Save, Goto, Return
    <3>. QED
      BY <3>1 DEF RequestGoes
  <2>2. CASE q = r
    <3>1. CASE Accept(r)
      BY <1>1, <3>1 DEF Accept, RequestGoes, RequestRecord, Begun, Answering
    <3>2. CASE Begin(r)
      BY <1>1, <3>2 DEF Begin, Goto, RequestGoes, RequestRecord, Begun, Answering
    <3>3. CASE AgentFails(r)
      BY <1>1, <3>3 DEF AgentFails, Return, RequestGoes, RequestRecord, Begun, Answering
    <3>4. CASE AgentAnswers(r)
      BY <1>1, <3>4 DEF AgentAnswers, Goto, RequestGoes, RequestRecord, Begun, Answering
    <3>5. CASE Token(r)
      BY <1>1, <3>5 DEF Token, RequestGoes, RequestRecord, Begun, Answering
    <3>6. CASE SynthesisEnds(r)
      BY <1>1, <3>6 DEF SynthesisEnds, Goto, RequestGoes, RequestRecord, Begun, Answering
    <3>7. CASE Save(r)
      BY <1>1, <3>7 DEF Save, Return, RequestGoes, RequestRecord, Begun, Answering
    <3>8. CASE Cancel(r)
      BY <1>1, <3>8 DEF Cancel, Stop, RequestGoes, RequestRecord, Begun, Answering
    <3>9. CASE Lose(r)
      BY <1>1, <3>9 DEF Lose, Stop, RequestGoes, RequestRecord, Begun, Answering
    <3>. QED
      BY <1>3, <2>2, <3>1, <3>2, <3>3, <3>4, <3>5, <3>6, <3>7, <3>8, <3>9 DEF Server
  <2>. QED
    BY <2>1, <2>2
<1>4. CASE Restart
  BY <1>1, <1>4 DEF Restart, Stop, RequestGoes, RequestRecord, Begun, Answering
<1>5. ASSUME NEW t \in Tab, Ask(t)
      PROVE  RequestGoes(r)
  <2>1. PICK q \in Request :
          /\ request[q].pc = "unused"
          /\ request' = [request EXCEPT ![q].pc = "sent", ![q].session = page[t].session]
    BY <1>5, AskIs
  <2>. QED
    BY <1>1, <2>1 DEF RequestGoes, RequestRecord, Begun, Answering
<1>6. ASSUME NEW t \in Tab, Clear(t)
      PROVE  RequestGoes(r)
  BY <1>1, <1>6 DEF Clear, RequestGoes, RequestRecord, Begun, Answering
<1>7. ASSUME NEW t \in Tab, Page(t) \/ Reload(t) \/ Hydrate(t) \/ HydrateFails(t) \/ ShowHydrated(t)
                            \/ NewChat(t) \/ ClearFails(t) \/ ResetDone(t)
      PROVE  UNCHANGED request
  BY <1>7 DEF Page, Handle, StreamEnds, StreamBreaks, Reload, Hydrate, HydrateFails, ShowHydrated,
        NewChat, ClearFails, ResetDone
<1>. QED
  BY <1>2, <1>3, <1>4, <1>5, <1>6, <1>7 DEF Next, vars

LEMMA TurnsStep ==
  ASSUME TypeOK, [Next]_vars, NEW s \in Session
  PROVE  \/ turns'[s] = turns[s]
         \/ \E r \in Request :
               Begin(r) /\ request[r].session = s /\ turns'[s] = Append(turns[s], UserTurn(r))
         \/ \E r \in Request :
               /\ Save(r) /\ request[r].session = s /\ request[r].sent > 0
               /\ turns'[s] = Append(turns[s], AssistantTurn(r))
         \/ \E t \in Tab : Clear(t) /\ page[t].session = s /\ turns'[s] = <<>>
<1>1. s \in DOMAIN turns
  BY DEF TypeOK
<1>2. ASSUME NEW r \in Request, Begin(r)
      PROVE  turns'[s] = IF request[r].session = s THEN Append(turns[s], UserTurn(r)) ELSE turns[s]
  BY <1>1, <1>2 DEF Begin, append_turn
<1>3. ASSUME NEW r \in Request, Save(r)
      PROVE  turns'[s] = IF request[r].session = s /\ request[r].sent > 0
                         THEN Append(turns[s], AssistantTurn(r)) ELSE turns[s]
  BY <1>1, <1>3 DEF Save, append_turn
<1>4. ASSUME NEW t \in Tab, Clear(t)
      PROVE  turns'[s] = IF page[t].session = s THEN <<>> ELSE turns[s]
  BY <1>1, <1>4 DEF Clear
<1>5. CASE UNCHANGED turns
  BY <1>5
<1>6. ASSUME NEW r \in Request, Accept(r) \/ AgentFails(r) \/ AgentAnswers(r) \/ Token(r)
                                \/ SynthesisEnds(r) \/ Cancel(r) \/ Lose(r) \/ Restart
      PROVE  UNCHANGED turns
  BY <1>6 DEF Accept, AgentFails, AgentAnswers, Token, SynthesisEnds, Cancel, Lose, Restart
<1>7. ASSUME NEW t \in Tab, Page(t) \/ Ask(t) \/ Reload(t) \/ Hydrate(t) \/ HydrateFails(t)
                            \/ ShowHydrated(t) \/ NewChat(t) \/ ClearFails(t) \/ ResetDone(t)
      PROVE  UNCHANGED turns
  BY <1>7 DEF Page, Handle, StreamEnds, StreamBreaks, Ask, Reload, Hydrate, HydrateFails,
        ShowHydrated, NewChat, ClearFails, ResetDone
<1>8. CASE Restart
  BY <1>8 DEF Restart
<1>. QED
  BY <1>2, <1>3, <1>4, <1>5, <1>6, <1>7, <1>8 DEF Next, Server, vars

Sends(r) == AgentFails(r) \/ Token(r) \/ SynthesisEnds(r) \/ Save(r)

LEMMA WireStep ==
  ASSUME TypeOK, ReadersInv, [Next]_vars, NEW r \in Request
  PROVE  \/ wire'[r] = wire[r]
         \/ wire'[r] = <<>> /\ \E t \in Tab : (StreamBreaks(t) \/ Reload(t)) /\ Reads(t, r)
         \/ \E t \in Tab :
               Handle(t) /\ Reads(t, r) /\ wire[r] # <<>> /\ wire'[r] = Tail(wire[r])
         \/ Sends(r)
<1>1. r \in DOMAIN wire
  BY DEF TypeOK
<1>2. ASSUME NEW q \in Request, Sends(q)
      PROVE  q = r \/ wire'[r] = wire[r]
  BY <1>1, <1>2 DEF Sends, AgentFails, Token, SynthesisEnds, Save, Send
<1>3. ASSUME NEW t \in Tab, Handle(t)
      PROVE  \/ wire'[r] = wire[r]
             \/ Reads(t, r) /\ wire[r] # <<>> /\ wire'[r] = Tail(wire[r])
  BY <1>1, <1>3 DEF Handle, Reads
<1>4. ASSUME NEW t \in Tab, StreamBreaks(t)
      PROVE  wire'[r] = wire[r] \/ (wire'[r] = <<>> /\ Reads(t, r))
  <2>1. page[t].busy /\ wire' = [wire EXCEPT ![page[t].req] = <<>>]
    BY <1>4, Zenon DEF StreamBreaks
  <2>2. wire'[r] = wire[r] \/ (wire'[r] = <<>> /\ page[t].req = r)
    BY <1>1, <2>1
  <2>. QED
    BY <2>1, <2>2, Zenon DEF Reads
<1>5. ASSUME NEW t \in Tab, Reload(t)
      PROVE  wire'[r] = wire[r] \/ (wire'[r] = <<>> /\ Reads(t, r))
  <2>1. wire'[r] = IF Reads(t, r) THEN <<>> ELSE wire[r]
    BY <1>5, Zenon DEF Reload
  <2>. QED
    BY <2>1, Zenon
<1>6. ASSUME NEW q \in Request, Accept(q) \/ Begin(q) \/ AgentAnswers(q) \/ Cancel(q) \/ Lose(q)
      PROVE  UNCHANGED wire
  BY <1>6 DEF Accept, Begin, AgentAnswers, Cancel, Lose
<1>7. ASSUME NEW t \in Tab, StreamEnds(t) \/ Ask(t) \/ Hydrate(t) \/ HydrateFails(t)
              \/ ShowHydrated(t) \/ NewChat(t) \/ Clear(t) \/ ClearFails(t) \/ ResetDone(t)
      PROVE  UNCHANGED wire
  BY <1>7 DEF StreamEnds, Ask, Hydrate, HydrateFails, ShowHydrated, NewChat, Clear, ClearFails,
        ResetDone
<1>8. CASE Restart
  BY <1>8 DEF Restart
<1>. QED
  BY <1>2, <1>3, <1>4, <1>5, <1>6, <1>7, <1>8 DEF Next, Server, Page, Sends, vars

\* What is sent is read only over an open connection.
LEMMA SendIs ==
  ASSUME TypeOK, NEW r \in Request, NEW frames, Send(r, frames)
  PROVE  \/ wire'[r] = wire[r] /\ ~(request[r].open /\ \E t \in Tab : Reads(t, r))
         \/ wire'[r] = wire[r] \o frames /\ request[r].open
  BY DEF Send, TypeOK

-----------------------------------------------------------------------------
(* What a step may do to a page.                                           *)

Error1(m) == [m EXCEPT !.n = 0, !.error = TRUE]
Done1(m) == [m EXCEPT !.pending = FALSE]
Broken(m) == [m EXCEPT !.n = 0, !.error = TRUE, !.pending = FALSE]

\* No message, or all but the last one stay.
LastBecomes(old, new, m) ==
    /\ new \in Seq(Message) /\ Len(new) = Len(old)
    /\ \A i \in 1..Len(old) : new[i] = IF i = Len(old) THEN m ELSE old[i]

LEMMA PatchedIs ==
  ASSUME NEW msgs \in Seq(Message)
  PROVE  /\ LastBecomes(msgs, Patched(msgs, AddToken), AddToken(Last(msgs)))
         /\ LastBecomes(msgs, Patched(msgs, Error1), Error1(Last(msgs)))
         /\ LastBecomes(msgs, Patched(msgs, Done1), Done1(Last(msgs)))
         /\ LastBecomes(msgs, Patched(msgs, Broken), Broken(Last(msgs)))
<1>1. CASE msgs = <<>>
  BY <1>1 DEF Patched, LastBecomes
<1>2. CASE msgs # <<>>
  <2>1. Len(msgs) \in 1..Len(msgs) /\ Last(msgs) \in Message
    BY <1>2 DEF Last
  <2>2. \A m \in Message : LastBecomes(msgs, [msgs EXCEPT ![Len(msgs)] = m], m)
    BY <2>1, ExceptSeq DEF LastBecomes
  <2>3. /\ AddToken(Last(msgs)) \in Message /\ Error1(Last(msgs)) \in Message
        /\ Done1(Last(msgs)) \in Message /\ Broken(Last(msgs)) \in Message
    BY <2>1, Messages DEF Error1, Done1, Broken
  <2>4. /\ Patched(msgs, AddToken) = [msgs EXCEPT ![Len(msgs)] = AddToken(Last(msgs))]
        /\ Patched(msgs, Error1) = [msgs EXCEPT ![Len(msgs)] = Error1(Last(msgs))]
        /\ Patched(msgs, Done1) = [msgs EXCEPT ![Len(msgs)] = Done1(Last(msgs))]
        /\ Patched(msgs, Broken) = [msgs EXCEPT ![Len(msgs)] = Broken(Last(msgs))]
    BY <1>2 DEF Patched, Patchee, Last
  <2>. QED
    BY <2>2, <2>3, <2>4
<1>. QED
  BY <1>1, <1>2

Patch(frame, m) ==
    CASE frame = "token" -> AddToken(m)
      [] frame = "error" -> Error1(m)
      [] frame = "done" -> Done1(m)

LEMMA HandleIs ==
  ASSUME TypeOK, ReadersInv, NEW t \in Tab, Handle(t)
  PROVE  LET r == page[t].req
         IN  /\ page[t].busy /\ page[t].alive /\ r \in Request /\ wire[r] # <<>>
             /\ wire' = [wire EXCEPT ![r] = Tail(@)]
             /\ LastBecomes(page[t].messages, page'[t].messages,
                            Patch(Head(wire[r]), Last(page[t].messages)))
             /\ page'[t].busy /\ page'[t].req = r /\ page'[t].loaded = page[t].loaded
             /\ page'[t] \in PageRecord
             /\ page' = [page EXCEPT ![t] = page'[t]]
             /\ UNCHANGED <<turns, request, stored, faults>>
<1>. DEFINE r == page[t].req
            frame == Head(wire[r])
            new == CASE frame = "token" -> Patched(page[t].messages, AddToken)
                     [] frame = "error" -> Patched(page[t].messages, Error1)
                     [] frame = "done"  -> Patched(page[t].messages, Done1)
            alive == ~(frame = "token" /\ page[t].messages = <<>>)
<1>1. /\ page[t].busy /\ page[t].alive /\ wire[r] # <<>>
      /\ wire' = [wire EXCEPT ![r] = Tail(@)]
      /\ page' = [page EXCEPT ![t] = [@ EXCEPT !.messages = new, !.alive = alive]]
      /\ UNCHANGED <<turns, request, stored, faults>>
  <2>1. page' = [page EXCEPT
                ![t].messages = CASE frame = "token" -> Patched(@, AddToken)
                                  [] frame = "error" -> Patched(@, Error1)
                                  [] frame = "done"  -> Patched(@, Done1),
                ![t].alive = ~(frame = "token" /\ page[t].messages = <<>>)]
    BY Zenon DEF Handle, Error1, Done1
  <2>2. page' = [page EXCEPT ![t].messages = new, ![t].alive = alive]
    BY <2>1, Zenon
  <2>3. page' = [page EXCEPT ![t] = [@ EXCEPT !.messages = new, !.alive = alive]]
    <3>. HIDE DEF new, alive
    <3>. QED  BY <2>2
  <2>. QED
    BY <2>3, Zenon DEF Handle
<1>2. r \in Request /\ page[t] \in PageRecord
  BY <1>1 DEF ReadersInv, TypeOK
<1>3. frame \in Frame /\ page[t].messages \in Seq(Message)
  BY <1>1, <1>2 DEF TypeOK, PageRecord
<1>4. LastBecomes(page[t].messages, new, Patch(frame, Last(page[t].messages)))
  BY <1>3, PatchedIs DEF Frame, Patch
<1>5. new \in Seq(Message)
  BY <1>4 DEF LastBecomes
<1>6. alive \in BOOLEAN
  BY Zenon
<1>7. [page[t] EXCEPT !.messages = new, !.alive = alive] \in PageRecord
  <2>. HIDE DEF new, alive
  <2>. QED  BY <1>2, <1>5, <1>6, PageRecords
<1>8. page'[t] = [page[t] EXCEPT !.messages = new, !.alive = alive]
  <2>. HIDE DEF new, alive
  <2>. QED  BY <1>1 DEF TypeOK
<1>9. /\ page'[t].messages = new /\ page'[t].busy = page[t].busy /\ page'[t].req = r
      /\ page'[t].loaded = page[t].loaded
  <2>. HIDE DEF new, alive
  <2>. QED  BY <1>2, <1>8 DEF PageRecord
<1>10. page' = [page EXCEPT ![t] = page'[t]]
  <2>. HIDE DEF new, alive
  <2>. QED  BY <1>1, <1>8
<1>. QED
  <2>. HIDE DEF new, alive
  <2>. QED  BY <1>1, <1>2, <1>4, <1>7, <1>8, <1>9, <1>10

LEMMA StreamBreaksIs ==
  ASSUME TypeOK, NEW t \in Tab, StreamBreaks(t)
  PROVE  /\ page[t].busy /\ ~request[page[t].req].open
         /\ wire' = [wire EXCEPT ![page[t].req] = <<>>]
         /\ LastBecomes(page[t].messages, page'[t].messages, Broken(Last(page[t].messages)))
         /\ ~page'[t].busy /\ page'[t].loaded = page[t].loaded /\ page'[t] \in PageRecord
         /\ page' = [page EXCEPT ![t] = page'[t]]
         /\ UNCHANGED <<turns, request, stored, faults>>
<1>. DEFINE new == Patched(page[t].messages, Broken)
<1>1. page[t] \in PageRecord /\ page[t].messages \in Seq(Message)
  BY DEF TypeOK, PageRecord
<1>2. LastBecomes(page[t].messages, new, Broken(Last(page[t].messages)))
  BY <1>1, PatchedIs
<1>3. page' = [page EXCEPT ![t] = [@ EXCEPT !.busy = FALSE, !.req = 0, !.messages = new]]
  <2>1. page' = [page EXCEPT ![t].busy = FALSE, ![t].req = 0, ![t].messages = Patched(@, Broken)]
    BY Zenon DEF StreamBreaks, Broken
  <2>2. page' = [page EXCEPT ![t].busy = FALSE, ![t].req = 0, ![t].messages = new]
    BY <2>1
  <2>. QED
    <3>. HIDE DEF new
    <3>. QED  BY <2>2
<1>4. new \in Seq(Message)
  BY <1>2 DEF LastBecomes
<1>5. page'[t] = [page[t] EXCEPT !.busy = FALSE, !.req = 0, !.messages = new]
  <2>. HIDE DEF new
  <2>. QED  BY <1>3 DEF TypeOK
<1>6. page'[t] \in PageRecord
  <2>. HIDE DEF new
  <2>1. [page[t] EXCEPT !.busy = FALSE, !.req = 0, !.messages = new] \in PageRecord
    BY <1>1, <1>4, PageRecords
  <2>. QED
    BY <1>5, <2>1, Zenon
<1>7. page'[t].messages = new /\ ~page'[t].busy /\ page'[t].loaded = page[t].loaded
  <2>. HIDE DEF new
  <2>. QED  BY <1>1, <1>5 DEF PageRecord
<1>8. page' = [page EXCEPT ![t] = page'[t]]
  <2>. HIDE DEF new
  <2>. QED  BY <1>3, <1>5
<1>9. /\ page[t].busy /\ ~request[page[t].req].open
      /\ wire' = [wire EXCEPT ![page[t].req] = <<>>]
      /\ UNCHANGED <<turns, request, stored, faults>>
  BY Zenon DEF StreamBreaks
<1>. QED
  BY <1>2, <1>6, <1>7, <1>8, <1>9

\* Everything but the messages, their stream and what hydration has read.
Calm(t) ==
    /\ page'[t].messages = page[t].messages /\ page'[t].busy = page[t].busy
    /\ page'[t].req = page[t].req /\ page'[t].loaded = page[t].loaded

Asks(t, r) ==
    /\ request[r].pc = "unused" /\ ~page[t].busy
    /\ page'[t].busy /\ page'[t].req = r /\ page'[t].loaded = page[t].loaded
    /\ page'[t].messages = page[t].messages \o
          <<Question(r), [Question(r) EXCEPT !.role = "assistant", !.pending = TRUE]>>
    /\ \A u \in Tab \ {t} : page'[u] = page[u]
    /\ request' = [request EXCEPT ![r].pc = "sent", ![r].session = page[t].session]
    /\ UNCHANGED <<turns, wire>>

Hydrates(t) ==
    /\ page'[t].messages = page[t].messages /\ page'[t].busy = page[t].busy
    /\ page'[t].req = page[t].req /\ page'[t].loaded = Recent(page[t].fetched, Limit)
    /\ UNCHANGED <<turns, request, wire>>

Shows(t) ==
    /\ page'[t].messages = [i \in DOMAIN page[t].loaded |-> Hydrated(page[t].loaded[i])]
    /\ page'[t].busy = page[t].busy /\ page'[t].req = page[t].req /\ page'[t].loaded = <<>>
    /\ UNCHANGED <<turns, request, wire>>

Empties(t) == page'[t].messages = <<>> /\ page'[t].busy = page[t].busy
              /\ page'[t].req = page[t].req /\ page'[t].loaded = page[t].loaded
              /\ UNCHANGED <<turns, request, wire>>

Settles(t) ==
    /\ page[t].busy /\ request[page[t].req].pc = "end" /\ request[page[t].req].open
    /\ wire[page[t].req] = <<>>
    /\ page'[t].messages = page[t].messages /\ ~page'[t].busy
    /\ page'[t].loaded = page[t].loaded
    /\ UNCHANGED <<turns, request, wire>>

Mounts(t) ==
    /\ page'[t].messages = <<>> /\ ~page'[t].busy /\ page'[t].loaded = <<>>
    /\ UNCHANGED <<turns, request>>

LEMMA PageStep ==
  ASSUME TypeOK, ReadersInv, [Next]_vars, NEW t \in Tab
  PROVE  \/ Calm(t)
         \/ Hydrates(t) \/ Shows(t) \/ Empties(t) \/ Settles(t) \/ Mounts(t)
         \/ \E r \in Request : Asks(t, r)
         \/ Handle(t) \/ StreamBreaks(t)
<1>1. t \in DOMAIN page /\ page[t] \in PageRecord
  BY DEF TypeOK
<1>2. CASE UNCHANGED page
  BY <1>1, <1>2 DEF Calm
<1>3. ASSUME NEW u \in Tab, Handle(u), u # t
      PROVE  Calm(t)
  BY <1>1, <1>3, HandleIs DEF Calm
<1>4. ASSUME NEW u \in Tab, StreamBreaks(u), u # t
      PROVE  Calm(t)
  BY <1>1, <1>4, StreamBreaksIs DEF Calm
<1>5. ASSUME NEW u \in Tab, StreamEnds(u)
      PROVE  Calm(t) \/ Settles(t)
  BY <1>1, <1>5 DEF StreamEnds, Calm, Settles, PageRecord
<1>6. ASSUME NEW u \in Tab, Ask(u)
      PROVE  Calm(t) \/ \E r \in Request : Asks(t, r)
  <2>1. PICK r \in Request :
            /\ request[r].pc = "unused" /\ ~page[u].busy
            /\ page' = [page EXCEPT
                    ![u].busy = TRUE, ![u].req = r,
                    ![u].messages = @ \o <<Question(r),
                        [Question(r) EXCEPT !.role = "assistant", !.pending = TRUE]>>]
            /\ request' = [request EXCEPT ![r].pc = "sent", ![r].session = page[u].session]
            /\ UNCHANGED <<turns, wire, stored, faults>>
    BY <1>6, AskIs
  <2>2. CASE u # t
    BY <1>1, <2>1, <2>2 DEF Calm
  <2>3. CASE u = t
    <3>1. \A v \in Tab \ {t} : page'[v] = page[v]
      BY <2>1, <2>3 DEF TypeOK
    <3>. QED
      BY <1>1, <2>1, <2>3, <3>1 DEF Asks, PageRecord
  <2>. QED
    BY <2>2, <2>3
<1>7. ASSUME NEW u \in Tab, Reload(u)
      PROVE  Calm(t) \/ Mounts(t)
  BY <1>1, <1>7 DEF Reload, Calm, Mounts, Mounted
<1>8. ASSUME NEW u \in Tab, Hydrate(u)
      PROVE  Calm(t) \/ Hydrates(t)
  BY <1>1, <1>8 DEF Hydrate, Calm, Hydrates, PageRecord
<1>9. ASSUME NEW u \in Tab, ShowHydrated(u)
      PROVE  Calm(t) \/ Shows(t)
  BY <1>1, <1>9 DEF ShowHydrated, Calm, Shows, PageRecord
<1>10. ASSUME NEW u \in Tab, ResetDone(u)
       PROVE  Calm(t) \/ Empties(t)
  BY <1>1, <1>10 DEF ResetDone, Calm, Empties, PageRecord
<1>11. ASSUME NEW u \in Tab, HydrateFails(u) \/ NewChat(u) \/ Clear(u) \/ ClearFails(u)
       PROVE  Calm(t)
  BY <1>1, <1>11 DEF HydrateFails, NewChat, Clear, ClearFails, Calm, PageRecord
<1>12. ASSUME NEW r \in Request, Server(r) \/ Cancel(r) \/ Lose(r)
       PROVE  UNCHANGED page
  BY <1>12 DEF Server, Cancel, Lose, Accept, Begin, AgentFails, AgentAnswers, Token, SynthesisEnds,
        Save
<1>13. CASE Restart
  BY <1>1, <1>13 DEF Restart, Calm
<1>. QED
  BY <1>2, <1>3, <1>4, <1>5, <1>6, <1>7, <1>8, <1>9, <1>10, <1>11, <1>12, <1>13
     DEF Next, Page, vars

-----------------------------------------------------------------------------
(* Types.                                                                  *)

LEMMA RequestTyped ==
  ASSUME TypeOK, [Next]_vars
  PROVE  request' \in [Request -> RequestRecord]
<1>1. request \in [Request -> RequestRecord]
  BY DEF TypeOK
<1>2. ASSUME NEW r \in Request, NEW rq \in RequestRecord, request' = [request EXCEPT ![r] = rq]
      PROVE  request' \in [Request -> RequestRecord]
  BY <1>1, <1>2
<1>3. ASSUME NEW r \in Request, Accept(r)
      PROVE  request' \in [Request -> RequestRecord]
  <2>1. Recent(request[r].session, Window) \in Seq(Turn)
    BY <1>1, RecentIs, BoundsAssumption DEF RequestRecord
  <2>2. [request[r] EXCEPT !.pc = "accepted", !.history = Recent(request[r].session, Window)]
          \in RequestRecord
    BY <1>1, <2>1, RequestRecords DEF Unbegun
  <2>3. request' = [request EXCEPT ![r] =
            [@ EXCEPT !.pc = "accepted", !.history = Recent(request[r].session, Window)]]
    BY <1>3 DEF Accept
  <2>. QED
    BY <1>2, <2>2, <2>3
<1>4. ASSUME NEW r \in Request, NEW pc \in Begun, Goto(r, pc)
      PROVE  request' \in [Request -> RequestRecord]
  BY <1>1, <1>2, <1>4, RequestRecords DEF Goto
<1>5. ASSUME NEW r \in Request, Return(r)
      PROVE  request' \in [Request -> RequestRecord]
  <2>1. "end" \in Begun /\ <<>> \in Seq(Turn)
    BY DEF Begun
  <2>2. [request[r] EXCEPT !.pc = "end", !.history = <<>>] \in RequestRecord
    BY <1>1, <2>1, RequestRecords
  <2>3. request' = [request EXCEPT ![r] = [@ EXCEPT !.pc = "end", !.history = <<>>]]
    BY <1>5 DEF Return
  <2>. QED
    BY <1>2, <2>2, <2>3
<1>6. ASSUME NEW r \in Request, Token(r)
      PROVE  request' \in [Request -> RequestRecord]
  <2>1. [request[r] EXCEPT !.sent = @ + 1] \in RequestRecord
    BY <1>1, RequestRecords DEF Begun
  <2>2. request' = [request EXCEPT ![r] = [request[r] EXCEPT !.sent = @ + 1]]
    BY <1>6 DEF Token
  <2>. QED
    BY <1>2, <2>1, <2>2
<1>7. ASSUME NEW r \in Request, Cancel(r)
      PROVE  request' \in [Request -> RequestRecord]
  BY <1>1, <1>2, <1>7, RequestRecords DEF Cancel, Begun
<1>8. ASSUME NEW r \in Request, Lose(r)
      PROVE  request' \in [Request -> RequestRecord]
  <2>1. Stop(request[r]) \in RequestRecord /\ [request[r] EXCEPT !.open = FALSE] \in RequestRecord
    BY <1>1, RequestRecords DEF Begun
  <2>. QED
    BY <1>1, <1>2, <1>8, <2>1 DEF Lose
<1>9. CASE Restart
  BY <1>1, <1>9, RequestRecords DEF Restart, Begun
<1>10. ASSUME NEW t \in Tab, Ask(t)
       PROVE  request' \in [Request -> RequestRecord]
  <2>1. PICK r \in Request :
          request' = [request EXCEPT ![r].pc = "sent", ![r].session = page[t].session]
    BY <1>10, AskIs
  <2>2. page[t].session \in Session
    BY DEF TypeOK, PageRecord
  <2>3. [request[r] EXCEPT !.pc = "sent", !.session = page[t].session] \in RequestRecord
    BY <1>1, <2>2, RequestRecords DEF Unbegun
  <2>. QED
    BY <1>2, <2>1, <2>3
<1>11. ASSUME NEW t \in Tab, Clear(t)
       PROVE  request' \in [Request -> RequestRecord]
  <2>1. \A r \in Request : [request[r] EXCEPT !.forgotten = TRUE] \in RequestRecord
    BY <1>1, RequestRecords DEF Begun
  <2>. QED
    BY <1>1, <1>11, <2>1 DEF Clear
<1>12. ASSUME NEW r \in Request, Begin(r) \/ AgentAnswers(r) \/ SynthesisEnds(r)
       PROVE  \E pc \in Begun : Goto(r, pc)
  BY <1>12 DEF Begin, AgentAnswers, SynthesisEnds, Begun
<1>13. ASSUME NEW r \in Request, AgentFails(r) \/ Save(r)
       PROVE  Return(r)
  BY <1>13 DEF AgentFails, Save
<1>14. ASSUME NEW t \in Tab, Page(t) \/ Reload(t) \/ Hydrate(t) \/ HydrateFails(t) \/ ShowHydrated(t)
                             \/ NewChat(t) \/ ClearFails(t) \/ ResetDone(t)
       PROVE  UNCHANGED request
  BY <1>14 DEF Page, Handle, StreamEnds, StreamBreaks, Reload, Hydrate, HydrateFails, ShowHydrated,
        NewChat, ClearFails, ResetDone
<1>15. CASE UNCHANGED request
  BY <1>1, <1>15
<1>. QED
  BY <1>3, <1>4, <1>5, <1>6, <1>7, <1>8, <1>9, <1>10, <1>11, <1>12, <1>13, <1>14, <1>15
     DEF Next, Server, vars

LEMMA TurnsTyped ==
  ASSUME TypeOK, [Next]_vars
  PROVE  turns' \in [Session -> Seq(Turn)]
<1>1. \A r \in Request : UserTurn(r) \in Turn /\ AssistantTurn(r) \in Turn
  BY Messages
<1>2. turns \in [Session -> Seq(Turn)]
  BY DEF TypeOK
<1>3. ASSUME NEW r \in Request, NEW turn \in Turn, append_turn(r, turn)
      PROVE  turns' \in [Session -> Seq(Turn)]
  <2>1. request[r].session \in Session
    BY DEF TypeOK, RequestRecord
  <2>. QED
    BY <1>2, <1>3, <2>1 DEF append_turn
<1>4. ASSUME NEW r \in Request, Begin(r)
      PROVE  turns' \in [Session -> Seq(Turn)]
  BY <1>1, <1>3, <1>4 DEF Begin
<1>5. ASSUME NEW r \in Request, Save(r)
      PROVE  turns' \in [Session -> Seq(Turn)]
  BY <1>1, <1>2, <1>3, <1>5 DEF Save
<1>6. ASSUME NEW t \in Tab, Clear(t)
      PROVE  turns' \in [Session -> Seq(Turn)]
  <2>1. turns' = [turns EXCEPT ![page[t].session] = <<>>]
    BY <1>6 DEF Clear
  <2>2. <<>> \in Seq(Turn)
    OBVIOUS
  <2>. QED
    BY <1>2, <2>1, <2>2
<1>7. UNCHANGED turns \/ (\E r \in Request : Begin(r) \/ Save(r)) \/ (\E t \in Tab : Clear(t))
  <2>1. ASSUME NEW r \in Request, Accept(r) \/ AgentFails(r) \/ AgentAnswers(r) \/ Token(r)
                                  \/ SynthesisEnds(r) \/ Cancel(r) \/ Lose(r)
        PROVE  UNCHANGED turns
    BY <2>1 DEF Accept, AgentFails, AgentAnswers, Token, SynthesisEnds, Cancel, Lose
  <2>2. ASSUME NEW t \in Tab, Page(t) \/ Ask(t) \/ Reload(t) \/ Hydrate(t) \/ HydrateFails(t)
                              \/ ShowHydrated(t) \/ NewChat(t) \/ ClearFails(t) \/ ResetDone(t)
        PROVE  UNCHANGED turns
    BY <2>2 DEF Page, Handle, StreamEnds, StreamBreaks, Ask, Reload, Hydrate, HydrateFails,
          ShowHydrated, NewChat, ClearFails, ResetDone
  <2>. QED
    BY <2>1, <2>2 DEF Next, Server, Restart, vars
<1>. QED
  BY <1>2, <1>4, <1>5, <1>6, <1>7

LEMMA WireTyped ==
  ASSUME TypeOK, ReadersInv, [Next]_vars
  PROVE  wire' \in [Request -> Seq(Frame)]
<1>1. wire \in [Request -> Seq(Frame)]
  BY DEF TypeOK
<1>2. ASSUME NEW r \in Request, NEW frames \in Seq(Frame), Send(r, frames)
      PROVE  wire' \in [Request -> Seq(Frame)]
  <2>1. wire[r] \o frames \in Seq(Frame)
    BY <1>1
  <2>2. \E q \in Seq(Frame) : wire' = [wire EXCEPT ![r] = q]
    BY <1>1, <1>2, <2>1 DEF Send
  <2>. QED
    BY <1>1, <2>2
<1>3. AgentError \in Seq(Frame) /\ <<"token">> \in Seq(Frame) /\ <<"done">> \in Seq(Frame)
      /\ \A ok \in BOOLEAN : LastFrames(ok) \in Seq(Frame)
  <2>1. /\ <<"error", "done">> \in Seq(Frame) /\ <<"token">> \in Seq(Frame)
        /\ <<"done">> \in Seq(Frame) /\ <<"error">> \in Seq(Frame) /\ <<>> \in Seq(Frame)
    BY DEF Frame
  <2>2. \A ok \in BOOLEAN : LastFrames(ok) \in {<<>>, <<"error">>}
    BY Zenon DEF LastFrames
  <2>. QED
    BY <2>1, <2>2 DEF AgentError
<1>4. ASSUME NEW r \in Request, Sends(r)
      PROVE  \E frames \in Seq(Frame) : Send(r, frames)
  BY <1>3, <1>4 DEF Sends, AgentFails, Token, SynthesisEnds, Save
<1>5. ASSUME NEW t \in Tab, Handle(t)
      PROVE  wire' \in [Request -> Seq(Frame)]
  <2>1. /\ page[t].req \in Request /\ wire[page[t].req] # <<>>
        /\ wire' = [wire EXCEPT ![page[t].req] = Tail(wire[page[t].req])]
    BY <1>5, HandleIs
  <2>2. Tail(wire[page[t].req]) \in Seq(Frame)
    BY <1>1, <2>1
  <2>. QED
    BY <1>1, <2>1, <2>2
<1>6. ASSUME NEW t \in Tab, StreamBreaks(t)
      PROVE  wire' \in [Request -> Seq(Frame)]
  <2>1. wire' = [wire EXCEPT ![page[t].req] = <<>>] /\ <<>> \in Seq(Frame)
    BY <1>6, StreamBreaksIs
  <2>. QED
    BY <1>1, <2>1
<1>7. ASSUME NEW t \in Tab, Reload(t)
      PROVE  wire' \in [Request -> Seq(Frame)]
  <2>1. wire' = [r \in Request |-> IF Reads(t, r) THEN <<>> ELSE wire[r]]
    BY <1>7, Zenon DEF Reload
  <2>2. \A r \in Request : wire[r] \in Seq(Frame) /\ <<>> \in Seq(Frame)
    BY <1>1
  <2>3. \A r \in Request : (IF Reads(t, r) THEN <<>> ELSE wire[r]) \in Seq(Frame)
    BY <2>2, Zenon
  <2>. QED
    BY <2>1, <2>3, Zenon
<1>8. ASSUME NEW r \in Request, Accept(r) \/ Begin(r) \/ AgentAnswers(r) \/ Cancel(r) \/ Lose(r)
      PROVE  UNCHANGED wire
  BY <1>8 DEF Accept, Begin, AgentAnswers, Cancel, Lose
<1>9. ASSUME NEW t \in Tab, StreamEnds(t) \/ Ask(t) \/ Hydrate(t) \/ HydrateFails(t)
              \/ ShowHydrated(t) \/ NewChat(t) \/ Clear(t) \/ ClearFails(t) \/ ResetDone(t)
      PROVE  UNCHANGED wire
  BY <1>9 DEF StreamEnds, Ask, Hydrate, HydrateFails, ShowHydrated, NewChat, Clear, ClearFails,
        ResetDone
<1>10. CASE UNCHANGED wire
  BY <1>1, <1>10
<1>. QED
  BY <1>2, <1>4, <1>5, <1>6, <1>7, <1>8, <1>9, <1>10 DEF Next, Server, Page, Sends, Restart, vars

LEMMA HydratedAre ==
  ASSUME NEW rows \in Seq(Turn), NEW ms, ms = [i \in DOMAIN rows |-> Hydrated(rows[i])]
  PROVE  /\ ms \in Seq(Message) /\ Len(ms) = Len(rows) /\ DOMAIN ms = DOMAIN rows
         /\ \A i \in DOMAIN rows : ms[i] = Hydrated(rows[i])
<1>1. DOMAIN rows = 1..Len(rows) /\ Len(rows) \in Nat /\ \A i \in 1..Len(rows) : rows[i] \in Turn
  OBVIOUS
<1>2. \A i \in 1..Len(rows) : Hydrated(rows[i]) \in Message
  BY <1>1, Messages
<1>3. ms = [i \in 1..Len(rows) |-> Hydrated(rows[i])]
  BY <1>1
<1>4. ms \in Seq(Message)
  BY <1>1, <1>2, <1>3, IsASeq
<1>. QED
  BY <1>1, <1>3, <1>4

LEMMA PageTyped ==
  ASSUME TypeOK, ReadersInv, [Next]_vars
  PROVE  page' \in [Tab -> PageRecord]
<1>1. page \in [Tab -> PageRecord] /\ stored \in Session
  BY DEF TypeOK
<1>2. ASSUME NEW t \in Tab, NEW pg \in PageRecord, page' = [page EXCEPT ![t] = pg]
      PROVE  page' \in [Tab -> PageRecord]
  BY <1>1, <1>2
<1>3. ASSUME NEW t \in Tab, Handle(t)
      PROVE  page' \in [Tab -> PageRecord]
  BY <1>2, <1>3, HandleIs
<1>4. ASSUME NEW t \in Tab, StreamBreaks(t)
      PROVE  page' \in [Tab -> PageRecord]
  BY <1>2, <1>4, StreamBreaksIs
<1>5. ASSUME NEW t \in Tab, StreamEnds(t)
      PROVE  page' \in [Tab -> PageRecord]
  <2>1. page' = [page EXCEPT ![t] = [page[t] EXCEPT !.busy = FALSE, !.req = 0]]
    BY <1>5 DEF StreamEnds
  <2>2. [page[t] EXCEPT !.busy = FALSE, !.req = 0] \in PageRecord
    BY <1>1, PageRecords
  <2>. QED
    BY <1>2, <2>1, <2>2
<1>6. ASSUME NEW t \in Tab, Ask(t)
      PROVE  page' \in [Tab -> PageRecord]
  <2>1. PICK r \in Request :
          page' = [page EXCEPT
                    ![t].busy = TRUE, ![t].req = r,
                    ![t].messages = @ \o <<Question(r),
                        [Question(r) EXCEPT !.role = "assistant", !.pending = TRUE]>>]
    BY <1>6, AskIs
  <2>. DEFINE new == page[t].messages \o
                 <<Question(r), [Question(r) EXCEPT !.role = "assistant", !.pending = TRUE]>>
  <2>2. new \in Seq(Message)
    <3>1. /\ page[t].messages \in Seq(Message) /\ Question(r) \in Message
          /\ [Question(r) EXCEPT !.role = "assistant", !.pending = TRUE] \in Message
      BY <1>1, Messages DEF PageRecord
    <3>. QED
      BY <3>1
  <2>3. page' = [page EXCEPT ![t] = [page[t] EXCEPT !.busy = TRUE, !.req = r, !.messages = new]]
    BY <2>1
  <2>. HIDE DEF new
  <2>4. [page[t] EXCEPT !.busy = TRUE, !.req = r, !.messages = new] \in PageRecord
    BY <1>1, <2>2, PageRecords
  <2>. QED
    BY <1>2, <2>3, <2>4
<1>7. ASSUME NEW t \in Tab, Reload(t)
      PROVE  page' \in [Tab -> PageRecord]
  <2>1. page' = [page EXCEPT ![t] = Mounted(stored)]
    BY <1>7 DEF Reload
  <2>2. page[t] \in PageRecord
    BY <1>1
  <2>3. Mounted(stored) \in PageRecord
    BY <1>1, <2>2, PageRecords
  <2>. QED
    BY <1>2, <2>1, <2>3
<1>8. ASSUME NEW t \in Tab, Hydrate(t)
      PROVE  page' \in [Tab -> PageRecord]
  <2>. DEFINE rows == Recent(page[t].fetched, Limit)
  <2>1. rows \in Seq(Turn)
    BY <1>1, RecentIs, BoundsAssumption DEF PageRecord
  <2>2. page' = [page EXCEPT ![t] = [page[t] EXCEPT !.mount = "read", !.loaded = rows]]
    BY <1>8 DEF Hydrate
  <2>. HIDE DEF rows
  <2>3. [page[t] EXCEPT !.mount = "read", !.loaded = rows] \in PageRecord
    BY <1>1, <2>1, PageRecords
  <2>. QED
    BY <1>2, <2>2, <2>3
<1>9. ASSUME NEW t \in Tab, ShowHydrated(t)
      PROVE  page' \in [Tab -> PageRecord]
  <2>. DEFINE ms == [i \in DOMAIN page[t].loaded |-> Hydrated(page[t].loaded[i])]
  <2>1. page[t].loaded \in Seq(Turn)
    BY <1>1 DEF PageRecord
  <2>2. ms \in Seq(Message)
    BY <2>1, HydratedAre
  <2>3. page' = [page EXCEPT ![t] =
                    [page[t] EXCEPT !.mount = "done", !.loaded = <<>>, !.messages = ms]]
    BY <1>9 DEF ShowHydrated
  <2>. HIDE DEF ms
  <2>4. [page[t] EXCEPT !.mount = "done", !.loaded = <<>>, !.messages = ms] \in PageRecord
    BY <1>1, <2>2, PageRecords
  <2>. QED
    BY <1>2, <2>3, <2>4
<1>10. ASSUME NEW t \in Tab, HydrateFails(t)
       PROVE  page' \in [Tab -> PageRecord]
  <2>1. page' = [page EXCEPT ![t] = [page[t] EXCEPT !.mount = "done"]]
    BY <1>10 DEF HydrateFails
  <2>2. [page[t] EXCEPT !.mount = "done"] \in PageRecord
    BY <1>1, PageRecords
  <2>. QED
    BY <1>2, <2>1, <2>2
<1>11. ASSUME NEW t \in Tab, NewChat(t) \/ Clear(t) \/ ClearFails(t)
       PROVE  page' \in [Tab -> PageRecord]
  <2>1. PICK phase \in {"no", "clearing", "cleared"} :
          page' = [page EXCEPT ![t] = [page[t] EXCEPT !.reset = phase]]
    BY <1>11 DEF NewChat, Clear, ClearFails
  <2>2. [page[t] EXCEPT !.reset = phase] \in PageRecord
    BY <1>1, PageRecords
  <2>. QED
    BY <1>2, <2>1, <2>2
<1>12. ASSUME NEW t \in Tab, ResetDone(t)
       PROVE  page' \in [Tab -> PageRecord] /\ stored' \in Session
  <2>1. page' = [page EXCEPT ![t] =
                   [page[t] EXCEPT !.reset = "no", !.session = stored', !.messages = <<>>]]
    BY <1>12 DEF ResetDone
  <2>2. stored' \in Session
    BY <1>1, <1>12, BoundsAssumption DEF ResetDone, Session
  <2>3. [page[t] EXCEPT !.reset = "no", !.session = stored', !.messages = <<>>] \in PageRecord
    BY <1>1, <2>2, PageRecords
  <2>. QED
    BY <1>2, <2>1, <2>2, <2>3
<1>13. ASSUME NEW r \in Request, Server(r) \/ Cancel(r) \/ Lose(r)
       PROVE  UNCHANGED page
  BY <1>13 DEF Server, Cancel, Lose, Accept, Begin, AgentFails, AgentAnswers, Token, SynthesisEnds,
        Save
<1>14. CASE UNCHANGED page
  BY <1>1, <1>14
<1>. QED
  BY <1>3, <1>4, <1>5, <1>6, <1>7, <1>8, <1>9, <1>10, <1>11, <1>12, <1>13, <1>14
     DEF Next, Page, Restart, vars

LEMMA TypeStep ==
  ASSUME TypeOK, ReadersInv, [Next]_vars
  PROVE  TypeOK'
<1>1. stored' \in Session
  <2>1. stored \in Session
    BY DEF TypeOK
  <2>2. ASSUME NEW t \in Tab, ResetDone(t)
        PROVE  stored' \in Session
    BY <2>1, <2>2, BoundsAssumption DEF ResetDone, Session
  <2>3. ASSUME NEW r \in Request, Server(r) \/ Cancel(r) \/ Lose(r) \/ Restart
        PROVE  UNCHANGED stored
    BY <2>3 DEF Server, Cancel, Lose, Accept, Begin, AgentFails, AgentAnswers, Token, SynthesisEnds,
          Save, Restart
  <2>4. ASSUME NEW t \in Tab, Page(t) \/ Ask(t) \/ Reload(t) \/ Hydrate(t) \/ HydrateFails(t)
                              \/ ShowHydrated(t) \/ NewChat(t) \/ Clear(t) \/ ClearFails(t)
        PROVE  UNCHANGED stored
    BY <2>4 DEF Page, Handle, StreamEnds, StreamBreaks, Ask, Reload, Hydrate, HydrateFails,
          ShowHydrated, NewChat, Clear, ClearFails
  <2>. QED
    BY <2>1, <2>2, <2>3, <2>4 DEF Next, Restart, vars
<1>2. faults' \in Nat
  <2>1. faults \in Nat
    BY DEF TypeOK
  <2>2. ASSUME Fault PROVE faults' \in Nat
    BY <2>1, <2>2 DEF Fault
  <2>3. ASSUME NEW r \in Request, Server(r) \/ Cancel(r)
        PROVE  UNCHANGED faults
    BY <2>3 DEF Server, Cancel, Accept, Begin, AgentFails, AgentAnswers, Token, SynthesisEnds, Save
  <2>4. ASSUME NEW t \in Tab, Page(t) \/ Ask(t) \/ Hydrate(t) \/ HydrateFails(t) \/ ShowHydrated(t)
                              \/ NewChat(t) \/ Clear(t) \/ ResetDone(t)
        PROVE  UNCHANGED faults
    BY <2>4 DEF Page, Handle, StreamEnds, StreamBreaks, Ask, Hydrate, HydrateFails, ShowHydrated,
          NewChat, Clear, ResetDone
  <2>. QED
    BY <2>1, <2>2, <2>3, <2>4 DEF Next, Lose, Restart, ClearFails, Reload, vars
<1>. QED
  BY <1>1, <1>2, RequestTyped, TurnsTyped, WireTyped, PageTyped DEF TypeOK

-----------------------------------------------------------------------------
(* The invariant is kept.                                                  *)

LEMMA BusyIs ==
  ASSUME TypeOK, ReadersInv, [Next]_vars, NEW t \in Tab, page'[t].busy
  PROVE  \/ page[t].busy /\ page'[t].req = page[t].req
         \/ \E r \in Request : Asks(t, r)
BY PageStep, HandleIs, StreamBreaksIs
   DEF Calm, Hydrates, Shows, Empties, Settles, Mounts

LEMMA ReadersStep ==
  ASSUME TypeOK, ReadersInv, [Next]_vars
  PROVE  ReadersInv'
<1>1. ASSUME NEW t \in Tab, page'[t].busy
      PROVE  page'[t].req \in Request /\ request'[page'[t].req].pc # "unused"
  <2>1. CASE page[t].busy /\ page'[t].req = page[t].req
    BY <2>1, RequestStep DEF ReadersInv, RequestGoes
  <2>2. ASSUME NEW r \in Request, Asks(t, r)
        PROVE  page'[t].req \in Request /\ request'[page'[t].req].pc # "unused"
    BY <2>2 DEF Asks, TypeOK, RequestRecord
  <2>. QED
    BY <1>1, <2>1, <2>2, BusyIs
<1>2. ASSUME NEW t \in Tab, NEW u \in Tab, page'[t].busy, page'[u].busy, page'[t].req = page'[u].req
      PROVE  t = u
  <2>1. ASSUME NEW v \in Tab, NEW w \in Tab, NEW r \in Request, Asks(v, r), v # w, page'[w].busy
        PROVE  page'[w].req # page'[v].req
    <3>1. page[w].busy /\ page'[w].req = page[w].req
      BY <2>1 DEF Asks
    <3>. QED
      BY <2>1, <3>1 DEF Asks, ReadersInv
  <2>2. CASE page[t].busy /\ page'[t].req = page[t].req /\ page[u].busy /\ page'[u].req = page[u].req
    BY <1>2, <2>2 DEF ReadersInv
  <2>. QED
    BY <1>2, <2>1, <2>2, BusyIs
<1>. QED
  BY <1>1, <1>2 DEF ReadersInv

\* What AgentFails, Token, SynthesisEnds and Save send and do to their question.
LEMMA SendsIs ==
  ASSUME TypeOK, NEW r \in Request, Sends(r)
  PROVE  \/ /\ request[r].pc = "agent" /\ request'[r].pc = "end" /\ request'[r].sent = request[r].sent
            /\ Send(r, <<"error", "done">>)
         \/ /\ request[r].pc = "synth" /\ request'[r].pc = "synth"
            /\ request'[r].sent = request[r].sent + 1
            /\ Send(r, <<"token">>)
         \/ /\ request[r].pc = "synth" /\ request'[r].pc \in {"save", "failed"}
            /\ request'[r].sent = request[r].sent
            /\ Send(r, <<>>) \/ Send(r, <<"error">>)
         \/ /\ request[r].pc \in {"save", "failed"} /\ request'[r].pc = "end"
            /\ request'[r].sent = request[r].sent
            /\ Send(r, <<"done">>)
<1>1. r \in DOMAIN request /\ request[r] \in RequestRecord
  BY DEF TypeOK
<1>2. CASE AgentFails(r)
  BY <1>1, <1>2 DEF AgentFails, Return, AgentError, RequestRecord
<1>3. CASE Token(r)
  BY <1>1, <1>3 DEF Token, RequestRecord
<1>4. CASE SynthesisEnds(r)
  <2>1. PICK ok \in BOOLEAN : Send(r, LastFrames(ok)) /\ Goto(r, IF ok THEN "save" ELSE "failed")
    BY <1>4, Zenon DEF SynthesisEnds
  <2>2. LastFrames(ok) \in {<<>>, <<"error">>} /\ (IF ok THEN "save" ELSE "failed") \in {"save", "failed"}
    BY Zenon DEF LastFrames
  <2>3. request[r].pc = "synth"
    BY <1>4 DEF SynthesisEnds
  <2>4. Send(r, <<>>) \/ Send(r, <<"error">>)
    BY <2>1, <2>2, Zenon
  <2>5. \E pc \in {"save", "failed"} : request' = [request EXCEPT ![r].pc = pc]
    BY <2>1, <2>2, Zenon DEF Goto
  <2>. QED
    BY <1>1, <2>3, <2>4, <2>5 DEF RequestRecord
<1>5. CASE Save(r)
  BY <1>1, <1>5 DEF Save, Return, RequestRecord
<1>. QED
  BY <1>2, <1>3, <1>4, <1>5 DEF Sends

LEMMA RequestInvStep ==
  ASSUME TypeOK, ReadersInv, RequestInv, [Next]_vars
  PROVE  RequestInv'
<1>. SUFFICES ASSUME NEW r \in Request
              PROVE  /\ request'[r].pc \in {"unused", "sent", "accepted", "agent"} => request'[r].sent = 0
                     /\ request'[r].pc = "unused" => wire'[r] = <<>>
                     /\ \A i \in DOMAIN wire'[r] : wire'[r][i] = "done" =>
                           i = Len(wire'[r]) /\ request'[r].pc = "end"
  BY DEF RequestInv
<1>1. RequestGoes(r)
  BY RequestStep
<1>2. wire[r] \in Seq(Frame)
  BY DEF TypeOK
<1>3. request'[r].pc \in {"unused", "sent", "accepted", "agent"} => request'[r].sent = 0
  BY <1>1 DEF RequestGoes, RequestInv, Token
<1>4. CASE Sends(r)
  <2>1. \A i \in DOMAIN wire[r] : wire[r][i] # "done"
    BY <1>4, SendsIs DEF RequestInv
  <2>2. request'[r].pc # "unused"
    BY <1>4, SendsIs
  <2>3. ASSUME NEW frames \in {<<"token">>, <<>>, <<"error">>}, Send(r, frames)
        PROVE  \A i \in DOMAIN wire'[r] : wire'[r][i] # "done"
    <3>1. wire'[r] = wire[r] \/ wire'[r] = wire[r] \o frames
      BY <2>3, SendIs
    <3>2. frames \in Seq(Frame) /\ \A i \in DOMAIN frames : frames[i] # "done"
      <4>1. CASE frames = <<>>
        BY <4>1
      <4>2. CASE frames = <<"token">>
        BY <4>2 DEF Frame
      <4>3. CASE frames = <<"error">>
        BY <4>3 DEF Frame
      <4>. QED
        BY <4>1, <4>2, <4>3
    <3>3. CASE wire'[r] = wire[r] \o frames
      BY <1>2, <2>1, <3>2, <3>3, Concatenated
    <3>. QED
      BY <2>1, <3>1, <3>3
  <2>4. ASSUME NEW frames \in {<<"error", "done">>, <<"done">>}, Send(r, frames)
        PROVE  \A i \in DOMAIN wire'[r] : wire'[r][i] = "done" => i = Len(wire'[r])
    <3>1. wire'[r] = wire[r] \/ wire'[r] = wire[r] \o frames
      BY <2>4, SendIs
    <3>2. /\ frames \in Seq(Frame)
          /\ \A i \in DOMAIN frames : frames[i] = "done" => i = Len(frames)
      <4>1. CASE frames = <<"done">>
        BY <4>1 DEF Frame
      <4>2. CASE frames = <<"error", "done">>
        BY <4>2 DEF Frame
      <4>. QED
        BY <4>1, <4>2
    <3>3. CASE wire'[r] = wire[r] \o frames
      <4>. SUFFICES ASSUME NEW i \in DOMAIN (wire[r] \o frames), (wire[r] \o frames)[i] = "done"
                    PROVE  i = Len(wire[r] \o frames)
        BY <3>3
      <4>1. i - Len(wire[r]) \in DOMAIN frames /\ (wire[r] \o frames)[i] = frames[i - Len(wire[r])]
        BY <1>2, <2>1, <3>2, Concatenated
      <4>2. i - Len(wire[r]) = Len(frames)
        BY <3>2, <4>1
      <4>3. Len(wire[r] \o frames) = Len(wire[r]) + Len(frames) /\ i \in Int
        BY <1>2, <3>2
      <4>. QED
        BY <1>2, <3>2, <4>2, <4>3
    <3>. QED
      BY <2>1, <3>1, <3>3
  <2>. QED
    BY <1>3, <1>4, <2>2, <2>3, <2>4, SendsIs
<1>5. CASE wire'[r] = wire[r]
  BY <1>1, <1>3, <1>5 DEF RequestGoes, RequestInv
<1>6. CASE wire'[r] = <<>>
  BY <1>3, <1>6
<1>7. CASE wire[r] # <<>> /\ wire'[r] = Tail(wire[r])
  <2>1. \A i \in DOMAIN wire[r] : wire[r][i] = "done" => i = Len(wire[r]) /\ request[r].pc = "end"
    BY DEF RequestInv
  <2>2. Len(wire'[r]) = Len(wire[r]) - 1 /\ wire'[r] \in Seq(Frame)
    BY <1>2, <1>7
  <2>3. \A i \in DOMAIN wire'[r] : i + 1 \in DOMAIN wire[r] /\ wire'[r][i] = wire[r][i + 1]
    BY <1>2, <1>7
  <2>4. \A i \in DOMAIN wire'[r] : wire'[r][i] = "done" => i = Len(wire'[r]) /\ request[r].pc = "end"
    BY <1>2, <2>1, <2>2, <2>3
  <2>5. request'[r].pc # "unused"
    BY <1>1, <1>7 DEF RequestGoes, RequestInv
  <2>. QED
    BY <1>1, <1>3, <2>4, <2>5 DEF RequestGoes
<1>. QED
  BY <1>4, <1>5, <1>6, <1>7, WireStep

LEMMA BeginIs ==
  ASSUME TypeOK, NEW r \in Request, Begin(r)
  PROVE  request[r].pc = "accepted" /\ request'[r].pc = "agent"
         /\ request'[r].session = request[r].session
BY DEF Begin, Goto, TypeOK, RequestRecord

LEMMA SaveIs ==
  ASSUME TypeOK, NEW r \in Request, Save(r)
  PROVE  /\ request[r].pc \in {"save", "failed"} /\ request'[r].pc = "end"
         /\ request'[r].session = request[r].session /\ request'[r].sent = request[r].sent
         /\ request'[r].forgotten = request[r].forgotten
BY DEF Save, Return, TypeOK, RequestRecord

LEMMA ClearIs ==
  ASSUME TypeOK, NEW t \in Tab, Clear(t), NEW r \in Request, request[r].session = page[t].session
  PROVE  /\ request'[r].pc = request[r].pc /\ request'[r].session = request[r].session
         /\ request[r].pc \in Begun => request'[r].forgotten
BY DEF Clear, TypeOK, RequestRecord

LEMMA Appended ==
  ASSUME NEW rows \in Seq(Turn), NEW turn \in Turn
  PROVE  /\ Append(rows, turn) \in Seq(Turn) /\ Len(Append(rows, turn)) = Len(rows) + 1
         /\ Append(rows, turn)[Len(rows) + 1] = turn
         /\ \A i \in DOMAIN rows : i \in DOMAIN Append(rows, turn) /\ Append(rows, turn)[i] = rows[i]
         /\ \A i \in DOMAIN Append(rows, turn) : i \in DOMAIN rows \/ i = Len(rows) + 1
         /\ \A i \in DOMAIN rows : i < Len(rows) + 1
OBVIOUS

LEMMA TurnIs ==
  /\ \A turn \in Turn : turn.req \in Request
  /\ \A rows \in Seq(Turn) : \A i \in DOMAIN rows : rows[i] \in Turn
<1>1. \A turn \in Turn : turn.req \in Request
  BY DEF Turn
<1>2. \A rows \in Seq(Turn) : \A i \in DOMAIN rows : rows[i] \in Turn
  OBVIOUS
<1>. QED
  BY <1>1, <1>2

LEMMA TurnsInvStep ==
  ASSUME TypeOK, RequestInv, TurnsInv, [Next]_vars
  PROVE  TurnsInv'
<1>. DEFINE Fits(s, turn) ==
              /\ turn \in Turn
              /\ request'[turn.req].session = s /\ request'[turn.req].pc \in Begun
              /\ turn.role = "assistant" =>
                    request'[turn.req].pc = "end" /\ turn.n = request'[turn.req].sent
<1>. SUFFICES ASSUME NEW s \in Session, NEW i \in DOMAIN turns'[s]
              PROVE  Fits(s, turns'[s][i])
  BY DEF TurnsInv
<1>1. turns[s] \in Seq(Turn)
  BY DEF TypeOK
<1>2. \A j \in DOMAIN turns[s] : Fits(s, turns[s][j])
  <2>1. SUFFICES ASSUME NEW j \in DOMAIN turns[s] PROVE Fits(s, turns[s][j])
    OBVIOUS
  <2>2. turns[s][j] \in Turn /\ turns[s][j].req \in Request
    BY <1>1, TurnIs
  <2>3. RequestGoes(turns[s][j].req)
    BY <2>2, RequestStep
  <2>4. request[turns[s][j].req].pc = "end" =>
           request'[turns[s][j].req].sent = request[turns[s][j].req].sent
    BY <2>3 DEF RequestGoes, Token
  <2>. QED
    BY <2>2, <2>3, <2>4 DEF TurnsInv, RequestGoes, Begun
<1>3. CASE turns'[s] = turns[s] \/ turns'[s] = <<>>
  BY <1>2, <1>3
<1>4. ASSUME NEW r \in Request, Begin(r), request[r].session = s,
             turns'[s] = Append(turns[s], UserTurn(r))
      PROVE  Fits(s, turns'[s][i])
  <2>1. UserTurn(r) \in Turn
    BY Messages
  <2>2. Fits(s, UserTurn(r))
    BY <1>4, <2>1, BeginIs DEF UserTurn, Begun
  <2>. QED
    <3>. HIDE DEF Fits
    <3>. QED  BY <1>1, <1>2, <1>4, <2>1, <2>2, Appended
<1>5. ASSUME NEW r \in Request, Save(r), request[r].session = s,
             turns'[s] = Append(turns[s], AssistantTurn(r))
      PROVE  Fits(s, turns'[s][i])
  <2>1. AssistantTurn(r) \in Turn
    BY Messages
  <2>2. Fits(s, AssistantTurn(r))
    BY <1>5, <2>1, SaveIs DEF AssistantTurn, Begun
  <2>. QED
    <3>. HIDE DEF Fits
    <3>. QED  BY <1>1, <1>2, <1>5, <2>1, <2>2, Appended
<1>. QED
  BY <1>3, <1>4, <1>5, TurnsStep

LEMMA HoldsIs ==
  ASSUME NEW s, NEW turn
  PROVE  /\ Holds(s, turn) <=> \E i \in DOMAIN turns[s] : turns[s][i] = turn
         /\ Holds(s, turn)' <=> \E i \in DOMAIN turns'[s'] : turns'[s'][i] = turn'
BY Zenon DEF Holds, Range

\* What is stored stays stored until it is forgotten.
LEMMA KeptStays ==
  ASSUME TypeOK, TurnsInv, [Next]_vars, NEW r \in Request, NEW n, Kept(r, n)
  PROVE  Kept(r, n)'
<1>. DEFINE turn == [role |-> "assistant", req |-> r, n |-> n]
            s == request[r].session
<1>1. RequestGoes(r)
  BY RequestStep
<1>2. CASE request[r].forgotten
  BY <1>1, <1>2 DEF Kept, RequestGoes
<1>3. CASE ~request[r].forgotten
  <2>1. PICK i \in DOMAIN turns[s] : turns[s][i] = turn
    BY <1>3, HoldsIs DEF Kept
  <2>2. s \in Session /\ turns[s] \in Seq(Turn)
    BY DEF TypeOK, RequestRecord
  <2>3. request[r].pc \in Begun /\ request'[r].session = s
    BY <1>1, <2>1, <2>2 DEF TurnsInv, RequestGoes, Begun
  <2>4. request'[r].forgotten \/ \E j \in DOMAIN turns'[s] : turns'[s][j] = turn
    <3>1. CASE turns'[s] = turns[s]
      BY <2>1, <3>1
    <3>2. ASSUME NEW q \in Request, turns'[s] = Append(turns[s], UserTurn(q))
          PROVE  \E j \in DOMAIN turns'[s] : turns'[s][j] = turn
      <4>1. UserTurn(q) \in Turn
        BY Messages
      <4>2. i \in DOMAIN Append(turns[s], UserTurn(q)) /\ Append(turns[s], UserTurn(q))[i] = turns[s][i]
        BY <2>2, <4>1, Appended
      <4>. QED
        BY <2>1, <3>2, <4>2
    <3>3. ASSUME NEW q \in Request, turns'[s] = Append(turns[s], AssistantTurn(q))
          PROVE  \E j \in DOMAIN turns'[s] : turns'[s][j] = turn
      <4>1. AssistantTurn(q) \in Turn
        BY Messages
      <4>2. i \in DOMAIN Append(turns[s], AssistantTurn(q)) /\ Append(turns[s], AssistantTurn(q))[i] = turns[s][i]
        BY <2>2, <4>1, Appended
      <4>. QED
        BY <2>1, <3>3, <4>2
    <3>4. ASSUME NEW t \in Tab, Clear(t), page[t].session = s
          PROVE  request'[r].forgotten
      BY <2>3, <3>4, ClearIs
    <3>. HIDE DEF turn
    <3>. QED
      BY <2>2, <3>1, <3>2, <3>3, <3>4, TurnsStep
  <2>. QED
    BY <2>3, <2>4, HoldsIs DEF Kept
<1>. QED
  BY <1>2, <1>3

LEMMA StoredStep ==
  ASSUME TypeOK, RequestInv, TurnsInv, StoredInv, [Next]_vars
  PROVE  StoredInv'
<1>. SUFFICES ASSUME NEW r \in Request, request'[r].pc = "end", request'[r].sent > 0,
                     ~request'[r].forgotten
              PROVE  Holds(request[r].session, AssistantTurn(r))'
  BY DEF StoredInv
<1>1. RequestGoes(r)
  BY RequestStep
<1>2. CASE request[r].pc = "end"
  <2>1. request'[r].sent = request[r].sent /\ ~request[r].forgotten
    BY <1>1, <1>2 DEF RequestGoes, Token
  <2>2. Kept(r, request[r].sent)
    BY <1>2, <2>1 DEF StoredInv, Kept, AssistantTurn
  <2>3. Kept(r, request[r].sent)'
    <3>1. \A n : Kept(r, n) => Kept(r, n)'
      BY KeptStays
    <3>. QED
      BY <2>1, <2>2, <3>1 DEF Kept
  <2>. QED
    BY <2>3 DEF Kept, AssistantTurn
<1>3. CASE AgentFails(r)
  <2>1. request[r].pc = "agent" /\ request'[r].sent = request[r].sent
    BY <1>3 DEF AgentFails, Return, TypeOK, RequestRecord
  <2>. QED
    BY <2>1 DEF RequestInv
<1>4. CASE Save(r)
  <2>. DEFINE s == request[r].session
  <2>1. s \in Session /\ turns[s] \in Seq(Turn) /\ AssistantTurn(r) \in Turn
    BY Messages DEF TypeOK, RequestRecord
  <2>2. request'[r].session = s /\ request'[r].sent = request[r].sent
    BY <1>4, SaveIs
  <2>3. turns'[s] = Append(turns[s], AssistantTurn(r))
    BY <1>4, <2>1, <2>2 DEF Save, append_turn, TypeOK
  <2>4. turns'[s][Len(turns[s]) + 1] = AssistantTurn(r) /\ Len(turns[s]) + 1 \in DOMAIN turns'[s]
    BY <2>1, <2>3, Appended
  <2>5. AssistantTurn(r)' = AssistantTurn(r)
    BY <2>2 DEF AssistantTurn
  <2>. QED
    BY <2>2, <2>4, <2>5, HoldsIs
<1>. QED
  BY <1>1, <1>2, <1>3, <1>4 DEF RequestGoes

LEMMA LoadedStep ==
  ASSUME TypeOK, ReadersInv, TurnsInv, LoadedInv, [Next]_vars
  PROVE  LoadedInv'
<1>. SUFFICES ASSUME NEW t \in Tab, NEW i \in DOMAIN page'[t].loaded,
                     page'[t].loaded[i].role = "assistant"
              PROVE  Kept(page[t].loaded[i].req, page[t].loaded[i].n)'
  BY DEF LoadedInv
<1>1. page[t].loaded \in Seq(Turn) /\ page[t].fetched \in Session
  BY DEF TypeOK, PageRecord
<1>2. \A r \in Request : \A n : Kept(r, n) => Kept(r, n)'
  BY KeptStays
<1>3. CASE page'[t].loaded = page[t].loaded
  <2>1. page[t].loaded[i] \in Turn /\ page[t].loaded[i].req \in Request
    BY <1>1, <1>3, TurnIs
  <2>2. Kept(page[t].loaded[i].req, page[t].loaded[i].n)
    BY <1>3 DEF LoadedInv
  <2>. QED
    BY <1>2, <1>3, <2>1, <2>2 DEF Kept
<1>4. CASE page'[t].loaded = <<>>
  BY <1>4
<1>5. CASE Hydrates(t)
  <2>. DEFINE s == page[t].fetched
              turn == page'[t].loaded[i]
  <2>1. turn \in Range(turns[s])
    BY <1>1, <1>5, RecentIs, BoundsAssumption DEF Hydrates
  <2>2. PICK j \in DOMAIN turns[s] : turns[s][j] = turn
    BY <2>1, Zenon DEF Range
  <2>3. turns[s] \in Seq(Turn)
    BY <1>1 DEF TypeOK
  <2>4. turn \in Turn
    BY <2>2, <2>3
  <2>5. request[turn.req].session = s
    BY <1>1, <2>2 DEF TurnsInv
  <2>6. turn = [role |-> "assistant", req |-> turn.req, n |-> turn.n]
    BY <2>4 DEF Turn
  <2>. HIDE DEF turn, s
  <2>7. Kept(turn.req, turn.n)
    BY <2>2, <2>5, <2>6, HoldsIs DEF Kept
  <2>8. turn.req \in Request
    BY <2>4 DEF Turn
  <2>. QED
    BY <1>2, <2>7, <2>8 DEF Kept, turn
<1>. QED
  BY <1>3, <1>4, <1>5, PageStep, HandleIs, StreamBreaksIs
     DEF Calm, Shows, Empties, Settles, Mounts, Asks

Answers(r, turn) == turn.role = "assistant" /\ turn.req = r

\* QuestionSurvives of one question, without the sets of its rows.
Survives(r, rows, begun, forgotten) ==
    /\ begun /\ ~forgotten => \E i \in DOMAIN rows : rows[i] = UserTurn(r)
    /\ \A i, j \in DOMAIN rows : Answers(r, rows[i]) /\ Answers(r, rows[j]) => i = j
    /\ ~forgotten => \A j \in DOMAIN rows : Answers(r, rows[j]) =>
                        \E i \in DOMAIN rows : rows[i] = UserTurn(r) /\ i < j

LEMMA SurvivesIs ==
  /\ QuestionSurvives <=>
        \A r \in Request : Survives(r, turns[request[r].session], request[r].pc \in Begun,
                                    request[r].forgotten)
  /\ QuestionSurvives' <=>
        \A r \in Request : Survives(r, turns'[request'[r].session], request'[r].pc \in Begun,
                                    request'[r].forgotten)
<1>. DEFINE Asked(r, rows) == {i \in DOMAIN rows : rows[i] = UserTurn(r)}
            Answered(r, rows) ==
                {i \in DOMAIN rows : rows[i].role = "assistant" /\ rows[i].req = r}
            Sets(r, rows, begun, forgotten) ==
                /\ begun /\ ~forgotten => Asked(r, rows) # {}
                /\ \A i, j \in Answered(r, rows) : i = j
                /\ ~forgotten => \A j \in Answered(r, rows) : \E i \in Asked(r, rows) : i < j
<1>1. \A r, rows, begun, forgotten :
         Sets(r, rows, begun, forgotten) <=> Survives(r, rows, begun, forgotten)
  BY DEF Survives, Answers
<1>2. QuestionSurvives <=>
        \A r \in Request : Sets(r, turns[request[r].session], request[r].pc \in Begun,
                                request[r].forgotten)
  BY DEF QuestionSurvives
<1>3. QuestionSurvives' <=>
        \A r \in Request : Sets(r, turns'[request'[r].session], request'[r].pc \in Begun,
                                request'[r].forgotten)
  BY DEF QuestionSurvives, UserTurn
<1>. HIDE DEF Sets
<1>. QED
  BY <1>1, <1>2, <1>3

LEMMA QuestionStep ==
  ASSUME TypeOK, RequestInv, TurnsInv, QuestionSurvives, TurnsInv', TypeOK', [Next]_vars
  PROVE  QuestionSurvives'
<1>. SUFFICES ASSUME NEW r \in Request
              PROVE  Survives(r, turns'[request'[r].session], request'[r].pc \in Begun,
                              request'[r].forgotten)
  BY SurvivesIs
<1>1. RequestGoes(r)
  BY RequestStep
<1>2. Survives(r, turns[request[r].session], request[r].pc \in Begun, request[r].forgotten)
  BY SurvivesIs
<1>. DEFINE s == request[r].session
<1>3. s \in Session /\ turns[s] \in Seq(Turn) /\ UserTurn(r) \in Turn
  BY Messages DEF TypeOK, RequestRecord
<1>4. CASE request'[r].pc \notin Begun
  <2>1. request'[r].session \in Session
    BY DEF TypeOK, RequestRecord
  <2>2. \A i \in DOMAIN turns'[request'[r].session] : ~Answers(r, turns'[request'[r].session][i])
    BY <1>4, <2>1 DEF TurnsInv, Answers
  <2>. QED
    BY <1>4, <2>2 DEF Survives
<1>5. CASE Begin(r)
  <2>1. request'[r].session = s /\ turns'[s] = Append(turns[s], UserTurn(r))
    BY <1>3, <1>5, BeginIs DEF Begin, append_turn, TypeOK
  <2>2. \A i \in DOMAIN turns'[s] : ~Answers(r, turns'[s][i])
    <3>1. \A i \in DOMAIN turns[s] : ~Answers(r, turns[s][i])
      BY <1>3, <1>5, BeginIs DEF TurnsInv, Answers, Begun
    <3>2. ~Answers(r, UserTurn(r))
      BY DEF Answers, UserTurn
    <3>. QED
      BY <1>3, <2>1, <3>1, <3>2, Appended
  <2>3. Len(turns[s]) + 1 \in DOMAIN turns'[s] /\ turns'[s][Len(turns[s]) + 1] = UserTurn(r)
    BY <1>3, <2>1, Appended
  <2>. QED
    BY <2>1, <2>2, <2>3 DEF Survives
<1>6. CASE request[r].pc \in Begun
  <2>1. request'[r].session = s /\ (~request'[r].forgotten => ~request[r].forgotten)
    BY <1>1, <1>6 DEF RequestGoes, Begun
  <2>2. CASE turns'[s] = turns[s]
    BY <1>2, <1>6, <2>1, <2>2 DEF Survives
  <2>3. ASSUME NEW q \in Request, turns'[s] = Append(turns[s], UserTurn(q))
        PROVE  Survives(r, turns'[s], request'[r].pc \in Begun, request'[r].forgotten)
    <3>1. UserTurn(q) \in Turn /\ ~Answers(r, UserTurn(q))
      BY Messages DEF Answers, UserTurn
    <3>2. \A i \in DOMAIN turns'[s] : Answers(r, turns'[s][i]) =>
             i \in DOMAIN turns[s] /\ turns'[s][i] = turns[s][i]
      BY <1>3, <2>3, <3>1, Appended
    <3>3. \A i \in DOMAIN turns[s] : i \in DOMAIN turns'[s] /\ turns'[s][i] = turns[s][i]
      BY <1>3, <2>3, <3>1, Appended
    <3>. QED
      BY <1>2, <1>6, <2>1, <3>2, <3>3 DEF Survives
  <2>4. ASSUME NEW q \in Request, Save(q), turns'[s] = Append(turns[s], AssistantTurn(q))
        PROVE  Survives(r, turns'[s], request'[r].pc \in Begun, request'[r].forgotten)
    <3>1. AssistantTurn(q) \in Turn
      BY Messages
    <3>2. \A i \in DOMAIN turns[s] :
             i \in DOMAIN turns'[s] /\ turns'[s][i] = turns[s][i] /\ i < Len(turns[s]) + 1
      BY <1>3, <2>4, <3>1, Appended
    <3>3. \A i \in DOMAIN turns'[s] :
             i \in DOMAIN turns[s] \/ (i = Len(turns[s]) + 1 /\ turns'[s][i] = AssistantTurn(q))
      BY <1>3, <2>4, <3>1, Appended
    <3>4. CASE q # r
      <4>1. ~Answers(r, AssistantTurn(q))
        BY <3>4 DEF Answers, AssistantTurn
      <4>2. \A i \in DOMAIN turns'[s] : Answers(r, turns'[s][i]) =>
               i \in DOMAIN turns[s] /\ turns'[s][i] = turns[s][i]
        BY <3>2, <3>3, <4>1
      <4>. QED
        BY <1>2, <1>6, <2>1, <3>2, <4>2 DEF Survives
    <3>5. CASE q = r
      <4>1. \A i \in DOMAIN turns[s] : ~Answers(r, turns[s][i])
        BY <1>3, <2>4, <3>5, SaveIs DEF TurnsInv, Answers
      <4>2. \A i \in DOMAIN turns'[s] : Answers(r, turns'[s][i]) => i = Len(turns[s]) + 1
        BY <3>2, <3>3, <4>1
      <4>3. ~request'[r].forgotten => \E i \in DOMAIN turns[s] : turns[s][i] = UserTurn(r)
        BY <1>2, <1>6, <2>1 DEF Survives
      <4>4. ~request'[r].forgotten =>
               \E i \in DOMAIN turns'[s] : turns'[s][i] = UserTurn(r) /\ i < Len(turns[s]) + 1
        BY <3>2, <4>3
      <4>. QED
        BY <2>1, <4>2, <4>4 DEF Survives
    <3>. QED
      BY <3>4, <3>5
  <2>5. ASSUME NEW t \in Tab, Clear(t), page[t].session = s, turns'[s] = <<>>
        PROVE  Survives(r, turns'[s], request'[r].pc \in Begun, request'[r].forgotten)
    <3>1. request'[r].forgotten
      BY <1>6, <2>5, ClearIs
    <3>. QED
      BY <2>5, <3>1 DEF Survives
  <2>. HIDE DEF s
  <2>. QED
    BY <1>3, <2>1, <2>2, <2>3, <2>4, <2>5, TurnsStep
<1>. QED
  BY <1>1, <1>4, <1>5, <1>6 DEF RequestGoes

LEMMA WaitsStays ==
  ASSUME TypeOK, RequestInv, [Next]_vars, NEW t \in Tab, NEW r \in Request, Reads(t, r),
         wire'[r] = wire[r] \/ Sends(r), NEW m \in Message, Waits(m, r)
  PROVE  Waits(m, r)'
<1>1. RequestGoes(r) /\ wire[r] \in Seq(Frame) /\ m.n \in Nat /\ request[r].sent \in Nat
  BY RequestStep DEF TypeOK, Message, RequestRecord
<1>2. Tokens(wire[r]) \in Nat
  BY <1>1, TokensTyped
<1>3. \A q : "done" \in Range(q) <=> \E i \in DOMAIN q : q[i] = "done"
  BY Zenon DEF Range
<1>4. CASE ~Sends(r)
  <2>1. request'[r].sent = request[r].sent /\ (request'[r].pc = "end" => request[r].pc = "end")
    BY <1>1, <1>4 DEF RequestGoes, Sends
  <2>. QED
    BY <1>1, <1>4, <2>1 DEF Waits, RequestGoes
<1>5. CASE Sends(r) /\ wire'[r] = wire[r] /\ ~request[r].open
  <2>1. request[r].pc # "end"
    BY <1>5, SendsIs
  <2>2. "done" \notin Range(wire[r])
    BY <1>3, <2>1 DEF RequestInv
  <2>3. ~request'[r].open
    BY <1>1, <1>5 DEF RequestGoes
  <2>. QED
    BY <1>5, <2>2, <2>3 DEF Waits
<1>6. request[r].open /\ ~m.error => m.n + Tokens(wire[r]) = request[r].sent
  BY DEF Waits
<1>7. ASSUME request[r].open, wire'[r] = wire[r] \o <<"token">>, request'[r].pc = "synth",
             request'[r].sent = request[r].sent + 1
      PROVE  Waits(m, r)'
  <2>1. Tokens(wire'[r]) = Tokens(wire[r]) + 1
    BY <1>1, <1>7, TokensOfOneMore
  <2>2. m.n + Tokens(wire'[r]) = (m.n + Tokens(wire[r])) + 1
    BY <1>1, <1>2, <2>1
  <2>. QED
    BY <1>6, <1>7, <2>2 DEF Waits
<1>8. ASSUME NEW frames \in {<<>>, <<"error">>}, request[r].open, wire'[r] = wire[r] \o frames,
             request'[r].pc # "end", request'[r].sent = request[r].sent
      PROVE  Waits(m, r)'
  <2>1. frames \in Seq(Frame) /\ \A i \in DOMAIN frames : frames[i] # "token"
    <3>1. CASE frames = <<>>
      BY <3>1
    <3>2. CASE frames = <<"error">>
      BY <3>2 DEF Frame
    <3>. QED
      BY <3>1, <3>2
  <2>2. Tokens(wire'[r]) = Tokens(wire[r])
    BY <1>1, <1>8, <2>1, TokensOfOthers
  <2>. QED
    BY <1>6, <1>8, <2>2 DEF Waits
<1>9. ASSUME NEW frames \in {<<"done">>, <<"error", "done">>}, request[r].open,
             wire'[r] = wire[r] \o frames, request'[r].sent = request[r].sent
      PROVE  Waits(m, r)'
  <2>1. /\ frames \in Seq(Frame) /\ \A i \in DOMAIN frames : frames[i] # "token"
        /\ frames # <<>> /\ frames[Len(frames)] = "done"
    <3>1. CASE frames = <<"done">>
      BY <3>1 DEF Frame
    <3>2. CASE frames = <<"error", "done">>
      BY <3>2 DEF Frame
    <3>. QED
      BY <3>1, <3>2
  <2>2. Tokens(wire'[r]) = Tokens(wire[r])
    BY <1>1, <1>9, <2>1, TokensOfOthers
  <2>3. wire'[r] # <<>> /\ wire'[r][Len(wire'[r])] = "done"
    BY <1>1, <1>9, <2>1
  <2>. QED
    BY <1>6, <1>9, <2>2, <2>3 DEF Waits
<1>10. CASE Sends(r)
  <2>1. \A frames : Send(r, frames) =>
           \/ wire'[r] = wire[r] /\ ~request[r].open
           \/ wire'[r] = wire[r] \o frames /\ request[r].open
    BY SendIs
  <2>2. CASE wire'[r] = wire[r] /\ ~request[r].open
    BY <1>5, <1>10, <2>2
  <2>3. CASE request[r].open
    BY <1>7, <1>8, <1>9, <1>10, <2>1, <2>3, SendsIs
  <2>. QED
    BY <1>10, <2>1, <2>2, <2>3, SendsIs
<1>. QED
  BY <1>4, <1>10

LEMMA PatchIs ==
  ASSUME NEW m \in Message
  PROVE  /\ AddToken(m).pending <=> m.pending
         /\ Error1(m).pending <=> m.pending
         /\ ~Done1(m).pending /\ ~Broken(m).pending
         /\ AddToken(m).role = m.role /\ AddToken(m).req = m.req /\ AddToken(m).n = m.n + 1
         /\ AddToken(m).error <=> m.error
         /\ AddToken(m).mixed <=> ~m.pending
         /\ Error1(m).role = m.role /\ Error1(m).req = m.req /\ Error1(m).error
         /\ Error1(m).mixed <=> m.mixed
         /\ Done1(m).role = m.role /\ Done1(m).req = m.req /\ Done1(m).n = m.n
         /\ Done1(m).error <=> m.error
         /\ Done1(m).mixed <=> m.mixed
         /\ Broken(m).error
<1>1. /\ AddToken(m).pending <=> m.pending
      /\ AddToken(m).role = m.role /\ AddToken(m).req = m.req /\ AddToken(m).n = m.n + 1
      /\ AddToken(m).error <=> m.error
      /\ AddToken(m).mixed <=> ~m.pending
  <2>1. \A b : LET a == [m EXCEPT !.n = @ + 1, !.mixed = b]
               IN  /\ a.pending = m.pending /\ a.role = m.role /\ a.req = m.req /\ a.n = m.n + 1
                   /\ a.error = m.error /\ a.mixed = b
    BY DEF Message
  <2>. QED
    BY <2>1, Zenon DEF AddToken
<1>2. /\ Error1(m).pending <=> m.pending
      /\ Error1(m).role = m.role /\ Error1(m).req = m.req /\ Error1(m).error
      /\ Error1(m).mixed <=> m.mixed
  BY DEF Error1, Message
<1>3. /\ ~Done1(m).pending
      /\ Done1(m).role = m.role /\ Done1(m).req = m.req /\ Done1(m).n = m.n
      /\ Done1(m).error <=> m.error
      /\ Done1(m).mixed <=> m.mixed
  BY DEF Done1, Message
<1>4. ~Broken(m).pending /\ Broken(m).error
  BY DEF Broken, Message
<1>. QED
  BY <1>1, <1>2, <1>3, <1>4

\* A page that goes on reading its stream finds what it waits for there.
LEMMA CalmWaits ==
  ASSUME TypeOK, ReadersInv, RequestInv, [Next]_vars, NEW t \in Tab, page[t].busy, page'[t].busy,
         ~Handle(t), NEW m \in Message, NEW r, r = page[t].req, Waits(m, r)
  PROVE  Waits(m, r)'
<1>1. r \in Request /\ Reads(t, r)
  BY DEF ReadersInv, Reads
<1>2. \A u \in Tab : Reads(u, r) => u = t
  BY <1>1 DEF ReadersInv, Reads
<1>3. ~StreamBreaks(t)
  BY StreamBreaksIs
<1>4. ~Reload(t)
  BY DEF Reload, Mounted, TypeOK
<1>5. wire'[r] = wire[r] \/ Sends(r)
  BY <1>1, <1>2, <1>3, <1>4, WireStep
<1>. QED
  BY <1>1, <1>5, WaitsStays

LEMMA HandleWaits ==
  ASSUME TypeOK, RequestInv, NEW r \in Request, wire[r] # <<>>, wire'[r] = Tail(wire[r]),
         UNCHANGED request, NEW m \in Message, Waits(m, r), Head(wire[r]) # "done"
  PROVE  /\ Head(wire[r]) = "token" => Waits(AddToken(m), r)'
         /\ Head(wire[r]) = "error" => Waits(Error1(m), r)'
<1>1. wire[r] \in Seq(Frame) /\ m.n \in Nat /\ request[r].sent \in Nat
  BY DEF TypeOK, Message, RequestRecord
<1>2. wire'[r] \in Seq(Frame) /\ Len(wire'[r]) = Len(wire[r]) - 1
      /\ \A i \in DOMAIN wire'[r] : i + 1 \in DOMAIN wire[r] /\ wire'[r][i] = wire[r][i + 1]
  BY <1>1
<1>3. \A q : "done" \in Range(q) <=> \E i \in DOMAIN q : q[i] = "done"
  BY Zenon DEF Range
<1>4. "done" \in Range(wire'[r]) => "done" \in Range(wire[r])
  BY <1>2, <1>3
<1>5. request[r].open /\ request[r].pc = "end" =>
         wire'[r] # <<>> /\ wire'[r][Len(wire'[r])] = "done"
  <2>. SUFFICES ASSUME request[r].open, request[r].pc = "end"
                PROVE  wire'[r] # <<>> /\ wire'[r][Len(wire'[r])] = "done"
    OBVIOUS
  <2>1. wire[r][Len(wire[r])] = "done"
    BY DEF Waits
  <2>2. Len(wire[r]) > 1
    BY <1>1, <2>1
  <2>3. Len(wire'[r]) \in DOMAIN wire'[r] /\ Len(wire'[r]) + 1 = Len(wire[r])
    BY <1>1, <1>2, <2>2
  <2>4. wire'[r][Len(wire'[r])] = wire[r][Len(wire'[r]) + 1]
    BY <1>2, <2>3
  <2>5. Len(wire'[r]) # 0
    <3>1. Len(wire[r]) \in Nat /\ Len(wire'[r]) \in Nat
      BY <1>1, <1>2
    <3>2. \A x, y \in Nat : x > 1 /\ y + 1 = x => y # 0
      OBVIOUS
    <3>. QED
      BY <2>2, <2>3, <3>1, <3>2
  <2>6. wire'[r] # <<>>
    <3>1. Len(<<>>) = 0
      OBVIOUS
    <3>. QED
      BY <2>5, <3>1, Zenon
  <2>. QED
    BY <2>1, <2>3, <2>4, <2>6
<1>6. ASSUME Head(wire[r]) = "token"
      PROVE  Waits(AddToken(m), r)'
  <2>1. Tokens(wire[r]) = Tokens(wire'[r]) + 1 /\ Tokens(wire'[r]) \in Nat
    BY <1>1, <1>2, <1>6, TokensOfTail, TokensTyped
  <2>2. ~AddToken(m).error /\ (request[r].open \/ "done" \in Range(wire'[r])) =>
           AddToken(m).n + Tokens(wire'[r]) = request[r].sent
    <3>1. AddToken(m).n = m.n + 1 /\ (AddToken(m).error <=> m.error)
      BY PatchIs
    <3>2. (m.n + 1) + Tokens(wire'[r]) = m.n + Tokens(wire[r])
      BY <1>1, <2>1
    <3>. QED
      BY <1>4, <3>1, <3>2 DEF Waits
  <2>. QED
    BY <1>5, <2>2 DEF Waits
<1>7. Error1(m).error
  BY PatchIs
<1>. QED
  BY <1>5, <1>6, <1>7 DEF Waits

LEMMA PendingStep ==
  ASSUME TypeOK, ReadersInv, RequestInv, PendingInv, [Next]_vars
  PROVE  PendingInv'
<1>. DEFINE Settled(t, i, m) ==
              /\ page'[t].busy /\ i = Len(page'[t].messages)
              /\ m.role = "assistant" /\ m.req = page'[t].req /\ ~m.mixed
              /\ \E r : r = page'[t].req /\ Waits(m, r)'
<1>. SUFFICES ASSUME NEW t \in Tab, NEW i, NEW m, i \in DOMAIN page'[t].messages,
                     m = page'[t].messages[i], m.pending
              PROVE  Settled(t, i, m)
  BY DEF PendingInv, Waits
<1>. DEFINE msgs == page[t].messages
            r == page[t].req
<1>1. msgs \in Seq(Message) /\ DOMAIN msgs = 1..Len(msgs)
      /\ \A j \in DOMAIN msgs : msgs[j] \in Message
  BY DEF TypeOK, PageRecord
<1>2. ASSUME NEW j \in DOMAIN msgs, msgs[j].pending
      PROVE  /\ page[t].busy /\ j = Len(msgs) /\ r \in Request
             /\ msgs[j].role = "assistant" /\ msgs[j].req = r /\ ~msgs[j].mixed /\ Waits(msgs[j], r)
  BY <1>2 DEF PendingInv, ReadersInv
<1>3. CASE Handle(t)
  <2>. DEFINE new == page'[t].messages
              frame == Head(wire[r])
  <2>1. /\ page'[t].busy /\ page'[t].req = r /\ r \in Request /\ wire[r] # <<>>
        /\ wire' = [wire EXCEPT ![r] = Tail(@)] /\ UNCHANGED request
        /\ LastBecomes(msgs, new, Patch(frame, Last(msgs)))
    BY <1>3, HandleIs
  <2>2. /\ i \in DOMAIN msgs /\ Len(new) = Len(msgs)
        /\ m = IF i = Len(msgs) THEN Patch(frame, Last(msgs)) ELSE msgs[i]
    BY <1>1, <2>1 DEF LastBecomes
  <2>3. i = Len(msgs)
    BY <1>2, <2>2
  <2>4. Last(msgs) = msgs[i] /\ msgs[i] \in Message /\ m = Patch(frame, msgs[i])
    BY <1>1, <2>2, <2>3 DEF Last
  <2>5. frame \in Frame
    BY <2>1 DEF TypeOK
  <2>6. frame # "done" /\ msgs[i].pending
    BY <2>4, <2>5, PatchIs DEF Patch, Frame
  <2>7. /\ msgs[i].role = "assistant" /\ msgs[i].req = r /\ ~msgs[i].mixed /\ Waits(msgs[i], r)
    BY <1>2, <2>2, <2>6
  <2>8. m.role = "assistant" /\ m.req = r /\ ~m.mixed
    BY <2>4, <2>5, <2>6, <2>7, PatchIs DEF Patch, Frame
  <2>9. wire'[r] = Tail(wire[r])
    BY <2>1 DEF TypeOK
  <2>10. \E q : q = r /\ Waits(m, q)'
    <3>1. \A q \in Request : wire[q] # <<>> /\ wire'[q] = Tail(wire[q]) /\ Waits(msgs[i], q)
             /\ Head(wire[q]) # "done" =>
                /\ Head(wire[q]) = "token" => \A a : a = AddToken(msgs[i]) => Waits(a, q)'
                /\ Head(wire[q]) = "error" => \A a : a = Error1(msgs[i]) => Waits(a, q)'
      <4>1. ASSUME NEW b \in Message, NEW q \in Request, wire[q] # <<>>, wire'[q] = Tail(wire[q]), Waits(b, q),
                   Head(wire[q]) # "done"
            PROVE  /\ Head(wire[q]) = "token" => Waits(AddToken(b), q)'
                   /\ Head(wire[q]) = "error" => Waits(Error1(b), q)'
        BY <2>1, <4>1, HandleWaits
      <4>. QED
        BY <2>4, <4>1 DEF AddToken, Error1
    <3>. QED
      BY <2>1, <2>4, <2>5, <2>6, <2>7, <2>9, <3>1 DEF Patch, Frame
  <2>. QED
    BY <2>1, <2>2, <2>3, <2>8, <2>10
<1>4. CASE Calm(t) /\ ~Handle(t)
  <2>1. /\ i \in DOMAIN msgs /\ page'[t].messages = msgs /\ m = msgs[i] /\ page'[t].req = r
        /\ page'[t].busy = page[t].busy
    BY <1>4 DEF Calm
  <2>2. /\ page[t].busy /\ i = Len(msgs) /\ m \in Message
        /\ m.role = "assistant" /\ m.req = r /\ ~m.mixed /\ Waits(m, r)
    BY <1>1, <1>2, <2>1
  <2>3. page'[t].busy
    BY <2>1, <2>2, Zenon
  <2>4. \A q : q = r /\ Waits(m, q) => Waits(m, q)'
    BY <1>4, <2>2, <2>3, CalmWaits
  <2>. QED
    BY <2>1, <2>2, <2>3, <2>4
<1>5. CASE Hydrates(t)
  <2>1. /\ i \in DOMAIN msgs /\ page'[t].messages = msgs /\ m = msgs[i] /\ page'[t].req = r
        /\ page'[t].busy = page[t].busy /\ UNCHANGED <<wire, request>>
    BY <1>5 DEF Hydrates
  <2>. QED
    BY <1>2, <2>1 DEF Waits
<1>6. ASSUME NEW q \in Request, Asks(t, q)
      PROVE  Settled(t, i, m)
  <2>. DEFINE answer == [Question(q) EXCEPT !.role = "assistant", !.pending = TRUE]
  <2>1. /\ page'[t].busy /\ page'[t].req = q /\ ~page[t].busy /\ request[q].pc = "unused"
        /\ page'[t].messages = msgs \o <<Question(q), answer>> /\ UNCHANGED wire
        /\ request' = [request EXCEPT ![q].pc = "sent", ![q].session = page[t].session]
    BY <1>6 DEF Asks
  <2>2. Question(q) \in Message /\ answer \in Message
    BY Messages
  <2>3. /\ Len(page'[t].messages) = Len(msgs) + 2
        /\ \/ i \in DOMAIN msgs /\ m = msgs[i]
           \/ i = Len(msgs) + 1 /\ m = Question(q)
           \/ i = Len(msgs) + 2 /\ m = answer
    <3>. HIDE DEF answer
    <3>. QED  BY <1>1, <2>1, <2>2
  <2>4. ~(i \in DOMAIN msgs /\ m = msgs[i]) /\ m # Question(q)
    BY <1>2, <2>1 DEF Question
  <2>5. i = Len(page'[t].messages) /\ m = answer
    BY <2>3, <2>4
  <2>6. m.role = "assistant" /\ m.req = q /\ ~m.mixed /\ m.n = 0
    BY <2>5 DEF Question
  <2>7. wire'[q] = <<>> /\ request'[q].sent = 0 /\ request'[q].pc = "sent"
    BY <2>1 DEF RequestInv, TypeOK, RequestRecord
  <2>8. Tokens(<<>>) = 0
    <3>1. {j \in DOMAIN <<>> : <<>>[j] = "token"} = {}
      OBVIOUS
    <3>. QED
      BY <3>1, FS_EmptySet DEF Tokens
  <2>9. \A q0 : q0 = q => Waits(m, q0)'
    BY <2>6, <2>7, <2>8 DEF Waits
  <2>. HIDE DEF answer
  <2>. QED
    BY <2>1, <2>5, <2>6, <2>9
<1>7. ~Shows(t)
  <2>1. SUFFICES ASSUME Shows(t) PROVE FALSE
    OBVIOUS
  <2>2. page[t].loaded \in Seq(Turn)
    BY DEF TypeOK, PageRecord
  <2>3. \E turn : m = Hydrated(turn)
    BY <2>1, <2>2, HydratedAre DEF Shows
  <2>. QED
    BY <2>3 DEF Hydrated
<1>8. ~Empties(t) /\ ~Mounts(t)
  BY DEF Empties, Mounts
<1>9. ~Settles(t)
  <2>1. SUFFICES ASSUME Settles(t) PROVE FALSE
    OBVIOUS
  <2>2. i \in DOMAIN msgs /\ m = msgs[i] /\ request[r].pc = "end" /\ request[r].open /\ wire[r] = <<>>
    BY <2>1 DEF Settles
  <2>. QED
    BY <1>2, <2>2 DEF Waits
<1>10. ~StreamBreaks(t)
  <2>1. SUFFICES ASSUME StreamBreaks(t) PROVE FALSE
    OBVIOUS
  <2>2. LastBecomes(msgs, page'[t].messages, Broken(Last(msgs)))
    BY <2>1, StreamBreaksIs
  <2>3. /\ i \in DOMAIN msgs
        /\ m = IF i = Len(msgs) THEN Broken(Last(msgs)) ELSE msgs[i]
    BY <1>1, <2>2 DEF LastBecomes
  <2>4. i = Len(msgs)
    BY <1>2, <2>3
  <2>. QED
    BY <1>1, <2>3, <2>4, PatchIs DEF Last
<1>. QED
  <2>. HIDE DEF Settled
  <2>. QED  BY <1>3, <1>4, <1>5, <1>6, <1>7, <1>8, <1>9, <1>10, PageStep

\* Nothing that a page shows as finished is missing from the store.
Finished(m) == m.role = "assistant" /\ m.n > 0 /\ ~m.pending /\ ~m.error /\ ~m.mixed

LEMMA ShownIs ==
  /\ ShownIsKept <=> \A t \in Tab : \A i \in DOMAIN page[t].messages : \A m :
        m = page[t].messages[i] /\ Finished(m) => Kept(m.req, m.n)
  /\ ShownIsKept' <=> \A t \in Tab : \A i \in DOMAIN page'[t].messages : \A m :
        m = page'[t].messages[i] /\ Finished(m) => Kept(m.req, m.n)'
<1>1. ShownIsKept <=> \A t \in Tab : \A i \in DOMAIN page[t].messages : \A m :
        m = page[t].messages[i] /\ Finished(m) => Kept(m.req, m.n)
  BY DEF ShownIsKept, Finished, Kept
<1>2. ShownIsKept' <=> \A t \in Tab : \A i \in DOMAIN page'[t].messages : \A m :
        m = page'[t].messages[i] /\ Finished(m) => Kept(m.req, m.n)'
  BY DEF ShownIsKept, Finished, Kept
<1>. QED
  BY <1>1, <1>2

LEMMA ShownStep ==
  ASSUME TypeOK, ReadersInv, RequestInv, TurnsInv, StoredInv, PendingInv, LoadedInv, ShownIsKept,
         [Next]_vars
  PROVE  ShownIsKept'
<1>. SUFFICES ASSUME NEW t \in Tab, NEW i, NEW m, i \in DOMAIN page'[t].messages,
                     m = page'[t].messages[i], Finished(m)
              PROVE  Kept(m.req, m.n)'
  BY ShownIs
<1>. DEFINE msgs == page[t].messages
<1>1. msgs \in Seq(Message) /\ DOMAIN msgs = 1..Len(msgs)
      /\ \A j \in DOMAIN msgs : msgs[j] \in Message /\ msgs[j].req \in Request
  <2>1. \A a \in Message : a.req \in Request
    BY DEF Message
  <2>. QED
    BY <2>1 DEF TypeOK, PageRecord
<1>2. \A q \in Request : \A n : Kept(q, n) => Kept(q, n)'
  BY KeptStays
<1>3. ASSUME i \in DOMAIN msgs, m = msgs[i]
      PROVE  Kept(m.req, m.n)'
  <2>1. Kept(m.req, m.n) /\ m.req \in Request
    BY <1>1, <1>3, ShownIs
  <2>. QED
    BY <1>2, <2>1
<1>4. CASE page'[t].messages = msgs
  BY <1>3, <1>4
<1>5. CASE page'[t].messages = <<>>
  BY <1>5
<1>6. CASE Shows(t)
  <2>. DEFINE turn == page[t].loaded[i]
  <2>1. page[t].loaded \in Seq(Turn)
    BY DEF TypeOK, PageRecord
  <2>2. i \in DOMAIN page[t].loaded /\ m = Hydrated(turn)
    BY <1>6, <2>1, HydratedAre DEF Shows
  <2>3. turn \in Turn /\ turn.req \in Request
    BY <2>1, <2>2, TurnIs
  <2>4. turn.role = "assistant" /\ m.req = turn.req /\ m.n = turn.n
    BY <2>2 DEF Hydrated, Finished
  <2>5. Kept(m.req, m.n)
    BY <2>2, <2>4 DEF LoadedInv
  <2>. QED
    BY <1>2, <2>3, <2>4, <2>5
<1>7. ASSUME NEW q \in Request, Asks(t, q)
      PROVE  Kept(m.req, m.n)'
  <2>. DEFINE answer == [Question(q) EXCEPT !.role = "assistant", !.pending = TRUE]
  <2>1. Question(q) \in Message /\ answer \in Message
    BY Messages
  <2>2. page'[t].messages = msgs \o <<Question(q), answer>>
    BY <1>7 DEF Asks
  <2>3. \/ i \in DOMAIN msgs /\ m = msgs[i]
        \/ m = Question(q)
        \/ m = answer
    <3>. HIDE DEF answer
    <3>. QED  BY <1>1, <2>1, <2>2
  <2>4. m # Question(q) /\ m # answer
    <3>1. Question(q).role = "user" /\ answer.pending
      BY DEF Question
    <3>2. m.role = "assistant" /\ ~m.pending
      BY DEF Finished
    <3>. HIDE DEF answer
    <3>. QED
      BY <3>1, <3>2
  <2>. QED
    BY <1>3, <2>3, <2>4
<1>8. CASE StreamBreaks(t)
  <2>1. LastBecomes(msgs, page'[t].messages, Broken(Last(msgs)))
    BY <1>8, StreamBreaksIs
  <2>2. /\ i \in DOMAIN msgs
        /\ m = IF i = Len(msgs) THEN Broken(Last(msgs)) ELSE msgs[i]
    BY <1>1, <2>1 DEF LastBecomes
  <2>3. i # Len(msgs)
    BY <1>1, <2>2, PatchIs DEF Last, Finished
  <2>. QED
    BY <1>3, <2>2, <2>3
<1>9. CASE Handle(t)
  <2>. DEFINE r == page[t].req
              frame == Head(wire[r])
              old == msgs[i]
  <2>1. /\ r \in Request /\ wire[r] # <<>> /\ UNCHANGED <<turns, request>>
        /\ LastBecomes(msgs, page'[t].messages, Patch(frame, Last(msgs)))
    BY <1>9, HandleIs
  <2>2. /\ i \in DOMAIN msgs
        /\ m = IF i = Len(msgs) THEN Patch(frame, Last(msgs)) ELSE msgs[i]
    BY <1>1, <2>1 DEF LastBecomes
  <2>3. CASE i # Len(msgs)
    BY <1>3, <2>2, <2>3
  <2>4. CASE i = Len(msgs)
    <3>1. old \in Message /\ m = Patch(frame, old) /\ frame \in Frame /\ wire[r] \in Seq(Frame)
      BY <1>1, <2>1, <2>2, <2>4 DEF Last, TypeOK
    <3>2. frame # "error"
      BY <3>1, PatchIs DEF Patch, Finished
    <3>3. frame # "token"
      BY <3>1, PatchIs DEF Patch, Finished
    <3>4. frame = "done" /\ m = Done1(old)
      BY <3>1, <3>2, <3>3 DEF Frame, Patch
    <3>5. old.role = "assistant" /\ old.n = m.n /\ m.n > 0 /\ ~old.error /\ ~old.mixed
          /\ old.req = m.req
      BY <3>1, <3>4, PatchIs DEF Finished
    <3>6. CASE ~old.pending
      <4>1. Kept(old.req, old.n)
        BY <2>2, <3>5, <3>6, ShownIs DEF Finished
      <4>. QED
        BY <1>1, <1>2, <2>2, <3>5, <4>1
    <3>7. CASE old.pending
      <4>1. old.req = r /\ Waits(old, r)
        BY <2>2, <3>7 DEF PendingInv
      <4>2. 1 = Len(wire[r]) /\ request[r].pc = "end" /\ wire[r][1] = "done"
        <5>1. 1 \in DOMAIN wire[r] /\ wire[r][1] = "done"
          BY <2>1, <3>1, <3>4
        <5>. QED
          BY <2>1, <5>1 DEF RequestInv
      <4>3. "done" \in Range(wire[r])
        <5>1. 1 \in DOMAIN wire[r]
          BY <3>1, <4>2
        <5>. QED
          BY <4>2, <5>1, Zenon DEF Range
      <4>4. Tokens(wire[r]) = 0
        <5>1. {j \in DOMAIN wire[r] : wire[r][j] = "token"} = {}
          BY <3>1, <4>2
        <5>. QED
          BY <5>1, FS_EmptySet DEF Tokens
      <4>5. old.n = request[r].sent
        <5>1. old.n + Tokens(wire[r]) = request[r].sent /\ old.n \in Nat
          BY <3>1, <3>5, <4>1, <4>3 DEF Waits, Message
        <5>. QED
          BY <4>4, <5>1
      <4>6. Kept(r, request[r].sent)
        BY <2>1, <3>5, <4>2, <4>5 DEF StoredInv, Kept, AssistantTurn
      <4>. QED
        BY <1>2, <2>1, <3>5, <4>1, <4>5, <4>6
    <3>. QED
      BY <3>6, <3>7
  <2>. QED
    BY <2>3, <2>4
<1>. QED
  BY <1>4, <1>5, <1>6, <1>7, <1>8, <1>9, PageStep DEF Calm, Hydrates, Empties, Settles, Mounts

LEMMA RemembersStays ==
  ASSUME TypeOK, TurnsInv, [Next]_vars, NEW m \in Message, NEW r \in Request,
         Kept(m.req, m.n), request'[r].pc \in Answering \cup {"accepted"},
         request[r].pc \in Answering \cup {"accepted"} => Remembers(m, r)
  PROVE  Remembers(m, r)'
<1>. DEFINE turn == [role |-> "assistant", req |-> m.req, n |-> m.n]
            s == request[r].session
<1>1. m.req \in Request /\ RequestGoes(m.req) /\ RequestGoes(r)
  BY RequestStep DEF Message
<1>2. CASE request[m.req].forgotten
  BY <1>1, <1>2 DEF RequestGoes, Remembers
<1>3. CASE ~request[m.req].forgotten
  <2>1. PICK i \in DOMAIN turns[request[m.req].session] : turns[request[m.req].session][i] = turn
    BY <1>3, HoldsIs DEF Kept
  <2>2. request[m.req].session \in Session
    BY <1>1 DEF TypeOK, RequestRecord
  <2>3. request'[m.req].session = request[m.req].session
    BY <1>1, <2>1, <2>2 DEF TurnsInv, RequestGoes, Begun
  <2>4. CASE Accept(r)
    <3>1. request'[r].session = s /\ request'[r].history = Recent(s, Window) /\ s \in Session
      BY <2>4 DEF Accept, TypeOK, RequestRecord
    <3>2. Len(Recent(s, Window)) = Window \/ Recent(s, Window) = turns[s]
      BY <3>1, RecentIs, BoundsAssumption
    <3>. QED
      BY <2>1, <2>3, <3>1, <3>2 DEF Remembers
  <2>5. CASE ~Accept(r)
    <3>1. /\ request[r].pc \in Answering \cup {"accepted"}
          /\ request'[r].history = request[r].history
      BY <1>1, <2>5 DEF RequestGoes
    <3>2. request'[r].session = s
      BY <1>1, <3>1 DEF RequestGoes, Answering
    <3>. QED
      BY <1>3, <2>3, <3>1, <3>2 DEF Remembers
  <2>. QED
    BY <2>4, <2>5
<1>. QED
  BY <1>2, <1>3

LEMMA HistoryStep ==
  ASSUME TypeOK, ReadersInv, RequestInv, TurnsInv, PendingInv, ShownIsKept, HistoryInv, [Next]_vars
  PROVE  HistoryInv'
<1>. SUFFICES ASSUME NEW t \in Tab, NEW r, NEW above, NEW n, NEW last,
                     r = page'[t].req, n = Len(page'[t].messages), n > 2,
                     last = page'[t].messages[n], above = page'[t].messages[n - 2],
                     page'[t].busy, last.pending, request'[r].pc \in Answering \cup {"accepted"},
                     above.role = "assistant", above.n > 0, ~above.error, ~above.mixed
              PROVE  Remembers(above, r)'
  BY DEF HistoryInv
<1>. DEFINE msgs == page[t].messages
<1>1. msgs \in Seq(Message) /\ DOMAIN msgs = 1..Len(msgs) /\ Len(msgs) \in Nat
      /\ \A j \in DOMAIN msgs : msgs[j] \in Message
  BY DEF TypeOK, PageRecord
<1>2. /\ page[t].busy /\ page[t].req = r /\ Len(msgs) = n /\ msgs[n - 2] = above
      /\ msgs[n].pending
  <2>1. CASE Calm(t)
    BY <2>1, Zenon DEF Calm
  <2>2. CASE Hydrates(t)
    BY <2>2, Zenon DEF Hydrates
  <2>3. CASE Handle(t)
    <3>1. /\ page[t].busy /\ page[t].req = r /\ r \in Request /\ wire[r] # <<>>
          /\ LastBecomes(msgs, page'[t].messages, Patch(Head(wire[r]), Last(msgs)))
      BY <2>3, HandleIs
    <3>2. Len(msgs) = n /\ n \in 1..n /\ n - 2 \in 1..n /\ n - 2 # n
      BY <1>1, <3>1 DEF LastBecomes
    <3>3. msgs[n - 2] = above /\ last = Patch(Head(wire[r]), msgs[n])
      BY <3>1, <3>2 DEF LastBecomes, Last
    <3>4. msgs[n] \in Message /\ Head(wire[r]) \in Frame
      BY <1>1, <3>1, <3>2 DEF TypeOK
    <3>5. msgs[n].pending
      BY <3>3, <3>4, PatchIs DEF Patch, Frame
    <3>. QED
      BY <3>1, <3>2, <3>3, <3>5
  <2>4. ~Shows(t)
    <3>1. SUFFICES ASSUME Shows(t) PROVE FALSE
      OBVIOUS
    <3>2. page[t].loaded \in Seq(Turn)
      BY DEF TypeOK, PageRecord
    <3>3. page'[t].messages \in Seq(Message) /\ DOMAIN page'[t].messages = DOMAIN page[t].loaded
          /\ \A i \in DOMAIN page[t].loaded : page'[t].messages[i] = Hydrated(page[t].loaded[i])
      BY <3>1, <3>2, HydratedAre DEF Shows
    <3>4. n \in DOMAIN page'[t].messages
      BY <3>3
    <3>5. last = Hydrated(page[t].loaded[n])
      BY <3>3, <3>4
    <3>6. ~Hydrated(page[t].loaded[n]).pending
      BY DEF Hydrated
    <3>. QED
      BY <3>5, <3>6
  <2>5. ~Empties(t) /\ ~Mounts(t) /\ ~Settles(t) /\ ~StreamBreaks(t)
    <3>1. page'[t].messages # <<>>
      <4>1. Len(<<>>) = 0 /\ n # 0
        OBVIOUS
      <4>. QED
        BY <4>1, Zenon
    <3>. QED
      BY <3>1, StreamBreaksIs DEF Empties, Mounts, Settles
  <2>6. ASSUME NEW q \in Request, Asks(t, q) PROVE FALSE
    BY <2>6 DEF Asks, Answering, TypeOK, RequestRecord
  <2>. QED
    BY <2>1, <2>2, <2>3, <2>4, <2>5, <2>6, PageStep
<1>3. r \in Request
  BY <1>2 DEF ReadersInv
<1>4. n - 2 \in DOMAIN msgs /\ n - 2 # Len(msgs) /\ above \in Message
  <2>1. n \in Nat
    BY <1>1, <1>2
  <2>2. n - 2 \in 1..n /\ n - 2 # n
    BY <2>1
  <2>. QED
    BY <1>1, <1>2, <2>2
<1>5. Kept(above.req, above.n)
  <2>1. ~above.pending
    BY <1>2, <1>4 DEF PendingInv
  <2>. QED
    BY <1>2, <1>4, <2>1, ShownIs DEF Finished
<1>6. request[r].pc \in Answering \cup {"accepted"} => Remembers(above, r)
  BY <1>2 DEF HistoryInv
<1>. QED
  BY <1>3, <1>4, <1>5, <1>6, RemembersStays

-----------------------------------------------------------------------------
(* Theorems.                                                               *)

LEMMA InitInv ==
  Init => Inv
<1>. SUFFICES ASSUME Init PROVE Inv
  OBVIOUS
<1>1. 1 \in Session
  BY BoundsAssumption, NumSessionsAssumption DEF Session
<1>2. <<>> \in Seq(Turn) /\ <<>> \in Seq(Message) /\ <<>> \in Seq(Frame)
  OBVIOUS
<1>3. [Mounted(1) EXCEPT !.mount = "done"] \in PageRecord
  BY <1>1, <1>2 DEF Mounted, PageRecord
<1>4. TypeOK
  <2>1. [pc |-> "unused", session |-> 1, history |-> <<>>, sent |-> 0, open |-> TRUE,
         forgotten |-> FALSE] \in RequestRecord
    BY <1>1, <1>2 DEF RequestRecord, Unbegun
  <2>. QED
    BY <1>1, <1>2, <1>3, <2>1 DEF Init, TypeOK
<1>5. /\ \A t \in Tab : page[t].messages = <<>> /\ page[t].loaded = <<>> /\ ~page[t].busy
      /\ \A s \in Session : turns[s] = <<>>
      /\ \A r \in Request : /\ request[r].pc = "unused" /\ request[r].sent = 0
                            /\ wire[r] = <<>> /\ request[r].session = 1
  BY DEF Init, Mounted
<1>6. ReadersInv /\ RequestInv /\ TurnsInv /\ StoredInv
  BY <1>5 DEF ReadersInv, RequestInv, TurnsInv, StoredInv
<1>7. PendingInv /\ LoadedInv /\ HistoryInv
  BY <1>5 DEF PendingInv, LoadedInv, HistoryInv
<1>8. ShownIsKept
  BY <1>5, ShownIs
<1>9. QuestionSurvives
  <2>1. \A r \in Request : Survives(r, turns[request[r].session], request[r].pc \in Begun,
                                    request[r].forgotten)
    BY <1>1, <1>5 DEF Survives, Begun
  <2>. QED
    BY <2>1, SurvivesIs
<1>. QED
  BY <1>4, <1>6, <1>7, <1>8, <1>9 DEF Inv

THEOREM Invariance ==
  Spec => []Inv
<1>1. Init => Inv
  BY InitInv
<1>2. Inv /\ [Next]_vars => Inv'
  BY TypeStep, ReadersStep, RequestInvStep, TurnsInvStep, QuestionStep, StoredStep, PendingStep,
     LoadedStep, ShownStep, HistoryStep DEF Inv
<1>. QED
  BY <1>1, <1>2, PTL DEF Spec

\* The records of questions and of pages, the turns and the frames keep their
\* shape, whatever fails and whenever a tab is loaded again.
THEOREM Types ==
  Spec => []TypeOK
BY Invariance, PTL DEF Inv

\* append_turn before ainvoke, and after the stream: a question is there as long as
\* its session is, and at most one answer, after it.
THEOREM QuestionsSurvive ==
  Spec => []QuestionSurvives
BY Invariance, PTL DEF Inv

\* What the reading loop of a page has patched into a pending answer, and what is
\* still to come, is what the handler of its question has yielded.
THEOREM PagesShowWhatIsSent ==
  Spec => []ShownIsSent
<1>1. Inv => ShownIsSent
  <2>. SUFFICES ASSUME Inv, NEW t \in Tab, page[t].busy, request[page[t].req].open,
                       page[t].messages # <<>>,
                       page[t].messages[Len(page[t].messages)].pending,
                       ~page[t].messages[Len(page[t].messages)].error
                PROVE  page[t].messages[Len(page[t].messages)].n + Tokens(wire[page[t].req])
                         = request[page[t].req].sent
    BY DEF ShownIsSent
  <2>1. page[t].messages \in Seq(Message)
    BY DEF Inv, TypeOK, PageRecord
  <2>2. Len(page[t].messages) \in DOMAIN page[t].messages
    BY <2>1
  <2>3. Waits(page[t].messages[Len(page[t].messages)], page[t].req)
    BY <2>2 DEF Inv, PendingInv
  <2>. QED
    BY <2>3 DEF Waits
<1>. QED
  BY <1>1, Invariance, PTL

\* However a stream ends, and whatever hydration or "New chat" did to the list, a page
\* that reads none shows nothing as pending.
THEOREM PagesSettle ==
  Spec => []NothingStaysPending
<1>1. Inv => NothingStaysPending
  BY DEF Inv, PendingInv, NothingStaysPending
<1>. QED
  BY <1>1, Invariance, PTL

\* What a page shows as finished is in conversations.db as it is shown, or was
\* deleted with its session.
THEOREM ShownAnswersAreKept ==
  Spec => []ShownIsKept
BY Invariance, PTL DEF Inv

\* done is sent after append_turn, so that the answer a follow-up is asked under is in
\* the window that get_recent_turns reads for it, unless newer turns fill it.
THEOREM FollowUpsSeeTheAnswer ==
  Spec => []FollowUpSeesTheAnswer
<1>1. Inv => FollowUpSeesTheAnswer
  BY DEF Inv, HistoryInv, FollowUpSeesTheAnswer, Remembers, Answering
<1>. QED
  BY <1>1, Invariance, PTL
=============================================================================
