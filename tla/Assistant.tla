------------------------------- MODULE Assistant -------------------------------
(***************************************************************************)
(* The shopping assistant: the page, the API that stores the conversation  *)
(* and proxies the stream, and the ai-service's agent, which may add to    *)
(* the cart through the API's tools.  A turn is a question and what comes  *)
(* of it; the page may give one up while API and agent go on with it.      *)
(***************************************************************************)
EXTENDS Naturals, SequencesExt, FiniteSetsExt

CONSTANTS
  MaxTurns,   \* bound on the questions asked
  MaxHistory, \* MAX_HISTORY_MESSAGES
  MaxRounds,  \* maxToolRounds
  MaxCalls    \* bound on the tools a completion calls

VARIABLES
  page,       \* [conv, busy, got, shown]: the conversation, the turn that runs and what came of it
  asked,      \* questions so far
  convs,      \* conversations: what messages each holds, in the order of creation
  api,        \* each turn in the API: [pc, conv, got]
  agent,      \* each turn in the ai-service: [pc, seen, round, calls, ok], calls those still to run
  cart,       \* what the assistant has added to it
  executions, \* tool_executions of addToCart: how many rows say ok
  rough       \* a turn was stopped, failed or lost its answer, or a page was truncated

assistantVars == <<page, asked, convs, api, agent, cart, executions, rough>>

Turns == 1..MaxTurns
Message(role, t) == [role |-> role, turn |-> t]
NewPage == [conv |-> 0, busy |-> 0, got |-> "none", shown |-> <<>>]
AssistantInit ==
  /\ page = NewPage /\ asked = 0 /\ convs = <<>>
  /\ api = [t \in Turns |-> [pc |-> "idle", conv |-> 0, got |-> "none"]]
  /\ agent = [t \in Turns |-> [pc |-> "idle", seen |-> {}, round |-> 0, calls |-> 0, ok |-> FALSE]]
  /\ cart = 0 /\ executions = 0 /\ rough = FALSE

ApiAt(t, pc) == api[t].pc = pc
ApiGoto(t, pc) == api' = [api EXCEPT ![t].pc = pc]
AgentAt(t, pc) == agent[t].pc = pc
AgentGoto(t, pc) == agent' = [agent EXCEPT ![t].pc = pc]
Effects == <<cart, executions>>
\* orderBy createdAt asc, take: the first messages, not the last.
History(messages) == SubSeq(messages, 1, Min({Len(messages), MaxHistory}))
-----------------------------------------------------------------------------
(* The page. *)

Submit ==
  /\ page.busy = 0 /\ asked < MaxTurns
  /\ asked' = asked + 1
  /\ page' = [page EXCEPT !.busy = asked + 1, !.got = "none",
                          !.shown = Append(@, Message("user", asked + 1))]
  /\ api' = [api EXCEPT ![asked + 1] = [pc |-> "persist", conv |-> page.conv, got |-> "none"]]
  /\ UNCHANGED <<convs, agent, Effects, rough>>

Receive_NoHeader ==     \* mutant: the conversation's id is not taken over
  LET t == page.busy IN
  /\ t # 0 /\ api[t].got \notin {page.got, "error"}
  /\ page' = [page EXCEPT !.got = api[t].got]
  /\ UNCHANGED <<asked, convs, api, agent, Effects, rough>>
\* The conversation is known once "done" is there, which carries the header x-conversation-id.
Receive ==
  LET t == page.busy IN
  /\ t # 0 /\ api[t].got \notin {page.got, "error"}
  /\ page' = [page EXCEPT !.got = api[t].got,
                          !.conv = IF api[t].got = "whole" THEN api[t].conv ELSE @]
  /\ UNCHANGED <<asked, convs, api, agent, Effects, rough>>

Answered == IF page.got = "none" THEN page.shown
            ELSE Append(page.shown, Message("assistant", page.busy))
\* The stream ends; no answer, or an error event, shows as an alert.
Finish ==
  LET t == page.busy IN
  /\ t # 0 /\ api[t].pc \in {"store", "closed"} /\ api[t].got \in {page.got, "error"}
  /\ page' = [page EXCEPT !.busy = 0, !.shown = IF api[t].got = "error" THEN @ ELSE Answered]
  /\ UNCHANGED <<asked, convs, api, agent, Effects, rough>>
StopWaiting ==
  /\ page.busy # 0
  /\ page' = [page EXCEPT !.busy = 0, !.shown = Answered]
  /\ rough' = TRUE
  /\ UNCHANGED <<asked, convs, api, agent, Effects>>
NewConversation ==
  /\ page.busy = 0 /\ page' = NewPage
  /\ UNCHANGED <<asked, convs, api, agent, Effects, rough>>
Quiet == page.busy = 0 /\ \A t \in Turns : api[t].pc \in {"idle", "closed"}
\* The page comes back with what getConversation returns of the id in sessionStorage.
Reload ==
  LET stored == IF page.conv = 0 THEN <<>> ELSE convs[page.conv] IN
  /\ page' = [NewPage EXCEPT !.conv = page.conv, !.shown = History(stored)]
  /\ rough' = (rough \/ ~Quiet \/ History(stored) # stored)
  /\ UNCHANGED <<asked, convs, api, agent, Effects>>
-----------------------------------------------------------------------------
(* streamChat and the controller that proxies it. *)

PersistUser(t) ==
  LET c == IF api[t].conv = 0 THEN Len(convs) + 1 ELSE api[t].conv IN
  /\ ApiAt(t, "persist")
  /\ convs' = (IF c > Len(convs) THEN Append(convs, <<>>) ELSE convs)
  /\ api' = [api EXCEPT ![t].pc = "append", ![t].conv = c]
  /\ UNCHANGED <<page, asked, agent, Effects, rough>>
AppendMessage(t, role, next) ==
  /\ convs' = [convs EXCEPT ![api[t].conv] = Append(@, Message(role, t))]
  /\ ApiGoto(t, next)
AppendUser(t) ==
  /\ ApiAt(t, "append") /\ AppendMessage(t, "user", "load")
  /\ UNCHANGED <<page, asked, agent, Effects, rough>>

LoadHistory(t) ==
  /\ ApiAt(t, "load") /\ ApiGoto(t, "call")
  /\ agent' = [agent EXCEPT ![t].seen = Range(History(convs[api[t].conv]))]
  /\ UNCHANGED <<page, asked, convs, Effects, rough>>

\* Unreachable, not authorised or over its limit of requests a minute, the ai-service refuses.
CallAgent(t) ==
  /\ ApiAt(t, "call")
  /\ \/ ApiGoto(t, "proxy") /\ AgentGoto(t, "check") /\ UNCHANGED rough
     \/ api' = [api EXCEPT ![t].pc = "closed", ![t].got = "error"] /\ rough' = TRUE
        /\ UNCHANGED agent
  /\ UNCHANGED <<page, asked, convs, Effects>>

\* The flush of wrapStreamForPersistence: an answer is stored if it came to its end.
EndOfStream(t) ==
  /\ ApiAt(t, "proxy") /\ api[t].got \in {"whole", "error"}
  /\ ApiGoto(t, IF api[t].got = "whole" THEN "store" ELSE "closed")
  /\ UNCHANGED <<page, asked, convs, agent, Effects, rough>>
\* Not awaited, and an error is swallowed.
Store(t) ==
  /\ ApiAt(t, "store")
  /\ \/ AppendMessage(t, "assistant", "closed") /\ UNCHANGED rough
     \/ ApiGoto(t, "closed") /\ rough' = TRUE /\ UNCHANGED convs
  /\ UNCHANGED <<page, asked, agent, Effects>>

\* AbortSignal.timeout(30_000) cuts the stream: nothing is stored, the page sees it end.
TimeOut_Kept(t) ==
  /\ ApiAt(t, "proxy")
  /\ ApiGoto(t, IF api[t].got = "none" THEN "closed" ELSE "store") /\ rough' = TRUE
  /\ UNCHANGED <<page, asked, convs, agent, Effects>>
TimeOut(t) ==
  /\ ApiAt(t, "proxy") /\ ApiGoto(t, "closed") /\ rough' = TRUE
  /\ UNCHANGED <<page, asked, convs, agent, Effects>>
\* The API goes down, or a statement of it fails.
Die(t) ==
  /\ api[t].pc \notin {"idle", "closed"}
  /\ ApiGoto(t, "closed") /\ rough' = TRUE
  /\ UNCHANGED <<page, asked, convs, agent, Effects>>
-----------------------------------------------------------------------------
(* DefaultAgentRuntime.run and the tools it calls in the API. *)

\* checkInput may answer by itself.
Check(t) ==
  /\ AgentAt(t, "check")
  /\ \E pc \in {"model", "emit"} : AgentGoto(t, pc)
  /\ UNCHANGED <<page, asked, convs, api, Effects, rough>>

\* A completion is an answer or calls tools; after the last round a fixed answer is given.
Complete(t) ==
  /\ AgentAt(t, "model")
  /\ \/ AgentGoto(t, "emit")
     \/ agent[t].round < MaxRounds /\ \E n \in 1..MaxCalls :
          agent' = [agent EXCEPT ![t].pc = "tool", ![t].calls = n]
     \/ agent[t].round < MaxRounds /\ AgentGoto(t, "failed")
  /\ UNCHANGED <<page, asked, convs, api, Effects, rough>>

\* The next call of the completion, or the next round; the model is told of a call that failed.
NextCall(t) ==
  LET a == agent[t] IN
  agent' = [agent EXCEPT ![t] =
    IF a.calls > 1 THEN [a EXCEPT !.pc = "tool", !.calls = @ - 1, !.ok = FALSE]
    ELSE [a EXCEPT !.pc = "model", !.round = @ + 1, !.calls = 0, !.ok = FALSE]]
\* executeTool: the tool, then in a finally block the row.  addLine writes the line before it reads
\* the cart again, which may fail; an unknown tool, or one that needs an approval, is not run.
RunTool(t) ==
  /\ AgentAt(t, "tool")
  /\ \/ NextCall(t) /\ UNCHANGED cart
     \/ \E added, ok \in BOOLEAN :
          /\ ok => added
          /\ cart' = IF added THEN cart + 1 ELSE cart
          /\ agent' = [agent EXCEPT ![t].pc = "record", ![t].ok = ok]
  /\ UNCHANGED <<page, asked, convs, api, executions, rough>>
RecordTool(t) ==
  /\ AgentAt(t, "record")
  /\ \/ agent[t].ok /\ executions' = executions + 1
     \/ UNCHANGED executions
  /\ NextCall(t)
  /\ UNCHANGED <<page, asked, convs, api, cart, rough>>

\* What the agent writes reaches the API while that still reads.
Write(t, got, next) ==
  /\ api' = IF ApiAt(t, "proxy") THEN [api EXCEPT ![t].got = got] ELSE api
  /\ AgentGoto(t, next)
  /\ UNCHANGED <<page, asked, convs, Effects>>
EmitDelta(t) == AgentAt(t, "emit") /\ Write(t, "part", "end") /\ UNCHANGED rough
EmitDone(t) == AgentAt(t, "end") /\ Write(t, "whole", "done") /\ UNCHANGED rough
EmitError(t) == AgentAt(t, "failed") /\ Write(t, "error", "done") /\ rough' = TRUE
-----------------------------------------------------------------------------
Serve(t) ==
  \/ PersistUser(t) \/ AppendUser(t) \/ LoadHistory(t) \/ CallAgent(t)
  \/ EndOfStream(t) \/ Store(t) \/ TimeOut(t)
Think(t) ==
  \/ Check(t) \/ Complete(t) \/ RunTool(t) \/ RecordTool(t)
  \/ EmitDelta(t) \/ EmitDone(t) \/ EmitError(t)
Page == Submit \/ Receive \/ Finish \/ StopWaiting \/ NewConversation \/ Reload
AssistantNext == Page \/ \E t \in Turns : Serve(t) \/ Think(t) \/ Die(t)

\* The API's event loop and its timer, and the page's reader; a model may never answer.
Fairness ==
  WF_assistantVars(Receive \/ Finish) /\ \A t \in Turns : WF_assistantVars(Serve(t))
-----------------------------------------------------------------------------
AssistantTypeOK ==
  /\ page.conv \in 0..Len(convs) /\ page.busy \in {0} \cup Turns /\ asked \in 0..MaxTurns
  /\ \A t \in Turns : api[t].conv \in 0..Len(convs) /\ agent[t].round \in 0..MaxRounds /\ agent[t].calls \in 0..MaxCalls

\* An answer in the history is one the agent finished, in the conversation of its question and
\* after it: a stream that was cut leaves nothing (wrapStreamForPersistence).
StoredAnswersAreWhole ==
  \A c \in DOMAIN convs : \A i \in DOMAIN convs[c] :
    LET m == convs[c][i] IN
    m.role = "assistant" =>
      /\ api[m.turn].got = "whole"
      /\ \E j \in 1..(i - 1) : convs[c][j] = Message("user", m.turn)

\* While nothing fails or is stopped, the page at rest shows the messages the conversation holds,
\* so that coming back to it adds and removes nothing.
ShownIsTheConversation ==
  ~rough /\ Quiet =>
    Range(page.shown) = IF page.conv = 0 THEN {} ELSE Range(convs[page.conv])

\* A page that waits for an answer gets one, or sees the stream end, though the model may hang.
EveryWaitEnds == page.busy # 0 ~> page.busy = 0

\* The audit tells what was put into the cart (ADR-0015: audit every tool call): no, a line is
\* written and the call recorded as failed, or not recorded.
CartMatchesAudit ==
  (\A t \in Turns : ~AgentAt(t, "record")) => cart = executions
\* The model is shown the question it is to answer: no, once the history is longer than
\* MAX_HISTORY_MESSAGES.
QuestionIsSeen ==
  \A t \in Turns : AgentAt(t, "model") => Message("user", t) \in agent[t].seen
\* Their order is the same, too: no, an answer is stored after the page has seen its end.
OrderIsKept ==
  ~rough /\ Quiet /\ page.conv # 0 => page.shown = convs[page.conv]
\* ... and the answers before it: no, they are stored after the page has seen them.
AnswersAreSeen ==
  \A t \in Turns : AgentAt(t, "model") /\ ~rough =>
    \A m \in Range(page.shown) : m.turn < t => m \in agent[t].seen
\* One thread of the page is one conversation: no, when the first question is stopped or fails.
OneConversationPerThread ==
  \A m, n \in Range(page.shown) : api[m.turn].conv = 0 \/ api[n.turn].conv \in {0, api[m.turn].conv}
===============================================================================
