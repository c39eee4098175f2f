-------------------------------- MODULE Agent --------------------------------
(***************************************************************************)
(* The conversation loop between a user, a local LLM and the MCP tools     *)
(* (src/src/agent.rs), with the LLM reached over HTTP                      *)
(* (src/src/llm/ollama.rs).  A prompt pushes the user's message, then asks *)
(* the LLM for at most max_tool_rounds times; every await may fail, an LLM *)
(* error ends the prompt and leaves the history as it is, a tool error     *)
(* becomes the result the LLM sees.                                        *)
(***************************************************************************)
EXTENDS Naturals, Sequences, FiniteSets, SequencesExt

CONSTANTS Tools,        \* names the LLM may call, known to the server or not
          Known,        \* the tools the MCP server has
          MaxCalls,     \* bound on the tool calls of one LLM answer
          max_tool_rounds,
          MaxPrompts    \* bound on the user prompts in the history

ASSUME KnownAreTools == Known \subseteq Tools
ASSUME BoundsAreNat == MaxCalls \in Nat /\ max_tool_rounds \in Nat /\ MaxPrompts \in Nat

VARIABLES history,   \* Vec<ChatMessage>
          pc,        \* waiting for the user, for the LLM, or for a tool
          round,     \* the loop variable of prompt
          tool_calls,\* the calls of the round, <<>> outside of the inner loop
          done,      \* how many of them have their result
          outcome    \* how the latest prompt ended

vars == <<history, pc, round, tool_calls, done, outcome>>

\* The lists of tool names an assistant turn may have.
CallLists == SeqOf(Tools, MaxCalls) \ {<<>>}

\* What comes back from /api/chat: no answer, an error status, a body that is
\* not a chat response, or a message: text and tool calls, either may be left
\* out, each call with an object of arguments or with something else.
ToolCalls == [name : Tools, arguments : {"object", "other"}]
HttpResponses == [status : {"none", "error", "success"}, parses : BOOLEAN,
                  content : {"", "text"}, calls : SeqOf(ToolCalls, MaxCalls)]

Names(calls) == [i \in DOMAIN calls |-> calls[i].name]

\* OllamaClient::chat: one call that does not parse spoils the whole message; a
\* message with calls is calls, whatever text it has; one without is text, even
\* an empty one.
Err == [is |-> "err", calls |-> <<>>]
Chat(resp) ==
    IF \/ resp.status # "success" \/ ~resp.parses
       \/ \E i \in DOMAIN resp.calls : resp.calls[i].arguments # "object"
    THEN Err
    ELSE [is |-> IF resp.calls = <<>> THEN "text" ELSE "calls", calls |-> Names(resp.calls)]

ChatResults == {Chat(resp) : resp \in HttpResponses}

Transcript == INSTANCE ChatTranscript WITH log <- history

Push(m) == history' = Append(history, m)

Init == /\ history = <<Transcript!System>>
        /\ pc = "idle" /\ round = 0 /\ tool_calls = <<>> /\ done = 0
        /\ outcome = "none"

End(how) == pc' = "idle" /\ outcome' = how

\* The head of `for round in 0..max_tool_rounds`.
MutantIterate(r) == /\ round' = r
                    /\ IF r <= max_tool_rounds
                       THEN pc' = "chat" /\ outcome' = "none" ELSE End("exceeded")

Iterate(r) == /\ round' = r
              /\ IF r < max_tool_rounds
                 THEN pc' = "chat" /\ outcome' = "none" ELSE End("exceeded")

UserMessages == Len(SelectSeq(history, LAMBDA m : m.role = "user"))

Prompt == /\ pc = "idle" /\ UserMessages < MaxPrompts
          /\ Push(Transcript!User)
          /\ Iterate(0)
          /\ UNCHANGED <<tool_calls, done>>

\* chat's error is the prompt's: `?`.
LlmFails == /\ pc = "chat" /\ Err \in ChatResults
            /\ End("failed")
            /\ UNCHANGED <<history, round, tool_calls, done>>

LlmAnswers == /\ pc = "chat" /\ \E r \in ChatResults : r.is = "text"
              /\ Push(Transcript!Assistant)
              /\ End("answered")
              /\ UNCHANGED <<round, tool_calls, done>>

LlmCallsTools == /\ pc = "chat"
                 /\ \E r \in ChatResults :
                        /\ r.is = "calls" /\ tool_calls' = r.calls
                        /\ Push(Transcript!Calls(r.calls))
                 /\ pc' = "tool" /\ done' = 0
                 /\ UNCHANGED <<round, outcome>>

\* A failed call gets no message of its own.
MutantReport(name, ok) == IF ok THEN Push(Transcript!Result(name)) ELSE UNCHANGED history

\* Ok(content) and Err(e) alike are pushed as this tool's result.
Report(name, ok) == Push(Transcript!Result(name))

\* The head of the inner loop, which goes on with the next call or ends the round.
NextCall == IF done + 1 < Len(tool_calls)
            THEN done' = done + 1 /\ UNCHANGED <<pc, round, tool_calls, outcome>>
            ELSE done' = 0 /\ tool_calls' = <<>> /\ Iterate(round + 1)

\* Calls a tool again until it succeeds.
MutantToolReturns == /\ pc = "tool"
                     /\ \/ UNCHANGED vars
                        \/ /\ tool_calls[done + 1] \in Known
                           /\ Report(tool_calls[done + 1], TRUE)
                           /\ NextCall

\* execute_tool_call: the calls run one after the other; a tool the server
\* does not know, a lost connection or an error result is an Err.
ToolReturns ==
    /\ pc = "tool"
    /\ \E ok \in (IF tool_calls[done + 1] \in Known THEN BOOLEAN ELSE {FALSE}) :
           Report(tool_calls[done + 1], ok)
    /\ NextCall

\* Called by the owner of the agent, so between prompts.
ClearHistory == /\ pc = "idle"
                /\ history' = <<Head(history)>>
                /\ UNCHANGED <<pc, round, tool_calls, done, outcome>>

Loop == LlmFails \/ LlmAnswers \/ LlmCallsTools \/ ToolReturns

Next == Prompt \/ Loop \/ ClearHistory

Spec == Init /\ [][Next]_vars

\* Every HTTP request and every tool call is answered or fails.
FairSpec == Spec /\ WF_vars(Loop)

------------------------------------------------------------------------------
TypeOK == /\ \A i \in DOMAIN history :
                 /\ history[i].role \in {"system", "user", "assistant", "calls", "tool"}
                 /\ history[i].calls \in CallLists \cup {<<>>}
                 /\ history[i].tool \in Tools \cup {"none"}
          /\ pc \in {"idle", "chat", "tool"}
          /\ round \in 0..max_tool_rounds
          /\ tool_calls \in CallLists \cup {<<>>} /\ done \in 0..MaxCalls
          /\ outcome \in {"none", "answered", "failed", "exceeded"}

\* The history is at every moment a transcript a chat model can be sent: each
\* tool call gets its result, in order, also when tools or the LLM fail, when
\* a prompt is given up, and when the history is cleared.
ImplementsTranscript == Transcript!Spec

\* The turns with calls since the user spoke.
Rounds == {i \in DOMAIN history : /\ history[i].role = "calls"
                                 /\ \A j \in i..Len(history) : history[j].role # "user"}

\* A prompt calls tools in at most max_tool_rounds rounds, and the LLM only
\* gets to answer if it leaves one of them unused: after the last round the
\* results are not sent to it any more.
RoundsBounded == /\ Cardinality(Rounds) <= max_tool_rounds
                 /\ outcome = "answered" /\ history[Len(history)].role = "assistant"
                        => Cardinality(Rounds) < max_tool_rounds

\* A prompt ends, even if the LLM asks for tools every time.
PromptEnds == pc # "idle" ~> pc = "idle"

\* src/src/agent.rs:44: the number of rounds "before forcing a text response".
TextIsForced == outcome # "exceeded"
==============================================================================
