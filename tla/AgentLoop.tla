----------------------------- MODULE AgentLoop -----------------------------
(***************************************************************************)
(* A coding agent: prompt, runAgentLoop and the turn runAgentTurn makes of *)
(* it.  One turn asks the model, runs the tools the model calls one after  *)
(* the other, and asks again with their results, eight times at most.      *)
(* Model calls and tools are awaited; neither has a timeout.               *)
(*                                                                         *)
(* Events to listeners are left out: they repeat the transcript.           *)
(***************************************************************************)
EXTENDS Completion, FiniteSets

CONSTANTS
  Tools,           \* tools the agent was created with
  MaxIterations,   \* model calls per turn; 8 in the code
  MaxPrompts       \* bound on the prompts of one agent

ASSUME AgentAssumption ==
  /\ Tools \subseteq ToolNames
  /\ MaxIterations \in Nat \ {0}
  /\ MaxPrompts \in Nat

VARIABLES
  local,        \* the agent's model is the local stub
  pc,           \* what the turn awaits
  messages,     \* agent.state.messages
  output,       \* the messages of the running loop
  iteration,    \* model calls of this turn that are over
  pending,      \* calls of the last message not yet answered
  userText,     \* what the prompt of this turn asks for
  streaming,    \* agent.state.isStreaming
  prompts       \* bound: prompts so far

agentVars == <<local, pc, messages, output, iteration, pending, userText, streaming, prompts>>

AgentTypeOK ==
  /\ local \in BOOLEAN
  /\ pc \in {"idle", "model", "tool"}
  /\ messages \in Seq(Message)
  /\ output \in Seq(Message)
  /\ iteration \in 0..MaxIterations
  /\ pending \in CallLists
  /\ userText \in Texts
  /\ streaming \in BOOLEAN
  /\ prompts \in 0..MaxPrompts

AgentInit ==
  /\ local \in BOOLEAN
  /\ pc = "idle"
  /\ messages = <<>> /\ output = <<>>
  /\ iteration = 0 /\ pending = <<>>
  /\ userText = "prose"
  /\ streaming = FALSE
  /\ prompts = 0

-----------------------------------------------------------------------------

UserMessage == [role |-> "user", calls |-> <<>>, tool |-> "none", says |-> "nothing"]
ResultOf(tool, what) == [role |-> "tool_result", calls |-> <<>>, tool |-> tool, says |-> what]

\* Faulty: a new prompt starts a new conversation.
Prompt_Forgetting(text) ==
  /\ pc = "idle" /\ prompts < MaxPrompts
  /\ prompts' = prompts + 1
  /\ userText' = text
  /\ messages' = <<UserMessage>>
  /\ output' = <<UserMessage>>
  /\ streaming' = TRUE
  /\ iteration' = 0
  /\ pc' = "model"
  /\ UNCHANGED <<local, pending>>

\* prompt
Prompt(text) ==
  /\ pc = "idle" /\ prompts < MaxPrompts
  /\ prompts' = prompts + 1
  /\ userText' = text
  /\ messages' = Append(messages, UserMessage)
  /\ output' = Append(messages, UserMessage)
  /\ streaming' = TRUE
  /\ iteration' = 0
  /\ pc' = "model"
  /\ UNCHANGED <<local, pending>>

\* agent_end: the agent takes over the loop's messages.
Finish(transcript) ==
  /\ pc' = "idle"
  /\ messages' = transcript
  /\ streaming' = FALSE

Replies == IF local THEN {StubReply(userText)} ELSE RemoteReplies

\* The model answers without calling a tool.
ModelAnswers ==
  /\ pc = "model"
  /\ \E reply \in Replies :
       /\ reply.calls = <<>>
       /\ output' = Append(output, reply)
       /\ Finish(output')
  /\ UNCHANGED <<local, iteration, pending, userText, prompts>>

ModelCalls ==
  /\ pc = "model"
  /\ \E reply \in Replies :
       /\ reply.calls # <<>>
       /\ output' = Append(output, reply)
       /\ pending' = reply.calls
  /\ pc' = "tool"
  /\ UNCHANGED <<local, messages, iteration, userText, streaming, prompts>>

\* The request cannot be sent or its answer not be read: the loop throws, the agent
\* keeps the prompt and goes on streaming.
ModelRejects ==
  /\ pc = "model" /\ ~local
  /\ pc' = "idle"
  /\ UNCHANGED <<local, messages, output, iteration, pending, userText, streaming, prompts>>

\* Faulty: a call of an unknown tool gets no result.
ToolEnds_Skipping ==
  /\ pc = "tool"
  /\ output' = IF Head(pending) \in Tools
               THEN Append(output, ResultOf(Head(pending), "output")) ELSE output
  /\ pending' = Tail(pending)
  /\ iteration' = IF Tail(pending) = <<>> THEN iteration + 1 ELSE iteration
  /\ IF Tail(pending) = <<>> /\ iteration' = MaxIterations
     THEN Finish(output')
     ELSE /\ pc' = IF Tail(pending) = <<>> THEN "model" ELSE "tool"
          /\ UNCHANGED <<messages, streaming>>
  /\ UNCHANGED <<local, userText, prompts>>

\* Faulty: an iteration in which tools ran is not counted.
ToolEnds_Uncounted ==
  /\ pc = "tool"
  /\ output' = Append(output, ResultOf(Head(pending), "output"))
  /\ pending' = Tail(pending)
  /\ pc' = IF Tail(pending) = <<>> THEN "model" ELSE "tool"
  /\ UNCHANGED <<local, messages, iteration, userText, streaming, prompts>>

\* Faulty: the loop waits for a tool nobody has.
ToolEnds_KnownOnly ==
  /\ pc = "tool" /\ Head(pending) \in Tools
  /\ output' = Append(output, ResultOf(Head(pending), "output"))
  /\ pending' = Tail(pending)
  /\ iteration' = IF Tail(pending) = <<>> THEN iteration + 1 ELSE iteration
  /\ IF Tail(pending) = <<>> /\ iteration' = MaxIterations
     THEN Finish(output')
     ELSE /\ pc' = IF Tail(pending) = <<>> THEN "model" ELSE "tool"
          /\ UNCHANGED <<messages, streaming>>
  /\ UNCHANGED <<local, userText, prompts>>

\* The next call: the tool does not exist, throws, or returns.  After the last call
\* the loop asks the model again unless that was its last iteration.
ToolEnds ==
  /\ pc = "tool"
  /\ \E what \in IF Head(pending) \in Tools THEN {"output", "error"} ELSE {"error"} :
       output' = Append(output, ResultOf(Head(pending), what))
  /\ pending' = Tail(pending)
  /\ iteration' = IF Tail(pending) = <<>> THEN iteration + 1 ELSE iteration
  /\ IF Tail(pending) = <<>> /\ iteration' = MaxIterations
     THEN Finish(output')
     ELSE /\ pc' = IF Tail(pending) = <<>> THEN "model" ELSE "tool"
          /\ UNCHANGED <<messages, streaming>>
  /\ UNCHANGED <<local, userText, prompts>>

Turn == ModelAnswers \/ ModelCalls \/ ModelRejects \/ ToolEnds

AgentNext == Turn \/ \E text \in Texts : Prompt(text)

\* Providers and tools answer in the end; nobody has to prompt.
AgentSpec == AgentInit /\ [][AgentNext]_agentVars /\ WF_agentVars(Turn)

-----------------------------------------------------------------------------
(* Properties. *)

Abstract == INSTANCE AgentTurn WITH working <- pc # "idle", transcript <- messages

\* The loop keeps what the runtime relies on: a prompt is never lost, an answered
\* turn extends the transcript by complete exchanges, a rejected one leaves it.
ImplementsTurn == Abstract!TurnSpec

\* While providers and tools answer, every prompt comes to an end, whatever the
\* model calls and however often it calls again.
PromptReturns == Abstract!PromptReturns

\* What a provider is sent is a conversation it can read: every call of an earlier
\* message has its one result, in order, also when a tool was unknown or threw.
RequestIsComplete == pc = "model" => Abstract!Answered(output)

\* One turn asks the model MaxIterations times at most, so a model that always
\* calls a tool, as the stub does for a text that names one, cannot go on for ever.
TurnIsBounded ==
  \A i \in 1..Len(output) :
    \/ \E j \in i..Len(output) : output[j].role = "user"
    \/ Cardinality({k \in i..Len(output) : output[k].role = "assistant"}) <= MaxIterations
=============================================================================
