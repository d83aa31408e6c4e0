----------------------------- MODULE Completion -----------------------------
(***************************************************************************)
(* complete: the message an agent gets for its request, as a function of   *)
(* how the model is configured and of what the provider sends.             *)
(*                                                                         *)
(* A text is told from another by what planToolCallFromUserText reads in   *)
(* it: the name of the tool it asks for, or nothing.  Arguments, headers   *)
(* and the request body are left out.                                      *)
(***************************************************************************)
EXTENDS Sequences, Naturals

CONSTANTS
  ToolNames,   \* names a model may call, known to the agent or not
  MaxCalls     \* bound on the calls of one message

ASSUME CompletionAssumption ==
  /\ MaxCalls \in Nat \ {0}
  /\ ToolNames \cap {"prose", "empty", "absent"} = {}

Texts == ToolNames \cup {"prose", "empty"}
CallLists == UNION {[1..n -> ToolNames] : n \in 0..MaxCalls}

\* Messages of a conversation.  "says" is what a text is about: the model's answer,
\* an error of the provider, or what a tool printed or threw.
Message ==
  [role : {"user", "assistant", "tool_result"},
   calls : CallLists,
   tool : ToolNames \cup {"none"},
   says : {"nothing", "answer", "error", "output"}]

\* createToolCallsMessage, createTextMessage
Calling(calls) == [role |-> "assistant", calls |-> calls, tool |-> "none", says |-> "nothing"]
Saying(what) == [role |-> "assistant", calls |-> <<>>, tool |-> "none", says |-> what]

\* parseAssistantTextToMessage: a text that reads like a command is a call; an
\* empty one is replaced.
Parsed(text) == IF text \in ToolNames THEN Calling(<<text>>) ELSE Saying("answer")

\* The stub provider answers what the last user text asks for, whatever has
\* happened since.
StubReply(userText) == IF userText \in ToolNames THEN Calling(<<userText>>) ELSE Saying("answer")

-----------------------------------------------------------------------------
(* completeOpenAICompatible *)

\* How the model is configured: through the codex bridge, or by URL and key.
ModelConfigs == [bridge : BOOLEAN, baseUrl : BOOLEAN, apiKey : BOOLEAN]

\* What is read of a response: its status, output_text, the function calls and the
\* texts of output, tool_calls and content of the first choice.
Responses ==
  [ok : BOOLEAN, outputText : Texts \cup {"absent"}, functionCalls : CallLists,
   outputItems : Texts, toolCalls : CallLists, content : Texts]

\* The first thing present in the response decides.
Decoded(r) ==
  CASE r.outputText # "absent" -> Parsed(r.outputText)
    [] r.outputText = "absent" /\ r.functionCalls # <<>> -> Calling(r.functionCalls)
    [] r.outputText = "absent" /\ r.functionCalls = <<>> /\ r.outputItems # "empty" ->
         Parsed(r.outputItems)
    [] r.outputText = "absent" /\ r.functionCalls = <<>> /\ r.outputItems = "empty"
       /\ r.toolCalls # <<>> -> Calling(r.toolCalls)
    [] OTHER -> Parsed(r.content)

\* Missing configuration and error responses become an assistant's text.
ProviderReply(m, r) ==
  IF m.baseUrl /\ m.apiKey /\ r.ok THEN Decoded(r) ELSE Saying("error")

\* completeViaPiCodexBridge: the message the child process prints, or an error text.
BridgeReplies == {Saying("answer"), Saying("error")} \cup {Calling(c) : c \in CallLists \ {<<>>}}

RemoteReplies == BridgeReplies \cup {ProviderReply(m, r) : m \in ModelConfigs, r \in Responses}
=============================================================================
