--------------------------- MODULE AgentLoopProofs ---------------------------
(***************************************************************************)
(* For every set of tools, every bound on iterations, prompts and calls    *)
(* per message: the agent keeps its types, sends the provider only         *)
(* complete conversations, implements AgentTurn but for its liveness, and  *)
(* asks its model MaxIterations times at most in one turn.                 *)
(***************************************************************************)
EXTENDS AgentLoop, TLAPS, FiniteSetTheorems

-----------------------------------------------------------------------------
(* Call lists and messages. *)

LEMMA ToolTypes == MaxCalls \in Nat /\ MaxCalls >= 1 /\ MaxIterations \in Nat
                   /\ MaxIterations >= 1 /\ MaxPrompts \in Nat
  BY CompletionAssumption, AgentAssumption DEF CompletionAssumption, AgentAssumption

LEMMA CallListsAre ==
  \A c : c \in CallLists <=> c \in Seq(ToolNames) /\ Len(c) <= MaxCalls
<1>1. ASSUME NEW c, c \in CallLists PROVE c \in Seq(ToolNames) /\ Len(c) <= MaxCalls
  <2>1. PICK n \in 0..MaxCalls : c \in [1..n -> ToolNames]
    BY <1>1 DEF CallLists
  <2>2. n \in Nat /\ n <= MaxCalls
    BY ToolTypes
  <2>3. QED
    BY <2>1, <2>2
<1>2. ASSUME NEW c \in Seq(ToolNames), Len(c) <= MaxCalls PROVE c \in CallLists
  <2>1. Len(c) \in 0..MaxCalls
    BY <1>2, ToolTypes
  <2>2. c \in [1..Len(c) -> ToolNames]
    OBVIOUS
  <2>3. QED
    BY <2>1, <2>2 DEF CallLists
<1>3. QED
  BY <1>1, <1>2

LEMMA NoCallsListed == <<>> \in CallLists
<1>1. ASSUME NEW c, c = <<>> PROVE c \in CallLists
  <2>1. c \in Seq(ToolNames)
    BY <1>1
  <2>2. Len(c) <= MaxCalls
    BY <1>1, ToolTypes
  <2>3. QED
    BY <2>1, <2>2, CallListsAre
<1>2. QED
  BY <1>1

LEMMA MessagesAre ==
  /\ \A calls \in CallLists : Calling(calls) \in Message
  /\ \A what \in {"answer", "error"} : Saying(what) \in Message
  /\ UserMessage \in Message
  /\ \A tool \in ToolNames, what \in {"output", "error"} : ResultOf(tool, what) \in Message
  BY NoCallsListed DEF Message, Calling, Saying, UserMessage, ResultOf

\* Whatever the configuration and the response, a model's reply is an assistant's
\* message.
LEMMA RepliesAre ==
  ASSUME userText \in Texts
  PROVE  \A reply \in Replies : reply \in Message /\ reply.role = "assistant"
<1>1. \A text \in ToolNames : <<text>> \in CallLists
  <2>1. \A text \in ToolNames : <<text>> \in Seq(ToolNames) /\ Len(<<text>>) = 1
    OBVIOUS
  <2>2. QED
    BY <2>1, CallListsAre, ToolTypes
<1> DEFINE Good(m) == m \in Message /\ m.role = "assistant"
<1>2. \A calls \in CallLists : Good(Calling(calls))
  BY MessagesAre DEF Calling
<1>3. Good(Saying("answer")) /\ Good(Saying("error"))
  BY MessagesAre DEF Saying
<1> HIDE DEF Good
<1>4. \A text : Good(Parsed(text))
  BY <1>1, <1>2, <1>3 DEF Parsed
<1>5. Good(StubReply(userText))
  <2>1. CASE userText \in ToolNames
    BY <2>1, <1>1, <1>2 DEF StubReply
  <2>2. CASE userText \notin ToolNames
    BY <2>2, <1>3 DEF StubReply
  <2>3. QED
    BY <2>1, <2>2
<1>6. \A r \in Responses : Good(Decoded(r))
  BY <1>2, <1>4 DEF Decoded, Responses
<1>7. \A m \in ModelConfigs, r \in Responses : Good(ProviderReply(m, r))
  BY <1>3, <1>6 DEF ProviderReply
<1>8. \A reply \in BridgeReplies : Good(reply)
  BY <1>2, <1>3 DEF BridgeReplies
<1>9. \A reply \in Replies : Good(reply)
  BY <1>5, <1>7, <1>8 DEF Replies, RemoteReplies
<1>10. QED
  BY <1>9 DEF Good

-----------------------------------------------------------------------------
(* The state of the agent. *)

\* A turn that awaits anything has iterations left, one that runs tools has calls
\* to answer.
LoopTyped ==
  /\ AgentTypeOK
  /\ pc # "idle" => iteration < MaxIterations
  /\ pc = "tool" => pending # <<>>

LEMMA InitTyped == AgentInit => LoopTyped
<1> SUFFICES ASSUME AgentInit PROVE LoopTyped
  OBVIOUS
<1>1. <<>> \in Seq(Message)
  OBVIOUS
<1>2. <<>> \in CallLists
  BY NoCallsListed
<1>3. 0 \in 0..MaxIterations /\ 0 \in 0..MaxPrompts
  BY ToolTypes
<1>4. "prose" \in Texts
  BY DEF Texts
<1>5. QED
  BY <1>1, <1>2, <1>3, <1>4 DEF AgentInit, LoopTyped, AgentTypeOK

LEMMA PromptTyped == LoopTyped /\ (\E text \in Texts : Prompt(text)) => LoopTyped'
<1> SUFFICES ASSUME LoopTyped, NEW text \in Texts, Prompt(text) PROVE LoopTyped'
  OBVIOUS
<1>1. messages' \in Seq(Message) /\ output' \in Seq(Message)
  BY MessagesAre DEF LoopTyped, AgentTypeOK, Prompt
<1>2. iteration' \in 0..MaxIterations /\ iteration' < MaxIterations
  BY ToolTypes DEF Prompt
<1>3. prompts' \in 0..MaxPrompts
  BY ToolTypes DEF LoopTyped, AgentTypeOK, Prompt
<1>4. QED
  BY <1>1, <1>2, <1>3 DEF LoopTyped, AgentTypeOK, Prompt

LEMMA ModelTyped == LoopTyped /\ (ModelAnswers \/ ModelCalls \/ ModelRejects) => LoopTyped'
<1> SUFFICES ASSUME LoopTyped, ModelAnswers \/ ModelCalls \/ ModelRejects PROVE LoopTyped'
  OBVIOUS
<1>1. \A reply \in Replies : reply \in Message /\ reply.role = "assistant"
  BY RepliesAre DEF LoopTyped, AgentTypeOK
<1>2. CASE ModelAnswers
  <2>1. output' \in Seq(Message)
    BY <1>1, <1>2 DEF LoopTyped, AgentTypeOK, ModelAnswers
  <2>2. QED
    BY <1>2, <2>1 DEF LoopTyped, AgentTypeOK, ModelAnswers, Finish
<1>3. CASE ModelCalls
  <2>1. PICK reply \in Replies :
          reply.calls # <<>> /\ output' = Append(output, reply) /\ pending' = reply.calls
    BY <1>3 DEF ModelCalls
  <2>2. reply \in Message /\ reply.calls \in CallLists
    BY <1>1 DEF Message
  <2>3. output' \in Seq(Message)
    BY <2>1, <2>2 DEF LoopTyped, AgentTypeOK
  <2>4. QED
    BY <1>3, <2>1, <2>2, <2>3 DEF LoopTyped, AgentTypeOK, ModelCalls
<1>4. CASE ModelRejects
  BY <1>4 DEF LoopTyped, AgentTypeOK, ModelRejects
<1>5. QED
  BY <1>2, <1>3, <1>4

LEMMA ToolTyped == LoopTyped /\ ToolEnds => LoopTyped'
<1> SUFFICES ASSUME LoopTyped, ToolEnds PROVE LoopTyped'
  OBVIOUS
<1>1. pending \in Seq(ToolNames) /\ pending # <<>> /\ Len(pending) <= MaxCalls
  BY CallListsAre DEF LoopTyped, AgentTypeOK, ToolEnds
<1>2. Head(pending) \in ToolNames /\ Tail(pending) \in Seq(ToolNames)
      /\ Len(Tail(pending)) <= MaxCalls
  BY <1>1, ToolTypes
<1>3. pending' \in CallLists
  BY <1>2, CallListsAre DEF ToolEnds
<1>4. output' \in Seq(Message)
  <2>1. PICK what \in {"output", "error"} : output' = Append(output, ResultOf(Head(pending), what))
    BY DEF ToolEnds
  <2>2. QED
    BY <1>2, <2>1, MessagesAre DEF LoopTyped, AgentTypeOK
<1>5. iteration \in Nat /\ iteration < MaxIterations
  BY ToolTypes DEF LoopTyped, AgentTypeOK, ToolEnds
<1>6. iteration' \in 0..MaxIterations
  BY <1>5, ToolTypes DEF ToolEnds
<1>7. CASE Tail(pending) = <<>> /\ iteration' = MaxIterations
  BY <1>3, <1>4, <1>6, <1>7 DEF LoopTyped, AgentTypeOK, ToolEnds, Finish
<1>8. CASE ~(Tail(pending) = <<>> /\ iteration' = MaxIterations)
  <2>1. iteration' < MaxIterations
    BY <1>5, <1>6, <1>8, ToolTypes DEF ToolEnds
  <2>2. QED
    BY <1>3, <1>4, <1>6, <1>8, <2>1 DEF LoopTyped, AgentTypeOK, ToolEnds
<1>9. QED
  BY <1>7, <1>8

LEMMA NextTyped == LoopTyped /\ [AgentNext]_agentVars => LoopTyped'
<1> SUFFICES ASSUME LoopTyped, [AgentNext]_agentVars PROVE LoopTyped'
  OBVIOUS
<1>1. CASE AgentNext
  BY <1>1, PromptTyped, ModelTyped, ToolTyped DEF AgentNext, Turn
<1>2. CASE UNCHANGED agentVars
  BY <1>2 DEF agentVars, LoopTyped, AgentTypeOK
<1>3. QED
  BY <1>1, <1>2

\* The agent's state keeps its types: never more iterations than the bound, and
\* only messages in its transcript.
THEOREM AgentTypeCorrect == AgentSpec => []AgentTypeOK
<1>1. LoopTyped => AgentTypeOK
  BY DEF LoopTyped
<1>2. QED
  BY <1>1, InitTyped, NextTyped, PTL DEF AgentSpec

-----------------------------------------------------------------------------
(* Conversations.  While tools run, the calls of the last assistant's message *)
(* that have no result yet are the pending ones.                              *)

Complete(ms) == Abstract!Answered(ms)

\* Every result there is answers the call it should.
Paired(ms) ==
  \A i \in 1..Len(ms) :
    /\ ms[i].role = "assistant" =>
         \A k \in 1..Len(ms[i].calls) :
           i + k <= Len(ms) =>
             ms[i + k].role = "tool_result" /\ ms[i + k].tool = ms[i].calls[k]
    /\ ms[i].role = "tool_result" =>
         \E j \in 1..(i - 1) : ms[j].role = "assistant" /\ i <= j + Len(ms[j].calls)

\* The calls beyond the end of ms are the given ones.
Lacks(ms, calls) ==
  \A i \in 1..Len(ms) : ms[i].role = "assistant" =>
    /\ i + Len(ms[i].calls) <= Len(ms) + Len(calls)
    /\ \A k \in 1..Len(ms[i].calls) : i + k > Len(ms) => ms[i].calls[k] = calls[i + k - Len(ms)]

\* They belong to a message of an assistant.
Caller(ms, calls) ==
  \E j \in 1..Len(ms) :
    ms[j].role = "assistant" /\ j + Len(ms[j].calls) = Len(ms) + Len(calls)

Awaits(ms, calls) == Paired(ms) /\ Lacks(ms, calls) /\ (calls # <<>> => Caller(ms, calls))

LEMMA MessageCalls ==
  \A ms \in Seq(Message) : \A i \in 1..Len(ms) :
    ms[i] \in Message /\ ms[i].calls \in Seq(ToolNames) /\ Len(ms[i].calls) \in Nat
<1> SUFFICES ASSUME NEW ms \in Seq(Message), NEW i \in 1..Len(ms)
             PROVE  ms[i] \in Message /\ ms[i].calls \in Seq(ToolNames)
                    /\ Len(ms[i].calls) \in Nat
  OBVIOUS
<1>1. ms[i] \in Message
  OBVIOUS
<1>2. ms[i].calls \in CallLists
  BY <1>1 DEF Message
<1>3. QED
  BY <1>1, <1>2, CallListsAre

LEMMA CompleteIs ==
  \A ms \in Seq(Message) : Complete(ms) <=> Paired(ms) /\ Lacks(ms, <<>>)
<1> SUFFICES ASSUME NEW ms \in Seq(Message)
             PROVE  Complete(ms) <=> Paired(ms) /\ Lacks(ms, <<>>)
  OBVIOUS
<1>1. Len(ms) \in Nat /\ Len(<<>>) = 0
  OBVIOUS
<1>2. \A i \in 1..Len(ms) : Len(ms[i].calls) \in Nat
  BY MessageCalls
<1>3. ASSUME Complete(ms) PROVE Paired(ms)
  BY <1>1, <1>2, <1>3 DEF Complete, Abstract!Answered, Paired
<1>4. ASSUME Complete(ms) PROVE Lacks(ms, <<>>)
  <2>1. SUFFICES ASSUME NEW i \in 1..Len(ms), ms[i].role = "assistant"
                 PROVE  i + Len(ms[i].calls) <= Len(ms)
    BY <1>1, <1>2 DEF Lacks
  <2>2. \A k \in 1..Len(ms[i].calls) : i + k <= Len(ms)
    BY <1>4, <2>1 DEF Complete, Abstract!Answered
  <2>3. QED
    BY <1>1, <1>2, <2>1, <2>2
<1>5. ASSUME Paired(ms), Lacks(ms, <<>>) PROVE Complete(ms)
  <2>1. \A i \in 1..Len(ms) : ms[i].role = "assistant" => i + Len(ms[i].calls) <= Len(ms)
    BY <1>1, <1>2, <1>5 DEF Lacks
  <2>2. \A i \in 1..Len(ms) : \A k \in 1..Len(ms[i].calls) :
          ms[i].role = "assistant" => i + k <= Len(ms)
    BY <1>1, <1>2, <2>1
  <2>3. QED
    BY <1>1, <1>2, <1>5, <2>2 DEF Complete, Abstract!Answered, Paired
<1>6. QED
  BY <1>3, <1>4, <1>5

\* After a complete conversation, a message that is no result leaves just its own
\* calls to be answered.
LEMMA NewMessage ==
  ASSUME NEW ms \in Seq(Message), Complete(ms),
         NEW m \in Message, m.role # "tool_result", m.role = "user" => m.calls = <<>>
  PROVE  Awaits(Append(ms, m), m.calls)
<1> DEFINE ns == Append(ms, m)
<1>1. /\ ns \in Seq(Message) /\ Len(ms) \in Nat /\ Len(ns) = Len(ms) + 1
      /\ \A i \in 1..Len(ms) : ns[i] = ms[i]
      /\ ns[Len(ns)] = m
  OBVIOUS
<1>2. Paired(ms) /\ \A i \in 1..Len(ms) : ms[i].role = "assistant" =>
        i + Len(ms[i].calls) <= Len(ms)
  <2>1. Paired(ms) /\ Lacks(ms, <<>>)
    BY CompleteIs
  <2>2. QED
    BY <2>1, MessageCalls DEF Lacks
<1>3. m.calls \in Seq(ToolNames) /\ Len(m.calls) \in Nat
  BY CallListsAre DEF Message
<1>4. \A i \in 1..Len(ms) : Len(ms[i].calls) \in Nat
  BY MessageCalls
<1> HIDE DEF ns
<1>5. Paired(ns)
  <2> SUFFICES ASSUME NEW i \in 1..Len(ns)
               PROVE  /\ ns[i].role = "assistant" =>
                           \A k \in 1..Len(ns[i].calls) :
                             i + k <= Len(ns) =>
                               ns[i + k].role = "tool_result" /\ ns[i + k].tool = ns[i].calls[k]
                      /\ ns[i].role = "tool_result" =>
                           \E j \in 1..(i - 1) :
                             ns[j].role = "assistant" /\ i <= j + Len(ns[j].calls)
    BY DEF Paired
  <2>1. CASE i = Len(ns)
    BY <1>1, <1>3, <2>1
  <2>2. CASE i \in 1..Len(ms)
    <3>1. ns[i] = ms[i] /\ Len(ms[i].calls) \in Nat
      BY <1>1, <1>4, <2>2
    <3>2. ASSUME ms[i].role = "assistant", NEW k \in 1..Len(ms[i].calls)
          PROVE  ns[i + k].role = "tool_result" /\ ns[i + k].tool = ms[i].calls[k]
      <4>1. i + k \in 1..Len(ms)
        BY <1>1, <1>2, <2>2, <3>1, <3>2
      <4>2. ms[i + k].role = "tool_result" /\ ms[i + k].tool = ms[i].calls[k]
        BY <1>2, <2>2, <3>2, <4>1 DEF Paired
      <4>3. QED
        BY <1>1, <4>1, <4>2
    <3>3. ASSUME ms[i].role = "tool_result"
          PROVE  \E j \in 1..(i - 1) : ns[j].role = "assistant" /\ i <= j + Len(ns[j].calls)
      <4>1. PICK j \in 1..(i - 1) : ms[j].role = "assistant" /\ i <= j + Len(ms[j].calls)
        BY <1>2, <2>2, <3>3 DEF Paired
      <4>2. ns[j] = ms[j]
        BY <1>1, <2>2
      <4>3. QED
        BY <4>1, <4>2
    <3>4. QED
      BY <3>1, <3>2, <3>3
  <2>3. QED
    BY <1>1, <2>1, <2>2
<1>6. Lacks(ns, m.calls)
  <2> SUFFICES ASSUME NEW i \in 1..Len(ns), ns[i].role = "assistant"
               PROVE  /\ i + Len(ns[i].calls) <= Len(ns) + Len(m.calls)
                      /\ \A k \in 1..Len(ns[i].calls) : i + k > Len(ns) =>
                           ns[i].calls[k] = m.calls[i + k - Len(ns)]
    BY DEF Lacks
  <2>1. CASE i = Len(ns)
    BY <1>1, <1>3, <2>1
  <2>2. CASE i \in 1..Len(ms)
    <3>1. ns[i] = ms[i] /\ i + Len(ms[i].calls) <= Len(ms) /\ Len(ms[i].calls) \in Nat
      BY <1>1, <1>2, <1>4, <2>2
    <3>2. i + Len(ns[i].calls) <= Len(ns) + Len(m.calls)
      <4>1. i + Len(ns[i].calls) <= Len(ms)
        BY <3>1
      <4>2. i + Len(ns[i].calls) \in Nat
        BY <2>2, <3>1
      <4>3. \A a, b, c, d \in Nat : a <= b /\ d = b + 1 => a <= d + c
        OBVIOUS
      <4>4. Len(ms) \in Nat /\ Len(ns) \in Nat /\ Len(ns) = Len(ms) + 1 /\ Len(m.calls) \in Nat
        BY <1>1, <1>3
      <4>5. QED
        BY <4>1, <4>2, <4>3, <4>4
    <3>3. ASSUME NEW k \in 1..Len(ns[i].calls) PROVE ~(i + k > Len(ns))
      BY <1>1, <2>2, <3>1
    <3>4. QED
      BY <3>2, <3>3
  <2>3. i = Len(ns) \/ i \in 1..Len(ms)
    BY <1>1
  <2>4. QED
    BY <2>1, <2>2, <2>3
<1>7. ASSUME m.calls # <<>> PROVE Caller(ns, m.calls)
  <2>1. m.role = "assistant"
    BY <1>7 DEF Message
  <2>2. Len(ns) \in 1..Len(ns)
    BY <1>1
  <2>3. ns[Len(ns)].role = "assistant"
        /\ Len(ns) + Len(ns[Len(ns)].calls) = Len(ns) + Len(m.calls)
    BY <1>1, <2>1
  <2>4. QED
    BY <2>2, <2>3 DEF Caller
<1>8. QED
  BY <1>5, <1>6, <1>7 DEF Awaits, ns

\* The result of the first call that lacks one takes its place.
LEMMA NewResult ==
  ASSUME NEW ms \in Seq(Message), NEW calls \in Seq(ToolNames), calls # <<>>,
         Awaits(ms, calls),
         NEW m \in Message, m.role = "tool_result", m.tool = Head(calls)
  PROVE  Awaits(Append(ms, m), Tail(calls))
<1> DEFINE ns == Append(ms, m)
           rest == Tail(calls)
<1>1. /\ ns \in Seq(Message) /\ Len(ms) \in Nat /\ Len(ns) = Len(ms) + 1
      /\ \A i \in 1..Len(ms) : ns[i] = ms[i]
      /\ ns[Len(ns)] = m
  OBVIOUS
<1>2. /\ Len(calls) \in Nat /\ Len(calls) >= 1 /\ Len(rest) = Len(calls) - 1
      /\ \A k \in 1..Len(rest) : rest[k] = calls[k + 1]
      /\ m.tool = calls[1]
  OBVIOUS
<1>3. \A i \in 1..Len(ms) : Len(ms[i].calls) \in Nat
  BY MessageCalls
<1>4. Paired(ms) /\ Lacks(ms, calls) /\ Caller(ms, calls)
  BY DEF Awaits
<1> HIDE DEF ns, rest
<1>5. Paired(ns)
  <2> SUFFICES ASSUME NEW i \in 1..Len(ns)
               PROVE  /\ ns[i].role = "assistant" =>
                           \A k \in 1..Len(ns[i].calls) :
                             i + k <= Len(ns) =>
                               ns[i + k].role = "tool_result" /\ ns[i + k].tool = ns[i].calls[k]
                      /\ ns[i].role = "tool_result" =>
                           \E j \in 1..(i - 1) :
                             ns[j].role = "assistant" /\ i <= j + Len(ns[j].calls)
    BY DEF Paired
  <2>1. CASE i = Len(ns)
    <3>1. PICK j \in 1..Len(ms) :
            ms[j].role = "assistant" /\ j + Len(ms[j].calls) = Len(ms) + Len(calls)
      BY <1>4 DEF Caller
    <3>2. ns[j] = ms[j] /\ j \in 1..(i - 1)
      BY <1>1, <2>1
    <3>3. i <= j + Len(ns[j].calls)
      BY <1>1, <1>2, <2>1, <3>1, <3>2
    <3>4. ns[i].role = "tool_result"
      BY <1>1, <2>1
    <3>5. QED
      BY <3>1, <3>2, <3>3, <3>4
  <2>2. CASE i \in 1..Len(ms)
    <3>1. ns[i] = ms[i] /\ Len(ms[i].calls) \in Nat
      BY <1>1, <1>3, <2>2
    <3>2. ASSUME ms[i].role = "assistant", NEW k \in 1..Len(ms[i].calls), i + k <= Len(ns)
          PROVE  ns[i + k].role = "tool_result" /\ ns[i + k].tool = ms[i].calls[k]
      <4>1. CASE i + k <= Len(ms)
        <5>1. i + k \in 1..Len(ms)
          BY <1>1, <2>2, <3>1, <4>1
        <5>2. ms[i + k].role = "tool_result" /\ ms[i + k].tool = ms[i].calls[k]
          BY <1>4, <2>2, <3>2, <5>1 DEF Paired
        <5>3. QED
          BY <1>1, <5>1, <5>2
      <4>2. CASE i + k > Len(ms)
        <5>1. i + k = Len(ns) /\ i + k - Len(ms) = 1
          BY <1>1, <2>2, <3>1, <3>2, <4>2
        <5>2. ms[i].calls[k] = calls[i + k - Len(ms)]
          BY <1>4, <2>2, <3>2, <4>2 DEF Lacks
        <5>3. QED
          BY <1>1, <1>2, <5>1, <5>2
      <4>3. QED
        BY <1>1, <2>2, <3>1, <4>1, <4>2
    <3>3. ASSUME ms[i].role = "tool_result"
          PROVE  \E j \in 1..(i - 1) : ns[j].role = "assistant" /\ i <= j + Len(ns[j].calls)
      <4>1. PICK j \in 1..(i - 1) : ms[j].role = "assistant" /\ i <= j + Len(ms[j].calls)
        BY <1>4, <2>2, <3>3 DEF Paired
      <4>2. ns[j] = ms[j]
        BY <1>1, <2>2
      <4>3. QED
        BY <4>1, <4>2
    <3>4. QED
      BY <3>1, <3>2, <3>3
  <2>3. i = Len(ns) \/ i \in 1..Len(ms)
    BY <1>1
  <2>4. QED
    BY <2>1, <2>2, <2>3
<1>6. Lacks(ns, rest)
  <2> SUFFICES ASSUME NEW i \in 1..Len(ns), ns[i].role = "assistant"
               PROVE  /\ i + Len(ns[i].calls) <= Len(ns) + Len(rest)
                      /\ \A k \in 1..Len(ns[i].calls) : i + k > Len(ns) =>
                           ns[i].calls[k] = rest[i + k - Len(ns)]
    BY DEF Lacks
  <2>1. i \in 1..Len(ms) /\ ns[i] = ms[i]
    BY <1>1
  <2>2. Len(ms[i].calls) \in Nat /\ i + Len(ms[i].calls) <= Len(ms) + Len(calls)
    BY <1>3, <1>4, <2>1 DEF Lacks
  <2>3. i + Len(ns[i].calls) <= Len(ns) + Len(rest)
    <3>1. Len(ns) + Len(rest) = Len(ms) + Len(calls)
      BY <1>1, <1>2
    <3>2. QED
      BY <2>1, <2>2, <3>1
  <2>4. ASSUME NEW k \in 1..Len(ms[i].calls), i + k > Len(ns)
        PROVE  ms[i].calls[k] = rest[i + k - Len(ns)]
    <3>1. i + k > Len(ms)
      BY <1>1, <2>1, <2>2, <2>4
    <3>2. ms[i].calls[k] = calls[i + k - Len(ms)]
      BY <1>4, <2>1, <3>1 DEF Lacks
    <3>3. i + k - Len(ns) \in 1..Len(rest) /\ i + k - Len(ns) + 1 = i + k - Len(ms)
      BY <1>1, <1>2, <2>1, <2>2, <2>4
    <3>4. rest[i + k - Len(ns)] = calls[i + k - Len(ms)]
      BY <1>2, <3>3
    <3>5. QED
      BY <3>2, <3>4
  <2>5. QED
    BY <2>1, <2>3, <2>4
<1>7. Caller(ns, rest)
  <2>1. PICK j \in 1..Len(ms) :
          ms[j].role = "assistant" /\ j + Len(ms[j].calls) = Len(ms) + Len(calls)
    BY <1>4 DEF Caller
  <2>2. j \in 1..Len(ns) /\ ns[j] = ms[j]
    BY <1>1
  <2>3. j + Len(ns[j].calls) = Len(ns) + Len(rest)
    <3>1. Len(ns) + Len(rest) = Len(ms) + Len(calls)
      BY <1>1, <1>2
    <3>2. QED
      BY <2>1, <2>2, <3>1
  <2>4. QED
    BY <2>1, <2>2, <2>3 DEF Caller
<1>8. QED
  BY <1>5, <1>6, <1>7 DEF Awaits, ns, rest

-----------------------------------------------------------------------------
(* The loop works on a conversation that goes on from the agent's transcript. *)

GoesOn(ms, ns) == Len(ms) <= Len(ns) /\ \A i \in 1..Len(ms) : ns[i] = ms[i]

LEMMA GoesOnWith ==
  ASSUME NEW ms \in Seq(Message), NEW ns \in Seq(Message), NEW m \in Message, GoesOn(ms, ns)
  PROVE  GoesOn(ms, Append(ns, m)) /\ Abstract!IsStrictPrefix(ms, Append(ns, m))
<1> DEFINE os == Append(ns, m)
<1>1. /\ os \in Seq(Message) /\ Len(ms) \in Nat /\ Len(ns) \in Nat /\ Len(os) = Len(ns) + 1
      /\ \A i \in 1..Len(ns) : os[i] = ns[i]
  OBVIOUS
<1> HIDE DEF os
<1>2. \A i \in 1..Len(ms) : i \in 1..Len(ns)
  BY <1>1 DEF GoesOn
<1>3. Len(ms) < Len(os) /\ \A i \in 1..Len(ms) : os[i] = ms[i]
  BY <1>1, <1>2 DEF GoesOn
<1>4. SubSeq(ms, 1, Len(ms)) = SubSeq(os, 1, Len(ms))
  <2>1. SubSeq(ms, 1, Len(ms)) = [i \in 1..Len(ms) |-> ms[i]]
    BY <1>1
  <2>2. SubSeq(os, 1, Len(ms)) = [i \in 1..Len(ms) |-> os[i]]
    BY <1>1, <1>3
  <2>3. QED
    BY <1>3, <2>1, <2>2
<1>5. QED
  BY <1>1, <1>3, <1>4 DEF GoesOn, Abstract!IsStrictPrefix, Abstract!IsPrefix, os

Conversing ==
  /\ LoopTyped
  /\ Complete(messages)
  /\ pc = "model" => Complete(output)
  /\ pc = "tool" => Awaits(output, pending)
  /\ pc # "idle" => GoesOn(messages, output)

LEMMA InitConversing == AgentInit => Conversing
<1> SUFFICES ASSUME AgentInit PROVE Conversing
  OBVIOUS
<1>1. LoopTyped
  BY InitTyped
<1>2. Len(messages) = 0
  BY DEF AgentInit
<1>3. Complete(messages)
  BY <1>2 DEF Complete, Abstract!Answered
<1>4. QED
  BY <1>1, <1>3 DEF AgentInit, Conversing

\* What an action does to the conversation, and which step of AgentTurn it is.
LEMMA PromptConverses ==
  Conversing /\ (\E text \in Texts : Prompt(text)) => Conversing' /\ Abstract!Ask
<1> SUFFICES ASSUME Conversing, NEW text \in Texts, Prompt(text)
             PROVE  Conversing' /\ Abstract!Ask
  OBVIOUS
<1>1. messages \in Seq(Message) /\ Complete(messages) /\ LoopTyped'
  BY PromptTyped DEF Conversing, LoopTyped, AgentTypeOK
<1>2. /\ messages' = Append(messages, UserMessage) /\ output' = messages'
      /\ pc = "idle" /\ pc' = "model"
  BY DEF Prompt
<1>3. UserMessage \in Message /\ UserMessage.role = "user" /\ UserMessage.calls = <<>>
  BY MessagesAre DEF UserMessage
<1>4. messages' \in Seq(Message) /\ Len(messages') = Len(messages) + 1
  BY <1>1, <1>2, <1>3
<1>5. Awaits(messages', <<>>)
  BY <1>1, <1>2, <1>3, NewMessage
<1>6. Complete(messages')
  BY <1>4, <1>5, CompleteIs DEF Awaits
<1>7. GoesOn(messages', messages') /\ GoesOn(messages, messages)
  BY <1>1, <1>4 DEF GoesOn
<1>8. Abstract!IsStrictPrefix(messages, messages')
  BY <1>1, <1>2, <1>3, <1>7, GoesOnWith
<1>9. Abstract!Ask
  BY <1>2, <1>4, <1>8 DEF Abstract!Ask
<1>10. (Complete(messages))' /\ (Complete(output))' /\ GoesOn(messages, output)'
  BY <1>2, <1>6, <1>7 DEF Complete, GoesOn, Abstract!Answered
<1>11. QED
  BY <1>1, <1>2, <1>9, <1>10 DEF Conversing

\* Of two conversations one of which goes on from the transcript, the longer one is
\* taken over when the turn ends.
LEMMA FinishAnswers ==
  ASSUME Conversing, pc # "idle", NEW m \in Message, output' = Append(output, m),
         Finish(output'), Complete(output')
  PROVE  Complete(messages') /\ Abstract!Answer
<1>1. messages' = output' /\ pc' = "idle"
  BY DEF Finish
<1>2. Abstract!IsStrictPrefix(messages, output')
  BY GoesOnWith DEF Conversing, LoopTyped, AgentTypeOK
<1>3. QED
  BY <1>1, <1>2 DEF Abstract!Answer, Complete

LEMMA AnswerConverses == Conversing /\ ModelAnswers => Conversing' /\ Abstract!Answer
<1> SUFFICES ASSUME Conversing, ModelAnswers PROVE Conversing' /\ Abstract!Answer
  OBVIOUS
<1>1. PICK reply \in Replies :
        reply.calls = <<>> /\ output' = Append(output, reply) /\ Finish(output')
  BY DEF ModelAnswers
<1>2. reply \in Message /\ reply.role = "assistant"
  BY RepliesAre DEF Conversing, LoopTyped, AgentTypeOK
<1>3. output \in Seq(Message) /\ Complete(output) /\ LoopTyped' /\ pc # "idle"
  BY ModelTyped DEF Conversing, LoopTyped, AgentTypeOK, ModelAnswers
<1>4. Awaits(output', <<>>)
  BY <1>1, <1>2, <1>3, NewMessage
<1>5. output' \in Seq(Message)
  BY <1>1, <1>2, <1>3
<1>6. Complete(output')
  BY <1>4, <1>5, CompleteIs DEF Awaits
<1>7. Complete(messages') /\ Abstract!Answer
  BY <1>1, <1>2, <1>3, <1>6, FinishAnswers
<1>8. pc' = "idle"
  BY <1>1 DEF Finish
<1>9. QED
  BY <1>3, <1>7, <1>8 DEF Conversing, Complete, Abstract!Answered

LEMMA CallsConverse ==
  Conversing /\ ModelCalls => Conversing' /\ UNCHANGED <<pc # "idle", messages>>
<1> SUFFICES ASSUME Conversing, ModelCalls
             PROVE  Conversing' /\ UNCHANGED <<pc # "idle", messages>>
  OBVIOUS
<1>1. PICK reply \in Replies : output' = Append(output, reply) /\ pending' = reply.calls
  BY DEF ModelCalls
<1>2. reply \in Message /\ reply.role = "assistant"
  BY RepliesAre DEF Conversing, LoopTyped, AgentTypeOK
<1>3. /\ output \in Seq(Message) /\ messages \in Seq(Message) /\ Complete(output)
      /\ GoesOn(messages, output) /\ LoopTyped' /\ pc # "idle"
      /\ messages' = messages /\ pc' = "tool"
  BY ModelTyped DEF Conversing, LoopTyped, AgentTypeOK, ModelCalls
<1>4. Awaits(output', pending')
  BY <1>1, <1>2, <1>3, NewMessage
<1>5. GoesOn(messages, output')
  BY <1>1, <1>2, <1>3, GoesOnWith
<1>6. (Complete(messages))'
  BY <1>3 DEF Conversing, Complete, Abstract!Answered
<1>7. (Awaits(output, pending))' /\ (GoesOn(messages, output))'
  BY <1>3, <1>4, <1>5 DEF Awaits, Paired, Lacks, Caller, GoesOn
<1>8. QED
  BY <1>3, <1>6, <1>7 DEF Conversing

LEMMA RejectConverses == Conversing /\ ModelRejects => Conversing' /\ Abstract!Reject
<1> SUFFICES ASSUME Conversing, ModelRejects PROVE Conversing' /\ Abstract!Reject
  OBVIOUS
<1>1. LoopTyped' /\ pc = "model" /\ pc' = "idle" /\ messages' = messages
  BY ModelTyped DEF Conversing, ModelRejects
<1>2. (Complete(messages))'
  BY <1>1 DEF Conversing, Complete, Abstract!Answered
<1>3. QED
  BY <1>1, <1>2 DEF Conversing, Abstract!Reject

LEMMA ToolConverses ==
  Conversing /\ ToolEnds =>
    Conversing' /\ (Abstract!Answer \/ UNCHANGED <<pc # "idle", messages>>)
<1> SUFFICES ASSUME Conversing, ToolEnds
             PROVE  Conversing' /\ (Abstract!Answer \/ UNCHANGED <<pc # "idle", messages>>)
  OBVIOUS
<1>1. PICK what \in {"output", "error"} :
        output' = Append(output, ResultOf(Head(pending), what))
  BY DEF ToolEnds
<1> DEFINE result == ResultOf(Head(pending), what)
<1>2. /\ output \in Seq(Message) /\ messages \in Seq(Message) /\ LoopTyped'
      /\ pc = "tool" /\ Awaits(output, pending) /\ GoesOn(messages, output)
      /\ pending \in Seq(ToolNames) /\ pending # <<>> /\ pending' = Tail(pending)
  BY ToolTyped, CallListsAre DEF Conversing, LoopTyped, AgentTypeOK, ToolEnds
<1>3. result \in Message /\ result.role = "tool_result" /\ result.tool = Head(pending)
  <2>1. Head(pending) \in ToolNames
    BY <1>2
  <2>2. QED
    BY <2>1, MessagesAre DEF ResultOf
<1> HIDE DEF result
<1>4. output' = Append(output, result)
  BY <1>1 DEF result
<1>5. Awaits(output', Tail(pending))
  BY <1>2, <1>3, <1>4, NewResult
<1>6. output' \in Seq(Message)
  BY <1>2, <1>3, <1>4
<1>7. Tail(pending) = <<>> => Complete(output')
  BY <1>5, <1>6, CompleteIs DEF Awaits
<1>8. CASE Tail(pending) = <<>> /\ iteration' = MaxIterations
  <2>1. Finish(output')
    BY <1>8 DEF ToolEnds
  <2>2. Complete(messages') /\ Abstract!Answer
    BY <1>2, <1>3, <1>4, <1>7, <1>8, <2>1, FinishAnswers
  <2>3. pc' = "idle"
    BY <2>1 DEF Finish
  <2>4. QED
    BY <1>2, <2>2, <2>3 DEF Conversing, Complete, Abstract!Answered
<1>9. CASE ~(Tail(pending) = <<>> /\ iteration' = MaxIterations)
  <2>1. pc' = (IF Tail(pending) = <<>> THEN "model" ELSE "tool") /\ messages' = messages
    BY <1>9 DEF ToolEnds
  <2>2. (Complete(messages))'
    BY <2>1 DEF Conversing, Complete, Abstract!Answered
  <2>3. GoesOn(messages, output')
    BY <1>2, <1>3, <1>4, GoesOnWith
  <2>4. (GoesOn(messages, output))' /\ (Awaits(output, pending))'
    BY <1>2, <1>5, <2>1, <2>3 DEF Awaits, Paired, Lacks, Caller, GoesOn
  <2>5. pc' = "model" => (Complete(output))'
    BY <1>7, <2>1 DEF Complete, Abstract!Answered
  <2>6. QED
    BY <1>2, <2>1, <2>2, <2>4, <2>5 DEF Conversing
<1>10. QED
  BY <1>8, <1>9

LEMMA NextConverses ==
  Conversing /\ [AgentNext]_agentVars =>
    Conversing' /\ [Abstract!Ask \/ Abstract!Answer \/ Abstract!Reject]_(Abstract!turnVars)
<1> SUFFICES ASSUME Conversing, [AgentNext]_agentVars
             PROVE  /\ Conversing'
                    /\ \/ Abstract!Ask \/ Abstract!Answer \/ Abstract!Reject
                       \/ UNCHANGED <<pc # "idle", messages>>
  BY DEF Abstract!turnVars
<1>1. CASE AgentNext
  BY <1>1, PromptConverses, AnswerConverses, CallsConverse, RejectConverses, ToolConverses
  DEF AgentNext, Turn
<1>2. CASE UNCHANGED agentVars
  <2>1. LoopTyped'
    BY <1>2, NextTyped DEF Conversing
  <2>2. QED
    BY <1>2, <2>1 DEF agentVars, Conversing, Complete, Abstract!Answered, Awaits, Paired,
       Lacks, Caller, GoesOn
<1>3. QED
  BY <1>1, <1>2

LEMMA SpecConversing == AgentSpec => []Conversing
<1>1. Conversing /\ [AgentNext]_agentVars => Conversing'
  BY NextConverses
<1>2. QED
  BY <1>1, InitConversing, PTL DEF AgentSpec

\* What the provider is sent when the model is asked is always a complete
\* conversation: one result for every call, at its place.
THEOREM RequestsAlwaysComplete == AgentSpec => []RequestIsComplete
<1>1. Conversing => RequestIsComplete
  BY DEF Conversing, RequestIsComplete, Complete
<1>2. QED
  BY <1>1, SpecConversing, PTL

\* A coding agent is an implementation of AgentTurn: prompts are kept, answered
\* turns extend the transcript by complete exchanges, rejected ones leave it.
THEOREM AgentImplementsTurn == AgentSpec => ImplementsTurn
<1>1. AgentInit => Abstract!TurnInit
  BY DEF AgentInit, Abstract!TurnInit
<1>2. Conversing /\ [AgentNext]_agentVars =>
        [Abstract!Ask \/ Abstract!Answer \/ Abstract!Reject]_(Abstract!turnVars)
  BY NextConverses
<1>3. QED
  BY <1>1, <1>2, SpecConversing, PTL DEF AgentSpec, ImplementsTurn, Abstract!TurnSpec

-----------------------------------------------------------------------------
(* The bound of a turn.  The model's messages after the last message of the   *)
(* user are as many as the iterations that are over, and one more while that  *)
(* one's tools run.                                                            *)

Asked(out, i) == \E j \in i..Len(out) : out[j].role = "user"
Spoken(out, i) == {k \in i..Len(out) : out[k].role = "assistant"}

\* After its last user message, out has at most n messages of the model.
AtMost(out, n) ==
  \A i \in 1..Len(out) : Asked(out, i) \/ Cardinality(Spoken(out, i)) <= n

LEMMA SpokenIsFinite ==
  ASSUME NEW out \in Seq(Message), NEW i \in Nat
  PROVE  IsFiniteSet(Spoken(out, i)) /\ Cardinality(Spoken(out, i)) \in Nat
<1>1. Spoken(out, i) \in SUBSET (i..Len(out)) /\ IsFiniteSet(i..Len(out))
  BY FS_Interval DEF Spoken
<1>2. IsFiniteSet(Spoken(out, i))
  BY <1>1, FS_Subset
<1>3. QED
  BY <1>2, FS_CardinalityType

LEMMA AtMostMore ==
  ASSUME NEW out \in Seq(Message), NEW m \in Int, NEW n \in Int, AtMost(out, m), m <= n
  PROVE  AtMost(out, n)
<1> SUFFICES ASSUME NEW i \in 1..Len(out), ~Asked(out, i)
             PROVE  Cardinality(Spoken(out, i)) <= n
  BY DEF AtMost
<1>1. Cardinality(Spoken(out, i)) <= m
  BY DEF AtMost
<1>2. Cardinality(Spoken(out, i)) \in Nat
  BY SpokenIsFinite
<1>3. QED
  BY <1>1, <1>2

\* A new message of the user begins the count anew.
LEMMA UserBeginsAnew ==
  ASSUME NEW out \in Seq(Message), NEW n
  PROVE  AtMost(Append(out, UserMessage), n)
<1> DEFINE longer == Append(out, UserMessage)
<1>1. longer \in Seq(Message) /\ Len(longer) = Len(out) + 1 /\ longer[Len(out) + 1] = UserMessage
  BY MessagesAre
<1>2. UserMessage.role = "user"
  BY DEF UserMessage
<1> HIDE DEF longer
<1>3. \A i \in 1..Len(longer) : Asked(longer, i)
  BY <1>1, <1>2 DEF Asked
<1>4. QED
  BY <1>3 DEF AtMost, longer

\* A message of the model counts as one, a result as none.
LEMMA MessageCounts ==
  ASSUME NEW out \in Seq(Message), NEW m \in Message, NEW n \in Nat, AtMost(out, n),
         m.role \in {"assistant", "tool_result"}
  PROVE  AtMost(Append(out, m), IF m.role = "assistant" THEN n + 1 ELSE n)
<1> DEFINE longer == Append(out, m)
           last == Len(out) + 1
<1>1. longer \in Seq(Message) /\ Len(longer) = last /\ longer[last] = m /\ last \in Nat
      /\ \A j \in 1..Len(out) : longer[j] = out[j]
  OBVIOUS
<1> HIDE DEF longer, last
<1> SUFFICES ASSUME NEW i \in 1..last, ~Asked(longer, i)
             PROVE  Cardinality(Spoken(longer, i)) <= IF m.role = "assistant" THEN n + 1 ELSE n
  BY <1>1 DEF AtMost, longer
<1>2. CASE i = last
  <2>1. Spoken(longer, i) \subseteq {last} /\ (m.role # "assistant" => Spoken(longer, i) = {})
    BY <1>1, <1>2 DEF Spoken
  <2>2. Cardinality({last}) = 1 /\ Cardinality({}) = 0
    BY FS_Singleton, FS_EmptySet
  <2>3. Spoken(longer, i) = {} \/ Spoken(longer, i) = {last}
    BY <2>1
  <2>4. m.role = "assistant" => n + 1 >= 1
    OBVIOUS
  <2>5. CASE Spoken(longer, i) = {}
    BY <2>2, <2>5
  <2>6. CASE Spoken(longer, i) = {last}
    <3>1. m.role = "assistant"
      BY <2>1, <2>6
    <3>2. Cardinality(Spoken(longer, i)) = 1
      BY <2>2, <2>6
    <3>3. QED
      BY <2>4, <3>1, <3>2
  <2>7. QED
    BY <2>3, <2>5, <2>6
<1>3. CASE i # last
  <2>1. i \in 1..Len(out) /\ Len(out) \in Nat /\ last = Len(out) + 1
    BY <1>3 DEF last
  <2>2. ~Asked(out, i)
    BY <1>1, <2>1 DEF Asked
  <2>3. Cardinality(Spoken(out, i)) <= n
    BY <2>1, <2>2 DEF AtMost
  <2>4. IsFiniteSet(Spoken(out, i)) /\ Cardinality(Spoken(out, i)) \in Nat
    BY <2>1, SpokenIsFinite
  <2>5. Spoken(longer, i) = IF m.role = "assistant" THEN Spoken(out, i) \cup {last}
                            ELSE Spoken(out, i)
    BY <1>1, <2>1 DEF Spoken
  <2>6. Cardinality(Spoken(out, i) \cup {last}) =
          IF last \in Spoken(out, i) THEN Cardinality(Spoken(out, i))
          ELSE Cardinality(Spoken(out, i)) + 1
    BY <2>4, FS_AddElement, Zenon
  <2>7. /\ Cardinality(Spoken(out, i) \cup {last}) \in Nat
        /\ Cardinality(Spoken(out, i) \cup {last}) <= Cardinality(Spoken(out, i)) + 1
    BY <2>4, <2>6
  <2>8. QED
    BY <2>3, <2>4, <2>5, <2>6, <2>7
<1>4. QED
  BY <1>2, <1>3

-----------------------------------------------------------------------------
(* The inductive invariant. *)

Counted ==
  /\ LoopTyped
  /\ AtMost(output, CASE pc = "model" -> iteration
                      [] pc = "tool"  -> iteration + 1
                      [] pc = "idle"  -> MaxIterations)

LEMMA InitCounted == AgentInit => Counted
  BY InitTyped DEF AgentInit, Counted, AtMost

LEMMA PromptCounted == Counted /\ (\E text \in Texts : Prompt(text)) => Counted'
<1> SUFFICES ASSUME Counted, NEW text \in Texts, Prompt(text) PROVE Counted'
  OBVIOUS
<1>1. LoopTyped' /\ messages \in Seq(Message)
  BY PromptTyped DEF Counted, LoopTyped, AgentTypeOK
<1>2. AtMost(output', 0)
  BY <1>1, UserBeginsAnew DEF Prompt
<1>3. QED
  BY <1>1, <1>2 DEF Counted, Prompt, AtMost, Asked, Spoken

LEMMA ModelCounted == Counted /\ (ModelAnswers \/ ModelCalls \/ ModelRejects) => Counted'
<1> SUFFICES ASSUME Counted, ModelAnswers \/ ModelCalls \/ ModelRejects PROVE Counted'
  OBVIOUS
<1>1. /\ LoopTyped' /\ output \in Seq(Message) /\ iteration \in Nat /\ iteration < MaxIterations
      /\ MaxIterations \in Nat /\ AtMost(output, iteration)
  BY ModelTyped, ToolTypes
     DEF Counted, LoopTyped, AgentTypeOK, ModelAnswers, ModelCalls, ModelRejects
<1>2. CASE ModelAnswers \/ ModelCalls
  <2>1. PICK reply \in Replies : output' = Append(output, reply)
    BY <1>2 DEF ModelAnswers, ModelCalls
  <2>2. reply \in Message /\ reply.role = "assistant"
    BY RepliesAre DEF Counted, LoopTyped, AgentTypeOK
  <2>3. AtMost(output', iteration + 1) /\ output' \in Seq(Message)
    BY <1>1, <2>1, <2>2, MessageCounts
  <2>4. AtMost(output', MaxIterations)
    BY <1>1, <2>3, AtMostMore
  <2>5. /\ iteration' = iteration
        /\ pc' \in {"idle", "tool"}
    BY <1>2 DEF ModelAnswers, ModelCalls, Finish
  <2>6. QED
    BY <1>1, <2>3, <2>4, <2>5 DEF Counted, AtMost, Asked, Spoken
<1>3. CASE ModelRejects
  <2>1. AtMost(output, MaxIterations)
    BY <1>1, AtMostMore
  <2>2. output' = output /\ pc' = "idle"
    BY <1>3 DEF ModelRejects
  <2>3. QED
    BY <1>1, <2>1, <2>2 DEF Counted, AtMost, Asked, Spoken
<1>4. QED
  BY <1>2, <1>3

LEMMA ToolCounted == Counted /\ ToolEnds => Counted'
<1> SUFFICES ASSUME Counted, ToolEnds PROVE Counted'
  OBVIOUS
<1>1. /\ LoopTyped' /\ output \in Seq(Message) /\ iteration \in Nat /\ iteration < MaxIterations
      /\ MaxIterations \in Nat /\ AtMost(output, iteration + 1)
      /\ pending \in Seq(ToolNames) /\ pending # <<>>
  <2>1. LoopTyped' /\ pc = "tool" /\ pending \in CallLists
    BY ToolTyped DEF Counted, LoopTyped, AgentTypeOK, ToolEnds
  <2>2. AtMost(output, iteration + 1)
    BY <2>1 DEF Counted
  <2>3. QED
    BY <2>1, <2>2, ToolTypes, CallListsAre DEF Counted, LoopTyped, AgentTypeOK
<1>2. PICK what \in {"output", "error"} : output' = Append(output, ResultOf(Head(pending), what))
  BY DEF ToolEnds
<1> DEFINE result == ResultOf(Head(pending), what)
<1>3. result \in Message /\ result.role = "tool_result"
  <2>1. Head(pending) \in ToolNames
    BY <1>1
  <2>2. QED
    BY <2>1, MessagesAre DEF ResultOf
<1> HIDE DEF result
<1>4. output' = Append(output, result)
  BY <1>2 DEF result
<1>5. AtMost(output', iteration + 1) /\ output' \in Seq(Message)
  BY <1>1, <1>3, <1>4, MessageCounts
<1>6. AtMost(output', MaxIterations)
  BY <1>1, <1>5, AtMostMore
<1>7. \/ pc' = "idle"
      \/ pc' = "model" /\ iteration' = iteration + 1
      \/ pc' = "tool" /\ iteration' = iteration
  BY DEF ToolEnds, Finish
<1>8. QED
  BY <1>1, <1>5, <1>6, <1>7 DEF Counted, AtMost, Asked, Spoken

LEMMA NextCounted == Counted /\ [AgentNext]_agentVars => Counted'
<1> SUFFICES ASSUME Counted, [AgentNext]_agentVars PROVE Counted'
  OBVIOUS
<1>1. CASE AgentNext
  BY <1>1, PromptCounted, ModelCounted, ToolCounted DEF AgentNext, Turn
<1>2. CASE UNCHANGED agentVars
  <2>1. LoopTyped'
    BY <1>2, NextTyped DEF Counted
  <2>2. QED
    BY <1>2, <2>1 DEF agentVars, Counted, AtMost, Asked, Spoken
<1>3. QED
  BY <1>1, <1>2

\* However often its model calls tools, a turn asks it no more than MaxIterations
\* times, also when it ends on a result or on an error of the provider.  How many tools
\* run is not bounded: one message may call any number of them.
THEOREM TurnsAlwaysBounded == AgentSpec => []TurnIsBounded
<1>1. Counted => TurnIsBounded
  <2> SUFFICES ASSUME Counted PROVE TurnIsBounded
    OBVIOUS
  <2>1. /\ output \in Seq(Message) /\ iteration \in Nat /\ MaxIterations \in Nat
        /\ pc \in {"idle", "model", "tool"} /\ (pc # "idle" => iteration < MaxIterations)
    BY ToolTypes DEF Counted, LoopTyped, AgentTypeOK
  <2>2. \E n \in Int : n <= MaxIterations /\ AtMost(output, n)
    <3>1. CASE pc = "idle"
      BY <2>1, <3>1 DEF Counted
    <3>2. CASE pc = "model"
      BY <2>1, <3>2 DEF Counted
    <3>3. CASE pc = "tool"
      BY <2>1, <3>3 DEF Counted
    <3>4. QED
      BY <2>1, <3>1, <3>2, <3>3
  <2>3. AtMost(output, MaxIterations)
    BY <2>1, <2>2, AtMostMore
  <2>4. QED
    BY <2>3 DEF AtMost, Asked, Spoken, TurnIsBounded
<1>2. QED
  BY <1>1, InitCounted, NextCounted, PTL DEF AgentSpec
=============================================================================
