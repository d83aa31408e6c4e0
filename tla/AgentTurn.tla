------------------------------ MODULE AgentTurn ------------------------------
(***************************************************************************)
(* What the runtime relies on when it prompts a coding agent: the prompt   *)
(* is kept, then the turn is either answered, which extends the transcript *)
(* by complete exchanges, or rejected, which leaves the transcript alone.  *)
(***************************************************************************)
EXTENDS Sequences, SequencesExt, Naturals

VARIABLES
  working,      \* a prompt is being worked on
  transcript    \* the agent's messages

turnVars == <<working, transcript>>

\* Every call of an assistant is answered by results that follow it at once, one
\* per call and in the order of the calls, and there are no other results.
Answered(messages) ==
  \A i \in 1..Len(messages) :
    LET m == messages[i]
    IN  /\ m.role = "assistant" =>
             \A k \in 1..Len(m.calls) :
               /\ i + k <= Len(messages)
               /\ messages[i + k].role = "tool_result"
               /\ messages[i + k].tool = m.calls[k]
        /\ m.role = "tool_result" =>
             \E j \in 1..(i - 1) :
               messages[j].role = "assistant" /\ i <= j + Len(messages[j].calls)

TurnInit == ~working /\ transcript = <<>>

Ask ==
  /\ ~working /\ working'
  /\ IsStrictPrefix(transcript, transcript')
  /\ Len(transcript') = Len(transcript) + 1

Answer ==
  /\ working /\ ~working'
  /\ IsStrictPrefix(transcript, transcript')
  /\ Answered(transcript')

Reject == working /\ ~working' /\ UNCHANGED transcript

TurnSpec == TurnInit /\ [][Ask \/ Answer \/ Reject]_turnVars

\* A prompt does not stay unanswered for ever.
PromptReturns == working ~> ~working
=============================================================================
