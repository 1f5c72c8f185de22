------------------------------- MODULE ModelWire -------------------------------
(***************************************************************************)
(* The request that a conversation becomes in the protocol of a model      *)
(* service (build_request of openjax-core/src/model/anthropic_messages.rs  *)
(* and chat_completions.rs), and what the service can read in it.          *)
(*                                                                         *)
(* A message is a role with blocks: texts, thoughts, tool calls and        *)
(* results of tool calls. A text is a sequence of pieces.                  *)
(***************************************************************************)
EXTENDS Integers, SequencesExt

TextBlock(text)     == [kind |-> "text", text |-> text]
ThoughtBlock(text)  == [kind |-> "reasoning", text |-> text]
CallBlock(call)     == [kind |-> "tool_use", call |-> call]
ResultBlock(id, ok) == [kind |-> "tool_result", of |-> id, ok |-> ok]

User(blocks)      == [role |-> "user", blocks |-> blocks]
Assistant(blocks) == [role |-> "assistant", blocks |-> blocks]

OfKind(blocks, kind) == SelectSeq(blocks, LAMBDA b : b.kind = kind)

Joined(texts) == FlattenSeq([i \in DOMAIN texts |-> texts[i].text])

Unless(condition, s) == IF condition THEN <<>> ELSE s

\* assistant_history_blocks: the thoughts of the answer go in front of its contents.
AnswerMessage(thought, text, calls) ==
  Assistant(Unless(thought = <<>>, <<ThoughtBlock(thought)>>)
            \o Unless(text = <<>>, <<TextBlock(text)>>)
            \o [i \in DOMAIN calls |-> CallBlock(calls[i])])

-----------------------------------------------------------------------------
(* Anthropic: a message for a message and a block for a block *)

AnthropicKind(kind) == IF kind = "reasoning" THEN "thinking" ELSE kind

AnthropicMessages(messages) ==
  LET content(blocks) == [i \in DOMAIN blocks |-> [blocks[i] EXCEPT !.kind = AnthropicKind(@)]]
  IN  [i \in DOMAIN messages |->
         [role |-> messages[i].role, content |-> content(messages[i].blocks)]]

-----------------------------------------------------------------------------
(* Chat completions: texts and calls in fields of a message, results in messages of their own *)

\* Fields that a message leaves out are empty.
ChatMessage(role, content, calls, of) ==
  [role |-> role, content |-> content, tool_calls |-> calls, tool_call_id |-> of]

NoCall == 0

ChatOfUser(blocks) ==
  LET texts == OfKind(blocks, "text")
      results == OfKind(blocks, "tool_result")
  IN  Unless(texts = <<>>, <<ChatMessage("user", Joined(texts), <<>>, NoCall)>>)
      \o [i \in DOMAIN results |-> ChatMessage("tool", <<>>, <<>>, results[i].of)]

\* Variant: a message has a text or calls.
ChatOfAssistantEither(blocks) ==
  LET uses == OfKind(blocks, "tool_use")
      text == Joined(OfKind(blocks, "text"))
  IN  <<ChatMessage("assistant", Unless(uses # <<>>, text),
                    [i \in DOMAIN uses |-> uses[i].call], NoCall)>>

\* The thoughts stay behind.
ChatOfAssistant(blocks) ==
  LET uses == OfKind(blocks, "tool_use")
  IN  <<ChatMessage("assistant", Joined(OfKind(blocks, "text")),
                    [i \in DOMAIN uses |-> uses[i].call], NoCall)>>

SystemText == <<"system">>

ChatMessages(messages) ==
  LET chat(m) == IF m.role = "user" THEN ChatOfUser(m.blocks) ELSE ChatOfAssistant(m.blocks)
  IN  <<ChatMessage("system", SystemText, <<>>, NoCall)>>
      \o FlattenSeq([i \in DOMAIN messages |-> chat(messages[i])])

-----------------------------------------------------------------------------
(* What a service can read in a request: texts, calls and results, in order *)

Said(role, text) == Unless(text = <<>>, <<[role |-> role, said |-> text]>>)
Called(calls) == [i \in DOMAIN calls |-> [role |-> "assistant", calls |-> calls[i]]]
Answered(id) == <<[role |-> "user", answers |-> id]>>

ToldByAnthropic(request) ==
  LET told(role, b) ==
        CASE b.kind = "text" -> Said(role, b.text)
          [] b.kind = "tool_use" -> Called(<<b.call>>)
          [] b.kind = "tool_result" -> Answered(b.of)
          [] OTHER -> <<>>
      ofMessage(m) == FlattenSeq([i \in DOMAIN m.content |-> told(m.role, m.content[i])])
  IN  FlattenSeq([i \in DOMAIN request |-> ofMessage(request[i])])

ToldByChat(request) ==
  LET told(m) ==
        CASE m.role = "tool" -> Answered(m.tool_call_id)
          [] m.role = "system" -> <<>>
          [] OTHER -> Said(m.role, m.content) \o Called(m.tool_calls)
  IN  FlattenSeq([i \in DOMAIN request |-> told(request[i])])
=============================================================================
