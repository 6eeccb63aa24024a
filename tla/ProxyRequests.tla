---------------------------- MODULE ProxyRequests ----------------------------
(***************************************************************************)
(* The conversation a proxy translates on every request: the history Claude *)
(* Code sends (proxy/data_models.py) becomes OpenAI messages                *)
(* (convert_anthropic_to_openai), core messages (client_adapter.py) and     *)
(* either chat messages or the items of the Responses API                   *)
(* (core/llm/clients/litellm.py); the answer comes back the same way        *)
(* (convert_openai_to_anthropic) and is part of the next history.           *)
(*                                                                          *)
(* A block is [kind, id]: a text, an image, a thinking block, a tool call   *)
(* ("use") or the result of one.  Ids name texts as well as tool calls.     *)
(***************************************************************************)
EXTENDS Integers, Sequences, FiniteSets, SequencesExt

CONSTANTS
  MaxHistory,      \* blocks of one history
  MaxMessages     \* messages of one history

ASSUME ProxyRequestsAssumption == MaxHistory \in Nat /\ MaxMessages \in Nat

VARIABLES
  history         \* what Claude Code has in its transcript

requestVars == <<history>>

Block(kind, id) == [kind |-> kind, id |-> id]
Message(role, blocks) == [role |-> role, blocks |-> blocks]

----------------------------------------------------------------------------
(* Anthropic to OpenAI.  One message becomes the messages of out: the       *)
(* results of a user message each their own, in between what was collected. *)

OpenAI(role, content, calls, id) == [role |-> role, content |-> content, calls |-> calls, id |-> id]

NothingYet == [out |-> <<>>, content |-> <<>>, calls |-> <<>>, results |-> FALSE]

Flush(acc) ==
  IF acc.content = <<>> THEN acc
  ELSE [acc EXCEPT !.out = Append(@, OpenAI("user", acc.content, <<>>, 0)), !.content = <<>>]

(* As if the other results of a message were skipped after the first.       *)
OnFirstResult(acc, block) ==
  IF acc.results THEN acc
  ELSE [Flush(acc) EXCEPT !.out = Append(@, OpenAI("tool", <<>>, <<>>, block.id)), !.results = TRUE]

OnResult(acc, block) ==
  [Flush(acc) EXCEPT !.out = Append(@, OpenAI("tool", <<>>, <<>>, block.id)), !.results = TRUE]

ConvertBlock(role, acc, block) ==
  CASE block.kind = "text" -> [acc EXCEPT !.content = Append(@, block.id)]
    [] block.kind = "image" /\ role = "user" -> [acc EXCEPT !.content = Append(@, block.id)]
    [] block.kind = "use" /\ role = "assistant" -> [acc EXCEPT !.calls = Append(@, block.id)]
    [] block.kind = "result" /\ role = "user" -> OnResult(acc, block)
    [] OTHER -> acc

(* What the blocks of a message come to, one after the other.               *)
Collected(role, blocks) ==
  LET acc[i \in 0 .. Len(blocks)] == IF i = 0 THEN NothingYet ELSE ConvertBlock(role, acc[i - 1], blocks[i])
  IN acc[Len(blocks)]

(* Without results the message is kept whole; an assistant message keeps    *)
(* its place though nothing of it is left, a user message does not.         *)
ConvertMessage(message) ==
  LET acc == Collected(message.role, message.blocks)
  IN IF acc.results THEN Flush(acc).out
     ELSE IF acc.content = <<>> /\ acc.calls = <<>> /\ message.role = "user" THEN <<>>
     ELSE <<OpenAI(message.role, acc.content, acc.calls, 0)>>

convert_anthropic_to_openai == FlattenSeq([i \in DOMAIN history |-> ConvertMessage(history[i])])

----------------------------------------------------------------------------
(* Items of the Responses API: an assistant message is its text, unless it  *)
(* has none but calls, followed by its calls.                               *)

Item(kind, content, id) == [kind |-> kind, content |-> content, id |-> id]

(* As if the calls of an assistant message were dropped beside a text.      *)
ToItemsTextOnly(message) ==
  CASE message.role = "tool" -> <<Item("function_call_output", <<>>, message.id)>>
    [] message.role = "assistant" /\ message.content # <<>> -> <<Item("assistant", message.content, 0)>>
    [] message.role = "assistant" -> [i \in DOMAIN message.calls |-> Item("function_call", <<>>, message.calls[i])]
    [] OTHER -> <<Item(message.role, message.content, 0)>>

ToItems(message) ==
  CASE message.role = "tool" -> <<Item("function_call_output", <<>>, message.id)>>
    [] message.role = "assistant" ->
         (IF message.content = <<>> /\ message.calls # <<>> THEN <<>> ELSE <<Item("assistant", message.content, 0)>>)
           \o [i \in DOMAIN message.calls |-> Item("function_call", <<>>, message.calls[i])]
    [] OTHER -> <<Item(message.role, message.content, 0)>>

convert_messages_for_responses(messages) == FlattenSeq([i \in DOMAIN messages |-> ToItems(messages[i])])

----------------------------------------------------------------------------
(* OpenAI to Anthropic: the text, if any, then the calls; an answer with    *)
(* neither gets an empty text, which later conversions do not count as      *)
(* content.                                                                 *)

AnthropicBlocks(text, calls) ==
  (IF text = 0 THEN <<>> ELSE <<Block("text", text)>>)
    \o [i \in DOMAIN calls |-> Block("use", calls[i])]

----------------------------------------------------------------------------
(* The history grows as Claude Code makes it grow: a user message, or the   *)
(* results of all calls of the last answer, in any order and followed by    *)
(* texts; an answer.  Thinking blocks come from transcripts of other models.*)

Blocks == FlattenSeq([i \in DOMAIN history |-> history[i].blocks])
NumBlocks == Len(Blocks)

RequestInit == history = <<>>

LastCalls ==
  IF history = <<>> THEN {}
  ELSE {b.id : b \in {c \in Range(Last(history).blocks) : c.kind = "use"}}

UserTurn(kinds) ==
  /\ Len(history) < MaxMessages /\ LastCalls = {}
  /\ NumBlocks + Len(kinds) <= MaxHistory
  /\ (history # <<>> => Last(history).role = "assistant")
  /\ history' = Append(history, Message("user", [i \in DOMAIN kinds |-> Block(kinds[i], NumBlocks + i)]))

ToolResults(order, kinds) ==
  /\ Len(history) < MaxMessages /\ LastCalls # {} /\ order \in SetToSeqs(LastCalls)
  /\ NumBlocks + Len(kinds) <= MaxHistory
  /\ history' = Append(history, Message("user",
       [i \in DOMAIN order |-> Block("result", order[i])]
         \o [i \in DOMAIN kinds |-> Block(kinds[i], NumBlocks + i)]))

(* An answer through the proxy: text and calls as convert_openai_to_anthropic *)
(* hands them over.                                                           *)
AnswerTurn(text, calls) ==
  /\ Len(history) < MaxMessages /\ history # <<>> /\ Last(history).role = "user"
  /\ NumBlocks + calls + 1 <= MaxHistory
  /\ LET t == IF text THEN NumBlocks + 1 ELSE 0
         c == [i \in 1 .. calls |-> NumBlocks + 1 + i]
     IN history' = Append(history, Message("assistant", AnthropicBlocks(t, c)))

(* A turn of another model, resumed through the proxy: thinking first, text *)
(* and calls mixed.                                                         *)
ForeignTurn(kinds) ==
  /\ Len(history) < MaxMessages /\ history # <<>> /\ Last(history).role = "user"
  /\ NumBlocks + Len(kinds) <= MaxHistory
  /\ history' = Append(history, Message("assistant", [i \in DOMAIN kinds |-> Block(kinds[i], NumBlocks + i)]))

UserKinds == UNION {[1 .. n -> {"text", "image"}] : n \in 0 .. 2}
ForeignKinds == UNION {[1 .. n -> {"thinking", "text", "use"}] : n \in 1 .. 3}

RequestNext ==
  \/ \E kinds \in UserKinds : UserTurn(kinds)
  \/ \E kinds \in UserKinds : \E order \in SetToSeqs(LastCalls) : ToolResults(order, kinds)
  \/ \E text \in BOOLEAN, calls \in 0 .. 2 : AnswerTurn(text, calls)
  \/ \E kinds \in ForeignKinds : ForeignTurn(kinds)

----------------------------------------------------------------------------
(* Histories and their translations have their type.                        *)
RequestTypeOK ==
  /\ Len(history) <= MaxMessages
  /\ \A message \in Range(convert_anthropic_to_openai) :
       /\ message.role \in {"user", "assistant", "tool"}
       /\ message.id # 0 <=> message.role = "tool"
       /\ message.calls # <<>> => message.role = "assistant"

(* The backend accepts the translation: the results of tool calls follow    *)
(* the message that made the calls, nothing in between, and every call that *)
(* has a result in the history has exactly one in the translation.          *)
ResultsFollowTheirCalls ==
  LET messages == convert_anthropic_to_openai
      caller(i) == CHOOSE j \in 1 .. i - 1 :
                     messages[j].role # "tool" /\ \A k \in j + 1 .. i - 1 : messages[k].role = "tool"
  IN /\ \A i \in DOMAIN messages :
          messages[i].role = "tool" =>
            messages[caller(i)].role = "assistant" /\ messages[i].id \in Range(messages[caller(i)].calls)
     /\ \A i \in DOMAIN messages : \A id \in Range(messages[i].calls) :
          LET results == {j \in DOMAIN messages : messages[j].role = "tool" /\ messages[j].id = id}
          IN Cardinality(results) = IF id \in LastCalls THEN 0 ELSE 1

(* The ids of what is of some kinds, in order.                              *)
Said(s, kinds) == FlattenSeq([i \in DOMAIN s |-> IF s[i].kind \in kinds THEN <<s[i].id>> ELSE <<>>])

(* Nothing said is lost or reordered on the way to the Responses API: texts *)
(* and images, and calls and their results, are the ones of the history in  *)
(* the same order; only thinking is stripped.                               *)
NothingSaidIsLost ==
  LET items == convert_messages_for_responses(convert_anthropic_to_openai)
  IN /\ FlattenSeq([i \in DOMAIN items |-> items[i].content]) = Said(Blocks, {"text", "image"})
     /\ Said(items, {"function_call", "function_call_output"}) = Said(Blocks, {"use", "result"})

(* A history reaches the model as it is: in an order the backend accepts,   *)
(* with all that was said in it.                                            *)
HistoryIsTranslated == RequestTypeOK /\ ResultsFollowTheirCalls /\ NothingSaidIsLost
=============================================================================
