----------------------------- MODULE ProxyStream -----------------------------
(***************************************************************************)
(* One streamed answer on its way through the proxy: the chunks of the      *)
(* backend become events in core/llm/clients/litellm.py (stream), OpenAI    *)
(* chunks in proxy/client_adapter.py (create_streaming_completion) and SSE  *)
(* events of the Anthropic protocol in proxy/converters.py                  *)
(* (convert_openai_to_anthropic_sse), whose end is recorded by the metrics  *)
(* callback of proxy/server.py.  The generators pull, so one chunk is       *)
(* converted to the end before the next one is asked for.                   *)
(***************************************************************************)
EXTENDS Integers, Sequences, FiniteSets, Functions, FiniteSetsExt, SequencesExt

CONSTANTS
  MaxTools,     \* tool calls of one answer
  MaxChunks     \* chunks of one answer

ASSUME ProxyStreamAssumption == MaxTools \in Nat /\ MaxChunks \in Nat

VARIABLES
  backend,      \* the answer as the backend sends it
  sse,          \* state of the converter and what it has sent
  recorded      \* what the metrics callback was called with

streamVars == <<backend, sse, recorded>>

Nameless == -1                    \* a buffered tool call whose name is awaited
NoUsage == 0
SomeUsage == 1

EmptyBuffer == <<>>               \* no tool call seen

----------------------------------------------------------------------------
(* The converter.  closed[b] counts the content_block_stop events of block  *)
(* b; blocks are numbered in the order of their content_block_start.        *)

Sse0 == [blocks |-> <<>>, closed |-> <<>>, current |-> "none", text |-> FALSE, buffer |-> EmptyBuffer,
         usage |-> NoUsage, nullStops |-> 0, strays |-> 0, finish |-> "none", sent |-> "start",
         failed |-> FALSE]

Start(s, kind) ==
  [s EXCEPT !.blocks = Append(@, kind), !.closed = Append(@, 0), !.current = kind]

\* Mutant: the lowest block is stopped as the last.
FirstToolBlock(s) == s.buffer[Min(DOMAIN s.buffer)]

(* Only the block of the highest index is ever stopped as "the" tool block. *)
LastToolBlock(s) == s.buffer[Max(DOMAIN s.buffer)]

StopTool(s) ==
  LET b == LastToolBlock(s)
  IN IF b = Nameless THEN [s EXCEPT !.nullStops = @ + 1] ELSE [s EXCEPT !.closed[b] = @ + 1]

StopText(s) == [s EXCEPT !.closed[Len(s.blocks)] = @ + 1]

OnText(s) ==
  LET s1 == IF s.current = "tool_use" THEN [StopTool(s) EXCEPT !.current = "none"] ELSE s
  IN IF s1.text THEN s1 ELSE [Start(s1, "text") EXCEPT !.text = TRUE]

LeaveText(s) ==
  IF s.current = "text" /\ s.text
    THEN [StopText(s) EXCEPT !.current = "none", !.text = FALSE] ELSE s

Buffered(s, i, b) == [s EXCEPT !.buffer = [j \in DOMAIN @ \cup {i} |-> IF j = i THEN b ELSE @[j]]]

(* As if the block of the call before were stopped when a call starts.      *)
IntroduceStopping(s, d) ==
  LET t == IF s.current = "tool_use" /\ d.index \notin DOMAIN s.buffer /\ d.id /\ d.name
             THEN StopTool(s) ELSE s
  IN IF d.index \notin DOMAIN s.buffer /\ d.id /\ d.name
       THEN LET u == Start(t, "tool_use") IN Buffered(u, d.index, Len(u.blocks)) ELSE s

(* A tool block starts once id and name are known; the name may come later. *)
Introduce(s, d) ==
  IF d.index \notin DOMAIN s.buffer
    THEN IF d.id /\ d.name THEN LET t == Start(s, "tool_use") IN Buffered(t, d.index, Len(t.blocks))
         ELSE IF d.id THEN Buffered(s, d.index, Nameless)
         ELSE s
    ELSE IF d.name /\ d.id /\ s.buffer[d.index] = Nameless
         THEN LET t == Start(s, "tool_use") IN Buffered(t, d.index, Len(t.blocks))
         ELSE s

Arguments(s, d) ==
  IF /\ d.args /\ d.index \in DOMAIN s.buffer /\ s.buffer[d.index] # Nameless
     /\ s.closed[s.buffer[d.index]] > 0
    THEN [s EXCEPT !.strays = @ + 1] ELSE s

OnTool(s, d) == Arguments(Introduce(LeaveText(s), d), d)

(* The end of the loop, with or without a finish reason.                    *)
Finish(s) ==
  LET t == CASE s.current = "text" /\ s.text -> StopText(s)
             [] s.current = "tool_use" /\ LastToolBlock(s) # Nameless -> StopTool(s)
             [] OTHER -> s
  IN [t EXCEPT !.sent = "message_stop"]

OnError(s) == [s EXCEPT !.sent = "error", !.failed = TRUE]

(* Chunks of the adapter: once a finish reason or an error has been handled *)
(* nothing more is read.                                                    *)
Convert(s, event) ==
  IF s.sent # "start" THEN s
  ELSE CASE event.type = "text"  -> OnText(s)
         [] event.type = "tool"  -> OnTool(s, event)
         [] event.type = "usage" -> [s EXCEPT !.usage = SomeUsage]
         [] event.type = "end"   -> Finish([s EXCEPT !.finish = event.reason])
         [] event.type = "error" -> OnError(s)

----------------------------------------------------------------------------
(* The client and the adapter: usage is kept until the last chunk, and the  *)
(* finish reason is tool_calls exactly when a tool call was seen.           *)

Text == [type |-> "text"]
ToolDelta(i, id, name, args) == [type |-> "tool", index |-> i, id |-> id, name |-> name, args |-> args]
ErrorEvent == [type |-> "error"]

UsageEvent == [type |-> "usage"]
EndEvent == [type |-> "end", reason |-> IF backend.tools = 0 THEN "stop" ELSE "tool_calls"]

ConvertUsage(s) == IF backend.usage = NoUsage THEN s ELSE Convert(s, UsageEvent)

\* Mutant: the end before the usage.
ConvertEndSwapped(s) == ConvertUsage(Convert(s, EndEvent))

ConvertEnd(s) == Convert(ConvertUsage(s), EndEvent)

----------------------------------------------------------------------------
(* What on_complete is called with in the finally clause.                   *)
NotRecorded == [times |-> 0, failed |-> FALSE, usage |-> NoUsage]
Record(s) == [times |-> recorded.times + 1, failed |-> s.failed, usage |-> s.usage]

(* The chunks of the backend: tool calls are numbered in order, a call is   *)
(* introduced with its id, its name with it or in the next delta of it.     *)

BackendInit == [tools |-> 0, named |-> {}, lateNames |-> FALSE, resumed |-> FALSE, usage |-> NoUsage, chunks |-> 0]

StreamInit == backend = BackendInit /\ sse = Sse0 /\ recorded = NotRecorded

Streaming == sse.sent = "start" /\ recorded = NotRecorded /\ backend.chunks < MaxChunks

TextChunk ==
  /\ Streaming
  /\ backend' = [backend EXCEPT !.chunks = @ + 1, !.resumed = @ \/ backend.tools > 0]
  /\ sse' = Convert(sse, Text)
  /\ UNCHANGED recorded

NewToolChunk(name, args) ==
  /\ Streaming /\ backend.tools < MaxTools
  /\ backend' = [backend EXCEPT !.chunks = @ + 1, !.tools = @ + 1, !.lateNames = @ \/ ~name,
                                !.named = IF name THEN @ \cup {backend.tools} ELSE @]
  /\ sse' = Convert(sse, ToolDelta(backend.tools, TRUE, name, args))
  /\ UNCHANGED recorded

LateNameChunk(i, withId) ==
  /\ Streaming /\ i \notin backend.named
  /\ backend' = [backend EXCEPT !.chunks = @ + 1, !.named = @ \cup {i}]
  /\ sse' = Convert(sse, ToolDelta(i, withId, TRUE, TRUE))
  /\ UNCHANGED recorded

ArgumentsChunk(i) ==
  /\ Streaming /\ i \in backend.named
  /\ backend' = [backend EXCEPT !.chunks = @ + 1]
  /\ sse' = Convert(sse, ToolDelta(i, FALSE, FALSE, TRUE))
  /\ UNCHANGED recorded

(* The last chunk of the backend carries the usage; the proxy only hands it *)
(* on when the stream has ended.                                            *)
UsageChunk ==
  /\ Streaming /\ backend.usage = NoUsage
  /\ backend' = [backend EXCEPT !.usage = SomeUsage, !.chunks = @ + 1]
  /\ UNCHANGED <<sse, recorded>>

Ends == sse.sent = "start" /\ recorded = NotRecorded

BackendEnds ==
  /\ Ends
  /\ sse' = ConvertEnd(sse)
  /\ UNCHANGED <<backend, recorded>>

(* An error of the backend is an event, which the adapter raises and        *)
(* stream_generator turns into an error chunk: no message_stop follows.     *)
BackendFails ==
  /\ Ends
  /\ sse' = Convert(sse, ErrorEvent)
  /\ UNCHANGED <<backend, recorded>>

(* Credentials that are missing raise before the first event, an answer the *)
(* converter cannot handle in its midst: error and message_stop.            *)
ConverterRaises ==
  /\ Ends
  /\ sse' = [sse EXCEPT !.sent = "error_stop", !.failed = TRUE]
  /\ UNCHANGED <<backend, recorded>>

(* The finally clause: whatever ended the generator.  A client that has     *)
(* gone cancels it between two events.                                      *)
Complete ==
  /\ recorded = NotRecorded /\ sse.sent # "start"
  /\ recorded' = Record(sse)
  /\ UNCHANGED <<backend, sse>>

Disconnect ==
  /\ Ends
  /\ sse' = [sse EXCEPT !.sent = "cancelled"]
  /\ recorded' = Record(sse)
  /\ UNCHANGED backend

StreamNext ==
  \/ TextChunk
  \/ \E name, args \in BOOLEAN : NewToolChunk(name, args)
  \/ \E i \in 0 .. MaxTools - 1 : (i < backend.tools /\ \E withId \in BOOLEAN : LateNameChunk(i, withId))
  \/ \E i \in 0 .. MaxTools - 1 : ArgumentsChunk(i)
  \/ UsageChunk \/ BackendEnds \/ BackendFails \/ ConverterRaises \/ Complete \/ Disconnect

StreamSpec == StreamInit /\ [][StreamNext]_streamVars

----------------------------------------------------------------------------
(* The state of a stream has its type.                                      *)
StreamTypeOK ==
  /\ Len(sse.closed) = Len(sse.blocks)
  /\ \A i \in DOMAIN sse.buffer : sse.buffer[i] \in {Nameless} \cup DOMAIN sse.blocks
  /\ sse.current \in {"none", "text", "tool_use"}
  /\ sse.sent \in {"start", "message_stop", "error", "error_stop", "cancelled"}
  /\ recorded.times \in 0 .. 1

(* Whatever the interleaving of text and tool calls, at message_stop every  *)
(* block has been stopped exactly once, but for tool calls directly         *)
(* followed by another one, which are never stopped.  Tool calls announced  *)
(* without their name are excepted.                                         *)
OnlySupersededToolsStayOpen ==
  sse.sent = "message_stop" /\ ~backend.lateNames =>
    /\ sse.nullStops = 0
    /\ \A b \in DOMAIN sse.blocks :
         \/ sse.closed[b] = 1
         \/ sse.closed[b] = 0 /\ b < Len(sse.blocks) /\ sse.blocks[b] = "tool_use" /\ sse.blocks[b + 1] = "tool_use"

(* Arguments of parallel tool calls may arrive interleaved: as long as no   *)
(* text follows a tool call they reach a block that is not stopped.         *)
ArgumentsReachOpenBlocks == sse.strays > 0 => backend.resumed

(* The metrics of a stream agree with what its client saw: a failure is     *)
(* recorded exactly when an error event was sent, and a stream that ends    *)
(* with message_stop is recorded with the usage the backend reported.       *)
RecordMatchesStream ==
  recorded.times = 1 =>
    /\ recorded.failed <=> sse.sent \in {"error", "error_stop"}
    /\ sse.sent = "message_stop" => recorded.usage = backend.usage

(* However chunks, failures and a cancellation follow one another, the      *)
(* client sees blocks that are opened, filled and stopped in order, and the *)
(* metrics say what it saw.                                                 *)
StreamIsWellFormed ==
  StreamTypeOK /\ OnlySupersededToolsStayOpen /\ ArgumentsReachOpenBlocks /\ RecordMatchesStream
=============================================================================
