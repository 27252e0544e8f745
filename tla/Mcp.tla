--------------------------------- MODULE Mcp --------------------------------
(***************************************************************************)
(* The MCP transport of rai-server (mcp/server.rs, mcp/schema.rs,          *)
(* mcp/tools.rs): JSON-RPC messages, one to a line, on standard input;     *)
(* answers on standard output, one request at a time.                      *)
(*                                                                         *)
(* The input is a sequence of lines.  A line is a message with its length  *)
(* in bytes, and whether it ends with a carriage return; a byte is where   *)
(* it lies, <<line, k>>, so a frame that mixes two lines or has lost a     *)
(* byte is none of the lines.  A message is what the code tells apart.     *)
(***************************************************************************)
EXTENDS Startup

CONSTANTS
    Inputs,        \* what a client may send: sequences of lines
    FrameLimit,    \* MAX_MCP_FRAME_BYTES: 65536
    Chunk          \* bound: bytes a read returns at most

(* What a client sends is cut at its newlines: only the last line may lack   *)
(* one.                                                                      *)
ASSUME McpAssumption ==
    /\ FrameLimit \in Nat
    /\ \A lines \in Inputs :
          /\ lines \in Seq({lines[i] : i \in DOMAIN lines})
          /\ \A i \in 1 .. Len(lines) :
                /\ lines[i].length \in Nat /\ lines[i].cr \in BOOLEAN
                /\ lines[i].newline \in BOOLEAN /\ (i < Len(lines) => lines[i].newline)
                /\ lines[i].message.syntax \in {"blank", "invalid", "array", "object"}
    /\ None \notin [large : BOOLEAN, bytes : Seq(Int \X Int)]

VARIABLES
    input,       \* the lines
    at,          \* bytes consumed
    frame,       \* read_frame's buffer
    tooLarge,
    message,     \* what read_frame returned, until it is answered, or None
    replies,     \* written to standard output
    running      \* the loop has not ended

mcpState == <<at, frame, tooLarge, message, replies, running>>
mcpVars == <<input, mcpState>>

CarriageReturn == 0
Newline == -1

(* The bytes of a line: its message's, the carriage return, the newline.     *)
LineBytes(i, line) ==
    [k \in 1 .. line.length |-> <<i, k>>]
    \o (IF line.cr THEN << <<i, CarriageReturn>> >> ELSE <<>>)
    \o (IF line.newline THEN << <<i, Newline>> >> ELSE <<>>)

Bytes(lines) ==
    LET f[n \in 0 .. Len(lines)] ==
            IF n = 0 THEN <<>> ELSE f[n - 1] \o LineBytes(n, lines[n])
    IN  f[Len(lines)]

-----------------------------------------------------------------------------
McpInit ==
    /\ input = <<>>     \* chosen when the server starts
    /\ at = 0 /\ frame = <<>> /\ tooLarge = FALSE
    /\ message = None /\ replies = <<>> /\ running = TRUE

Reading == running /\ message = None

(* read_frame, one turn: the bytes fill_buf has, up to a newline.  A frame   *)
(* past the limit is forgotten, and its rest is skipped.                     *)
TooLargeReset(take, newline) ==   \* mutant: what follows a long frame's start is a frame
    Len(frame) + Len(take) > FrameLimit

TooLargeNow(take, newline) == tooLarge \/ Len(frame) + Len(take) > FrameLimit

FrameOf(bytes) ==
    IF bytes # <<>> /\ bytes[Len(bytes)][2] = CarriageReturn THEN SubSeq(bytes, 1, Len(bytes) - 1) ELSE bytes

Fill(n) ==
    LET rest    == SubSeq(Bytes(input), at + 1, Len(Bytes(input)))
        avail   == SubSeq(rest, 1, n)
        ends    == {k \in 1 .. n : avail[k][2] = Newline}
        newline == ends # {}
        take    == IF newline
                   THEN SubSeq(avail, 1, (CHOOSE k \in ends : \A j \in ends : k <= j) - 1)
                   ELSE avail
        long    == TooLargeNow(take, newline)
        whole   == IF long THEN <<>> ELSE frame \o take
    IN  /\ Reading /\ n \in 1 .. Len(rest)
        /\ at' = at + Len(take) + (IF newline THEN 1 ELSE 0)
        /\ IF newline
           THEN /\ message' = [large |-> long, bytes |-> FrameOf(whole)]
                /\ frame' = <<>> /\ tooLarge' = FALSE
           ELSE frame' = whole /\ tooLarge' = long /\ UNCHANGED message
        /\ UNCHANGED <<input, replies, running, memories>>

(* The end of the input: what is there is a last frame, or the loop ends.    *)
EndOfInput ==
    /\ Reading /\ at = Len(Bytes(input))
    /\ IF frame = <<>> /\ ~tooLarge
       THEN running' = FALSE /\ UNCHANGED message
       ELSE message' = [large |-> tooLarge, bytes |-> frame] /\ UNCHANGED running
    /\ frame' = <<>> /\ tooLarge' = FALSE
    /\ UNCHANGED <<input, at, replies, memories>>

-----------------------------------------------------------------------------
(* What the bytes of a frame say: a line's message if they are that line,    *)
(* whitespace is its own kind, and anything else is no JSON.                 *)
Broken == [syntax |-> "invalid"]

MessageOf(frameBytes) ==
    LET bytes == FrameOf(frameBytes)      \* a carriage return is white space to JSON
    IN  IF bytes = <<>> THEN [syntax |-> "blank"]
        ELSE LET i == bytes[1][1]
             IN  IF bytes = [k \in 1 .. input[i].length |-> <<i, k>>]
                 THEN input[i].message ELSE Broken

Reply(id, error, result) == << [id |-> id, error |-> error, result |-> result] >>

NoReply == <<>>

(* process_message's checks, in their order; a message that is no request    *)
(* cannot be told from a notification and is answered with a null id.        *)
Malformed(m) ==
    \/ m.syntax = "array"
    \/ m.id = "object" \/ m.params = "scalar"
    \/ m.version # "2.0" \/ m.method = None

(* tool_definitions: eight tools, two of them change something. *)
ReadTools == { "rai_recall", "rai_intersect", "rai_contradict", "rai_surprise",
               "rai_explain_confidence", "rai_memory_health" }
Tools == ReadTools \cup {"rai_store", "rai_forget"}

Listed == { t \in Tools : MutationsEnabled \/ t \in ReadTools }

ToolOp(t) == CASE t = "rai_store" -> "store" [] t = "rai_forget" -> "forget" [] OTHER -> "read"

(* handle_tool_call: what it answers and leaves; the provider or the disk    *)
(* may fail.                                                                 *)
ToolCall(t, args, works) ==
    CASE t \notin ReadTools /\ ~MutationsEnabled -> [error |-> 0, result |-> {"toolError"}, after |-> memories]
      [] (t \in ReadTools \/ MutationsEnabled) /\ t # "rai_memory_health" /\ args # "good" ->
           [error |-> 0, result |-> {"toolError"}, after |-> memories]
      [] OTHER ->
           IF works /\ Outcome(ToolOp(t)).result # "full"
           THEN [error |-> 0, result |-> {"toolResult"}, after |-> Outcome(ToolOp(t)).after]
           ELSE [error |-> 0, result |-> {"toolError"}, after |-> memories]

IsNotification(m) == m.id = "absent"

(* handle_request.  An id that is null is an id. *)
Handled(m, works) ==
    CASE m.method = "initialize" -> [error |-> 0, result |-> {"protocol"}, after |-> memories]
      [] m.method = "ping"       -> [error |-> 0, result |-> {}, after |-> memories]
      [] m.method = "tools/list" -> [error |-> 0, result |-> Listed, after |-> memories]
      [] m.method = "tools/call" ->
           IF m.tool \notin Tools THEN [error |-> -32602, result |-> {}, after |-> memories]
           ELSE ToolCall(m.tool, m.args, works)
      [] OTHER -> [error |-> -32601, result |-> {}, after |-> memories]

(* The body of run_mcp_stdio: one frame, then its answer if it has one.  The *)
(* client may have closed the output.                                        *)
Process(works, written) ==
    /\ running /\ message # None
    /\ LET m      == MessageOf(message.bytes)
           run    == Handled(m, works)
           answer == CASE message.large -> Reply("null", -32600, {})
                       [] ~message.large /\ m.syntax = "blank"   -> NoReply
                       [] ~message.large /\ m.syntax = "invalid" -> Reply("null", -32700, {})
                       [] OTHER ->
                            CASE Malformed(m) -> Reply("null", -32600, {})
                              [] ~Malformed(m) /\ IsNotification(m) -> NoReply
                              [] OTHER -> Reply(m.id, run.error, run.result)
           handled == ~message.large /\ m.syntax = "object" /\ ~Malformed(m) /\ ~IsNotification(m)
       IN  /\ memories' = IF handled THEN run.after ELSE memories
           /\ replies' = IF written THEN replies \o answer ELSE replies
           /\ running' = (written \/ answer = <<>>)
    /\ message' = None
    /\ UNCHANGED <<input, at, frame, tooLarge>>

McpNext ==
    \/ \E n \in 1 .. Chunk : Fill(n)
    \/ EndOfInput
    \/ \E works, written \in BOOLEAN : Process(works, written)
=============================================================================
