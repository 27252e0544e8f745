------------------------------- MODULE Serve -------------------------------
(***************************************************************************)
(* The request loop of `rai serve` (rai-infer/src/cli/serve.rs) as far as  *)
(* it touches the loaded model: loading another one, a chat answered in    *)
(* one piece and a chat answered as a stream.                              *)
(*                                                                         *)
(* The loop is a single thread: a request is served to its end before the  *)
(* next is read.  What makes it delicate is what one request leaves to the *)
(* next.  A generation reuses the key/value cache of the one before, which *)
(* may have ended anywhere - at a stop, on an error, or because the client *)
(* went away - and a load replaces model, window and cache or none.        *)
(*                                                                         *)
(* `wire` is what the client of the current request has been sent; the     *)
(* requests that end without the model, screened off or on a route that    *)
(* reads, are the records of Routes; conversions are Jobs'.                *)
(***************************************************************************)
EXTENDS KVCache, ReplyText, Routes, SequencesExt

CONSTANTS
    Token,
    Eos,              \* the tokens that end a reply
    Decoded(_),       \* the tokenizer: generated tokens to their text
    Models,           \* model files: their path stands for them
    ModelMax(_),      \* a model's max_context
    PerToken(_),      \* bytes of cache per position
    Memories,         \* what available_memory_bytes may say
    Contexts,         \* max_context of a load, or failing that of the command line
    MaxLoadContext,   \* MAX_LOAD_CONTEXT
    Threads,          \* chat requests: what each suffix of the thread renders to
    MaxTokensAsked,   \* max_tokens of a chat request
    Others,           \* requests that end without the model: records of Routes
    NoModel,
    DefaultTokens,    \* DEFAULT_CHAT_GENERATION_TOKENS
    MinAutofit,       \* MIN_AUTOFIT_CONTEXT
    Granularity,      \* AUTOFIT_GRANULARITY
    MaxRequests       \* bound: requests per run

(* What is asked of the tokenizer: only replacement characters at the end of *)
(* a text may change when a token is added, and no token completes two stop  *)
(* sequences.  MaxReply bounds the replies for which TLC evaluates this.  Of  *)
(* the template: turns that come before the last one take no text from it.    *)
(* Of the request: a max_tokens of 0 was refused when it was parsed.          *)
(* Whether every suffix of a thread that is tried has an encoding, and within *)
(* the model's vocabulary, is a field of the request.                         *)
MaxReply == Max({ModelMax(m) : m \in Models})

Replies == UNION {[1 .. n -> Token \ Eos] : n \in 0 .. MaxReply - 1}

ASSUME ServeAssumption ==
    /\ Eos \subseteq Token
    /\ IsFiniteSet(Models)
    /\ \A m \in Models : ModelMax(m) \in Nat \ {0} /\ PerToken(m) \in Nat \ {0}
    /\ Threads \subseteq Seq(Seq(Token)) \ {<<>>}
    /\ \A h \in Threads : \A i \in DOMAIN h : h[i] = <<>> => Last(h) = <<>>
    /\ MaxTokensAsked \ {Unset} \subseteq Nat \ {0}
    /\ {DefaultTokens, MinAutofit, Granularity, MaxLoadContext, MaxRequests} \subseteq Nat \ {0}
    /\ \A q \in Others : q.kind = "other" /\ Statuses(q) # {}
    /\ Decoded(<<>>) = <<>>
    /\ \A r \in Replies : Decoded(r) \in Seq(Character)
    /\ \A r \in Replies : r # <<>> =>
          /\ IsPrefix(Settled(Decoded(Front(r))), Decoded(r))
          /\ Hits(Decoded(Front(r))) = {} => Cardinality(Hits(Decoded(r))) <= 1

VARIABLES
    loaded,       \* Loaded: model and window, or NoModel
    cache,        \* Loaded::kv_cache
    request,      \* the request being served, or the last one
    served,       \* how many have been read
    connected,    \* is its client still there?
    wire,         \* what that client has been sent
    pc,           \* "idle", the request's kind, or where its generation is
    tokens,       \* all_tokens: prompt and reply
    prompted,     \* prompt_tokens.len()
    maxTokens,    \* Prepared::max_tokens
    pos,          \* where the next token will be processed
    text,         \* generated_text
    emitted,      \* what the pieces sent so far add up to
    stopped       \* why generation stopped, "" before

generation == <<tokens, prompted, maxTokens, pos, text, emitted, stopped>>
vars == <<loaded, cache, request, served, connected, wire, pc, generation>>

Requests ==
    [kind : {"load"}, model : Models, context : Contexts]
      \cup [kind : {"chat", "stream"}, thread : Threads, encodes : BOOLEAN, max : MaxTokensAsked]
      \cup Others

-----------------------------------------------------------------------------
(* resolve_context_window and choose_context_window: a window asked for is   *)
(* clamped to the model's; one nobody asked for is fitted into four fifths   *)
(* of the memory that is free.  0 stands for the refusal.                    *)
ChooseWindow(m, asked, memory) ==
    LET ceiling == IF asked = Unset THEN ModelMax(m) ELSE Lesser(asked, ModelMax(m))
        budget  == (memory * 4) \div 5
        fitting == ((budget \div PerToken(m)) \div Granularity) * Granularity
    IN  IF asked # Unset \/ memory = Unset \/ ceiling * PerToken(m) <= budget
        THEN ceiling
        ELSE IF Lesser(fitting, ceiling) < MinAutofit THEN 0
        ELSE Lesser(fitting, ceiling)

(* check_kv_cache_fits *)
CacheFits(m, window, memory) == memory = Unset \/ window * PerToken(m) <= memory

(* thread_trim_start: the first suffix of the thread that leaves a quarter   *)
(* of the window free, and the last turn alone if none does.                 *)
Reserve(window) == Greater(window \div 4, 1)

TrimWithoutReserve(thread, window) ==     \* mutant: a thread may fill the window
    Min({i \in DOMAIN thread : i = Len(thread) \/ Len(thread[i]) <= window})

TrimStart(thread, window) ==
    Min({i \in DOMAIN thread :
           i = Len(thread) \/ Len(thread[i]) + Reserve(window) <= window})

(* resolve_max_tokens: what the reply may take, or 0 for the refusal.        *)
MaxTokensFor(asked, len, window) ==
    LET remaining == window - len
    IN  IF remaining <= 0 THEN 0
        ELSE IF asked = Unset THEN Lesser(DefaultTokens, remaining)
        ELSE IF asked > remaining THEN 0
        ELSE asked

(* validate_prompt_tokens *)
PromptValid(prompt, window) == prompt # <<>> /\ Len(prompt) <= window

(* The windows a load can end with; memory is measured twice.                *)
Windows(m, asked) ==
    {w \in 1 .. ModelMax(m) : \E before, after \in Memories :
        w = ChooseWindow(m, asked, before) /\ CacheFits(m, w, after)}

-----------------------------------------------------------------------------
(* A server without a model, or with the one named on the command line.      *)
Init ==
    /\ \/ loaded = NoModel
       \/ \E m \in Models, c \in Contexts : \E w \in Windows(m, c) :
             loaded = [model |-> m, window |-> w]
    /\ cache = IF loaded = NoModel THEN NewCache(0) ELSE NewCache(loaded.window)
    /\ request = Unset
    /\ served = 0
    /\ connected = TRUE
    /\ wire = <<>>
    /\ pc = "idle"
    /\ tokens = <<>> /\ prompted = 0 /\ maxTokens = 0 /\ pos = 0
    /\ text = <<>> /\ emitted = <<>> /\ stopped = ""

(* The next request is read; nothing of the last one's locals is left.       *)
Receive ==
    /\ pc = "idle"
    /\ served < MaxRequests
    /\ request' \in Requests
    /\ pc' = request'.kind
    /\ served' = served + 1
    /\ connected' = TRUE
    /\ wire' = <<>>
    /\ tokens' = <<>> /\ prompted' = 0 /\ maxTokens' = 0 /\ pos' = 0
    /\ text' = <<>> /\ emitted' = <<>> /\ stopped' = ""
    /\ UNCHANGED <<loaded, cache>>

(* The client closes its connection.  The server notices at a write, if then.*)
Leave ==
    /\ pc # "idle"
    /\ connected
    /\ connected' = FALSE
    /\ UNCHANGED <<loaded, cache, request, served, wire, pc, generation>>

Send(records) == wire' = IF connected THEN wire \o records ELSE wire

(* An answer that ends the request. *)
Answer(records) ==
    /\ Send(records)
    /\ pc' = "idle"

(* A request that is refused, or that reads: its answer and nothing else.    *)
AnswerOther ==
    /\ pc = "other"
    /\ \E status \in Statuses(request) :
          Answer(IF status < 300 THEN << <<"json">> >> ELSE << <<"error", status>> >>)
    /\ UNCHANGED <<loaded, cache, request, served, connected, generation>>

(* handle_load: the model that is loaded gives way to one that has opened.   *)
Load ==
    /\ pc = "load"
    /\ request.context # Unset => request.context <= MaxLoadContext
    /\ \E w \in Windows(request.model, request.context) :
          /\ loaded' = [model |-> request.model, window |-> w]
          /\ cache' = NewCache(w)
    /\ Answer(<< <<"json">> >>)
    /\ UNCHANGED <<request, served, connected, generation>>

LoadFails ==
    /\ pc = "load"
    /\ Answer(<< <<"error", 400>> >>)
    /\ UNCHANGED <<loaded, cache, request, served, connected, generation>>

Generated == SubSeq(tokens, prompted + 1, Len(tokens))

(* Another round of the decode loop? *)
WantsMore == Len(Generated) < maxTokens /\ pos < loaded.window

(* A write to the client of a stream fails once that client has left, or goes *)
(* unnoticed: GenerateFailure::Client ends the request there and then.        *)
Deliver(records, next) ==
    \/ Send(IF request.kind = "stream" THEN records ELSE <<>>) /\ pc' = next
    \/ /\ request.kind = "stream" /\ records # <<>>
       /\ ~connected
       /\ pc' = "idle"
       /\ UNCHANGED wire

KeptCache(c) == c                        \* mutant: no truncate(0)
CleanCache(c) == Truncate(c, 0)

(* prepare, and the first statements of generate; the response line of a     *)
(* stream goes out in between, and nothing is generated when that fails.     *)
Prepare ==
    /\ pc \in {"chat", "stream"}
    /\ loaded # NoModel
    /\ LET prompt == request.thread[TrimStart(request.thread, loaded.window)]
           max    == MaxTokensFor(request.max, Len(prompt), loaded.window)
       IN  IF ~request.encodes \/ ~PromptValid(prompt, loaded.window) \/ max = 0
           THEN /\ Answer(<< <<"error", 400>> >>)
                /\ UNCHANGED <<cache, generation>>
           ELSE /\ tokens' = prompt
                /\ prompted' = Len(prompt)
                /\ maxTokens' = max
                /\ Deliver(<< <<"open">> >>, "prefill")
                /\ cache' = IF pc' = "prefill" THEN CleanCache(cache) ELSE cache
                /\ UNCHANGED <<pos, text, emitted, stopped>>
    /\ UNCHANGED <<loaded, request, served, connected>>

NothingLoaded ==
    /\ pc \in {"chat", "stream"}
    /\ loaded = NoModel
    /\ Answer(<< <<"error", 409>> >>)
    /\ UNCHANGED <<loaded, cache, request, served, connected, generation>>

-----------------------------------------------------------------------------
(* The forward pass that is due, if one is: over the prompt but its last     *)
(* token, then over the last token of the text.  Where the cache would panic *)
(* instead, no step is possible (OwnTokensOnly).  The extra passes of the    *)
(* pondering strategies read the cache and store nothing.                    *)
PassDue ==
    /\ \/ pc = "prefill" /\ pos < prompted - 1
       \/ pc = "decode" /\ WantsMore
    /\ StoreAllowed(cache, pos, loaded.window)

Passed ==
    Store(cache, pos, loaded.window,
          Attended(cache, pos, IF pc = "prefill" THEN tokens[pos + 1] ELSE Last(tokens)))

(* GenerateFailure::Http: an error inside the pass, before or after it stored. *)
GenerationFailsWithStatus ==             \* mutant: a status inside the stream
    /\ PassDue
    /\ cache' \in {cache, Passed}
    /\ Answer(<< <<"error", 500>> >>)
    /\ UNCHANGED <<loaded, request, served, connected, generation>>

GenerationFails ==
    /\ PassDue
    /\ cache' \in {cache, Passed}
    /\ Answer(IF request.kind = "stream" THEN << <<"failed">>, <<"end">> >>
              ELSE << <<"error", 500>> >>)
    /\ UNCHANGED <<loaded, request, served, connected, generation>>

Prefill ==
    /\ pc = "prefill"
    /\ PassDue
    /\ cache' = Passed
    /\ pos' = pos + 1
    /\ UNCHANGED <<loaded, request, served, connected, wire, pc, tokens, prompted,
                   maxTokens, text, emitted, stopped>>

Prefilled ==
    /\ pc = "prefill"
    /\ pos = prompted - 1
    /\ Deliver(<< <<"start">> >>, "decode")
    /\ UNCHANGED <<loaded, cache, request, served, connected, generation>>

(* One round of the decode loop.  Sampling may return any token. *)
SampleEos ==
    /\ pc = "decode"
    /\ PassDue
    /\ cache' = Passed
    /\ stopped' = "eos"
    /\ pc' = "flush"
    /\ UNCHANGED <<loaded, request, served, connected, wire, tokens, prompted,
                   maxTokens, pos, text, emitted>>

SampleToken ==
    /\ pc = "decode"
    /\ PassDue
    /\ cache' = Passed
    /\ \E t \in Token \ Eos :
          LET decoded   == Decoded(Append(Generated, t))
              hit       == Hits(decoded) # {}
              answer    == CutAtStop(decoded)
              unemitted == IncrementalSuffix(emitted, answer)
              chunk     == IF hit THEN unemitted
                           ELSE SubSeq(unemitted, 1, EmittableLen(unemitted))
          IN  /\ tokens' = Append(tokens, t)
              /\ text' = answer
              /\ emitted' = emitted \o chunk
              /\ stopped' = IF hit THEN "stop_sequence" ELSE stopped
              /\ Deliver(IF chunk = <<>> THEN <<>> ELSE << <<"text", chunk>> >>,
                         IF hit THEN "flush" ELSE "decode")
    /\ pos' = pos + 1
    /\ UNCHANGED <<loaded, request, served, connected, prompted, maxTokens>>

BudgetSpent ==
    /\ pc = "decode" /\ ~WantsMore
    /\ stopped' = "max_tokens"
    /\ pc' = "flush"
    /\ UNCHANGED <<loaded, cache, request, served, connected, wire, tokens, prompted,
                   maxTokens, pos, text, emitted>>

(* What was held back is final now; then the reply is complete.              *)
Flush ==
    /\ pc = "flush"
    /\ LET rest == IncrementalSuffix(emitted, text)
       IN  /\ Deliver(IF rest = <<>> THEN <<>> ELSE << <<"text", rest>> >>, "done")
           /\ emitted' = emitted \o rest
    /\ UNCHANGED <<loaded, cache, request, served, connected, tokens, prompted,
                   maxTokens, pos, text, stopped>>

Finish ==
    /\ pc = "done"
    /\ Answer(IF request.kind = "stream"
              THEN << <<"done", Len(tokens)>>, <<"end">> >>
              ELSE << <<"json">> >>)
    /\ UNCHANGED <<loaded, cache, request, served, connected, generation>>

Next ==
    \/ Receive \/ Leave \/ AnswerOther
    \/ Load \/ LoadFails
    \/ NothingLoaded \/ Prepare \/ Prefill \/ Prefilled
    \/ SampleEos \/ SampleToken \/ BudgetSpent \/ Flush \/ Finish
    \/ GenerationFails

Spec == Init /\ [][Next]_vars

-----------------------------------------------------------------------------
Generating == pc \in {"prefill", "decode", "flush", "done"}

(* Nothing of an earlier request reaches a reply: however that one ended -   *)
(* finished, failed half way through the prompt, or abandoned by its client  *)
(* - the passes of this one attend to its own tokens and to nothing else,    *)
(* and the cache never refuses a position (kv_cache.truncate(0)).            *)
OwnTokensOnly ==
    pc \in {"prefill", "decode"} =>
        /\ cache.filled = pos
        /\ Coherent(cache, [p \in 0 .. Len(tokens) - 1 |-> tokens[p + 1]])
        /\ pc = "prefill" \/ WantsMore => StoreAllowed(cache, pos, loaded.window)

Pieces(w) == FlattenSeq([i \in DOMAIN w |-> IF w[i][1] = "text" THEN w[i][2] ELSE <<>>])

Completed == \E i \in DOMAIN wire : wire[i][1] = "done"

(* The pieces of a stream that reached its end add up to the text the other  *)
(* route would have answered with: nothing is sent twice, taken back or lost *)
(* in the hold-back, although the decoded text changes under the loop.       *)
StreamedIsAnswer == Completed => Pieces(wire) = text

(* No stop sequence of the template, and no opening of one that completed,   *)
(* is ever shown to a reader.                                                *)
NoStopShown ==
    /\ Hits(Pieces(wire)) = {} /\ Hits(text) = {}
    /\ stopped = "stop_sequence" => IsPrefix(Pieces(wire), text)

(* What goes over the wire is one well-formed answer: a status line of its   *)
(* own or an opened stream, never a status inside a stream; a stream that is *)
(* ended carries one `done` or `error` record, as its last; `done` reports   *)
(* no more context in use than there is; and every client that stayed gets   *)
(* its answer to the end.                                                    *)
WellFormedReply ==
    LET kinds == [i \in DOMAIN wire |-> wire[i][1]]
        whole == {"json", "error"}
    IN  /\ \A i \in DOMAIN wire :
             /\ kinds[i] \in whole => Len(wire) = 1
             /\ (kinds[i] = "open") <=> (i = 1 /\ kinds[i] \notin whole)
             /\ kinds[i] = "start" => i = 2
             /\ kinds[i] = "text" => kinds[2] = "start"
             /\ kinds[i] \in {"done", "failed"} => i = Len(wire) - 1
             /\ kinds[i] = "done" => wire[i][2] <= loaded.window
             /\ (kinds[i] = "end") <=> (i > 1 /\ kinds[i - 1] \in {"done", "failed"})
        /\ pc = "idle" /\ request # Unset /\ connected =>
             wire # <<>> /\ Last(kinds) \in whole \cup {"end"}

(* A history never crowds out its reply: a thread that can be encoded is     *)
(* refused only for its last turn or for a number of tokens that was asked   *)
(* for, and one that was shortened leaves room for the reply (the reserved   *)
(* quarter of the window).                                                   *)
(* And no reply is given more room than the window has left.                 *)
HistoryLeavesRoom ==
    /\ Generating => pos <= loaded.window /\ prompted + maxTokens <= loaded.window
    /\ request # Unset /\ request.kind \in {"chat", "stream"} /\ loaded # NoModel =>
        LET last == Len(Last(request.thread))
            room == Greater(Reserve(loaded.window), 1)
        IN  /\ wire = << <<"error", 400>> >> =>
                 \/ ~request.encodes
                 \/ last = 0 \/ last >= loaded.window
                 \/ /\ request.max # Unset
                    /\ request.max > Lesser(room, loaded.window - last)
            /\ Generating /\ prompted # last /\ request.max = Unset =>
                 maxTokens >= Lesser(room, DefaultTokens)
=============================================================================
