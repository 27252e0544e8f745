# A verification project for rai

TLA+ models of the parts of this repository whose correctness is a matter of
order: which step happens before which, what is still true after a step that
failed, what an interleaving, an abandoned request or a crash can do, and whether
two programs for the same thing - a batch and a single pass, a planner and a writer,
a preflight and a conversion - do the same. Numbers are abstracted to how they were
computed.

Every definition is written from the Rust source; `PROJECT.json` maps each one
to its lines. TLC checks the modules on small instances; TLAPS checks the
theorems for every value of the constants.

## The system

| Part | State it keeps | Operations | What makes it hard |
|---|---|---|---|
| Key/value cache (`rai-infer/src/kv_cache.rs`) | buffers, allocated capacity, `filled` watermark | `new`, `store` (grows on demand), `get`, `truncate` | stale entries above the watermark, growth that copies only what counts |
| Draft-model speculation (`speculative.rs`, loop in `cli/run.rs`) | two caches, the text, position, budget | `prefill`, `step`, the loop over new tokens | two caches that run ahead of the text at different speeds; windows of different sizes |
| Prompt lookup (`lookup.rs`), self-speculation (`self_speculative.rs`) | one cache, the text | as above, with a copied draft or a draft by some of the layers | one cache written by draft and verification |
| Plain decoding and pondering (`cli/run.rs`, `ponder.rs`) | one cache, the text | one token at a time; several passes over a hard token | re-evaluation of a position already stored |
| Forward pass (`model.rs`, `layers.rs`) | the cache of every layer | `forward`, `forward_partial`, `forward_batch` | three programs for one function, over a dozen capabilities |
| Kernels (`gemm.rs`, loops of `layers.rs`) | none | products by groups and blocks, on threads | tails, chunks, shared scratch, bare pointers |
| Sampling (`sampler.rs`) | none | `sample_token`, penalties | numeric edges |
| Conversion jobs (`cli/jobs.rs`) | the history, the index, one record per job | `start`, the worker, `get`, `list`, `snapshot` | threads, a slot that must come back, a bounded log read with a cursor |
| `rai serve` (`cli/serve.rs`, `cli/studio.html`) | the loaded model, the jobs | load, chat, stream, convert, poll, inspect | a model swap that may fail, text held back while streaming |
| Conversion (`convert.rs`, `calibrate.rs`, `safetensors.rs`) | `.partial`, output, tokenizer on disk | resolve, check, plan, write section by section, rename, copy the tokenizer; `preflight` | replaces a model in use over minutes; the answer of `preflight` is given by another function than the one that converts |
| Container format (`format.rs`) | none | header and section table, validated before use; sections sliced into weights | the layout exists three times: planner, writer, reader |
| Durable memory (`rai-core/src/memory`, `rai-server/src/state.rs`) | two vector stores, labels, text index, snapshot file | `store`, `forget`, `recall` and the other queries, load | abandonment, crashes, disk errors between two publications |
| REST and MCP (`rai-server`) | configuration, rate window, permits; the frame being read | many requests with a deadline; one message to a line | what a 503 leaves open, framing over partial reads |
| Model catalogue, chat templates, command line, perplexity | none or a directory listing | sequential | little |
| `rai-compress`, `rai-infer/scripts` | none | offline numerical algorithms | numerical, not temporal |

The decoders call the forward pass, which writes and reads the cache; the loops
of `run.rs` and `serve.rs` call the decoders. `serve` starts conversions through
`Jobs`, whose workers run `convert.rs`, and a page in the browser polls. The
memory server is a separate program with two transports, REST and MCP, over the
same memories: `AppState` serialises durable mutations, `MemoryManager` stages and
publishes them, `MemorySnapshot` writes them.

`PROJECT.json` lists every component with its status, and under `hazards` the
places in the code where these difficulties bite, each with the properties that
cover it or the reason none does.

The modules, an arrow for EXTENDS or INSTANCE:

    KVCache <- SpecDecode, OneCacheDecode (both with Acceptance, and Decode as INSTANCE)
    Layers, KVCache <- Forward <- Ponder <- Inference     Kernels <- VectorKernels
    Container <- Checkpoint <- Convert                    Queries <- MemoryStore
    KVCache, ReplyText, Routes <- Serve                   Jobs
    Startup <- Rest, Mcp <- Server

The theorems are in `KVCacheProofs`, in `SpecDecodeProofs`, `OneCacheDecodeProofs` and
`ServeProofs`, which extend it, and in `ConversionProofs` (of `Jobs` and `Convert`),
`MemoryStoreProofs`, `ServerProofs` and `InferenceProofs`, which has the kernels too; the `MC` modules are the instances that TLC checks.

## What is modelled

### Decoding

`KVCache` is the cache of one layer as operators on a record. An entry is not a
vector but what the vector is a function of: the tokens at positions `0..p` that
the forward pass attended to. Stale data is then visible: an entry is right if
and only if it is the prefix of the text up to its position (`Coherent`).
`Decode` is the abstract promise: the loop under "NORMAL DECODING" in `run.rs`
with only its control left. `SpecDecode` is `SpeculativeDecoder` with the loop
that drives it. Its variables are the loop's locals (`tokens`, `generated`,
`pos`), the two caches, and the locals of the step under way (`drafts`,
`verified`, `out`, `taken`); `pc` is the phase of the single thread. One action
is one forward pass, one accept-or-reject, or one token taken by the caller.
All layers move together on this path, so one cache stands for a model's. A
step at which an assertion of `store` fails ends in `pc = "panicked"`. A failed
allocation is left out: it ends the process wherever it strikes.

Tokens are sampled, accepted, rejected and corrected in `Acceptance`, which all
the speculative decoders share. `OneCacheDecode` is the other two of them,
`LookupDecoder` (lookup.rs) and `SelfSpecDecoder` (self_speculative.rs), with their
loop: they differ in where a draft comes from - an earlier occurrence of the last
n-gram, or a pass through some of the layers - and in nothing else, so `drafter`
is a variable. Its one cache is kept in two parts, `draftKV` and `restKV`, because
self-speculation fills them to different depths. Nothing in the repository drives
`SelfSpecDecoder`; it is given the loop of the lookup decoder.

The two models are operators from a context to integer weights (`TargetProb`,
`DraftProb`): which tokens can be accepted, rejected or sampled depends only on
the order and the sign of the weights. `ZeroDraw` says whether the random number
generator may return exactly 0.0, which it does once in 2^53 draws. The instances say FALSE:
with TRUE `SequentialDecoding` fails, because `sample_correction` stops at
`cumsum >= u` (`speculative.rs:508`) and then returns a first token of no weight.

* `CacheCoherent` and `NoPanic` are the bookkeeping: nothing of a rejected draft is
  ever attended to, and no assertion of the cache is ever hit. (`Frontier`, that a
  step starts with both caches filled exactly to its position, is proved.)
* `SequentialDecoding` is the refinement `SpecDecode => Decode`: speculation
  produces only texts that plain decoding could have produced.
* `NeverStuck` (`OneCacheDecode`) is `NoPanic` and more: neither an assertion of the
  cache nor an error of the decoder itself ever ends a run.
* `FailsOnlyAtDraftWindow` says where a run can end in an error; `Termination`
  that every run ends.

### The forward pass and its kernels

A vector of floats is the term of how it was computed: `<<"norm", w, x>>` is `x`
under RMSNorm with the weights `w`. Vectors with the same term are the same bit for
bit, which is what the code claims of its passes. `Layers` is one transformer layer
in these terms, for a model given by the capabilities of its header. `Forward` has
the three passes as the code has them: each writes the cache and reads it, and the
batched one is a program of its own. `Ponder` is every strategy of `ponder.rs`.
`Inference` is a session: single passes, batches, layer-skipping drafts, rollbacks
and pondered passes in any order on one cache. Against it stands `Reference`, the
transformer as a function of the text alone, without cache, batch or position.

* `CacheIsText`: after any order of calls, every entry a later pass reads is the
  reference's, in every layer: no probe and no draft has left anything behind.
* `BatchIsSequential`: a batch and single passes return the reference's logits.
* `PonderBlends`: the logits a pondered pass returns are its strategy's blend of the
  reference's: every pass is in it once, the real token's first, and the pass reports how
  many it made. What is blended with what is written down once more, over the reference
  (`Blended`). (`ponder.rs:61` and `386` call the combination of both strategies
  "unconditional + N-1 noisy conditional passes"; one of those N-1 is the clean pass.)

`Kernels` is `gemm.rs` by its index arithmetic: a product names the weight and the
input it reads by the address the kernel computes, and a number is the list of what
was summed, in order. A call hands chunks to threads; each thread's chunk is one
step. `VectorKernels` is the same for the loops of `layers.rs`, and attention with
its shared buffer of scores, where scoring and mixing of a head are two steps.
Widths, tiles, chunk sizes and thresholds are constants.

* `RowsOnce`: every output element is stored once, by one chunk, none outside.
* `DotExact`: it is the product of its row and its token, column by column, with the
  scales and the zero point of the column's own group.
* `BatchSameBits`: the batched kernels sum what the single one does, in its order (a test
  says that they need not: finding 6).
* `LoopExact`, `AttentionExact`: a vector loop is its formula at every length; a head
  mixes its own scores, over its own positions, whatever the other heads do meanwhile.

Two numbers with different terms may still be equal; the properties ask for the same
term. Of rounding the model keeps one thing: the products of a vector body are fused with
the sums around them and those of its rest are not (`Rounding`), so in a GeLU and a rotation
where an element lies decides its bits (finding 7). How much is lost, and the choice of
instructions inside a block, are left out.

### The request loop

`Serve` is the single-threaded loop of `rai serve`. `Load`, `POST /api/chat` and
`POST /api/chat/stream` are followed step by step; every other request is answered in
one (`AnswerOther`) with one of the statuses that `Routes` computes for it: the
screening of its headers, the refusal of its body, the validation of its options,
the route. A state remembers one request
(`request`), what its client has been sent (`wire`) and the locals of `prepare` and
`generate`; `loaded` and `cache` are what one request leaves to the next. A forward
pass may fail at any position (`GenerationFails`), a client may leave at any moment
(`Leave`), and a write to a client that left may fail or go unnoticed (`Deliver`).
A record on the wire is its kind and, where a property looks at it, its payload.
`ReplyText` holds the operators on the text: where a stop sequence cuts it
(`CutAtStop`), what may be shown already (`EmittableLen`) and what is new
(`IncrementalSuffix`). A text is a sequence of characters, bytes are left out: every
cut in the code is made at a character boundary.

The tokenizer is a constant operator. What is asked of it is `ServeAssumption`: a
further token changes a decoded text only in the replacement characters it ends
with, and completes at most one stop sequence. The second is needed by
`NoStopShown`, since the code cuts at the first stop *listed*, not at the first in
the text. A thread of messages is given by what each of its suffixes renders to,
because templates are not additive. The answer of `/api/chat` is trimmed of blanks
and the stream is not; there are no blanks in the model.

* `OwnTokensOnly`: whatever the request before left behind, a reply attends to its
  own tokens only.
* `StreamedIsAnswer`, `NoStopShown`: the pieces of a stream add up to the answer, and
  neither route ever shows a stop sequence.
* `WellFormedReply`: one complete, grammatical answer to every client that stays.
* `HistoryLeavesRoom`: a long thread is shortened, not refused, and leaves room for
  the reply.

### Conversion jobs

`Jobs` models `Jobs::start` on several threads, one worker thread per job, and a
page that polls. Critical sections with a single mutex are one action; the one
in `start`, which takes every job's mutex in turn while it holds both tables, is
one action per job it looks at. Log lines are numbers, so that the page's copy
can be compared with what was said. `MaxLines` bounds the narration of a job.
The worker may succeed, fail, panic inside the conversion, or unwind past
`catch_unwind` before it records anything.

* `AtMostMaxRunning`, `NeverLostWhileRunning`: the slot and the history under
  concurrent starts; the history and the index never disagree.
* `FinishedIsFinal`, `SlotComesBack`: a job always ends, and once; the slots are free
  again and again, whatever fails. (`RunningHasOwner` and `EndsWithReason`, that it
  has a thread to end it and ends with its result or a reason, are proved.)
* `CursorExact`: the page's log has no repetition, knows exactly what it missed,
  and is complete when the job has ended.

### Durable memory

`MemoryStore` follows a mutation from the request to its answer: the persistence
lock, the embedding, the exclusive guard, staging, the write on a blocking
thread, publication of the stores and then of the text index. `disk` is what a
reader of the directory sees, `kept` the set of snapshots a power loss may leave
there: a rename adds one, a synced directory leaves one. `Abandon` drops a
request at any await; what moved to the blocking thread goes on. `Crash` takes
everything in memory, and either keeps `disk` or picks from `kept`. `sent`,
`promised` and `refused` count, per text, what clients asked for and were told;
they are history variables. `MaxRequests` and `MaxCrashes` are the bounds.

A start finds no snapshot, one of this version or one of version 0, which may lack
labels (`Found`), and is given a capacity or none (`Capacities`). `Loads` is what a
start accepts, `Labels` what it makes up where labels are missing.

`Queries` is what a request that reads is answered. A vector is known by the text it
was projected from, and what the code computes from vectors it computes from the
cosine of two of them: the constant `Similarity`, in tenths. The assumption is that
it is symmetric and that a text is nearest to itself.

* `NeverWedged`: no sequence of stores and forgets leaves a state that every later
  save refuses, or a snapshot that the next start with the same capacity refuses.
* `ConfirmedKept`, `ConfirmedIsDurable`: what was confirmed survives crash and power
  loss, and what was removed does not come back.
* `RefusedNotPublished`: a refused mutation is not in memory.
* `QueriesAgree`: stores, labels and index speak of the same facts: what is stored is
  recalled in full and does not surprise, no match means that nothing is near, a
  contradiction names the right labels, and the value a recall found has its text.
* `Answered`: every request ends.

Not modelled there: the service without `RAI_DATA_PATH`, which writes nothing (`Rest`
has it), and two processes on one file, which the code does not guard against.

### rai-server

`Startup` is `main` and `config.rs`: each variable of the environment is unset, not
Unicode, or what its reader tells apart, and the program starts in one of its modes or
refuses. `Rest` follows a request from its arrival to its answer: the deadline around
everything, the rate window, the permit, the screening, the body, the locks of
`AppState`, the blocking write. `Deadline` and `Leave` may strike in every phase; what
moved to a blocking thread goes on (`detached`). `Mcp` reads bytes, any number of them
at a time, makes frames of them, checks and answers each. `Server` composes them with
the shutdown. The memories are a number here; what they hold is `MemoryStore`'s.

* `OnlyAdmitted`: whoever reached a handler was let in by what the operator *set* - not
  by what the program made of it - and no more are inside than permits and window admit.
* `StatusIsEffect`: the status a client got is true of what became of its request.
* `PermitsComeBack`: every request ends, permits, lock and guard come back, and a server
  that was told to stop stops, even if the embedding provider never answers.
* `RepliesExact`: each line has its own answer, in order, wherever reads cut the bytes.

### Conversion and the container

`Container` has the layout of a `.raimodel` file once per place where the code has
it: the planner (`PlanSections` and what it sums), the writer (`WriteSections`) and
the reader (`ReadSection`, `Opens`). What is written is a sequence of blocks, each
the bytes of one part of one tensor; what is read is a sequence of slots, each
the role a run of bytes plays in the forward pass. Which block a slot gets follows
from the byte counts alone, as in a file. Not abstracted: sizes, order, version,
flags, every capability field with its codes and ranges, and limits. Abstracted: the
values of a tensor, to whether they are finite and whether half precision holds their
scale and zero point; a real number is an integer.

`Checkpoint` is what is accepted, and as what: the resolvers of `convert.rs` one by
one, the verdict of the conversion (`Converts`), and that of `preflight`
(`PreflightSupports`) with the shape and size it reports (`PreflightReport`), with the
weights at hand or without. A checkpoint is a record of what these look at.
Calibration, the quantisation itself and reading `.safetensors` are left out: they
decide the values and how long a section takes, and can fail where `FailWriting` does.

`Convert` is the conversion on the disk. A file is the checkpoint it came from
and how many of its sections it has. `unsynced` are the paths a power loss may
tear, `replaced` the files the output may be again, since the directory of the
rename is never synced. The process may be killed in any phase. A checkpoint may be
inspected before it is converted (`Inspect`, what `/api/inspect` calls).

* `OnlyWholeFiles`: whatever happens, the output is no file or a complete one, and
  so is a `.partial` that an error leaves behind.
* `SuccessMeansUsable`: what a successful conversion leaves opens if and only if it is
  within the reader's limit on the size of a file, and then has the checkpoint's
  configuration, and holds in every slot the tensor that has that role in the checkpoint's
  own model, next to the checkpoint's tokenizer. The three layouts, the version rule, the
  two halves of the header and the two copies of the limits all meet here. The limit on
  size is the one the converter has no copy of (finding 5).
* `PlanIsExact`: no accepted checkpoint ends in "wrote n bytes, planned m", and what an
  inspection reported is what was written.

Two weaknesses the model shows, and no property claims otherwise. A conversion that
is refused because another model's `tokenizer.json` is there has already replaced the
output: the new model stays beside the old tokenizer. And the tokenizer is written in
place, so one that was cut off is a different tokenizer to every later conversion,
which then refuses to replace it.

## The runs

| Run | Instance | Shows |
|---|---|---|
| `specdecode` | 3 tokens, window 6, 5 new tokens, K = 3, draft windows 2, 4 and 8, prompts of 1 to 3 tokens | all properties of decoding |
| `specdecode_window` | the same | **finding**: the loop asks for a position outside the decoder's window |
| `onecache` | 3 tokens, window 6, 5 new tokens, K = 3, n-grams of 1 and 2, both drafters | the same questions for lookup and self-speculation |
| `inference` | 2 layers, 2 tokens, window 3, batches of 2, 4 model families, every strategy; kernels on every mix of 5 lengths and 6 group sizes, vectors of 1 to 21 elements | the passes and the kernels |
| `forward_experts` | the same, with a file of experts that have a bias | **finding**: a batch adds that bias twice |
| `serve` | 2 requests, 4 tokens and the end token, 2 stop sequences, 2 models of 4 and 7 positions, 5 threads, every route | all properties of the request loop |
| `jobs` | 2 starters, 3 jobs, 2 slots, history of 1, log of 1, 1 line | safety of the jobs, and that slots come back |
| `store` | 2 writers, 1 reader, 2 texts and 2 further questions, 4 first snapshots, capacity 1, 2 or 3, 2 mutations, 1 crash | safety and liveness of the store, and its queries |
| `store_refused` | the same | **finding**: a refused store comes back after a restart |
| `server` | 12 environments; 3 clients in 5 mixes, 2 permits, a window of 2 requests, 1 memory; 6 MCP inputs of up to 4 lines, frames of 3 bytes, reads of up to 4 | all properties of rai-server |
| `convert` | checkpoints of every family, one per kind of refusal, disputed and spoilt ones; 2 conversions, 1 crash | all properties of conversion |
| `convert_preflight` | the same | **finding**: `preflight` supports what is not converted |

Why these bounds are enough to meet the interesting cases. Decoding: caches
start with 2 positions, so every run grows them twice; the window is reached, the
draft's window is below, inside and above the run's; budgets end inside a step;
the target rules tokens out, so rejection, correction and a full acceptance all
occur. `onecache` has the same window, prompts with and without repetitions, and one
whose copied draft contains the end token. Inference: with two layers the first is
rotated locally and the second globally, and one is skipped by a draft; the families
(Qwen, Gemma, OLMo, a sparse model) have between them every capability of the header;
a window of three holds a batch behind a single pass, with a rollback between. The
kernels read nothing of a session and are explored beside a fresh one; lengths and
group sizes are below, at and above a block, with rests of one to three pairs and a last
group cut short, and rows fill a last chunk or do not. Serve: the stop sequences overlap in both
directions, so an opening is held back, released, and completed; two tokens are the
halves of one character; the threads fit, are shortened to a later turn, are too long
even for that, or render to nothing; the memory suffices, allows a smaller window or
none, or cannot be measured, and one context asked for is above what a load allows. Two requests are enough because a request leaves the
next one only `loaded` and `cache`. Jobs: with two slots and a history of one, the history must exceed its
bound while jobs run, and shrink again; a log of one line drops a line at every
second push, and the end of a job pushes one. Store: a snapshot that is found has up to
three items, one text twice and one with a lost label, so two mutations are enough to
take either copy, both, or add another around a crash; the capacity may shrink below
what is stored. Server: the environments differ from a common one in a variable each,
so a wrong reading of that one shows; two permits and a window of two are exceeded by
three clients; frames of three bytes are exceeded by lines of the inputs, and reads of
one to four bytes cut them everywhere. Convert: the sizes are the smallest that the reader's
rules allow, with different values for those a mistake could exchange; there is one
checkpoint per family (biases, both kinds of QK norms, sandwich and post norms, both
layouts of experts, fused tensors, RoPE scaling, local layers, caps, a sliding window,
tied and untied), of one layer or of two, one of them in a second size just above what
the reader opens, one per kind of refusal, and one for values that
are not finite or do not fit half precision; the limits are low enough for each to be reached. Two
conversions are enough because one leaves the next nothing but the disk.

`specdecode` and `onecache` state `WF(Next)`: the loop is a single thread that never waits.
`jobs` assumes that a call of `start` that has begun and a worker run on; nobody
has to start or poll. `store` assumes that the blocking thread and a runnable
task run, that the embedding request ends (it has a time limit), and, for the two
locks, strong fairness: Tokio's mutex and rwlock hand themselves over in the
order they were asked for, so a waiter is not overtaken for ever. `server` assumes less:
the timer of a request fires, a write that has begun ends, and the runtime ends when
nothing is served; the provider owes nothing, and the locks need no fairness, because
whoever waits for one runs into its deadline.

`convert`, `serve` and `inference` check safety only.

Deadlock checking is off in every run: a decode ends, and the bounded clients of
the other models run out of requests.

## What is proved

`KVCacheProofs`: `StoreCoherent` and `TruncateCoherent`, for any capacity, window
and contents: the entry a forward pass computes from a coherent cache at its
watermark keeps it coherent, growth included.

`SpecDecodeProofs`: `TypeOK`, `NoPanic`, `CacheCoherent`, `Frontier` and
`FailsOnlyAtDraftWindow` for all models, prompts, windows and `K`. None of them is
inductive. The invariant `IInv` adds `Control`: for every phase, where the two
watermarks stand relative to `pos`, how many drafts are in flight, and which part
of `out` agrees with them. Every store then happens exactly at a watermark, so
`StoreCoherent` applies and no assertion can fail. The assumption is
`SpecDecodeAssumption` (non-empty prompts within the window, every context has a
token of positive weight), and `InitialPositions > 0`.

`Refinement` is the safety half of the abstraction: `~ZeroDraw` and `Spec` imply
`SequentialDecoding`. A step that takes a token is a step of `Decode`, every other one
a stutter. That what is taken was one of the tokens the main model could have produced
there needs one more invariant (`OnlyPossible`): each token of `out` that is not handed over yet
can be sampled after the ones before it. `~ZeroDraw` is a hypothesis and no
assumption because the code does not rule it out; without it the theorem is false, as
said above.

`OneCacheDecodeProofs`: `NeverStuck`, `CacheCoherent` and the same refinement, with
either drafter. The layers a draft runs through are ahead of the others while a step
is under way, and what they hold there is nothing the whole model computes. `IInv` says
that all layers are level and coherent up to the watermark of those which only the
whole model writes; its passes happen exactly there and overwrite what a draft left.

`ServeProofs`: all five invariants of the `serve` run - `OwnTokensOnly`,
`StreamedIsAnswer`, `NoStopShown`, `WellFormedReply`, `HistoryLeavesRoom` - for any
models, windows, threads, tokenizer, stop sequences and order of requests. `IInv` has,
next to the types, six parts:

* `Begun`: a request that was read and not begun has no locals and no answer;
* `Room`: where a generation is, and that prompt and budget fit the window;
* `OwnCache`: the cache is filled to `pos` and coherent with the thread, whatever it
  held before - `generate` starts over at 0 without clearing;
* `Shown`: the text has no stop sequence and starts with what was emitted, and
  (`MayStay`) what was emitted is settled and no stop sequence began in it. This is what
  `emittable_len` is for: a token that completes a stop sequence, or the bytes of a
  character, then never takes back what was sent. `RoundWithoutHit` and `RoundWithHit`
  are the two cases of a turn of the loop;
* `Wire`: the records of a stream so far are an opening, a start and pieces that add up
  to what was emitted, or to a prefix of it once the reader has left;
* `Fair`: what a refusal and a shortened thread owe to the window.

The assumptions are `StopsAssumption` (the list of stop sequences has no empty one) and
`ServeAssumption`: requests as the parser lets them through, a tokenizer that changes
nothing but unsettled characters when a token is added and completes at most one stop
sequence with it, and a chat template that gives no text to an earlier turn when it
gives none to the last. Whether the tokenizer can encode a thread into ids of the
vocabulary is part of a request (`encodes`), and `Fair` allows a refusal where it cannot.

`ConversionProofs`, of the jobs: `TypeOK`, `AtMostMaxRunning`, `RunningHasOwner`, `EndsWithReason` and
`FinishedIsFinal`, for any number of threads, jobs and slots. `IInv` is
`TypeOK /\ Ownership /\ Slots`. `Ownership` ties each phase of a job to the thread
that will end it. `Slots` says that while a thread counts, its counter bounds the
running jobs among those it has passed: a job can only stop running meanwhile,
since nobody else holds the tables.

On top of it, `CursorExact` and `NeverLostWhileRunning`. A
cursor says nothing by itself, so `PInv` adds that a log's lines are numbered without
a gap after those it dropped (`LogsExact`), that the page's copy agrees with its own
cursor (`CopyExact`), and that the cursor is never ahead of what was said
(`CopyCurrent`). For the history, `HInv` adds that the followed job stays in the index
until it ends (`FollowedKept`), that the tables match (`TablesMatch`), and
`ScanBounded`: the jobs that the eviction has passed ran when it passed them, and with
those that still run they fit the slots. So a scan that reaches the end of a history
over its bound leaves `MaxRunning` jobs at most, although jobs end while it looks.

`MemoryStoreProofs`: `NeverWedged`, `ConfirmedIsDurable`, `ConfirmedKept`,
`RefusedNotPublished` and `QueriesAgree`, for any texts, similarities, clients,
capacities, requests and crashes. The data half is `StoreOK` - stores, labels and index
of one length and of one mind: `StoredOK`, `ForgottenOK` and `LoadedOK` say that it
survives a store, a forget with its renumbering, and a start, and `SnapshotOK` that it
passes `validate`. `validate` counts the mapped texts and never looks at them one by
one; `ValidIndexed` shows by cardinality that this is enough. The control half of `IInv`
says who holds which lock (`RequestsOK`), that whatever a power loss may leave can be
read (`DiskOK`), how far a mutation is on the disk and in memory (`MutationOK`), and
that nothing is under way behind an answered success (`ToldOK`).

The other two compare counts of a text's copies, which is not inductive either: a store
that has begun is neither answered nor without effect. `Tally` adds, per text, the stores
that wait or failed and are not answered (`Owing`), the one not in memory yet (`Due`) and
the one in memory and not told (`Gained`). Then what memory holds, what is owed, denied and
due is at most what was sent; what was promised and gained is in memory, and what was
promised is in every snapshot of `kept`, none of which holds more than was sent.

`QueriesAgree` needs the structures item by item, not only of one length: `OneMind` has
the items of both stores equal to the labels in memory, in what is staged and in every
snapshot that may be found (`Aligned`, `Faithful`), and whatever a recall retrieved still
stored, since no mutation gets the guard while one reads (`ReadingOK`). What is left is
about sequences of texts: a stored text is its own best match (`OwnMatch`), no match
means nothing near (`NoMatch`), an appended fact drops an item's energy by five times what
it is closer than its nearest neighbour (`DropFacts`), and the index has one entry for the
text it is asked about (`NearestOfEntry`). Its hypothesis is that a snapshot found at the
first start has its labels in the order of its items: `load_with_capacity` puts them
together by their places (`manager.rs:504`), a file of version 0 has only the order of its
index, and `validate` cannot tell a vector's text. TLC evaluates it on the snapshots of
the run.

The assumption beyond types is `SnapshotAssumption`: a file found at the first start
deserializes to something other than `None`, its index
maps finitely many texts, and one of version 0 has no labels, as `manager.rs:504` says.

`ServerProofs`: `OnlyAdmitted`, `StatusIsEffect` and `RepliesExact`, for any environment,
clients, limits and MCP inputs. `IInv` says which mode may serve whom (`ModeOK`); that whoever is past the
screening was admitted, which is what the settings as *set* allow (`Screened`); what
each phase of a request may have done and been told (`Ledger`); that one request at most
has the guard, and only one that has it, or was detached with it, is about to write
(`Writers`); and that permits and memories add up: the permits taken are those of the
requests inside, the memories are the requests that stored less those that removed
(`Counts`). `Counts` is what makes `StatusIsEffect` hold across requests that were
abandoned while they wrote.

`RepliesExact` has an invariant of its own (`ReaderOK`): as long as the loop of
`run_mcp_stdio` runs, the transport is at a place in its input. Some `n` lines have been
read and each has what is due to it (`ReaderAt`), and either the next line's message is
waiting for its answer (`Framed`), or `m` bytes of that line are read, and the frame holds
exactly those, or nothing once they are more than the limit (`Midway`). The lemmas below it
are about bytes: where each line lies in the input (`LineLies`), what a read takes that may
or may not reach the newline (`Takes`), that a frame of a line's bytes is its message, with
the carriage return or without (`HeldIsSaid`), and that the answer to it does not depend on
the memories in what the client can count on (`HandledError`, `AnswerIsDue`). An empty last
line is both read and unread, and owes nothing (`WholeLines`). The assumption
(`McpAssumption`) is that an input is cut at its newlines, so only its last line may lack
one, and that `None` is no frame.

`InferenceProofs`: `CacheIsText`, `BatchIsSequential` and `PonderBlends`, for any number of
layers, window, vocabulary, draft layers, strategies and models. `InferenceInv` says that the
cache fits the text: in every layer the entries below the end of the text are the
reference's (`Holds`), behind it may be what drafts and refused tokens left, and the layers
of a draft are filled alike (`Level`), or a second draft token would hit the assertion of
`KVCache::store`. Three facts carry it:

* `StreamsPrefix`: the reference is causal. Its streams at a position depend on the tokens
  up to there, so entries stay right when the text grows, and when it is cut.
* `PassIsReference`, `BatchIsReference`: over entries that hold, after `k` layers a pass is at
  the reference's stream `k` and has stored its entries of the layers below (`PassAt`,
  `BatchAt`). A batch stores all its entries of a layer before any of its tokens attends
  (`StoreAllFacts`), and causality makes that the same. The norms of the code's table of
  placements are those of the block shapes the reference is written from (`NormsAround`).
* `ProbeKeeps`, `DraftKeeps`: the passes of pondering after the first change nothing, and a
  draft nothing in front of its position.
* `ProbeReads`: a probe goes through the layers as `ProbeReference` does, over the reference's
  entries of the text up to and with the real token. So every pass has the logits the blend
  has for it (`GuideFacts`, `AddNoiseFacts`), and each strategy puts them together as
  `Blended` does, adaptive pondering by the entropy of what it has so far (`GuidedFacts`,
  `AdaptiveFacts`, `PonderedFacts`).

The hypothesis is that the models are `Convertible`, which is what the converter writes; a
model with experts and projection biases violates `BatchIsSequential` (finding 4).
`InferenceAssumption` has loadable models and the strategies the configuration can name,
`NoneAssumption` that no weights are none.

Of the kernels: `AttentionExact`, `LoopExact`, `RowsOnce`, `BatchSameBits` and `DotExact`, for
any block, tile and chunk sizes and calls of any shape. They are stated for the two state machines the
`inference` run lets loops, attention and products take turns in: `CallInit` and
`CallNext`, `VectorInit` and `VectorNext`.

* `AttentionInv`: a head is scored only when the heads it has to wait for are mixed, and
  its scores are in its part of the scratch buffer until it is mixed itself. That they
  stay there is the point: two heads meet in a place of the buffer only if they belong to
  one token of a batch (`SlotsApart`), and of those one waits for the other (`OneWaits`).
* `CallInv`: what is written is what the chunks taken so far store, so the order in which
  threads take them does not matter. `StoresOf` says what chunk `i` stores. It is in one
  matrix, because the chunks of the matrices add up to all (`Numbering`, over the fold
  that `SumFunction` is, whose order of choice does not matter: `FoldsRemove`); and it has
  the rows of its block there, the last one cut to what the matrix has (`ChunkRange`). An
  address then tells row and token (`AddressFacts`), which no two chunks share
  (`OneStore`), and every address has one.
* `TileIsMatvec`: a row of a tile is, token by token, what the single-token kernel makes of
  it: the two programs do the same to an accumulator for a group (`GroupsAgree`), and the
  accumulators of the tile are the one function that its recursion allows.
* `ElementExact`: an element's sum is exact, whichever kernel it comes from. The buffers of
  a call are those its entry point filled (`InputsInv`), and each of their cells is one
  column's: the registers of a group and the loop behind them store its pairs of columns,
  and groups do not overlap (`AllPairs`, `PreparedFacts`). A kernel's accumulator, in the
  scalar loops, the 8-bit kernel and the packed one with its wide block, its narrow blocks
  and its floating-point rest, starts each step at the column where the step before it
  stopped and stays in one group (`Taking`), so that after the last group every column was
  taken once and with its own scales (`TakenExactly`).
* `LoopInv`: nothing touches what a loop left until the next call, so it is enough to say
  what a loop computes. Body and rest visit each index once (`VisitsFill`). A norm sums in
  the lanes of two registers, a single one and a rest; that these parts have every square is
  `PartsCover`, that they have it once is `PartsCount`, by their lengths. A rotation works in
  place: `Halfway` says which elements are turned after so many turns, and that a turn finds
  both of its elements as they were at the start (`TurnedFurther`). Which turns lie in a whole
  register, and are rounded once, follows from its index in its head (`TurnRounds`,
  `RoundsOwn`).

Beyond types, the assumption on a call is that only the batch entry points take more than
one token (`KernelsAssumption`), on attention that a decode has exactly one token and a
batch at least one, as their callers have it, and on a rotation that heads have an even
size, which the table insists on (`VectorKernelsAssumption`); TLC evaluates both in the
`inference` run.

`ConversionProofs`, of the conversion: `OnlyWholeFiles`, `PlanIsExact` and
`SuccessMeansUsable`, for any set of checkpoints and any limits of the reader, that on the
size of a file included: no bound on
layers, dimensions, experts or sections, every combination of capabilities that the checks
let through. The invariant is `ConvertInv`. `FilesInv`: the output, and whatever it may be
again after a power loss, is absent or complete, and it is never unsynced; `UnderWay`: in
each phase, how much of which checkpoint `.partial` holds, and that every section up to
there could be written; `Answers`: what an `Ok` or a report was an answer to. With it
`OnlyWholeFiles` is the order of the steps: sync before rename, rename of complete files
alone. The other two are about the layout, three times over (`Checkpoint`, `Container`):

* Planner and writer: each part of a layer weighs what `layer_len` adds for it
  (`LinearsRun`, `BiasesRun`, `QkRun`, `SandwichRun`, `ExpertsRun`), hence each section what
  was planned (`SectionRuns`) and the file too (`FileLength`). `WeightConcat` and
  `FlatFacts` are behind all of it: joining runs keeps the offsets in them.
* Writer and reader: part by part, the reader looks for a slot of the size, kind and role
  of the block that was written (`FitsIn`: `LinearsFit`, `BiasesFit`, `QkFits`,
  `SandwichFits`, `ExpertsFit`, `TailFits`, `SectionFits`), so at every slot's offset a
  block lies that holds it (`SlotFound`).
* Header: what is written there reads back as the configuration (`HeaderReads`), although
  a header of version 1 has no capabilities at all and the flags stand for three fields.
* Checks: what the converter lets through, the reader accepts, dimension by dimension and
  capability by capability, if the file is not too large (`HeaderPasses`, `FileOpens`); and what preflight is asked
  before, it calls supported (`PreflightAgrees`).

`ContainerAssumption` and `ConvertAssumption` have limits that are numbers, a few fields of
a checkpoint that are of their type before any check looks at them, and that no file is
confused with none or a torn one. `SuccessMeansUsable` has a hypothesis besides
(`NormsRecognised`), which the code does not check: sandwich norms are recognised by
`model_type` alone (`convert.rs:494`), so a checkpoint that has them under a type that is
not listed would lose them. TLC evaluates all three on the checkpoints of the runs.

The type invariants, `Frontier`, `RunningHasOwner` and `EndsWithReason` are proved and
not checked again by a run. The inductive invariants were themselves checked by TLC on the
instances of the runs before they were proved.

Where a proof needs induction - the pieces of a reply, the bytes of an input's lines, a
least stop position, the folds in `FlattenSeq` and `SumFunction`, the groups of a row -
it goes by a least counterexample (`Least`, from `WFMin`), or proves that a recursive
function exists at every length and is unique (`FlattenExists`, `FlattenUnique`,
`JoinsExist`, `JoinsAgree`); the library's induction rules take an operator and cannot
be applied here.

Only model-checked: liveness, which is out of the prover's reach (`WF`, `SF` and ENABLED).

## Findings

1. `run.rs:446` loops to the target's window, the decoder refuses positions past
   the draft model's (`speculative.rs:191`): with a draft of a smaller window
   generation ends in an error in the middle of the text.
2. `MemorySnapshot::save` reports an error when only the sync of the directory
   failed (`persistence.rs:107`); the refused mutation is on disk and is loaded at
   the next start.
3. `preflight` is documented to give the conversion's own answer (`convert.rs:2134`,
   `2152`), but repeats its steps and has drifted: it supports a sandwich-normed
   `model_type` without input norms (`2278`, refused at `613`), experts with projection
   biases (`632`), a missing tensor (`641`) and an odd group size (`1129`).
4. `forward_batch` adds the down projection's bias once more to the output of a sparse
   layer (`model.rs:944`), whose experts have added it (`swiglu_mlp`): a batch is not
   bit-identical to its tokens one by one, as `model.rs:880` says. Only a file that the
   converter would not write (`convert.rs:632`) and the reader accepts shows it.

The next three are sentences of the repository that the code does not bear out. No run
fails on them, because the properties say what the code does; the runs named meet the case.

5. The converter says that it imports the reader's limits, so that what it writes can be
   loaded "by construction" (`convert.rs:37`). It does not import the limit on the size of a
   file (`MAX_MODEL_FILE_BYTES`, `format.rs:169`), and compares the planned size with the
   free disk space only: a larger conversion succeeds and is refused by `open`
   (`format.rs:583`). In `convert` one checkpoint is such.
6. A test of the two products tolerates a difference because their summation order
   "legitimately differs" (`gemm.rs:2362`). It does not (`BatchSameBits`, in `inference`), and
   `forward_batch` needs that it does not.
7. `tanh_poly` is documented to agree with its vector form, so that the body and the tail of
   a buffer "cannot disagree" (`layers.rs:1060`). They evaluate in the same order, but the
   body fuses and the tail does not (`layers.rs:978`, `1047`, against `923`, `1074`), so their
   bits may differ. `LoopExact` says which element is rounded which way.

## Not modelled

* Numbers: the size of rounding and quantisation errors, sampling weights, calibration, the projection
  of texts, `rai-compress`. TLA+ has no floating point, and the questions about it are
  about magnitude, not order.
* Sequential text and file handling without state of its own: chat templates, the
  command line, `perplexity`, listings, the `.safetensors` parser, the Python scripts.
* Overflow of sizes in the container: the code computes them in checked arithmetic and
  refuses, and the limits the model keeps are far below.
* Failed allocations, which end the process wherever they strike, and several processes
  on one file, which nothing in the code guards against.

## Plan

What would add most from here:

1. An abstract durable service that `MemoryStore` and `Rest` both implement, in place of
   the number of memories.
2. The decoding loops over `Inference` in place of their cache of prefixes.
