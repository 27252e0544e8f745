-------------------------------- MODULE Jobs --------------------------------
(***************************************************************************)
(* Background conversions of `rai serve`: Jobs, Job and run_job of         *)
(* rai-infer/src/cli/jobs.rs, with the page that polls them.               *)
(*                                                                         *)
(* `start` runs on the threads of Starter, each conversion on a worker     *)
(* thread of its own, and a client follows one job by polling with a log   *)
(* cursor.  Three kinds of mutex are involved: `jobs` and `index`, which   *)
(* `start` holds together, and one per job.  A critical section that takes *)
(* a single mutex is one action; the one in `start`, which takes every     *)
(* job's mutex in turn while it holds both tables, is one action per job   *)
(* it looks at, so workers and pollers move between its steps.             *)
(*                                                                         *)
(* The request loop calls start from one thread today; the comments of the *)
(* code promise the type's invariants for callers on several.              *)
(***************************************************************************)
EXTENDS Naturals, Sequences, FiniteSets

CONSTANTS
    Starter,        \* threads that call Jobs::start
    Id,             \* job ids; new_job_id never repeats one
    MaxRunning,     \* MAX_RUNNING_JOBS
    MaxRetained,    \* MAX_RETAINED_JOBS
    MaxLog,         \* MAX_LOG_LINES
    MaxLines,       \* bound: lines one conversion narrates
    None

ASSUME JobsAssumption ==
    /\ IsFiniteSet(Id)
    /\ None \notin Id \cup Starter
    /\ MaxRunning \in Nat \ {0} /\ MaxRetained \in Nat \ {0}
    /\ MaxLog \in Nat \ {0} /\ MaxLines \in Nat

VARIABLES
    job,        \* Id -> the Job behind its mutex; "unused" before start makes it
    said,       \* Id -> how many lines were pushed to the job's log
    jobs,       \* the history, oldest first
    index,      \* the ids that can be polled
    tables,     \* who holds the mutexes of `jobs` and `index`
    pc,         \* Starter -> where it is in start
    mine,       \* Starter -> the job it is starting
    at,         \* Starter -> position in `jobs` of its scan
    count,      \* Starter -> running jobs counted so far
    worker,     \* Id -> where the worker thread is in run_job
    client      \* the page: the job it follows and what it knows of it

jobVars     == <<job, said>>
tableVars   == <<jobs, index, tables>>
starterVars == <<pc, mine, at, count>>
vars == <<jobVars, tableVars, starterVars, worker, client>>

Unused == [phase |-> "unused", log |-> <<>>, dropped |-> 0,
           result |-> FALSE, error |-> FALSE]

Running(i)  == job[i].phase = "running"
Finished(i) == job[i].phase \in {"done", "error"}

-----------------------------------------------------------------------------
(* Job::push_line.  A line is known by its number; a full log drops its      *)
(* oldest line and counts it.                                                *)
PushLine(j, line) ==
    IF Len(j.log) >= MaxLog
    THEN [j EXCEPT !.log = Append(Tail(j.log), line), !.dropped = @ + 1]
    ELSE [j EXCEPT !.log = Append(j.log, line)]

(* Job::snapshot: what a poll with cursor `since` is answered. *)
SnapshotFromZero(j, since) ==        \* mutant: ignores the lines dropped
    LET start == IF since <= Len(j.log) THEN since ELSE Len(j.log)
    IN  [ phase |-> j.phase,
          from  |-> start,
          next  |-> Len(j.log),
          lines |-> SubSeq(j.log, start + 1, Len(j.log)) ]

Snapshot(j, since) ==
    LET first == j.dropped
        ahead == IF since >= first THEN since - first ELSE 0
        start == IF ahead <= Len(j.log) THEN ahead ELSE Len(j.log)
    IN  [ phase |-> j.phase,
          from  |-> first + start,
          next  |-> first + Len(j.log),
          lines |-> SubSeq(j.log, start + 1, Len(j.log)) ]

(* The write that ends a job in an error: a reason is logged and kept. *)
Failed(j, line) == [PushLine(j, line) EXCEPT !.phase = "error", !.error = TRUE]

-----------------------------------------------------------------------------
Init ==
    /\ job = [i \in Id |-> Unused]
    /\ said = [i \in Id |-> 0]
    /\ jobs = <<>>
    /\ index = {}
    /\ tables = None
    /\ pc = [s \in Starter |-> "idle"]
    /\ mine = [s \in Starter |-> None]
    /\ at = [s \in Starter |-> 0]
    /\ count = [s \in Starter |-> 0]
    /\ worker = [i \in Id |-> "none"]
    /\ client = [id |-> None, handle |-> FALSE, cursor |-> 0, seen |-> <<>>,
                 missed |-> 0, told |-> "nothing"]

(* start returns; its locals are gone. *)
Return(s) ==
    /\ pc' = [pc EXCEPT ![s] = "idle"]
    /\ mine' = [mine EXCEPT ![s] = None]
    /\ at' = [at EXCEPT ![s] = 0]
    /\ count' = [count EXCEPT ![s] = 0]

(* start: the job is built, Running from the first, before any lock.  (A      *)
(* request without a source directory or an output is refused before that,   *)
(* and changes nothing.)  Ids are opaque, so any fresh one will do.          *)
FreshId == CHOOSE i \in Id : job[i].phase = "unused"

MakeJob(s) ==
    /\ pc[s] = "idle"
    /\ \E i \in Id : job[i].phase = "unused"
    /\ job' = [job EXCEPT ![FreshId].phase = "running"]
    /\ mine' = [mine EXCEPT ![s] = FreshId]
    /\ pc' = [pc EXCEPT ![s] = "lock"]
    /\ UNCHANGED <<said, tableVars, at, count, worker, client>>

LockTables(s) ==
    /\ pc[s] = "lock"
    /\ tables = None
    /\ tables' = s
    /\ pc' = [pc EXCEPT ![s] = "count"]
    /\ at' = [at EXCEPT ![s] = 1]
    /\ count' = [count EXCEPT ![s] = 0]
    /\ UNCHANGED <<jobVars, jobs, index, mine, worker, client>>

(* One job of the filter over the history, under that job's mutex. *)
CountStarted(s) ==                   \* mutant: a job counts once its worker runs
    /\ pc[s] = "count"
    /\ at[s] <= Len(jobs)
    /\ LET i == jobs[at[s]]
       IN  count' = [count EXCEPT ![s] =
                       @ + IF Running(i) /\ worker[i] # "none" THEN 1 ELSE 0]
    /\ at' = [at EXCEPT ![s] = @ + 1]
    /\ UNCHANGED <<jobVars, tableVars, pc, mine, worker, client>>

CountJob(s) ==
    /\ pc[s] = "count"
    /\ at[s] <= Len(jobs)
    /\ count' = [count EXCEPT ![s] = @ + IF Running(jobs[at[s]]) THEN 1 ELSE 0]
    /\ at' = [at EXCEPT ![s] = @ + 1]
    /\ UNCHANGED <<jobVars, tableVars, pc, mine, worker, client>>

Busy(s) ==
    /\ pc[s] = "count"
    /\ at[s] > Len(jobs)
    /\ count[s] >= MaxRunning
    /\ tables' = None
    /\ Return(s)
    /\ UNCHANGED <<jobVars, jobs, index, worker, client>>

Register(s) ==
    /\ pc[s] = "count"
    /\ at[s] > Len(jobs)
    /\ count[s] < MaxRunning
    /\ jobs' = Append(jobs, mine[s])
    /\ index' = index \cup {mine[s]}
    /\ pc' = [pc EXCEPT ![s] = "evict"]
    /\ at' = [at EXCEPT ![s] = 1]
    /\ count' = [count EXCEPT ![s] = 0]
    /\ UNCHANGED <<jobVars, tables, mine, worker, client>>

(* One job of `position`, which looks for the oldest one not running. *)
SkipRunning(s) ==
    /\ pc[s] = "evict"
    /\ Len(jobs) > MaxRetained
    /\ at[s] <= Len(jobs)
    /\ Running(jobs[at[s]])
    /\ at' = [at EXCEPT ![s] = @ + 1]
    /\ UNCHANGED <<jobVars, tableVars, pc, mine, count, worker, client>>

(* Vec::remove. *)
Without(q, k) == [n \in 1 .. Len(q) - 1 |-> IF n < k THEN q[n] ELSE q[n + 1]]

EvictOldest(s) ==                    \* mutant: drops the oldest whatever it does
    /\ pc[s] = "evict"
    /\ Len(jobs) > MaxRetained
    /\ jobs' = Tail(jobs)
    /\ index' = index \ {Head(jobs)}
    /\ at' = [at EXCEPT ![s] = 1]
    /\ UNCHANGED <<jobVars, tables, pc, mine, count, worker, client>>

Evict(s) ==
    /\ pc[s] = "evict"
    /\ Len(jobs) > MaxRetained
    /\ at[s] <= Len(jobs)
    /\ ~Running(jobs[at[s]])
    /\ jobs' = Without(jobs, at[s])
    /\ index' = index \ {jobs[at[s]]}
    /\ at' = [at EXCEPT ![s] = 1]
    /\ UNCHANGED <<jobVars, tables, pc, mine, count, worker, client>>

(* The history fits, or every job in it is running. *)
UnlockTables(s) ==
    /\ pc[s] = "evict"
    /\ Len(jobs) <= MaxRetained \/ at[s] > Len(jobs)
    /\ tables' = None
    /\ pc' = [pc EXCEPT ![s] = "spawn"]
    /\ at' = [at EXCEPT ![s] = 0]
    /\ UNCHANGED <<jobVars, jobs, index, mine, count, worker, client>>

Spawn(s) ==
    /\ pc[s] = "spawn"
    /\ worker' = [worker EXCEPT ![mine[s]] = "converting"]
    /\ Return(s)
    /\ UNCHANGED <<jobVars, tableVars, client>>

(* The thread cannot be created; the registered job is ended here. *)
SpawnFailsQuietly(s) ==              \* mutant: only the request is refused
    /\ pc[s] = "spawn"
    /\ Return(s)
    /\ UNCHANGED <<jobVars, tableVars, worker, client>>

SpawnFails(s) ==
    /\ pc[s] = "spawn"
    /\ LET i == mine[s]
       IN  /\ job' = [job EXCEPT ![i] = Failed(@, said[i] + 1)]
           /\ said' = [said EXCEPT ![i] = @ + 1]
    /\ Return(s)
    /\ UNCHANGED <<tableVars, worker, client>>

Start(s) ==
    \/ MakeJob(s)
    \/ LockTables(s) \/ CountJob(s) \/ Busy(s) \/ Register(s)
    \/ SkipRunning(s) \/ Evict(s) \/ UnlockTables(s)
    \/ Spawn(s) \/ SpawnFails(s)

-----------------------------------------------------------------------------
(* The progress callback: a line of narration is pushed under the job's      *)
(* mutex.  (Stage, percent and layer are only displayed; an event of several *)
(* lines is several of these steps that no poll separates, one of none is    *)
(* none.)                                                                    *)
Narrate(i) ==
    /\ worker[i] = "converting"
    /\ said[i] < MaxLines
    /\ job' = [job EXCEPT ![i] = PushLine(@, said[i] + 1)]
    /\ said' = [said EXCEPT ![i] = @ + 1]
    /\ UNCHANGED <<tableVars, starterVars, worker, client>>

(* convert_with_progress returns, or panics and is caught. *)
ConversionEnds(i) ==
    /\ worker[i] = "converting"
    /\ \E outcome \in {"succeeded", "failed"} :
           worker' = [worker EXCEPT ![i] = outcome]
    /\ UNCHANGED <<jobVars, tableVars, starterVars, client>>

(* The terminal write, one critical section of the job's mutex. *)
RecordSuccess(i) ==
    /\ worker[i] = "succeeded"
    /\ job' = [job EXCEPT ![i].phase = "done", ![i].result = TRUE]
    /\ worker' = [worker EXCEPT ![i] = "dropping"]
    /\ UNCHANGED <<said, tableVars, starterVars, client>>

RecordFailure(i) ==
    /\ worker[i] = "failed"
    /\ job' = [job EXCEPT ![i] = Failed(@, said[i] + 1)]
    /\ said' = [said EXCEPT ![i] = @ + 1]
    /\ worker' = [worker EXCEPT ![i] = "dropping"]
    /\ UNCHANGED <<tableVars, starterVars, client>>

(* A panic past catch_unwind and before the terminal write unwinds run_job. *)
Unwind(i) ==
    /\ worker[i] \in {"succeeded", "failed"}
    /\ worker' = [worker EXCEPT ![i] = "dropping"]
    /\ UNCHANGED <<jobVars, tableVars, starterVars, client>>

(* TerminalPhaseGuard::drop, on return and on unwinding alike. *)
DropGuardAlways(i) ==                \* mutant: does not look at the phase
    /\ worker[i] = "dropping"
    /\ worker' = [worker EXCEPT ![i] = "gone"]
    /\ job' = [job EXCEPT ![i] = Failed(@, said[i] + 1)]
    /\ said' = [said EXCEPT ![i] = @ + 1]
    /\ UNCHANGED <<tableVars, starterVars, client>>

DropGuard(i) ==
    /\ worker[i] = "dropping"
    /\ worker' = [worker EXCEPT ![i] = "gone"]
    /\ IF Running(i)
       THEN /\ job' = [job EXCEPT ![i] = Failed(@, said[i] + 1)]
            /\ said' = [said EXCEPT ![i] = @ + 1]
       ELSE UNCHANGED jobVars
    /\ UNCHANGED <<tableVars, starterVars, client>>

Work(i) ==
    \/ Narrate(i) \/ ConversionEnds(i)
    \/ RecordSuccess(i) \/ RecordFailure(i) \/ Unwind(i) \/ DropGuard(i)

-----------------------------------------------------------------------------
(* The page starts to follow a job: one a start returned, or one of the list.*)
Watch ==
    /\ client.id = None
    /\ tables = None
    /\ \E i \in index : client' = [client EXCEPT !.id = i, !.told = "running"]
    /\ UNCHANGED <<jobVars, tableVars, starterVars, worker>>

(* Jobs::get takes the index's mutex only; the handle outlives an eviction.  *)
PollGet ==
    /\ client.id # None
    /\ client.told = "running"
    /\ ~client.handle
    /\ tables = None
    /\ client' = IF client.id \in index
                 THEN [client EXCEPT !.handle = TRUE]
                 ELSE [client EXCEPT !.told = "not found"]
    /\ UNCHANGED <<jobVars, tableVars, starterVars, worker>>

(* The snapshot under the job's mutex, and the page's pollJob: it keeps the  *)
(* lines, moves its cursor, and stops at a terminal state.                   *)
PollSnapshot ==
    /\ client.handle
    /\ LET s == Snapshot(job[client.id], client.cursor)
       IN  client' = [client EXCEPT
                        !.handle = FALSE,
                        !.told   = s.phase,
                        !.cursor = IF s.lines # <<>> THEN s.next ELSE @,
                        !.seen   = @ \o s.lines,
                        !.missed = IF s.lines # <<>>
                                   THEN @ + (s.from - client.cursor) ELSE @]
    /\ UNCHANGED <<jobVars, tableVars, starterVars, worker>>

Poll == Watch \/ PollGet \/ PollSnapshot

Next ==
    \/ \E s \in Starter : Start(s)
    \/ \E i \in Id : Work(i)
    \/ Poll

(* A call of start that has begun runs to its end, and so does a worker: a   *)
(* conversion is a finite loop over the sections of a checkpoint.  Nobody    *)
(* has to make a request or to poll.                                         *)
Fairness ==
    /\ \A s \in Starter : WF_vars(pc[s] # "idle" /\ Start(s))
    /\ \A i \in Id : WF_vars(Work(i))

Spec == Init /\ [][Next]_vars /\ Fairness

-----------------------------------------------------------------------------
Phases == {"unused", "running", "done", "error"}

JobType == [phase : Phases, log : Seq(Nat), dropped : Nat,
            result : BOOLEAN, error : BOOLEAN]

JobsTyped ==
    /\ job \in [Id -> JobType]
    /\ \A i \in Id : Len(job[i].log) <= MaxLog
    /\ said \in [Id -> Nat]

TablesTyped ==
    /\ jobs \in Seq(Id)
    /\ index \subseteq Id
    /\ tables \in Starter \cup {None}

StartersTyped ==
    /\ pc \in [Starter -> {"idle", "lock", "count", "evict", "spawn"}]
    /\ mine \in [Starter -> Id \cup {None}]
    /\ at \in [Starter -> Nat]
    /\ count \in [Starter -> Nat]

WorkersTyped ==
    worker \in [Id -> {"none", "converting", "succeeded", "failed", "dropping", "gone"}]

ClientTyped ==
    client \in [id : Id \cup {None}, handle : BOOLEAN, cursor : Nat,
                seen : Seq(Nat), missed : Nat,
                told : {"nothing", "running", "done", "error", "not found"}]

TypeOK ==
    JobsTyped /\ TablesTyped /\ StartersTyped /\ WorkersTyped /\ ClientTyped

(* At most MaxRunning conversions run at once, however many threads start    *)
(* them: the slot is counted and claimed under the same mutexes.             *)
AtMostMaxRunning ==
    Cardinality({i \in index : Running(i)}) <= MaxRunning

(* A job that holds the slot has somebody who will end it: the start that    *)
(* has not spawned its worker yet, or a worker that is not gone.             *)
RunningHasOwner ==
    \A i \in index : Running(i) =>
        \/ worker[i] \in {"converting", "succeeded", "failed", "dropping"}
        \/ \E s \in Starter : mine[s] = i /\ pc[s] \in {"evict", "spawn"}

(* A job ends with its result or with a reason, never with both or neither,  *)
(* and shows neither while it runs.                                          *)
EndsWithReason ==
    \A i \in Id :
        /\ job[i].result <=> job[i].phase = "done"
        /\ job[i].error <=> job[i].phase = "error"

(* A poll never says "no such job" of a conversion that is under way, and    *)
(* whenever the tables are free both hold the same jobs, each once, the      *)
(* history within its bound: only jobs that all run together exceed it.      *)
NeverLostWhileRunning ==
    /\ client.told = "not found" => Finished(client.id)
    /\ tables = None =>
          /\ index = {jobs[k] : k \in 1 .. Len(jobs)}
          /\ Cardinality(index) = Len(jobs)
          /\ Len(jobs) <= MaxRetained \/ Len(jobs) <= MaxRunning

(* The page's copy of the log: every line it has is the one of that number,  *)
(* in order and once; it knows exactly how many it missed; and once it is    *)
(* told that the job ended it has everything the log still holds.            *)
CursorExact ==
    /\ \A k \in 1 .. Len(client.seen) - 1 : client.seen[k] < client.seen[k + 1]
    /\ Len(client.seen) + client.missed = client.cursor
    /\ client.seen # <<>> => client.seen[Len(client.seen)] = client.cursor
    /\ client.told \in {"done", "error"} => client.cursor = said[client.id]

(* A finished job is never rewritten. *)
FinishedIsFinal ==
    [][\A i \in Id : Finished(i) => job'[i] = job[i]]_vars

(* Every conversion that holds a slot gives it back, whatever fails: again   *)
(* and again none is held.  (Jobs are finitely many here and a finished one  *)
(* does not start again, so this says of each that it ends.)                 *)
SlotComesBack == []<>(\A i \in index : ~Running(i))
=============================================================================
