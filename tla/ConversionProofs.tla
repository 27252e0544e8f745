-------------------------- MODULE ConversionProofs --------------------------
(***************************************************************************)
(* Proofs about conversions: about the jobs of `rai serve` that run them,  *)
(* of Jobs, and about what one does to the disk, of Convert.               *)
(*                                                                         *)
(* The jobs, for any number of starting threads and ids and for any of the *)
(* limits: what the threads do to the table, and what a client can see,    *)
(* which is the history that `start` keeps within its bound while workers  *)
(* finish and the log that a page follows with a cursor.                   *)
(*                                                                         *)
(* The conversion, for any checkpoints and any limits of the reader: that  *)
(* only complete files come to the output path, that planner and writer    *)
(* agree on every size, and that the reader finds in the file what the     *)
(* writer put there.                                                       *)
(***************************************************************************)
EXTENDS Jobs, Convert, FiniteSetTheorems, SequenceTheorems, WellFoundedInduction, TLAPS

JobOK(j) == j \in JobType /\ Len(j.log) <= MaxLog

-----------------------------------------------------------------------------
(* A log holds at most MaxLog lines, and pushing changes nothing else. *)
LEMMA PushLineFacts ==
    ASSUME NEW j, JobOK(j), NEW line \in Nat
    PROVE  /\ JobOK(PushLine(j, line))
           /\ PushLine(j, line).phase = j.phase
           /\ PushLine(j, line).result = j.result
           /\ PushLine(j, line).error = j.error
  <1>1. CASE Len(j.log) >= MaxLog
    <2>1. /\ Len(Append(Tail(j.log), line)) <= MaxLog
          /\ Append(Tail(j.log), line) \in Seq(Nat)
      BY <1>1, JobsAssumption DEF JobOK, JobType
    <2> DEFINE log == Append(Tail(j.log), line)
               p   == PushLine(j, line)
    <2>2. p = [j EXCEPT !.log = log, !.dropped = j.dropped + 1]
      BY <1>1 DEF PushLine
    <2>3. j.dropped + 1 \in Nat
      BY DEF JobOK, JobType
    <2> HIDE DEF log, p
    <2>4. /\ p.log = log /\ p.phase = j.phase /\ p.result = j.result
          /\ p.error = j.error
      BY <2>2 DEF JobOK, JobType
    <2>5. p \in JobType
      BY <2>1, <2>2, <2>3 DEF JobOK, JobType, log
    <2> QED BY <2>1, <2>4, <2>5 DEF JobOK, p, log
  <1>2. CASE ~(Len(j.log) >= MaxLog)
    <2>1. /\ Len(Append(j.log, line)) <= MaxLog
          /\ Append(j.log, line) \in Seq(Nat)
      BY <1>2, JobsAssumption DEF JobOK, JobType
    <2> QED BY <1>2, <2>1 DEF PushLine, JobOK, JobType
  <1> QED BY <1>1, <1>2

LEMMA FailedFacts ==
    ASSUME NEW j, JobOK(j), NEW line \in Nat
    PROVE  /\ JobOK(Failed(j, line))
           /\ Failed(j, line).phase = "error"
           /\ Failed(j, line).result = j.result
           /\ Failed(j, line).error = TRUE
  <1> DEFINE p == PushLine(j, line)
             f == Failed(j, line)
  <1>1. /\ p \in JobType /\ Len(p.log) <= MaxLog /\ p.result = j.result
    BY PushLineFacts DEF JobOK
  <1>2. f = [p EXCEPT !.phase = "error", !.error = TRUE]
    BY DEF Failed
  <1> HIDE DEF p, f
  <1>3. /\ f.phase = "error" /\ f.error = TRUE /\ f.result = p.result
        /\ f.log = p.log
    BY <1>1, <1>2 DEF JobType
  <1>4. f \in JobType
    BY <1>1, <1>2 DEF JobType, Phases
  <1> QED BY <1>1, <1>3, <1>4 DEF f, JobOK

(* What a poll is answered is well formed, and its first line is not before  *)
(* the cursor.                                                               *)
LEMMA SnapshotFacts ==
    ASSUME NEW j, JobOK(j), NEW since \in Nat
    PROVE  LET s == Snapshot(j, since)
           IN  /\ s.phase = j.phase
               /\ s.from \in Nat /\ s.next \in Nat
               /\ s.lines \in Seq(Nat)
               /\ s.lines # <<>> => s.from >= since
  <1> DEFINE first == j.dropped
             ahead == IF since >= first THEN since - first ELSE 0
             start == IF ahead <= Len(j.log) THEN ahead ELSE Len(j.log)
             lines == SubSeq(j.log, start + 1, Len(j.log))
  <1>1. /\ first \in Nat /\ ahead \in Nat /\ start \in Nat
        /\ Len(j.log) \in Nat /\ start <= Len(j.log) /\ j.log \in Seq(Nat)
    BY DEF JobOK, JobType
  <1>2. lines \in Seq(Nat)
    BY <1>1
  <1>3. lines # <<>> => first + start >= since
    <2> SUFFICES ASSUME lines # <<>> PROVE first + start >= since
      OBVIOUS
    <2>1. start < Len(j.log)
      BY <1>1
    <2> QED BY <1>1, <2>1
  <1>4. /\ Snapshot(j, since).phase = j.phase
        /\ Snapshot(j, since).from = first + start
        /\ Snapshot(j, since).next = first + Len(j.log)
        /\ Snapshot(j, since).lines = lines
    BY DEF Snapshot
  <1>5. first + start \in Nat /\ first + Len(j.log) \in Nat
    BY <1>1
  <1> HIDE DEF first, start, lines
  <1> QED BY <1>2, <1>3, <1>4, <1>5

-----------------------------------------------------------------------------
LEMMA InitType == Init => TypeOK
  <1> SUFFICES ASSUME Init PROVE TypeOK
    OBVIOUS
  <1>1. JobsTyped
    BY JobsAssumption DEF Init, JobsTyped, JobType, Unused, Phases
  <1>2. TablesTyped /\ StartersTyped /\ WorkersTyped
    BY DEF Init, TablesTyped, StartersTyped, WorkersTyped
  <1>3. ClientTyped
    BY DEF Init, ClientTyped
  <1> QED BY <1>1, <1>2, <1>3 DEF TypeOK

LEMMA JobsOK == JobsTyped => \A i \in Id : JobOK(job[i]) /\ said[i] + 1 \in Nat
  BY DEF JobsTyped, JobOK

(* One job gets a new value of the right type. *)
LEMMA JobChangeType ==
    ASSUME JobsTyped, NEW i \in Id, NEW j, JobOK(j), job' = [job EXCEPT ![i] = j],
           said' = said \/ said' = [said EXCEPT ![i] = @ + 1]
    PROVE  JobsTyped'
  <1>1. j \in JobType /\ Len(j.log) <= MaxLog
    BY DEF JobOK
  <1>2. job' \in [Id -> JobType] /\ \A k \in Id : Len(job'[k].log) <= MaxLog
    BY <1>1 DEF JobsTyped
  <1>3. said' \in [Id -> Nat]
    BY DEF JobsTyped
  <1> QED BY <1>2, <1>3 DEF JobsTyped

LEMMA FreshIdFacts ==
    ASSUME \E i \in Id : job[i].phase = "unused"
    PROVE  FreshId \in Id /\ job[FreshId].phase = "unused"
  BY DEF FreshId

LEMMA PhaseChangeOK ==
    ASSUME NEW j, JobOK(j), NEW phase \in Phases, NEW ok \in BOOLEAN
    PROVE  /\ JobOK([j EXCEPT !.phase = phase])
           /\ JobOK([j EXCEPT !.phase = phase, !.result = ok])
  BY DEF JobOK, JobType

LEMMA WithoutType ==
    ASSUME NEW S, NEW q \in Seq(S), NEW k \in 1 .. Len(q)
    PROVE  /\ Without(q, k) \in Seq(S)
           /\ Len(Without(q, k)) = Len(q) - 1
           /\ \A n \in 1 .. Len(q) - 1 :
                  Without(q, k)[n] = IF n < k THEN q[n] ELSE q[n + 1]
  <1> DEFINE n == Len(q) - 1
             r == Without(q, k)
  <1>1. n \in Nat
    OBVIOUS
  <1>2. r = [m \in 1 .. n |-> IF m < k THEN q[m] ELSE q[m + 1]]
    BY DEF Without
  <1>3. \A m \in 1 .. n : (IF m < k THEN q[m] ELSE q[m + 1]) \in S
    OBVIOUS
  <1> HIDE DEF n, r
  <1>4. r \in Seq(S) /\ Len(r) = n
    BY <1>1, <1>2, <1>3
  <1> QED BY <1>2, <1>4 DEF n, r

LEMMA StartType ==
    ASSUME TypeOK, NEW s \in Starter, Start(s), pc[s] # "idle" => mine[s] \in Id
    PROVE  TypeOK'
  <1> USE DEF TypeOK, tableVars, jobVars, starterVars
  <1>1. CASE MakeJob(s)
    <2>1. FreshId \in Id
      BY <1>1, FreshIdFacts DEF MakeJob
    <2>2. JobOK([job[FreshId] EXCEPT !.phase = "running"])
      BY <2>1, JobsOK, PhaseChangeOK DEF Phases
    <2>3. /\ job' = [job EXCEPT ![FreshId] = [job[FreshId] EXCEPT !.phase = "running"]]
          /\ said' = said
      BY <1>1 DEF MakeJob
    <2>4. JobsTyped'
      BY <2>1, <2>2, <2>3, JobChangeType
    <2>5. StartersTyped'
      BY <1>1, <2>1 DEF MakeJob, StartersTyped
    <2> QED BY <1>1, <2>4, <2>5
            DEF MakeJob, TablesTyped, WorkersTyped, ClientTyped
  <1>2. CASE LockTables(s) \/ CountJob(s) \/ Busy(s) \/ SkipRunning(s) \/ UnlockTables(s)
    <2>1. UNCHANGED <<jobVars, jobs, index, worker, client>>
      BY <1>2 DEF LockTables, CountJob, Busy, SkipRunning, UnlockTables
    <2>2. JobsTyped' /\ WorkersTyped' /\ ClientTyped'
      BY <2>1 DEF JobsTyped, WorkersTyped, ClientTyped
    <2>3. TablesTyped'
      BY <1>2, <2>1
         DEF LockTables, CountJob, Busy, SkipRunning, UnlockTables, TablesTyped
    <2>4. StartersTyped'
      <3>1. at[s] + 1 \in Nat /\ count[s] + 1 \in Nat /\ count[s] + 0 \in Nat
        BY DEF StartersTyped
      <3>2. CASE LockTables(s)
        BY <3>2 DEF LockTables, StartersTyped
      <3>3. CASE CountJob(s)
        <4>1. CASE Running(jobs[at[s]])
          <5>1. count' = [count EXCEPT ![s] = count[s] + 1]
            BY <3>3, <4>1 DEF CountJob
          <5> QED BY <3>1, <3>3, <5>1 DEF CountJob, StartersTyped
        <4>2. CASE ~Running(jobs[at[s]])
          <5>1. count' = [count EXCEPT ![s] = count[s] + 0]
            BY <3>3, <4>2 DEF CountJob
          <5> QED BY <3>1, <3>3, <5>1 DEF CountJob, StartersTyped
        <4> QED BY <4>1, <4>2
      <3>4. CASE Busy(s)
        BY <3>4 DEF Busy, Return, StartersTyped
      <3>5. CASE SkipRunning(s)
        BY <3>1, <3>5 DEF SkipRunning, StartersTyped
      <3>6. CASE UnlockTables(s)
        BY <3>6 DEF UnlockTables, StartersTyped
      <3> QED BY <1>2, <3>2, <3>3, <3>4, <3>5, <3>6
    <2> QED BY <2>2, <2>3, <2>4
  <1>3. CASE Register(s) \/ Evict(s)
    <2>1. JobsTyped' /\ WorkersTyped' /\ ClientTyped'
      BY <1>3 DEF Register, Evict, JobsTyped, WorkersTyped, ClientTyped
    <2>2. StartersTyped'
      <3>1. CASE Register(s)
        BY <3>1 DEF Register, StartersTyped
      <3>2. CASE Evict(s)
        BY <3>2 DEF Evict, StartersTyped
      <3> QED BY <1>3, <3>1, <3>2
    <2>3. TablesTyped'
      <3>1. CASE Register(s)
        BY <3>1 DEF Register, TablesTyped
      <3>2. CASE Evict(s)
        <4>1. /\ at[s] \in Nat /\ Len(jobs) \in Nat /\ at[s] <= Len(jobs)
              /\ jobs \in Seq(Id)
          BY <3>2 DEF Evict, TablesTyped, StartersTyped
        <4>2. CASE at[s] >= 1
          BY <3>2, <4>1, <4>2, WithoutType DEF Evict, TablesTyped
        <4>3. CASE at[s] = 0
          <5>1. Without(jobs, at[s]) \in Seq(Id)
            <6> DEFINE n == Len(jobs) - 1
            <6>1. n \in Nat
              BY <3>2, <4>1, JobsAssumption DEF Evict
            <6>2. Without(jobs, at[s]) = [m \in 1 .. n |-> jobs[m + 1]]
              BY <4>3 DEF Without
            <6>3. \A m \in 1 .. n : jobs[m + 1] \in Id
              BY <4>1
            <6> HIDE DEF n
            <6> QED BY <6>1, <6>2, <6>3
          <5> QED BY <3>2, <5>1 DEF Evict, TablesTyped
        <4> QED BY <4>1, <4>2, <4>3
      <3> QED BY <1>3, <3>1, <3>2
    <2> QED BY <2>1, <2>2, <2>3
  <1>4. CASE Spawn(s)
    BY <1>4 DEF Spawn, Return, JobsTyped, TablesTyped, StartersTyped, WorkersTyped,
                ClientTyped
  <1>5. CASE SpawnFails(s)
    <2>1. mine[s] \in Id
      BY <1>5 DEF SpawnFails
    <2>2. JobOK(Failed(job[mine[s]], said[mine[s]] + 1))
      BY <2>1, JobsOK, FailedFacts
    <2>3. JobsTyped'
      BY <1>5, <2>1, <2>2, JobChangeType DEF SpawnFails
    <2> QED BY <1>5, <2>3 DEF SpawnFails, Return, TablesTyped, StartersTyped,
                              WorkersTyped, ClientTyped
  <1> QED BY <1>1, <1>2, <1>3, <1>4, <1>5 DEF Start

LEMMA WorkType ==
    ASSUME TypeOK, NEW i \in Id, Work(i)
    PROVE  TypeOK'
  <1> USE DEF TypeOK, tableVars, jobVars, starterVars
  <1>1. UNCHANGED <<tableVars, starterVars, client>>
    BY DEF Work, Narrate, ConversionEnds, RecordSuccess, RecordFailure, Unwind,
           DropGuard
  <1>2. TablesTyped' /\ StartersTyped' /\ ClientTyped'
    BY <1>1 DEF TablesTyped, StartersTyped, ClientTyped
  <1>3. WorkersTyped'
    BY DEF Work, Narrate, ConversionEnds, RecordSuccess, RecordFailure, Unwind,
           DropGuard, WorkersTyped
  <1>4. JobOK(job[i]) /\ said[i] + 1 \in Nat
    BY JobsOK
  <1>5. /\ JobOK(PushLine(job[i], said[i] + 1))
        /\ JobOK(Failed(job[i], said[i] + 1))
        /\ JobOK([job[i] EXCEPT !.phase = "done", !.result = TRUE])
    BY <1>4, PushLineFacts, FailedFacts, PhaseChangeOK DEF Phases
  <1>6. \/ UNCHANGED jobVars
        \/ /\ \/ job' = [job EXCEPT ![i] = PushLine(job[i], said[i] + 1)]
              \/ job' = [job EXCEPT ![i] = Failed(job[i], said[i] + 1)]
              \/ job' = [job EXCEPT ![i] =
                            [job[i] EXCEPT !.phase = "done", !.result = TRUE]]
           /\ said' = said \/ said' = [said EXCEPT ![i] = @ + 1]
    BY DEF Work, Narrate, ConversionEnds, RecordSuccess, RecordFailure, Unwind,
           DropGuard
  <1>7. JobsTyped'
    <2>1. CASE UNCHANGED jobVars
      BY <2>1 DEF JobsTyped
    <2>2. CASE ~UNCHANGED jobVars
      BY <2>2, <1>5, <1>6, JobChangeType
    <2> QED BY <2>1, <2>2
  <1> QED BY <1>2, <1>3, <1>7

LEMMA PollType ==
    ASSUME TypeOK, Poll, client.handle => client.id \in Id,
           \A i \in Id : client.handle /\ client.id = i => job[i].phase # "unused"
    PROVE  TypeOK'
  <1> USE DEF TypeOK, tableVars, jobVars, starterVars
  <1>1. UNCHANGED <<jobVars, tableVars, starterVars, worker>>
    BY DEF Poll, Watch, PollGet, PollSnapshot
  <1>2. JobsTyped' /\ TablesTyped' /\ StartersTyped' /\ WorkersTyped'
    BY <1>1 DEF JobsTyped, TablesTyped, StartersTyped, WorkersTyped
  <1>3. ClientTyped'
    <2>1. CASE Watch
      BY <2>1 DEF Watch, ClientTyped, TablesTyped
    <2>2. CASE PollGet
      BY <2>2 DEF PollGet, ClientTyped
    <2>3. CASE PollSnapshot
      <3> DEFINE s == Snapshot(job[client.id], client.cursor)
      <3>1. /\ client.id \in Id /\ client.cursor \in Nat
            /\ client.seen \in Seq(Nat) /\ client.missed \in Nat
        BY <2>3 DEF PollSnapshot, ClientTyped
      <3>2. /\ s.phase = job[client.id].phase
            /\ s.from \in Nat /\ s.next \in Nat /\ s.lines \in Seq(Nat)
            /\ s.lines # <<>> => s.from >= client.cursor
        BY <3>1, JobsOK, SnapshotFacts
      <3>3. s.phase \in {"running", "done", "error"}
        BY <2>3, <3>1, <3>2 DEF PollSnapshot, JobsTyped, JobType, Phases
      <3> DEFINE cursor == IF s.lines # <<>> THEN s.next ELSE client.cursor
                 seen   == client.seen \o s.lines
                 missed == IF s.lines # <<>> THEN client.missed + (s.from - client.cursor)
                           ELSE client.missed
      <3>4. cursor \in Nat /\ seen \in Seq(Nat) /\ missed \in Nat
        BY <3>1, <3>2
      <3>5. client' = [client EXCEPT !.handle = FALSE, !.told = s.phase,
                                     !.cursor = cursor, !.seen = seen,
                                     !.missed = missed]
        BY <2>3 DEF PollSnapshot
      <3> HIDE DEF s, cursor, seen, missed
      <3> QED BY <3>3, <3>4, <3>5 DEF ClientTyped
    <2> QED BY <2>1, <2>2, <2>3 DEF Poll
  <1> QED BY <1>2, <1>3

-----------------------------------------------------------------------------
(* Who owns a job.  The call of start that built it does, until it spawns    *)
(* the worker or ends the job; then the worker does, until it ends the job.  *)
(* A call refused for want of a slot leaves a job nobody can see.            *)

StarterOwns ==
    \A s \in Starter : pc[s] # "idle" =>
        mine[s] \in Id /\ Running(mine[s]) /\ worker[mine[s]] = "none"

NotShared ==
    \A s, t \in Starter :
        pc[s] # "idle" /\ pc[t] # "idle" /\ mine[s] = mine[t] => s = t

WorkerOwns ==
    \A i \in Id : worker[i] \in {"converting", "succeeded", "failed"} => Running(i)

UnusedUnseen ==
    \A i \in Id : job[i].phase = "unused" =>
        worker[i] = "none" /\ i \notin index /\ \A k \in 1 .. Len(jobs) : jobs[k] # i

NotYetRegistered ==
    \A s \in Starter : pc[s] \in {"lock", "count"} => mine[s] \notin index

HandleValid ==
    client.handle => client.id \in Id /\ job[client.id].phase # "unused"

Ownership ==
    /\ StarterOwns /\ NotShared /\ WorkerOwns /\ UnusedUnseen
    /\ NotYetRegistered /\ RunningHasOwner /\ EndsWithReason /\ HandleValid

LEMMA InitOwnership == Init => Ownership
  BY DEF Init, Ownership, StarterOwns, NotShared, WorkerOwns, UnusedUnseen,
         NotYetRegistered, RunningHasOwner, EndsWithReason, HandleValid, Unused,
         Running

(* The steps of start that only move it along, holding the tables. *)
LEMMA OwnershipLocked ==
    ASSUME TypeOK, Ownership, NEW s \in Starter,
           LockTables(s) \/ CountJob(s) \/ SkipRunning(s) \/ UnlockTables(s)
    PROVE  Ownership'
  <1>1. UNCHANGED <<job, worker, index, jobs, mine, client>>
    BY DEF LockTables, CountJob, SkipRunning, UnlockTables, tableVars, jobVars
  <1>2. /\ pc[s] # "idle"
        /\ \/ pc' = pc
           \/ pc[s] = "lock" /\ pc' = [pc EXCEPT ![s] = "count"]
           \/ pc[s] = "evict" /\ pc' = [pc EXCEPT ![s] = "spawn"]
    BY DEF LockTables, CountJob, SkipRunning, UnlockTables
  <1>3. StarterOwns' /\ NotShared' /\ NotYetRegistered'
    BY <1>1, <1>2 DEF TypeOK, StartersTyped, Ownership, StarterOwns, NotShared,
                      NotYetRegistered, Running
  <1>4. RunningHasOwner'
    BY <1>1, <1>2 DEF TypeOK, StartersTyped, Ownership, RunningHasOwner, Running
  <1>5. WorkerOwns' /\ UnusedUnseen' /\ EndsWithReason' /\ HandleValid'
    BY <1>1 DEF Ownership, WorkerOwns, UnusedUnseen, EndsWithReason, HandleValid,
                Running
  <1> QED BY <1>3, <1>4, <1>5 DEF Ownership

LEMMA OwnershipMakeJob ==
    ASSUME TypeOK, Ownership, NEW s \in Starter, MakeJob(s)
    PROVE  Ownership'
  <1> DEFINE f == FreshId
  <1>1. f \in Id /\ job[f].phase = "unused"
    BY FreshIdFacts DEF MakeJob
  <1>2. /\ job' = [job EXCEPT ![f].phase = "running"]
        /\ mine' = [mine EXCEPT ![s] = f]
        /\ pc[s] = "idle" /\ pc' = [pc EXCEPT ![s] = "lock"]
        /\ UNCHANGED <<worker, index, jobs, client>>
    BY DEF MakeJob, tableVars
  <1> HIDE DEF f
  <1>3. /\ \A i \in Id : i # f => job'[i] = job[i]
        /\ job'[f] = [job[f] EXCEPT !.phase = "running"]
        /\ job'[f].phase = "running"
        /\ job'[f].result = job[f].result /\ job'[f].error = job[f].error
    BY <1>1, <1>2 DEF TypeOK, JobsTyped, JobType
  <1>4. \A t \in Starter : pc[t] # "idle" => mine[t] # f
    BY <1>1 DEF Ownership, StarterOwns, Running
  <1>5. worker[f] = "none" /\ f \notin index
    BY <1>1 DEF Ownership, UnusedUnseen
  <1>6. \A t \in Starter : t # s => mine'[t] = mine[t] /\ pc'[t] = pc[t]
    BY <1>2 DEF TypeOK, StartersTyped
  <1>7. mine'[s] = f /\ pc'[s] = "lock"
    BY <1>2 DEF TypeOK, StartersTyped
  <1>8. StarterOwns'
    BY <1>1, <1>2, <1>3, <1>5, <1>6, <1>7 DEF Ownership, StarterOwns, Running
  <1>9. NotShared' /\ NotYetRegistered'
    BY <1>2, <1>4, <1>5, <1>6, <1>7 DEF Ownership, NotShared, NotYetRegistered
  <1>10. WorkerOwns' /\ UnusedUnseen'
    BY <1>1, <1>2, <1>3 DEF Ownership, WorkerOwns, UnusedUnseen, Running
  <1>11. RunningHasOwner'
    <2> SUFFICES ASSUME NEW i \in index, Running(i)'
                 PROVE  \/ worker[i] \in {"converting", "succeeded", "failed", "dropping"}
                        \/ \E t \in Starter : mine'[t] = i /\ pc'[t] \in {"evict", "spawn"}
      BY <1>2 DEF RunningHasOwner
    <2>1. i \in Id /\ i # f /\ Running(i)
      BY <1>3, <1>5 DEF TypeOK, TablesTyped, Running
    <2>2. CASE \E t \in Starter : mine[t] = i /\ pc[t] \in {"evict", "spawn"}
      <3>1. PICK t \in Starter : mine[t] = i /\ pc[t] \in {"evict", "spawn"}
        BY <2>2
      <3> QED BY <3>1, <1>2, <1>6
    <2> QED BY <2>1, <2>2 DEF Ownership, RunningHasOwner
  <1>12. EndsWithReason'
    <2> SUFFICES ASSUME NEW i \in Id
                 PROVE  /\ job'[i].result <=> job'[i].phase = "done"
                        /\ job'[i].error <=> job'[i].phase = "error"
      BY DEF EndsWithReason
    <2>1. CASE i = f
      <3>1. ~job[f].result /\ ~job[f].error
        BY <1>1 DEF Ownership, EndsWithReason
      <3> QED BY <2>1, <3>1, <1>3
    <2>2. CASE i # f
      BY <2>2, <1>3 DEF Ownership, EndsWithReason
    <2> QED BY <2>1, <2>2
  <1>13. HandleValid'
    BY <1>1, <1>2, <1>3 DEF Ownership, HandleValid
  <1> QED BY <1>8, <1>9, <1>10, <1>11, <1>12, <1>13 DEF Ownership

LEMMA OwnershipBusy ==
    ASSUME TypeOK, Ownership, NEW s \in Starter, Busy(s)
    PROVE  Ownership'
  <1>1. UNCHANGED <<job, worker, index, jobs, client>>
    BY DEF Busy, jobVars
  <1>2. /\ pc[s] = "count" /\ pc'[s] = "idle"
        /\ \A t \in Starter : t # s => mine'[t] = mine[t] /\ pc'[t] = pc[t]
    BY DEF Busy, Return, TypeOK, StartersTyped
  <1>3. StarterOwns' /\ NotShared' /\ NotYetRegistered'
    BY <1>1, <1>2 DEF Ownership, StarterOwns, NotShared, NotYetRegistered, Running
  <1>4. RunningHasOwner'
    <2> SUFFICES ASSUME NEW i \in index, Running(i)
                 PROVE  \/ worker[i] \in {"converting", "succeeded", "failed", "dropping"}
                        \/ \E t \in Starter : mine'[t] = i /\ pc'[t] \in {"evict", "spawn"}
      BY <1>1 DEF RunningHasOwner, Running
    <2>1. CASE \E t \in Starter : mine[t] = i /\ pc[t] \in {"evict", "spawn"}
      <3>1. PICK t \in Starter : mine[t] = i /\ pc[t] \in {"evict", "spawn"}
        BY <2>1
      <3> QED BY <3>1, <1>2
    <2> QED BY <2>1 DEF Ownership, RunningHasOwner
  <1>5. WorkerOwns' /\ UnusedUnseen' /\ EndsWithReason' /\ HandleValid'
    BY <1>1 DEF Ownership, WorkerOwns, UnusedUnseen, EndsWithReason, HandleValid,
                Running
  <1> QED BY <1>3, <1>4, <1>5 DEF Ownership

LEMMA OwnershipRegister ==
    ASSUME TypeOK, Ownership, NEW s \in Starter, Register(s)
    PROVE  Ownership'
  <1>1. UNCHANGED <<job, worker, mine, client>>
    BY DEF Register, jobVars
  <1>2. /\ pc[s] = "count" /\ pc'[s] = "evict"
        /\ \A t \in Starter : t # s => pc'[t] = pc[t]
    BY DEF Register, TypeOK, StartersTyped
  <1>3. mine[s] \in Id /\ Running(mine[s])
    BY <1>2 DEF Ownership, StarterOwns
  <1>4. index' = index \cup {mine[s]} /\ jobs' = Append(jobs, mine[s])
    BY DEF Register
  <1>5. StarterOwns' /\ NotShared'
    BY <1>1, <1>2 DEF Ownership, StarterOwns, NotShared, Running
  <1>6. NotYetRegistered'
    <2> SUFFICES ASSUME NEW t \in Starter, pc'[t] \in {"lock", "count"}
                 PROVE  mine[t] \notin index'
      BY <1>1 DEF NotYetRegistered
    <2>1. t # s /\ pc[t] \in {"lock", "count"}
      BY <1>2
    <2>2. mine[t] # mine[s]
      BY <1>2, <2>1 DEF Ownership, NotShared
    <2> QED BY <1>4, <2>1, <2>2 DEF Ownership, NotYetRegistered
  <1>7. RunningHasOwner'
    <2> SUFFICES ASSUME NEW i \in index', Running(i)
                 PROVE  \/ worker[i] \in {"converting", "succeeded", "failed", "dropping"}
                        \/ \E t \in Starter : mine[t] = i /\ pc'[t] \in {"evict", "spawn"}
      BY <1>1 DEF RunningHasOwner, Running
    <2>1. CASE i = mine[s]
      BY <2>1, <1>2
    <2>2. CASE i # mine[s]
      <3>1. i \in index
        BY <1>4, <2>2
      <3>2. CASE \E t \in Starter : mine[t] = i /\ pc[t] \in {"evict", "spawn"}
        <4>1. PICK t \in Starter : mine[t] = i /\ pc[t] \in {"evict", "spawn"}
          BY <3>2
        <4> QED BY <4>1, <1>2
      <3> QED BY <3>1, <3>2 DEF Ownership, RunningHasOwner
    <2> QED BY <2>1, <2>2
  <1>8. UnusedUnseen'
    <2> SUFFICES ASSUME NEW i \in Id, job[i].phase = "unused"
                 PROVE  /\ worker[i] = "none" /\ i \notin index'
                        /\ \A k \in 1 .. Len(jobs') : jobs'[k] # i
      BY <1>1 DEF UnusedUnseen
    <2>1. i # mine[s]
      BY <1>3 DEF Running
    <2>2. /\ worker[i] = "none" /\ i \notin index
          /\ \A k \in 1 .. Len(jobs) : jobs[k] # i
      BY DEF Ownership, UnusedUnseen
    <2>3. \A k \in 1 .. Len(jobs') : jobs'[k] # i
      BY <1>4, <2>1, <2>2 DEF TypeOK, TablesTyped
    <2> QED BY <1>4, <2>1, <2>2, <2>3
  <1>9. WorkerOwns' /\ EndsWithReason' /\ HandleValid'
    BY <1>1 DEF Ownership, WorkerOwns, EndsWithReason, HandleValid, Running
  <1> QED BY <1>5, <1>6, <1>7, <1>8, <1>9 DEF Ownership

(* Evicting shortens both tables. *)
LEMMA EvictFacts ==
    ASSUME TypeOK, NEW s \in Starter, Evict(s), at[s] >= 1
    PROVE  /\ at[s] \in 1 .. Len(jobs) /\ ~Running(jobs[at[s]])
           /\ jobs' \in Seq(Id) /\ Len(jobs') = Len(jobs) - 1
           /\ \A k \in 1 .. Len(jobs) - 1 :
                  jobs'[k] = IF k < at[s] THEN jobs[k] ELSE jobs[k + 1]
           /\ index' = index \ {jobs[at[s]]}
  <1>1. at[s] \in 1 .. Len(jobs) /\ jobs \in Seq(Id) /\ Len(jobs) \in Nat
    BY DEF Evict, TypeOK, TablesTyped, StartersTyped
  <1>2. jobs' = Without(jobs, at[s]) /\ ~Running(jobs[at[s]])
        /\ index' = index \ {jobs[at[s]]}
    BY DEF Evict
  <1> QED BY <1>1, <1>2, WithoutType

LEMMA OwnershipEvict ==
    ASSUME TypeOK, Ownership, NEW s \in Starter, Evict(s), at[s] >= 1
    PROVE  Ownership'
  <1>1. UNCHANGED <<job, worker, mine, pc, client>>
    BY DEF Evict, jobVars
  <1>2. index' \subseteq index
    BY DEF Evict
  <1>3. \A k \in 1 .. Len(jobs') : \E n \in 1 .. Len(jobs) : jobs'[k] = jobs[n]
    <2> SUFFICES ASSUME NEW k \in 1 .. Len(jobs')
                 PROVE  \E n \in 1 .. Len(jobs) : jobs'[k] = jobs[n]
      OBVIOUS
    <2>1. /\ k \in 1 .. Len(jobs) - 1 /\ Len(jobs) \in Nat
          /\ jobs'[k] = IF k < at[s] THEN jobs[k] ELSE jobs[k + 1]
      BY EvictFacts DEF TypeOK, TablesTyped
    <2>2. CASE k < at[s]
      BY <2>1, <2>2
    <2>3. CASE ~(k < at[s])
      BY <2>1, <2>3
    <2> QED BY <2>2, <2>3
  <1>4. UnusedUnseen'
    BY <1>1, <1>2, <1>3 DEF Ownership, UnusedUnseen
  <1>5. NotYetRegistered' /\ RunningHasOwner'
    BY <1>1, <1>2 DEF Ownership, NotYetRegistered, RunningHasOwner, Running
  <1>6. StarterOwns' /\ NotShared' /\ WorkerOwns' /\ EndsWithReason' /\ HandleValid'
    BY <1>1 DEF Ownership, StarterOwns, NotShared, WorkerOwns, EndsWithReason,
                HandleValid, Running
  <1> QED BY <1>4, <1>5, <1>6 DEF Ownership

LEMMA OwnershipSpawn ==
    ASSUME TypeOK, Ownership, NEW s \in Starter, Spawn(s)
    PROVE  Ownership'
  <1> DEFINE i == mine[s]
  <1>1. UNCHANGED <<job, index, jobs, client>>
    BY DEF Spawn, jobVars, tableVars
  <1>2. /\ pc[s] = "spawn" /\ pc'[s] = "idle"
        /\ \A t \in Starter : t # s => mine'[t] = mine[t] /\ pc'[t] = pc[t]
    BY DEF Spawn, Return, TypeOK, StartersTyped
  <1>3. i \in Id /\ Running(i) /\ worker[i] = "none"
    BY <1>2 DEF Ownership, StarterOwns
  <1>4. worker'[i] = "converting" /\ \A k \in Id : k # i => worker'[k] = worker[k]
    BY <1>3 DEF Spawn, TypeOK, WorkersTyped
  <1>5. \A t \in Starter : t # s /\ pc[t] # "idle" => mine[t] # i
    BY <1>2 DEF Ownership, NotShared
  <1> HIDE DEF i
  <1>6. StarterOwns' /\ NotShared' /\ NotYetRegistered'
    BY <1>1, <1>2, <1>4, <1>5
       DEF Ownership, StarterOwns, NotShared, NotYetRegistered, Running
  <1>7. RunningHasOwner'
    <2> SUFFICES ASSUME NEW k \in index, Running(k)
                 PROVE  \/ worker'[k] \in {"converting", "succeeded", "failed", "dropping"}
                        \/ \E t \in Starter : mine'[t] = k /\ pc'[t] \in {"evict", "spawn"}
      BY <1>1 DEF RunningHasOwner, Running
    <2>1. k \in Id
      BY DEF TypeOK, TablesTyped
    <2>2. CASE k = i
      BY <2>2, <1>4
    <2>3. CASE k # i /\ \E t \in Starter : mine[t] = k /\ pc[t] \in {"evict", "spawn"}
      <3>1. PICK t \in Starter : mine[t] = k /\ pc[t] \in {"evict", "spawn"}
        BY <2>3
      <3>2. t # s
        BY <2>3, <3>1 DEF i
      <3> QED BY <3>1, <3>2, <1>2
    <2>4. CASE k # i /\ worker[k] \in {"converting", "succeeded", "failed", "dropping"}
      BY <2>1, <2>4, <1>4
    <2> QED BY <2>2, <2>3, <2>4 DEF Ownership, RunningHasOwner
  <1>8. WorkerOwns' /\ UnusedUnseen' /\ EndsWithReason' /\ HandleValid'
    BY <1>1, <1>3, <1>4
       DEF Ownership, WorkerOwns, UnusedUnseen, EndsWithReason, HandleValid, Running
  <1> QED BY <1>6, <1>7, <1>8 DEF Ownership

LEMMA OwnershipSpawnFails ==
    ASSUME TypeOK, Ownership, NEW s \in Starter, SpawnFails(s)
    PROVE  Ownership'
  <1> DEFINE i == mine[s]
             j == Failed(job[i], said[i] + 1)
  <1>1. UNCHANGED <<index, jobs, worker, client>>
    BY DEF SpawnFails, tableVars
  <1>2. /\ pc[s] = "spawn" /\ pc'[s] = "idle"
        /\ \A t \in Starter : t # s => mine'[t] = mine[t] /\ pc'[t] = pc[t]
    BY DEF SpawnFails, Return, TypeOK, StartersTyped
  <1>3. i \in Id /\ Running(i) /\ worker[i] = "none"
    BY <1>2 DEF Ownership, StarterOwns
  <1>4. job' = [job EXCEPT ![i] = j]
    BY DEF SpawnFails
  <1>5. j.phase = "error" /\ j.result = job[i].result /\ j.error = TRUE
    BY <1>3, FailedFacts, JobsOK DEF TypeOK
  <1>6. ~job[i].result
    BY <1>3 DEF Ownership, EndsWithReason, Running
  <1>7. \A t \in Starter : t # s /\ pc[t] # "idle" => mine[t] # i
    BY <1>2 DEF Ownership, NotShared
  <1> HIDE DEF i, j
  <1>8. /\ job'[i].phase = "error" /\ ~job'[i].result /\ job'[i].error
        /\ \A k \in Id : k # i => job'[k] = job[k]
    BY <1>3, <1>4, <1>5, <1>6 DEF TypeOK, JobsTyped
  <1>9. StarterOwns' /\ NotShared' /\ NotYetRegistered'
    BY <1>1, <1>2, <1>7, <1>8
       DEF Ownership, StarterOwns, NotShared, NotYetRegistered, Running
  <1>10. RunningHasOwner'
    <2> SUFFICES ASSUME NEW k \in index, Running(k)'
                 PROVE  \/ worker[k] \in {"converting", "succeeded", "failed", "dropping"}
                        \/ \E t \in Starter : mine'[t] = k /\ pc'[t] \in {"evict", "spawn"}
      BY <1>1 DEF RunningHasOwner
    <2>1. k \in Id /\ k # i /\ Running(k)
      BY <1>8 DEF TypeOK, TablesTyped, Running
    <2>2. CASE \E t \in Starter : mine[t] = k /\ pc[t] \in {"evict", "spawn"}
      <3>1. PICK t \in Starter : mine[t] = k /\ pc[t] \in {"evict", "spawn"}
        BY <2>2
      <3>2. t # s
        BY <2>1, <3>1 DEF i
      <3> QED BY <3>1, <3>2, <1>2
    <2> QED BY <2>1, <2>2 DEF Ownership, RunningHasOwner
  <1>11. WorkerOwns' /\ UnusedUnseen' /\ HandleValid'
    BY <1>1, <1>3, <1>8 DEF Ownership, WorkerOwns, UnusedUnseen, HandleValid, Running
  <1>12. EndsWithReason'
    BY <1>8 DEF Ownership, EndsWithReason
  <1> QED BY <1>9, <1>10, <1>11, <1>12 DEF Ownership

(* A worker's step touches its own job only, which is running until the step *)
(* that ends it.                                                             *)
LEMMA WorkFacts ==
    ASSUME TypeOK, Ownership, NEW i \in Id, Work(i)
    PROVE  /\ UNCHANGED <<tableVars, starterVars, client>>
           /\ \A k \in Id : k # i => job'[k] = job[k] /\ worker'[k] = worker[k]
           /\ worker[i] # "none" /\ worker'[i] # "none"
           /\ job[i].phase # "unused" /\ job'[i].phase # "unused"
           /\ worker'[i] \in {"converting", "succeeded", "failed"} => Running(i)'
           /\ Running(i)' => Running(i)
           /\ Running(i)' => worker'[i] \in {"converting", "succeeded", "failed", "dropping"}
           /\ job'[i].result <=> job'[i].phase = "done"
           /\ job'[i].error <=> job'[i].phase = "error"
           /\ Finished(i) => job' = job
  <1>1. UNCHANGED <<tableVars, starterVars, client>>
    BY DEF Work, Narrate, ConversionEnds, RecordSuccess, RecordFailure, Unwind,
           DropGuard
  <1>2. /\ worker[i] # "none" /\ worker'[i] # "none"
        /\ \A k \in Id : k # i => job'[k] = job[k] /\ worker'[k] = worker[k]
    BY DEF Work, Narrate, ConversionEnds, RecordSuccess, RecordFailure, Unwind,
           DropGuard, jobVars, TypeOK, JobsTyped, WorkersTyped
  <1>3. job[i].phase # "unused"
    BY <1>2 DEF Ownership, UnusedUnseen
  <1>4. worker[i] \in {"converting", "succeeded", "failed"} => Running(i)
    BY DEF Ownership, WorkerOwns
  <1>5. /\ job[i].result <=> job[i].phase = "done"
        /\ job[i].error <=> job[i].phase = "error"
    BY DEF Ownership, EndsWithReason
  <1>6. JobOK(job[i]) /\ said[i] + 1 \in Nat
    BY JobsOK DEF TypeOK
  <1> DEFINE f == Failed(job[i], said[i] + 1)
             p == PushLine(job[i], said[i] + 1)
             d == [job[i] EXCEPT !.phase = "done", !.result = TRUE]
  <1>7. f.phase = "error" /\ f.result = job[i].result /\ f.error = TRUE
    BY <1>6, FailedFacts
  <1>8. p.phase = job[i].phase /\ p.result = job[i].result /\ p.error = job[i].error
    BY <1>6, PushLineFacts
  <1>9. d.phase = "done" /\ d.result = TRUE /\ d.error = job[i].error
    BY <1>6 DEF JobOK, JobType
  <1> HIDE DEF f, p, d
  <1>10. CASE Narrate(i)
    <2>1. job'[i] = p /\ worker' = worker /\ worker[i] = "converting"
      BY <1>10 DEF Narrate, p, TypeOK, JobsTyped
    <2>2. Running(i) /\ job'[i].phase = "running"
      BY <2>1, <1>4, <1>8 DEF Running
    <2>3. ~job'[i].result /\ ~job'[i].error
      BY <2>1, <2>2, <1>5, <1>8 DEF Running
    <2> QED BY <1>1, <1>2, <2>1, <2>2, <2>3 DEF Running, Finished
  <1>11. CASE ConversionEnds(i) \/ Unwind(i)
    <2>1. /\ job' = job /\ Running(i)
          /\ worker'[i] \in {"succeeded", "failed", "dropping"}
      BY <1>11, <1>4 DEF ConversionEnds, Unwind, TypeOK, WorkersTyped, jobVars
    <2> QED BY <1>1, <1>2, <1>3, <1>5, <2>1 DEF Running
  <1>12. CASE RecordSuccess(i)
    <2>1. job'[i] = d /\ worker'[i] = "dropping" /\ Running(i)
      BY <1>12, <1>4 DEF RecordSuccess, d, TypeOK, JobsTyped, WorkersTyped
    <2>2. job'[i].result /\ ~job'[i].error /\ job'[i].phase = "done"
      BY <2>1, <1>5, <1>9 DEF Running
    <2> QED BY <1>1, <1>2, <1>3, <2>1, <2>2 DEF Running, Finished
  <1>13. CASE RecordFailure(i)
    <2>1. job'[i] = f /\ worker'[i] = "dropping" /\ Running(i)
      BY <1>13, <1>4 DEF RecordFailure, f, TypeOK, JobsTyped, WorkersTyped
    <2>2. ~job'[i].result /\ job'[i].error /\ job'[i].phase = "error"
      BY <2>1, <1>5, <1>7 DEF Running
    <2> QED BY <1>1, <1>2, <1>3, <2>1, <2>2 DEF Running, Finished
  <1>14. CASE DropGuard(i) /\ Running(i)
    <2>1. job'[i] = f /\ worker'[i] = "gone"
      BY <1>14 DEF DropGuard, f, TypeOK, JobsTyped, WorkersTyped
    <2>2. ~job'[i].result /\ job'[i].error /\ job'[i].phase = "error"
      BY <1>14, <2>1, <1>5, <1>7 DEF Running
    <2> QED BY <1>1, <1>2, <1>3, <1>14, <2>1, <2>2 DEF Running, Finished
  <1>15. CASE DropGuard(i) /\ ~Running(i)
    <2>1. job' = job /\ worker'[i] = "gone"
      BY <1>15 DEF DropGuard, TypeOK, WorkersTyped, jobVars
    <2> QED BY <1>1, <1>2, <1>3, <1>5, <1>15, <2>1 DEF Running
  <1> QED BY <1>10, <1>11, <1>12, <1>13, <1>14, <1>15 DEF Work

LEMMA OwnershipWork ==
    ASSUME TypeOK, Ownership, NEW i \in Id, Work(i)
    PROVE  Ownership'
  <1>1. /\ UNCHANGED <<index, jobs, mine, pc, client>>
        /\ \A k \in Id : k # i => job'[k] = job[k] /\ worker'[k] = worker[k]
    BY WorkFacts DEF tableVars, starterVars
  <1>2. /\ worker[i] # "none" /\ job'[i].phase # "unused"
        /\ worker'[i] \in {"converting", "succeeded", "failed"} => Running(i)'
        /\ Running(i)' => worker'[i] \in {"converting", "succeeded", "failed", "dropping"}
        /\ Running(i)' => Running(i)
    BY WorkFacts
  <1>3. StarterOwns'
    BY <1>1, <1>2 DEF Ownership, StarterOwns, Running
  <1>4. NotShared' /\ NotYetRegistered'
    BY <1>1 DEF Ownership, NotShared, NotYetRegistered
  <1>5. WorkerOwns' /\ UnusedUnseen' /\ HandleValid'
    BY <1>1, <1>2 DEF Ownership, WorkerOwns, UnusedUnseen, HandleValid, Running
  <1>6. RunningHasOwner'
    <2> SUFFICES ASSUME NEW k \in index, Running(k)'
                 PROVE  \/ worker'[k] \in {"converting", "succeeded", "failed", "dropping"}
                        \/ \E t \in Starter : mine[t] = k /\ pc[t] \in {"evict", "spawn"}
      BY <1>1 DEF RunningHasOwner
    <2>1. CASE k = i
      BY <2>1, <1>2
    <2>2. CASE k # i
      <3>1. k \in Id /\ job'[k] = job[k] /\ worker'[k] = worker[k]
        BY <2>2, <1>1 DEF TypeOK, TablesTyped
      <3> QED BY <3>1 DEF Ownership, RunningHasOwner, Running
    <2> QED BY <2>1, <2>2
  <1>7. EndsWithReason'
    <2> SUFFICES ASSUME NEW k \in Id
                 PROVE  /\ job'[k].result <=> job'[k].phase = "done"
                        /\ job'[k].error <=> job'[k].phase = "error"
      BY DEF EndsWithReason
    <2>1. CASE k = i
      BY <2>1, WorkFacts
    <2>2. CASE k # i
      BY <2>2, <1>1 DEF Ownership, EndsWithReason
    <2> QED BY <2>1, <2>2
  <1> QED BY <1>3, <1>4, <1>5, <1>6, <1>7 DEF Ownership

LEMMA OwnershipPoll ==
    ASSUME TypeOK, Ownership, Poll
    PROVE  Ownership'
  <1>1. UNCHANGED <<job, index, jobs, mine, pc, worker>>
    BY DEF Poll, Watch, PollGet, PollSnapshot, jobVars, tableVars, starterVars
  <1>2. HandleValid'
    <2>1. CASE Watch
      BY <1>1, <2>1 DEF Watch, Ownership, HandleValid, TypeOK, ClientTyped,
                        TablesTyped, UnusedUnseen
    <2>2. CASE PollGet
      BY <1>1, <2>2 DEF PollGet, Ownership, HandleValid, UnusedUnseen, TypeOK,
                        TablesTyped, ClientTyped
    <2>3. CASE PollSnapshot
      BY <2>3 DEF PollSnapshot, TypeOK, ClientTyped, HandleValid
    <2> QED BY <2>1, <2>2, <2>3 DEF Poll
  <1>3. StarterOwns' /\ NotShared' /\ WorkerOwns' /\ UnusedUnseen'
    BY <1>1 DEF Ownership, StarterOwns, NotShared, WorkerOwns, UnusedUnseen, Running
  <1>4. NotYetRegistered' /\ RunningHasOwner' /\ EndsWithReason'
    BY <1>1 DEF Ownership, NotYetRegistered, RunningHasOwner, EndsWithReason, Running
  <1> QED BY <1>2, <1>3, <1>4 DEF Ownership

-----------------------------------------------------------------------------
(* The slots.  While a starter counts it holds the tables, so nothing is     *)
(* registered, and jobs it has passed can only stop running: its count never *)
(* falls below the number of jobs among them that still run.                 *)

Scanning ==
    \A s \in Starter :
        /\ pc[s] \in {"count", "evict"} => tables = s /\ at[s] >= 1
        /\ pc[s] = "count" => at[s] <= Len(jobs) + 1

InHistory == \A i \in index : \E k \in 1 .. Len(jobs) : jobs[k] = i

Counted(s) ==
    {i \in Id : Running(i) /\ \E k \in 1 .. Len(jobs) : k < at[s] /\ jobs[k] = i}

CountCovers == \A s \in Starter : pc[s] = "count" => Cardinality(Counted(s)) <= count[s]

Slots == Scanning /\ InHistory /\ CountCovers /\ AtMostMaxRunning

LEMMA Smaller ==
    ASSUME NEW S, NEW T, S \subseteq T, T \subseteq Id
    PROVE  /\ IsFiniteSet(S) /\ IsFiniteSet(T)
           /\ Cardinality(S) \in Nat /\ Cardinality(T) \in Nat
           /\ Cardinality(S) <= Cardinality(T)
  BY JobsAssumption, FS_Subset, FS_CardinalityType

LEMMA InitSlots == Init => Slots
  <1> SUFFICES ASSUME Init PROVE Slots
    OBVIOUS
  <1>1. Scanning /\ InHistory /\ CountCovers
    BY DEF Init, Scanning, InHistory, CountCovers
  <1>2. {i \in index : Running(i)} = {}
    BY DEF Init
  <1>3. AtMostMaxRunning
    BY <1>2, FS_EmptySet, JobsAssumption DEF AtMostMaxRunning
  <1> QED BY <1>1, <1>3 DEF Slots

(* A step that leaves the tables alone, and starts no job they hold. *)
LEMMA SlotsQuiet ==
    ASSUME TypeOK, Slots, UNCHANGED tableVars,
           \A t \in Starter : pc'[t] \in {"count", "evict"} =>
               pc'[t] = pc[t] /\ at'[t] = at[t] /\ count'[t] = count[t],
           \A i \in Id : Running(i)' =>
               \/ Running(i)
               \/ i \notin index /\ \A k \in 1 .. Len(jobs) : jobs[k] # i
    PROVE  Slots'
  <1> USE DEF tableVars
  <1>1. Scanning' /\ InHistory'
    BY DEF Slots, Scanning, InHistory
  <1>2. CountCovers'
    <2> SUFFICES ASSUME NEW t \in Starter, pc'[t] = "count"
                 PROVE  Cardinality(Counted(t)') <= count'[t]
      BY DEF CountCovers
    <2>1. pc[t] = "count" /\ at'[t] = at[t] /\ count'[t] = count[t]
      OBVIOUS
    <2>2. Counted(t)' \subseteq Counted(t)
      BY <2>1 DEF Counted
    <2>3. Counted(t) \subseteq Id
      BY DEF Counted
    <2>4. Cardinality(Counted(t)) <= count[t] /\ count[t] \in Nat
      BY <2>1 DEF Slots, CountCovers, TypeOK, StartersTyped
    <2> QED BY <2>1, <2>2, <2>3, <2>4, Smaller
  <1>3. AtMostMaxRunning'
    <2> DEFINE before == {i \in index : Running(i)}
               after  == {i \in index' : Running(i)'}
    <2>1. after \subseteq before /\ before \subseteq Id
      BY DEF TypeOK, TablesTyped
    <2>2. Cardinality(before) <= MaxRunning
      BY DEF Slots, AtMostMaxRunning
    <2> HIDE DEF before
    <2>3. Cardinality(after) <= MaxRunning
      BY <2>1, <2>2, Smaller, JobsAssumption
    <2> QED BY <2>3 DEF AtMostMaxRunning
  <1> QED BY <1>1, <1>2, <1>3 DEF Slots

(* While one starter holds the tables, or takes them, no other one scans. *)
LEMMA OnlyScanner ==
    ASSUME TypeOK, Scanning, NEW s \in Starter, tables \in {s, None}
    PROVE  \A t \in Starter : t # s => pc[t] \notin {"count", "evict"}
  BY JobsAssumption DEF Scanning

LEMMA SlotsScan ==
    ASSUME TypeOK, Slots, NEW s \in Starter,
           LockTables(s) \/ CountJob(s) \/ Busy(s) \/ SkipRunning(s) \/ UnlockTables(s)
    PROVE  Slots'
  <1>1. UNCHANGED <<job, jobs, index>>
    BY DEF LockTables, CountJob, Busy, SkipRunning, UnlockTables, jobVars, tableVars
  <1>2. /\ jobs \in Seq(Id) /\ Len(jobs) \in Nat /\ at[s] \in Nat /\ count[s] \in Nat
        /\ pc \in [Starter -> {"idle", "lock", "count", "evict", "spawn"}]
        /\ at \in [Starter -> Nat] /\ count \in [Starter -> Nat]
    BY DEF TypeOK, TablesTyped, StartersTyped
  <1>3. tables \in {s, None}
    BY DEF LockTables, CountJob, Busy, SkipRunning, UnlockTables, Slots, Scanning
  <1>4. \A t \in Starter : t # s => pc'[t] = pc[t] /\ pc[t] \notin {"count", "evict"}
    BY <1>2, <1>3, OnlyScanner
       DEF Slots, LockTables, CountJob, Busy, SkipRunning, UnlockTables, Return
  <1>5. InHistory' /\ AtMostMaxRunning'
    BY <1>1 DEF Slots, InHistory, AtMostMaxRunning, Running
  <1>6. Scanning'
    <2>1. CASE LockTables(s)
      BY <1>2, <1>4, <2>1 DEF LockTables, Scanning
    <2>2. CASE CountJob(s)
      BY <1>2, <1>4, <2>2 DEF CountJob, Scanning, Slots, tableVars
    <2>3. CASE Busy(s) \/ UnlockTables(s)
      BY <1>2, <1>4, <2>3 DEF Busy, UnlockTables, Return, Scanning
    <2>4. CASE SkipRunning(s)
      BY <1>2, <1>4, <2>4 DEF SkipRunning, Scanning, Slots, tableVars
    <2> QED BY <2>1, <2>2, <2>3, <2>4
  <1>7. CountCovers'
    <2> SUFFICES ASSUME NEW t \in Starter, pc'[t] = "count"
                 PROVE  Cardinality(Counted(t)') <= count'[t]
      BY DEF CountCovers
    <2>1. t = s
      BY <1>4
    <2>2. CASE LockTables(s)
      <3>1. at'[s] = 1 /\ count'[s] = 0
        BY <1>2, <2>2 DEF LockTables
      <3>2. Counted(s)' = {}
        BY <1>1, <1>2, <3>1 DEF Counted
      <3> QED BY <2>1, <3>1, <3>2, FS_EmptySet
    <2>3. CASE CountJob(s)
      <3> DEFINE k == at[s]
      <3>1. /\ pc[s] = "count" /\ k \in 1 .. Len(jobs) /\ at'[s] = k + 1
            /\ count'[s] = count[s] + IF Running(jobs[k]) THEN 1 ELSE 0
        BY <1>2, <2>3 DEF CountJob, Slots, Scanning
      <3>2. Cardinality(Counted(s)) <= count[s]
        BY <3>1 DEF Slots, CountCovers
      <3>3. IsFiniteSet(Counted(s)) /\ Cardinality(Counted(s)) \in Nat
        BY Smaller DEF Counted
      <3>4. CASE Running(jobs[k])
        <4>1. Counted(s)' \subseteq Counted(s) \cup {jobs[k]}
          BY <1>1, <1>2, <3>1 DEF Counted, Running
        <4>2. jobs[k] \in Id
          BY <1>2, <3>1
        <4>3. Cardinality(Counted(s) \cup {jobs[k]}) <= Cardinality(Counted(s)) + 1
          <5> DEFINE c == Counted(s)
                     x == jobs[k]
          <5>1. IsFiniteSet(c) /\ Cardinality(c) \in Nat
            BY <3>3
          <5> HIDE DEF c, x
          <5>2. Cardinality(c \cup {x}) = Cardinality(c)
                \/ Cardinality(c \cup {x}) = Cardinality(c) + 1
            BY <5>1, FS_AddElement, Zenon
          <5>3. Cardinality(c \cup {x}) <= Cardinality(c) + 1
            BY <5>1, <5>2
          <5> QED BY <5>3 DEF c, x
        <4>4. Counted(s) \cup {jobs[k]} \subseteq Id
          BY <4>2 DEF Counted
        <4>5. Cardinality(Counted(s)') <= Cardinality(Counted(s) \cup {jobs[k]})
              /\ Cardinality(Counted(s)') \in Nat
              /\ Cardinality(Counted(s) \cup {jobs[k]}) \in Nat
          BY <4>1, <4>4, Smaller
        <4>6. count'[s] = count[s] + 1
          BY <3>1, <3>4
        <4> QED BY <1>2, <2>1, <3>2, <3>3, <4>3, <4>5, <4>6
      <3>5. CASE ~Running(jobs[k])
        <4>1. Counted(s)' \subseteq Counted(s)
          BY <1>1, <1>2, <3>1, <3>5 DEF Counted, Running
        <4>2. Counted(s) \subseteq Id
          BY DEF Counted
        <4>3. count'[s] = count[s]
          BY <1>2, <3>1, <3>5
        <4> QED BY <1>2, <2>1, <3>2, <4>1, <4>2, <4>3, Smaller
      <3> QED BY <3>4, <3>5
    <2>4. CASE Busy(s) \/ UnlockTables(s) \/ SkipRunning(s)
      BY <1>2, <2>1, <2>4 DEF Busy, UnlockTables, SkipRunning, Return
    <2> QED BY <2>2, <2>3, <2>4
  <1> QED BY <1>5, <1>6, <1>7 DEF Slots

LEMMA SlotsRegister ==
    ASSUME TypeOK, Ownership, Slots, NEW s \in Starter, Register(s)
    PROVE  Slots'
  <1>1. /\ pc[s] = "count" /\ at[s] > Len(jobs) /\ count[s] < MaxRunning
        /\ jobs' = Append(jobs, mine[s]) /\ index' = index \cup {mine[s]}
        /\ job' = job /\ tables' = tables
    BY DEF Register, jobVars
  <1>2. /\ jobs \in Seq(Id) /\ Len(jobs) \in Nat /\ at[s] \in Nat /\ count[s] \in Nat
        /\ index \subseteq Id
        /\ pc \in [Starter -> {"idle", "lock", "count", "evict", "spawn"}]
        /\ at \in [Starter -> Nat]
    BY DEF TypeOK, TablesTyped, StartersTyped
  <1>3. mine[s] \in Id
    BY <1>1 DEF Ownership, StarterOwns
  <1>4. tables = s
    BY <1>1 DEF Slots, Scanning
  <1>5. /\ pc'[s] = "evict" /\ at'[s] = 1
        /\ \A t \in Starter : t # s => pc'[t] \notin {"count", "evict"}
    BY <1>2, <1>4, OnlyScanner DEF Slots, Register
  <1>6. Scanning' /\ CountCovers'
    BY <1>1, <1>4, <1>5 DEF Scanning, CountCovers
  <1>7. InHistory'
    <2> SUFFICES ASSUME NEW i \in index'
                 PROVE  \E k \in 1 .. Len(jobs') : jobs'[k] = i
      BY DEF InHistory
    <2>1. CASE i \in index
      <3>1. PICK k \in 1 .. Len(jobs) : jobs[k] = i
        BY <2>1 DEF Slots, InHistory
      <3>2. k \in 1 .. Len(jobs') /\ jobs'[k] = i
        BY <1>1, <1>2, <1>3, <3>1
      <3> QED BY <3>2
    <2>2. CASE i = mine[s]
      <3>1. Len(jobs) + 1 \in 1 .. Len(jobs') /\ jobs'[Len(jobs) + 1] = i
        BY <1>1, <1>2, <1>3, <2>2
      <3> QED BY <3>1
    <2> QED BY <1>1, <2>1, <2>2
  <1>8. AtMostMaxRunning'
    <2> DEFINE before == {i \in index : Running(i)}
               after  == {i \in index' : Running(i)'}
    <2>1. before \subseteq Counted(s)
      BY <1>1, <1>2 DEF Counted, Slots, InHistory
    <2>2. Counted(s) \subseteq Id
      BY DEF Counted
    <2>3. Cardinality(Counted(s)) <= count[s]
      BY <1>1 DEF Slots, CountCovers
    <2>4. after \subseteq before \cup {mine[s]}
      BY <1>1 DEF Running
    <2>5. before \cup {mine[s]} \subseteq Id
      BY <1>2, <1>3
    <2> HIDE DEF before, after
    <2>6. /\ IsFiniteSet(before) /\ Cardinality(before) \in Nat
          /\ Cardinality(before) <= Cardinality(Counted(s))
          /\ Cardinality(Counted(s)) \in Nat
      BY <2>1, <2>2, Smaller
    <2>7. Cardinality(before \cup {mine[s]}) <= Cardinality(before) + 1
      <3>1. \/ Cardinality(before \cup {mine[s]}) = Cardinality(before)
            \/ Cardinality(before \cup {mine[s]}) = Cardinality(before) + 1
        BY <2>6, FS_AddElement, Zenon
      <3> QED BY <2>6, <3>1
    <2>8. /\ Cardinality(after) <= Cardinality(before \cup {mine[s]})
          /\ Cardinality(after) \in Nat
          /\ Cardinality(before \cup {mine[s]}) \in Nat
      BY <2>4, <2>5, Smaller
    <2>9. Cardinality(after) <= MaxRunning
      BY <1>1, <1>2, <2>3, <2>6, <2>7, <2>8, JobsAssumption
    <2> QED BY <2>9 DEF AtMostMaxRunning, after
  <1> QED BY <1>6, <1>7, <1>8 DEF Slots

LEMMA SlotsEvict ==
    ASSUME TypeOK, Slots, NEW s \in Starter, Evict(s)
    PROVE  Slots'
  <1>1. /\ pc[s] = "evict" /\ pc' = pc /\ tables' = tables /\ job' = job
        /\ at' = [at EXCEPT ![s] = 1]
    BY DEF Evict, jobVars
  <1>2. /\ jobs \in Seq(Id) /\ Len(jobs) \in Nat /\ at \in [Starter -> Nat]
        /\ index \subseteq Id
    BY DEF TypeOK, TablesTyped, StartersTyped
  <1>3. tables = s /\ at[s] >= 1
    BY <1>1 DEF Slots, Scanning
  <1>4. \A t \in Starter : t # s => pc'[t] \notin {"count", "evict"}
    BY <1>1, <1>3, OnlyScanner DEF Slots
  <1>5. Scanning' /\ CountCovers'
    BY <1>1, <1>2, <1>3, <1>4 DEF Scanning, CountCovers
  <1>6. /\ at[s] \in 1 .. Len(jobs)
        /\ Len(jobs') = Len(jobs) - 1
        /\ \A k \in 1 .. Len(jobs) - 1 :
               jobs'[k] = IF k < at[s] THEN jobs[k] ELSE jobs[k + 1]
        /\ index' = index \ {jobs[at[s]]}
    BY <1>3, EvictFacts
  <1>7. InHistory'
    <2> SUFFICES ASSUME NEW i \in index'
                 PROVE  \E k \in 1 .. Len(jobs') : jobs'[k] = i
      BY DEF InHistory
    <2>1. PICK k \in 1 .. Len(jobs) : jobs[k] = i
      BY <1>6 DEF Slots, InHistory
    <2>2. k # at[s]
      BY <1>6, <2>1
    <2>3. CASE k < at[s]
      <3>1. k \in 1 .. Len(jobs) - 1 /\ jobs'[k] = i
        BY <1>2, <1>6, <2>1, <2>3
      <3> QED BY <1>6, <3>1
    <2>4. CASE k > at[s]
      <3>1. k - 1 \in 1 .. Len(jobs) - 1 /\ jobs'[k - 1] = i
        BY <1>2, <1>6, <2>1, <2>4
      <3> QED BY <1>6, <3>1
    <2> QED BY <1>2, <1>6, <2>2, <2>3, <2>4
  <1>8. AtMostMaxRunning'
    <2> DEFINE before == {i \in index : Running(i)}
               after  == {i \in index' : Running(i)'}
    <2>1. after \subseteq before /\ before \subseteq Id
      BY <1>1, <1>2, <1>6 DEF Running
    <2>2. Cardinality(before) <= MaxRunning
      BY DEF Slots, AtMostMaxRunning
    <2> HIDE DEF before, after
    <2>3. Cardinality(after) <= MaxRunning
      BY <2>1, <2>2, Smaller, JobsAssumption
    <2> QED BY <2>3 DEF AtMostMaxRunning, after
  <1> QED BY <1>5, <1>7, <1>8 DEF Slots

-----------------------------------------------------------------------------
(* The inductive invariant. *)
IInv == TypeOK /\ Ownership /\ Slots

LEMMA StarterPreserves ==
    ASSUME IInv, NEW s \in Starter, Start(s)
    PROVE  IInv'
  <1> USE DEF IInv
  <1>1. TypeOK'
    BY StartType DEF Ownership, StarterOwns
  <1>2. CASE LockTables(s) \/ CountJob(s) \/ SkipRunning(s) \/ UnlockTables(s)
    BY <1>1, <1>2, OwnershipLocked, SlotsScan
  <1>3. CASE Busy(s)
    BY <1>1, <1>3, OwnershipBusy, SlotsScan
  <1>4. CASE Register(s)
    BY <1>1, <1>4, OwnershipRegister, SlotsRegister
  <1>5. CASE Evict(s)
    <2>1. at[s] >= 1
      BY <1>5 DEF Evict, Slots, Scanning
    <2> QED BY <1>1, <1>5, <2>1, OwnershipEvict, SlotsEvict
  <1>6. CASE MakeJob(s)
    <2> DEFINE f == FreshId
    <2>1. f \in Id /\ job[f].phase = "unused"
      BY <1>6, FreshIdFacts DEF MakeJob
    <2>2. UNCHANGED tableVars /\ job' = [job EXCEPT ![f].phase = "running"]
          /\ at' = at /\ count' = count /\ pc' = [pc EXCEPT ![s] = "lock"]
      BY <1>6 DEF MakeJob
    <2> HIDE DEF f
    <2>3. \A t \in Starter : pc'[t] \in {"count", "evict"} => pc'[t] = pc[t]
      BY <2>2 DEF TypeOK, StartersTyped
    <2>4. f \notin index /\ \A k \in 1 .. Len(jobs) : jobs[k] # f
      BY <2>1 DEF Ownership, UnusedUnseen
    <2>5. \A i \in Id : i # f => job'[i] = job[i]
      BY <2>1, <2>2 DEF TypeOK, JobsTyped
    <2>6. Slots'
      BY <2>2, <2>3, <2>4, <2>5, SlotsQuiet DEF Running
    <2> QED BY <1>1, <1>6, <2>6, OwnershipMakeJob
  <1>7. CASE Spawn(s)
    <2>1. /\ UNCHANGED tableVars /\ job' = job
          /\ \A t \in Starter : pc'[t] \in {"count", "evict"} =>
                 pc'[t] = pc[t] /\ at'[t] = at[t] /\ count'[t] = count[t]
      BY <1>7 DEF Spawn, Return, jobVars, TypeOK, StartersTyped
    <2>2. Slots'
      BY <2>1, SlotsQuiet DEF Running
    <2> QED BY <1>1, <1>7, <2>2, OwnershipSpawn
  <1>8. CASE SpawnFails(s)
    <2> DEFINE i == mine[s]
               j == Failed(job[i], said[i] + 1)
    <2>1. i \in Id
      BY <1>8 DEF SpawnFails, Ownership, StarterOwns
    <2>2. j.phase = "error"
      BY <2>1, FailedFacts, JobsOK DEF TypeOK
    <2>3. /\ UNCHANGED tableVars /\ job' = [job EXCEPT ![i] = j]
          /\ \A t \in Starter : pc'[t] \in {"count", "evict"} =>
                 pc'[t] = pc[t] /\ at'[t] = at[t] /\ count'[t] = count[t]
      BY <1>8 DEF SpawnFails, Return, TypeOK, StartersTyped
    <2> HIDE DEF i, j
    <2>4. \A k \in Id : Running(k)' => Running(k)
      BY <2>1, <2>2, <2>3 DEF Running, TypeOK, JobsTyped
    <2>5. Slots'
      BY <2>3, <2>4, SlotsQuiet
    <2> QED BY <1>1, <1>8, <2>5, OwnershipSpawnFails
  <1> QED BY <1>2, <1>3, <1>4, <1>5, <1>6, <1>7, <1>8 DEF Start

LEMMA WorkerPreserves ==
    ASSUME IInv, NEW i \in Id, Work(i)
    PROVE  IInv'
  <1> USE DEF IInv
  <1>1. TypeOK' /\ Ownership'
    BY WorkType, OwnershipWork
  <1>2. /\ UNCHANGED tableVars
        /\ UNCHANGED <<pc, at, count>>
        /\ \A k \in Id : Running(k)' => Running(k)
    BY WorkFacts DEF starterVars, Running
  <1>3. Slots'
    BY <1>2, SlotsQuiet
  <1> QED BY <1>1, <1>3

LEMMA ClientPreserves == ASSUME IInv, Poll PROVE IInv'
  <1> USE DEF IInv
  <1>1. TypeOK' /\ Ownership'
    BY PollType, OwnershipPoll DEF Ownership, HandleValid
  <1>2. UNCHANGED tableVars /\ UNCHANGED <<pc, at, count, job>>
    BY DEF Poll, Watch, PollGet, PollSnapshot, starterVars, jobVars
  <1>3. Slots'
    BY <1>2, SlotsQuiet DEF Running
  <1> QED BY <1>1, <1>3

LEMMA Stuttering == ASSUME IInv, UNCHANGED vars PROVE IInv'
  <1>1. /\ UNCHANGED <<job, said, jobs, index, tables, pc, mine, at, count>>
        /\ UNCHANGED <<worker, client>>
    BY DEF vars, jobVars, tableVars, starterVars
  <1>2. TypeOK'
    BY <1>1 DEF IInv, TypeOK, JobsTyped, TablesTyped, StartersTyped, WorkersTyped,
                ClientTyped
  <1>3. Ownership'
    BY <1>1 DEF IInv, Ownership, StarterOwns, NotShared, WorkerOwns, UnusedUnseen,
                NotYetRegistered, RunningHasOwner, EndsWithReason, HandleValid,
                Running
  <1>4. Slots'
    BY <1>1, SlotsQuiet DEF IInv, tableVars, Running
  <1> QED BY <1>2, <1>3, <1>4 DEF IInv

(* The invariant holds of every behaviour, whatever the limits are and       *)
(* however many threads start conversions.                                   *)
THEOREM Invariance == Spec => []IInv
  <1>1. Init => IInv
    BY InitType, InitOwnership, InitSlots DEF IInv
  <1>2. IInv /\ [Next]_vars => IInv'
    BY StarterPreserves, WorkerPreserves, ClientPreserves, Stuttering DEF Next
  <1> QED BY <1>1, <1>2, PTL DEF Spec

(* The variables keep their types, and no job's log its bound. *)
THEOREM TypeCorrect == Spec => []TypeOK
  <1>1. IInv => TypeOK
    BY DEF IInv
  <1> QED BY <1>1, Invariance, PTL

(* Jobs::start never lets more conversions run than MAX_RUNNING_JOBS. *)
THEOREM SlotsBounded == Spec => []AtMostMaxRunning
  <1>1. IInv => AtMostMaxRunning
    BY DEF IInv, Slots
  <1> QED BY <1>1, Invariance, PTL

(* No job holds a slot that nobody is left to give back, whether the worker  *)
(* could be spawned or not.                                                  *)
THEOREM NoOrphans == Spec => []RunningHasOwner
  <1>1. IInv => RunningHasOwner
    BY DEF IInv, Ownership
  <1> QED BY <1>1, Invariance, PTL

(* Every job that ended has its result or its reason. *)
THEOREM EndsExplained == Spec => []EndsWithReason
  <1>1. IInv => EndsWithReason
    BY DEF IInv, Ownership
  <1> QED BY <1>1, Invariance, PTL

(* The terminal write and the guard that follows it never rewrite a job that *)
(* has ended, and no later step does.                                        *)
THEOREM TerminalWriteOnce == Spec => FinishedIsFinal
  <1>1. ASSUME IInv, [Next]_vars, NEW i \in Id, Finished(i)
        PROVE  job'[i] = job[i]
    <2>1. CASE UNCHANGED vars
      BY <2>1 DEF vars, jobVars
    <2>2. ASSUME NEW s \in Starter, Start(s) PROVE job'[i] = job[i]
      <3>1. CASE MakeJob(s)
        <4>1. FreshId \in Id /\ FreshId # i
          BY <1>1, <3>1, FreshIdFacts DEF MakeJob, Finished
        <4> QED BY <1>1, <3>1, <4>1 DEF MakeJob, IInv, TypeOK, JobsTyped
      <3>2. CASE SpawnFails(s)
        <4>1. mine[s] # i
          BY <1>1, <3>2 DEF SpawnFails, IInv, Ownership, StarterOwns, Running, Finished
        <4> QED BY <1>1, <3>2, <4>1 DEF SpawnFails, IInv, TypeOK, JobsTyped
      <3>3. CASE ~MakeJob(s) /\ ~SpawnFails(s)
        BY <2>2, <3>3 DEF Start, LockTables, CountJob, Busy, Register, SkipRunning,
                          Evict, UnlockTables, Spawn, jobVars
      <3> QED BY <3>1, <3>2, <3>3
    <2>3. ASSUME NEW k \in Id, Work(k) PROVE job'[i] = job[i]
      BY <1>1, <2>3, WorkFacts DEF IInv
    <2>4. CASE Poll
      BY <2>4 DEF Poll, Watch, PollGet, PollSnapshot, jobVars
    <2> QED BY <1>1, <2>1, <2>2, <2>3, <2>4 DEF Next
  <1>2. IInv /\ [Next]_vars => [\A i \in Id : Finished(i) => job'[i] = job[i]]_vars
    BY <1>1
  <1> QED BY <1>2, Invariance, PTL DEF Spec, FinishedIsFinal
-----------------------------------------------------------------------------
(* A log's lines are numbered without a gap after those it dropped, and it   *)
(* is never emptied.                                                         *)
LogExact(j, n) ==
    /\ j.dropped + Len(j.log) = n
    /\ \A k \in 1 .. Len(j.log) : j.log[k] = j.dropped + k
    /\ j.dropped > 0 => Len(j.log) > 0

LogsExact == \A i \in Id : LogExact(job[i], said[i])

(* The page's copy of the log, against itself. *)
Increasing(q) == \A k \in 1 .. Len(q) - 1 : q[k] < q[k + 1]

CopyExact ==
    /\ Increasing(client.seen)
    /\ Len(client.seen) + client.missed = client.cursor
    /\ client.seen # <<>> => client.seen[Len(client.seen)] = client.cursor

(* The page's knowledge, against the job it follows. *)
CopyCurrent ==
    /\ client.id = None => client.cursor = 0 /\ client.told = "nothing"
    /\ \A i \in Id : client.id = i =>
          /\ client.cursor <= said[i]
          /\ client.told \in {"done", "error"} => Finished(i) /\ client.cursor = said[i]

PInv == LogsExact /\ CopyExact /\ CopyCurrent

(* What Watch took from the index stays there until it has ended. *)
FollowedKept ==
    /\ client.told = "not found" => client.id # None
    /\ \A i \in Id : client.id = i =>
          /\ i \in index \/ Finished(i)
          /\ client.told = "not found" => Finished(i)

(* The two tables hold the same jobs, each once. *)
TablesMatch ==
    /\ index = {jobs[k] : k \in 1 .. Len(jobs)}
    /\ \A k, l \in 1 .. Len(jobs) : jobs[k] = jobs[l] => k = l

(* The jobs the eviction scan has passed were running when it did, and when  *)
(* the scan began: with those that still run they fit the slots.             *)
Passed(s) ==
    {i \in Id : \E k \in 1 .. Len(jobs) :
                    jobs[k] = i /\ (k < at[s] \/ Running(i))}

ScanBounded ==
    \A s \in Starter : pc[s] = "evict" => Cardinality(Passed(s)) <= MaxRunning

HistoryFits == Len(jobs) <= MaxRetained \/ Len(jobs) <= MaxRunning

HistoryBounded == (\A s \in Starter : pc[s] # "evict") => HistoryFits

HInv == FollowedKept /\ TablesMatch /\ ScanBounded /\ HistoryBounded
-----------------------------------------------------------------------------
(* Pushing a line gives it the next number. *)
LEMMA PushExact ==
    ASSUME NEW j, JobOK(j), NEW n \in Nat, LogExact(j, n)
    PROVE  LogExact(PushLine(j, n + 1), n + 1)
  <1> DEFINE p == PushLine(j, n + 1)
             d == j.dropped
             m == Len(j.log)
  <1>1. /\ d \in Nat /\ m \in Nat /\ d + m = n /\ j.log \in Seq(Nat)
        /\ \A k \in 1 .. m : j.log[k] = d + k
    BY DEF JobOK, JobType, LogExact
  <1>2. CASE Len(j.log) >= MaxLog
    <2> DEFINE log == Append(Tail(j.log), n + 1)
    <2>1. m >= 1
      BY <1>1, <1>2, JobsAssumption
    <2>2. p = [j EXCEPT !.log = log, !.dropped = d + 1]
      BY <1>2 DEF PushLine
    <2>3. /\ Len(log) = m
          /\ \A k \in 1 .. m - 1 : log[k] = j.log[k + 1]
          /\ log[m] = n + 1
      BY <1>1, <2>1
    <2> HIDE DEF log, p
    <2>4. p.log = log /\ p.dropped = d + 1
      BY <2>2 DEF JobOK, JobType
    <2> HIDE DEF d, m
    <2>5. ASSUME NEW k \in 1 .. m PROVE log[k] = d + 1 + k
      <3>1. CASE k = m
        <4>1. log[k] = n + 1 /\ n + 1 = d + 1 + k
          BY <3>1, <1>1, <2>3
        <4> QED BY <4>1
      <3>2. CASE k # m
        <4>1. k \in Nat /\ k \in 1 .. m - 1 /\ k + 1 \in 1 .. m
          BY <3>2, <1>1
        <4>2. log[k] = j.log[k + 1] /\ j.log[k + 1] = d + (k + 1)
          BY <4>1, <1>1, <2>3
        <4>3. d + (k + 1) = d + 1 + k
          BY <4>1, <1>1
        <4> QED BY <4>2, <4>3
      <3> QED BY <3>1, <3>2
    <2>6. d + 1 + Len(log) = n + 1 /\ Len(log) > 0
      <3>1. d + 1 + m = n + 1 /\ m > 0
        BY <1>1, <2>1
      <3> QED BY <2>3, <3>1
    <2> QED BY <2>3, <2>4, <2>5, <2>6 DEF LogExact, p
  <1>3. CASE ~(Len(j.log) >= MaxLog)
    <2> DEFINE log == Append(j.log, n + 1)
    <2>1. p = [j EXCEPT !.log = log]
      BY <1>3 DEF PushLine
    <2>2. /\ Len(log) = m + 1
          /\ \A k \in 1 .. m : log[k] = j.log[k]
          /\ log[m + 1] = n + 1
      BY <1>1
    <2> HIDE DEF log, p
    <2>3. p.log = log /\ p.dropped = d
      BY <2>1 DEF JobOK, JobType
    <2> HIDE DEF d, m
    <2>4. ASSUME NEW k \in 1 .. m + 1 PROVE log[k] = d + k
      <3>1. CASE k = m + 1
        <4>1. log[k] = n + 1 /\ n + 1 = d + k
          BY <3>1, <1>1, <2>2
        <4> QED BY <4>1
      <3>2. CASE k # m + 1
        <4>1. k \in 1 .. m
          BY <3>2, <1>1
        <4> QED BY <4>1, <1>1, <2>2
      <3> QED BY <3>1, <3>2
    <2>5. d + Len(log) = n + 1 /\ Len(log) > 0
      <3>1. d + (m + 1) = n + 1 /\ m + 1 > 0
        BY <1>1
      <3> QED BY <2>2, <3>1
    <2> QED BY <2>2, <2>3, <2>4, <2>5 DEF LogExact, p
  <1> QED BY <1>2, <1>3

LEMMA FailedExact ==
    ASSUME NEW j, JobOK(j), NEW n \in Nat, LogExact(j, n)
    PROVE  LogExact(Failed(j, n + 1), n + 1)
  <1> DEFINE p == PushLine(j, n + 1)
  <1>1. LogExact(p, n + 1) /\ p \in JobType
    BY PushExact, PushLineFacts DEF JobOK
  <1>2. Failed(j, n + 1) = [p EXCEPT !.phase = "error", !.error = TRUE]
    BY DEF Failed
  <1> HIDE DEF p
  <1> QED BY <1>1, <1>2 DEF LogExact, JobType

(* What any step does to a job: nothing, one line more, or neither a line    *)
(* nor a loss; and nothing at all to one that has ended.                     *)
LEMMA JobStep ==
    ASSUME IInv, LogsExact, [Next]_vars, NEW i \in Id
    PROVE  /\ LogExact(job'[i], said'[i])
           /\ said[i] \in Nat /\ said'[i] \in Nat /\ said[i] <= said'[i]
           /\ Finished(i) => job'[i] = job[i] /\ said'[i] = said[i]
  <1>1. TypeOK /\ Ownership
    BY DEF IInv
  <1>2. /\ JobOK(job[i]) /\ said[i] \in Nat /\ LogExact(job[i], said[i])
        /\ job \in [Id -> JobType] /\ said \in [Id -> Nat]
    BY <1>1, JobsOK DEF TypeOK, JobsTyped, LogsExact
  <1>3. CASE job'[i] = job[i] /\ said'[i] = said[i]
    BY <1>2, <1>3
  <1>4. CASE /\ ~Finished(i) /\ said'[i] = said[i] + 1
             /\ \/ job'[i] = PushLine(job[i], said[i] + 1)
                \/ job'[i] = Failed(job[i], said[i] + 1)
    BY <1>2, <1>4, PushExact, FailedExact
  <1>5. CASE /\ ~Finished(i) /\ said'[i] = said[i]
             /\ job'[i].log = job[i].log /\ job'[i].dropped = job[i].dropped
    BY <1>2, <1>5 DEF LogExact
  <1>6. CASE UNCHANGED vars
    BY <1>6, <1>3 DEF vars, jobVars
  <1>7. ASSUME NEW s \in Starter, Start(s)
        PROVE  \/ job'[i] = job[i] /\ said'[i] = said[i]
               \/ /\ ~Finished(i) /\ said'[i] = said[i] + 1
                  /\ job'[i] = Failed(job[i], said[i] + 1)
               \/ /\ ~Finished(i) /\ said'[i] = said[i]
                  /\ job'[i].log = job[i].log /\ job'[i].dropped = job[i].dropped
    <2>1. CASE MakeJob(s)
      <3>1. FreshId \in Id /\ job[FreshId].phase = "unused"
        BY <2>1, FreshIdFacts DEF MakeJob
      <3>2. said' = said /\ job' = [job EXCEPT ![FreshId].phase = "running"]
        BY <2>1 DEF MakeJob
      <3>3. CASE i = FreshId
        <4>1. job'[i] = [job[i] EXCEPT !.phase = "running"]
          BY <1>2, <3>2, <3>3
        <4>2. job'[i].log = job[i].log /\ job'[i].dropped = job[i].dropped
          BY <4>1, <1>2 DEF JobOK, JobType
        <4> QED BY <3>1, <3>2, <3>3, <4>2 DEF Finished
      <3>4. CASE i # FreshId
        BY <1>2, <3>2, <3>4
      <3> QED BY <3>3, <3>4
    <2>2. CASE SpawnFails(s)
      <3>1. mine[s] \in Id /\ Running(mine[s])
        BY <2>2, <1>1 DEF SpawnFails, Ownership, StarterOwns
      <3>2. /\ said' = [said EXCEPT ![mine[s]] = @ + 1]
            /\ job' = [job EXCEPT ![mine[s]] = Failed(@, said[mine[s]] + 1)]
        BY <2>2 DEF SpawnFails
      <3>3. CASE i = mine[s]
        BY <1>2, <3>1, <3>2, <3>3 DEF Running, Finished
      <3>4. CASE i # mine[s]
        BY <1>2, <3>2, <3>4
      <3> QED BY <3>3, <3>4
    <2>3. CASE ~MakeJob(s) /\ ~SpawnFails(s)
      BY <1>7, <2>3 DEF Start, LockTables, CountJob, Busy, Register, SkipRunning,
                        Evict, UnlockTables, Spawn, jobVars
    <2> QED BY <2>1, <2>2, <2>3
  <1>8. ASSUME NEW k \in Id, Work(k)
        PROVE  \/ job'[i] = job[i] /\ said'[i] = said[i]
               \/ /\ ~Finished(i) /\ said'[i] = said[i] + 1
                  /\ \/ job'[i] = PushLine(job[i], said[i] + 1)
                     \/ job'[i] = Failed(job[i], said[i] + 1)
               \/ /\ ~Finished(i) /\ said'[i] = said[i]
                  /\ job'[i].log = job[i].log /\ job'[i].dropped = job[i].dropped
    <2>1. worker[k] \in {"converting", "succeeded", "failed"} => Running(k)
      BY <1>1 DEF Ownership, WorkerOwns
    <2>2. CASE Narrate(k)
      <3>1. /\ Running(k) /\ said' = [said EXCEPT ![k] = @ + 1]
            /\ job' = [job EXCEPT ![k] = PushLine(@, said[k] + 1)]
        BY <2>1, <2>2 DEF Narrate
      <3>2. CASE i = k
        BY <1>2, <3>1, <3>2 DEF Running, Finished
      <3>3. CASE i # k
        BY <1>2, <3>1, <3>3
      <3> QED BY <3>2, <3>3
    <2>3. CASE RecordFailure(k) \/ (DropGuard(k) /\ Running(k))
      <3>1. /\ Running(k) /\ said' = [said EXCEPT ![k] = @ + 1]
            /\ job' = [job EXCEPT ![k] = Failed(@, said[k] + 1)]
        BY <2>1, <2>3 DEF RecordFailure, DropGuard
      <3>2. CASE i = k
        BY <1>2, <3>1, <3>2 DEF Running, Finished
      <3>3. CASE i # k
        BY <1>2, <3>1, <3>3
      <3> QED BY <3>2, <3>3
    <2>4. CASE RecordSuccess(k)
      <3>1. /\ Running(k) /\ said' = said
            /\ job' = [job EXCEPT ![k] = [job[k] EXCEPT !.phase = "done", !.result = TRUE]]
        BY <2>1, <2>4 DEF RecordSuccess
      <3>2. CASE i = k
        <4>1. job'[i] = [job[i] EXCEPT !.phase = "done", !.result = TRUE]
          BY <1>2, <3>1, <3>2
        <4>2. job'[i].log = job[i].log /\ job'[i].dropped = job[i].dropped
          BY <4>1, <1>2 DEF JobOK, JobType
        <4> QED BY <3>1, <3>2, <4>2 DEF Running, Finished
      <3>3. CASE i # k
        BY <1>2, <3>1, <3>3
      <3> QED BY <3>2, <3>3
    <2>5. CASE ConversionEnds(k) \/ Unwind(k) \/ (DropGuard(k) /\ ~Running(k))
      BY <2>5 DEF ConversionEnds, Unwind, DropGuard, jobVars
    <2> QED BY <1>8, <2>2, <2>3, <2>4, <2>5 DEF Work
  <1>9. CASE Poll
    BY <1>9, <1>3 DEF Poll, Watch, PollGet, PollSnapshot, jobVars
  <1> QED BY <1>3, <1>4, <1>5, <1>6, <1>7, <1>8, <1>9 DEF Next
-----------------------------------------------------------------------------
LEMMA Suffix ==
    ASSUME NEW q \in Seq(Nat), NEW a \in Nat, a <= Len(q)
    PROVE  /\ SubSeq(q, a + 1, Len(q)) \in Seq(Nat)
           /\ Len(SubSeq(q, a + 1, Len(q))) = Len(q) - a
           /\ \A k \in 1 .. Len(q) - a : SubSeq(q, a + 1, Len(q))[k] = q[a + k]
  <1>1. \A k \in 1 .. Len(q) - a : a + k \in 1 .. Len(q) /\ a + 1 + k - 1 = a + k
    OBVIOUS
  <1> QED BY <1>1

LEMMA Joined ==
    ASSUME NEW q \in Seq(Nat), NEW r \in Seq(Nat)
    PROVE  /\ q \o r \in Seq(Nat) /\ Len(q \o r) = Len(q) + Len(r)
           /\ \A k \in 1 .. Len(q) : (q \o r)[k] = q[k]
           /\ \A k \in 1 .. Len(r) : (q \o r)[Len(q) + k] = r[k]
  <1>1. \A k \in 1 .. Len(r) : Len(q) + k - Len(q) = k
    OBVIOUS
  <1> QED BY <1>1

(* What a poll is answered, for a cursor that is not ahead of the log: the   *)
(* lines from the cursor on that the log still has, numbered, and nothing    *)
(* only when there is nothing.                                               *)
LEMMA SnapshotExact ==
    ASSUME NEW j, JobOK(j), NEW n \in Nat, LogExact(j, n),
           NEW since \in Nat, since <= n
    PROVE  LET s == Snapshot(j, since)
           IN  /\ s.phase = j.phase
               /\ s.lines \in Seq(Nat) /\ s.from \in Nat
               /\ s.lines = <<>> => since = n
               /\ s.lines # <<>> =>
                     /\ s.next = n /\ s.from >= since
                     /\ s.from + Len(s.lines) = n
                     /\ \A k \in 1 .. Len(s.lines) : s.lines[k] = s.from + k
  <1> DEFINE d     == j.dropped
             m     == Len(j.log)
             ahead == IF since >= d THEN since - d ELSE 0
             start == IF ahead <= m THEN ahead ELSE m
             lines == SubSeq(j.log, start + 1, m)
  <1>1. /\ d \in Nat /\ m \in Nat /\ d + m = n /\ j.log \in Seq(Nat)
        /\ \A k \in 1 .. m : j.log[k] = d + k
        /\ d > 0 => m > 0
    BY DEF JobOK, JobType, LogExact
  <1>2. /\ Snapshot(j, since).phase = j.phase
        /\ Snapshot(j, since).from = d + start
        /\ Snapshot(j, since).next = d + m
        /\ Snapshot(j, since).lines = lines
    BY DEF Snapshot
  <1> HIDE DEF d, m
  <1>3. /\ start \in Nat /\ start <= m /\ d + start \in Nat
        /\ start = m => since = n
        /\ start < m => d + start >= since
    BY <1>1
  <1>4. /\ lines \in Seq(Nat) /\ Len(lines) = m - start
        /\ \A k \in 1 .. m - start : lines[k] = j.log[start + k]
    <2> HIDE DEF start
    <2> QED BY <1>1, <1>3, Suffix DEF m
  <1> HIDE DEF start, lines
  <1>5. lines = <<>> => start = m
    BY <1>1, <1>3, <1>4
  <1>6. lines # <<>> => start < m
    BY <1>1, <1>3, <1>4
  <1>7. d + start + Len(lines) = n
    <2>1. d + start + (m - start) = n
      BY <1>1, <1>3
    <2> QED BY <1>4, <2>1
  <1>8. ASSUME NEW k \in 1 .. Len(lines) PROVE lines[k] = d + start + k
    <2>1. k \in Nat /\ k \in 1 .. m - start /\ start + k \in 1 .. m
      BY <1>1, <1>3, <1>4
    <2>2. lines[k] = d + (start + k)
      BY <1>1, <1>4, <2>1
    <2> QED BY <1>1, <1>3, <2>1, <2>2
  <1> QED BY <1>1, <1>2, <1>3, <1>4, <1>5, <1>6, <1>7, <1>8

(* A rising sequence goes on rising with the numbers after its last one. *)
LEMMA RisingOn ==
    ASSUME NEW q \in Seq(Nat), Increasing(q), NEW r \in Seq(Nat), NEW from \in Nat,
           q # <<>> => q[Len(q)] <= from,
           \A k \in 1 .. Len(r) : r[k] = from + k
    PROVE  Increasing(q \o r)
  <1> DEFINE a == Len(q)
             b == Len(r)
  <1>1. /\ a \in Nat /\ b \in Nat /\ Len(q \o r) = a + b
        /\ \A k \in 1 .. a : (q \o r)[k] = q[k] /\ q[k] \in Nat
        /\ \A k \in 1 .. b : (q \o r)[a + k] = r[k]
        /\ q # <<>> <=> a # 0
    BY Joined
  <1>2. /\ \A k \in 1 .. a - 1 : q[k] < q[k + 1]
        /\ a # 0 => q[a] <= from
        /\ \A k \in 1 .. b : r[k] = from + k
    BY <1>1 DEF Increasing
  <1> HIDE DEF a, b
  <1> SUFFICES ASSUME NEW k \in 1 .. a + b - 1
               PROVE  (q \o r)[k] < (q \o r)[k + 1]
    <2>1. Len(q \o r) - 1 = a + b - 1
      BY <1>1
    <2> QED BY <2>1, Zenon DEF Increasing
  <1>3. k \in Nat
    BY <1>1
  <1>4. CASE k < a
    <2>1. k \in 1 .. a /\ k + 1 \in 1 .. a /\ k \in 1 .. a - 1
      BY <1>1, <1>3, <1>4
    <2> QED BY <1>1, <1>2, <2>1
  <1>5. CASE k = a
    <2>1. k \in 1 .. a /\ a # 0 /\ 1 \in 1 .. b
      BY <1>1, <1>3, <1>5
    <2>2. (q \o r)[k] = q[a] /\ q[a] \in Nat /\ q[a] <= from
      BY <1>1, <1>2, <1>5, <2>1
    <2>3. (q \o r)[k + 1] = from + 1
      BY <1>1, <1>2, <1>5, <2>1
    <2> QED BY <2>2, <2>3
  <1>6. CASE k > a
    <2> DEFINE i == k - a
    <2>1. i \in 1 .. b /\ i + 1 \in 1 .. b /\ k = a + i /\ k + 1 = a + (i + 1)
      BY <1>1, <1>3, <1>6
    <2> HIDE DEF i
    <2>2. (q \o r)[k] = r[i] /\ (q \o r)[k + 1] = r[i + 1]
      BY <1>1, <2>1
    <2>3. r[i] = from + i /\ r[i + 1] = from + (i + 1)
      BY <1>2, <2>1
    <2>4. from + i < from + (i + 1)
      BY <2>1
    <2> QED BY <2>2, <2>3, <2>4
  <1>7. k < a \/ k = a \/ k > a
    BY <1>1, <1>3
  <1> QED BY <1>4, <1>5, <1>6, <1>7

-----------------------------------------------------------------------------
LEMMA InitPInv == Init => PInv
  <1> SUFFICES ASSUME Init PROVE PInv
    OBVIOUS
  <1>1. LogsExact
    BY DEF Init, LogsExact, LogExact, Unused
  <1>2. client = [id |-> None, handle |-> FALSE, cursor |-> 0, seen |-> <<>>,
                  missed |-> 0, told |-> "nothing"]
    BY DEF Init
  <1>3. CopyExact
    BY <1>2 DEF CopyExact, Increasing
  <1>4. CopyCurrent
    BY <1>2, JobsAssumption DEF CopyCurrent
  <1> QED BY <1>1, <1>3, <1>4 DEF PInv

(* A step of anybody but the page leaves what it has as exact as it was. *)
LEMMA OthersKeepCopy ==
    ASSUME IInv, PInv, [Next]_vars, UNCHANGED client
    PROVE  CopyExact' /\ CopyCurrent'
  <1>1. CopyExact'
    BY DEF PInv, CopyExact
  <1>2. client.cursor \in Nat
    BY DEF IInv, TypeOK, ClientTyped
  <1>3. ASSUME NEW i \in Id, client.id = i
        PROVE  /\ client.cursor <= said'[i]
               /\ client.told \in {"done", "error"} =>
                     Finished(i)' /\ client.cursor = said'[i]
    <2>1. /\ client.cursor <= said[i]
          /\ client.told \in {"done", "error"} => Finished(i) /\ client.cursor = said[i]
      BY <1>3 DEF PInv, CopyCurrent
    <2>2. /\ said[i] \in Nat /\ said'[i] \in Nat /\ said[i] <= said'[i]
          /\ Finished(i) => job'[i] = job[i] /\ said'[i] = said[i]
      BY JobStep DEF PInv
    <2> QED BY <1>2, <2>1, <2>2 DEF Finished
  <1> QED BY <1>1, <1>3 DEF PInv, CopyCurrent

LEMMA PageKeepsCopy ==
    ASSUME IInv, PInv, Poll
    PROVE  CopyExact' /\ CopyCurrent'
  <1>1. job' = job /\ said' = said
    BY DEF Poll, Watch, PollGet, PollSnapshot, jobVars
  <1>2. /\ client \in [id : Id \cup {None}, handle : BOOLEAN, cursor : Nat,
                       seen : Seq(Nat), missed : Nat,
                       told : {"nothing", "running", "done", "error", "not found"}]
        /\ said \in [Id -> Nat] /\ None \notin Id /\ index \subseteq Id
    BY JobsAssumption DEF IInv, TypeOK, ClientTyped, JobsTyped, TablesTyped
  <1>3. CASE Watch
    <2>1. PICK i \in index : client' = [client EXCEPT !.id = i, !.told = "running"]
      BY <1>3 DEF Watch
    <2>2. /\ client'.id = i /\ client'.told = "running" /\ client'.seen = client.seen
          /\ client'.cursor = client.cursor /\ client'.missed = client.missed
      BY <1>2, <2>1
    <2>3. client.cursor = 0
      BY <1>3 DEF Watch, PInv, CopyCurrent
    <2>4. CopyExact'
      BY <2>2 DEF PInv, CopyExact
    <2>5. CopyCurrent'
      <3>1. i \in Id /\ said[i] \in Nat /\ i # None
        BY <1>2
      <3>2. client'.cursor <= said'[i]
        BY <1>1, <2>2, <2>3, <3>1
      <3> QED BY <2>2, <3>1, <3>2 DEF CopyCurrent
    <2> QED BY <2>4, <2>5
  <1>4. CASE PollGet
    <2>1. /\ client.id # None /\ client'.id = client.id /\ client'.seen = client.seen
          /\ client'.cursor = client.cursor /\ client'.missed = client.missed
          /\ client'.told \in {"running", "not found"}
      BY <1>2, <1>4 DEF PollGet
    <2>2. CopyExact'
      BY <2>1 DEF PInv, CopyExact
    <2>3. CopyCurrent'
      BY <1>1, <2>1 DEF PInv, CopyCurrent
    <2> QED BY <2>2, <2>3
  <1>5. CASE PollSnapshot
    <2> DEFINE i == client.id
               s == Snapshot(job[i], client.cursor)
               n == said[i]
    <2>1. i \in Id
      BY <1>5 DEF PollSnapshot, IInv, Ownership, HandleValid
    <2>2. /\ JobOK(job[i]) /\ n \in Nat /\ LogExact(job[i], n)
          /\ client.cursor \in Nat /\ client.cursor <= n
      BY <1>2, <2>1, JobsOK DEF IInv, TypeOK, PInv, LogsExact, CopyCurrent
    <2>3. /\ s.phase = job[i].phase
          /\ s.lines \in Seq(Nat) /\ s.from \in Nat
          /\ s.lines = <<>> => client.cursor = n
          /\ s.lines # <<>> =>
                /\ s.next = n /\ s.from >= client.cursor
                /\ s.from + Len(s.lines) = n
                /\ \A k \in 1 .. Len(s.lines) : s.lines[k] = s.from + k
      BY <2>2, SnapshotExact
    <2>4. client' = [client EXCEPT !.handle = FALSE, !.told = s.phase,
                        !.cursor = IF s.lines # <<>> THEN s.next ELSE client.cursor,
                        !.seen = client.seen \o s.lines,
                        !.missed = IF s.lines # <<>>
                                   THEN client.missed + (s.from - client.cursor)
                                   ELSE client.missed]
      BY <1>5 DEF PollSnapshot
    <2> HIDE DEF s, n
    <2>5. /\ client'.id = i /\ client'.told = job[i].phase /\ client'.cursor = n
          /\ client'.seen = client.seen \o s.lines
          /\ client'.missed = IF s.lines # <<>>
                              THEN client.missed + (s.from - client.cursor)
                              ELSE client.missed
      BY <1>2, <2>3, <2>4
    <2>6. CopyCurrent'
      <3>1. Finished(i) <=> client'.told \in {"done", "error"}
        BY <2>5 DEF Finished
      <3>2. client'.cursor = said'[i] /\ said'[i] \in Nat /\ i # None
        <4>1. client'.cursor = said[i] /\ said[i] \in Nat
          BY <2>2, <2>5 DEF n
        <4> QED BY <1>1, <2>1, <4>1, JobsAssumption
      <3>3. client'.id = i /\ client'.cursor <= said'[i]
        BY <2>5, <3>2
      <3>4. ASSUME NEW k \in Id, client'.id = k
            PROVE  /\ client'.cursor <= said'[k]
                   /\ client'.told \in {"done", "error"} =>
                         Finished(k)' /\ client'.cursor = said'[k]
        <4>1. k = i
          BY <3>3, <3>4
        <4>2. Finished(k)' <=> Finished(k)
          BY <1>1 DEF Finished
        <4> HIDE DEF i
        <4> QED BY <3>1, <3>2, <3>3, <4>1, <4>2
      <3>5. client'.id # None
        BY <3>2, <3>3
      <3> QED BY <3>4, <3>5 DEF CopyCurrent
    <2>7. CopyExact'
      <3> DEFINE seen == client.seen
                 c    == client.cursor
      <3>1. /\ seen \in Seq(Nat) /\ c \in Nat /\ client.missed \in Nat
            /\ Increasing(seen) /\ Len(seen) + client.missed = c
            /\ seen # <<>> => seen[Len(seen)] = c
        BY <1>2 DEF PInv, CopyExact
      <3>2. CASE s.lines = <<>>
        <4>1. client'.seen = seen /\ client'.cursor = c /\ client'.missed = client.missed
          BY <2>3, <2>5, <3>1, <3>2
        <4> QED BY <4>1 DEF PInv, CopyExact
      <3>3. CASE s.lines # <<>>
        <4> DEFINE r    == s.lines
                   from == s.from
                   m    == Len(r)
                   a    == Len(seen)
        <4>1. /\ r \in Seq(Nat) /\ from \in Nat /\ from >= c /\ from + m = n
              /\ \A k \in 1 .. m : r[k] = from + k
              /\ r # <<>>
          BY <2>3, <3>3
        <4>2. client'.seen = seen \o r /\ client'.missed = client.missed + (from - c)
          BY <2>5, <3>3
        <4> HIDE DEF seen, c, r, from
        <4>3. m \in Nat /\ m > 0 /\ a \in Nat /\ n \in Nat
          BY <2>2, <3>1, <4>1
        <4>4. /\ Len(seen \o r) = a + m
              /\ (seen \o r)[a + m] = r[m]
              /\ seen \o r # <<>>
          BY <3>1, <4>1, <4>3, Joined
        <4>5. r[m] = n
          BY <4>1, <4>3
        <4>6. Increasing(seen \o r)
          <5>1. seen # <<>> => seen[Len(seen)] <= from
            BY <3>1, <4>1
          <5> QED BY <5>1, <3>1, <4>1, RisingOn
        <4>7. a + m + (client.missed + (from - c)) = n
          <5>1. a + client.missed = c /\ client.missed \in Nat /\ c \in Nat
            BY <3>1
          <5>2. from \in Nat /\ from + m = n
            BY <4>1
          <5> DEFINE missed == client.missed
          <5> HIDE DEF a, m, missed
          <5>3. a + missed = c /\ missed \in Nat
            BY <5>1 DEF missed
          <5>4. a + m + (missed + (from - c)) = n
            BY <5>1, <5>2, <5>3, <4>3
          <5> QED BY <5>4 DEF missed
        <4> QED BY <2>5, <4>2, <4>4, <4>5, <4>6, <4>7 DEF CopyExact
      <3> QED BY <3>2, <3>3
    <2> QED BY <2>6, <2>7
  <1> QED BY <1>3, <1>4, <1>5 DEF Poll

LEMMA OnlyPollMovesPage ==
    ASSUME [Next]_vars, ~Poll
    PROVE  UNCHANGED client
  <1>1. CASE UNCHANGED vars
    BY <1>1 DEF vars
  <1>2. ASSUME NEW s \in Starter, Start(s) PROVE UNCHANGED client
    BY <1>2 DEF Start, MakeJob, LockTables, CountJob, Busy, Register, SkipRunning,
                Evict, UnlockTables, Spawn, SpawnFails
  <1>3. ASSUME NEW i \in Id, Work(i) PROVE UNCHANGED client
    BY <1>3 DEF Work, Narrate, ConversionEnds, RecordSuccess, RecordFailure, Unwind,
                DropGuard
  <1> QED BY <1>1, <1>2, <1>3 DEF Next

LEMMA PollInvStep == ASSUME IInv, PInv, [Next]_vars PROVE PInv'
  <1>1. LogsExact'
    BY JobStep DEF PInv, LogsExact
  <1>2. CASE Poll
    BY <1>1, <1>2, PageKeepsCopy DEF PInv
  <1>3. CASE ~Poll
    <2>1. UNCHANGED client
      BY <1>3, OnlyPollMovesPage
    <2> QED BY <1>1, <2>1, OthersKeepCopy DEF PInv
  <1> QED BY <1>2, <1>3

(* A page that polls `/api/convert/<id>` with its cursor has every line      *)
(* under its number, in order and once, knows how many it missed, and is     *)
(* told that the job ended only with all that the log still held.            *)
THEOREM CursorFollowsLog == Spec => []CursorExact
  <1>1. Init => PInv
    BY InitPInv
  <1>2. IInv /\ PInv /\ [Next]_vars => PInv'
    BY PollInvStep
  <1>3. IInv /\ PInv => CursorExact
    <2> SUFFICES ASSUME IInv, PInv PROVE CursorExact
      OBVIOUS
    <2>1. client.told \in {"done", "error"} => client.cursor = said[client.id]
      <3>1. client.id \in Id \cup {None}
        BY DEF IInv, TypeOK, ClientTyped
      <3> QED BY <3>1 DEF PInv, CopyCurrent
    <2> QED BY <2>1 DEF CursorExact, PInv, CopyExact, Increasing
  <1> QED BY <1>1, <1>2, <1>3, Invariance, PTL DEF Spec
-----------------------------------------------------------------------------
(* A sequence without repetition has as many elements as its range. *)
LEMMA RangeCount ==
    ASSUME NEW q \in Seq(Id), \A k, l \in 1 .. Len(q) : q[k] = q[l] => k = l
    PROVE  Cardinality({q[k] : k \in 1 .. Len(q)}) = Len(q)
  <1> DEFINE n == Len(q)
             R == {q[k] : k \in 1 .. Len(q)}
  <1>1. n \in Nat /\ q \in [1 .. n -> R]
    OBVIOUS
  <1>2. q \in Surjection(1 .. n, R)
    BY <1>1 DEF Surjection
  <1>3. q \in Injection(1 .. n, R)
    BY <1>1 DEF Injection, IsInjective
  <1>4. IsFiniteSet(1 .. n) /\ Cardinality(1 .. n) = n
    <2> HIDE DEF n
    <2>1. n \in Int /\ 1 \in Int /\ (1 > n => n = 0) /\ n - 1 + 1 = n
      BY <1>1
    <2>2. /\ IsFiniteSet(1 .. n)
          /\ Cardinality(1 .. n) = IF 1 > n THEN 0 ELSE n - 1 + 1
      BY <2>1, FS_Interval
    <2> QED BY <2>1, <2>2
  <1> HIDE DEF R, n
  <1>5. Cardinality(R) = Cardinality(1 .. n)
    BY <1>2, <1>3, <1>4, FS_Surjection
  <1> QED BY <1>4, <1>5 DEF R, n

(* No step lets a job of the history run that did not. *)
LEMMA StillRunning ==
    ASSUME IInv, [Next]_vars, NEW i \in Id, \E k \in 1 .. Len(jobs) : jobs[k] = i,
           Running(i)'
    PROVE  Running(i)
  <1>1. TypeOK /\ Ownership /\ job \in [Id -> JobType]
    BY DEF IInv, TypeOK, JobsTyped
  <1>2. CASE UNCHANGED vars
    BY <1>2 DEF vars, jobVars, Running
  <1>3. ASSUME NEW s \in Starter, Start(s) PROVE Running(i)
    <2>1. CASE MakeJob(s)
      <3>1. FreshId \in Id /\ job[FreshId].phase = "unused"
        BY <2>1, FreshIdFacts DEF MakeJob
      <3>2. i # FreshId
        BY <1>1, <3>1 DEF Ownership, UnusedUnseen
      <3>3. job' = [job EXCEPT ![FreshId].phase = "running"]
        BY <2>1 DEF MakeJob
      <3> QED BY <1>1, <3>2, <3>3 DEF Running
    <2>2. CASE SpawnFails(s)
      <3>1. mine[s] \in Id /\ Running(mine[s])
        BY <2>2, <1>1 DEF SpawnFails, Ownership, StarterOwns
      <3>2. job' = [job EXCEPT ![mine[s]] = Failed(@, said[mine[s]] + 1)]
        BY <2>2 DEF SpawnFails
      <3> QED BY <1>1, <3>1, <3>2 DEF Running
    <2>3. CASE ~MakeJob(s) /\ ~SpawnFails(s)
      <3>1. job' = job
        BY <1>3, <2>3 DEF Start, LockTables, CountJob, Busy, Register, SkipRunning,
                          Evict, UnlockTables, Spawn, jobVars
      <3> QED BY <3>1 DEF Running
    <2> QED BY <2>1, <2>2, <2>3
  <1>4. ASSUME NEW w \in Id, Work(w) PROVE Running(i)
    BY <1>1, <1>4, WorkFacts DEF Running
  <1>5. CASE Poll
    BY <1>5 DEF Poll, Watch, PollGet, PollSnapshot, jobVars, Running
  <1> QED BY <1>2, <1>3, <1>4, <1>5 DEF Next

(* The tables change in two places only. *)
LEMMA TablesStep ==
    ASSUME [Next]_vars
    PROVE  \/ jobs' = jobs /\ index' = index
           \/ \E s \in Starter : Register(s) \/ Evict(s)
  <1>1. CASE UNCHANGED vars
    BY <1>1 DEF vars, tableVars
  <1>2. ASSUME NEW s \in Starter, Start(s), ~Register(s), ~Evict(s)
        PROVE  jobs' = jobs /\ index' = index
    BY <1>2 DEF Start, MakeJob, LockTables, CountJob, Busy, SkipRunning, UnlockTables,
                Spawn, SpawnFails, tableVars
  <1>3. ASSUME NEW i \in Id, Work(i) PROVE jobs' = jobs /\ index' = index
    BY <1>3 DEF Work, Narrate, ConversionEnds, RecordSuccess, RecordFailure, Unwind,
                DropGuard, tableVars
  <1>4. CASE Poll
    BY <1>4 DEF Poll, Watch, PollGet, PollSnapshot, tableVars
  <1> QED BY <1>1, <1>2, <1>3, <1>4 DEF Next

LEMMA RegisterTables ==
    ASSUME IInv, TablesMatch, NEW s \in Starter, Register(s)
    PROVE  TablesMatch'
  <1> DEFINE n == Len(jobs)
             m == mine[s]
  <1>1. /\ jobs' = Append(jobs, m) /\ index' = index \cup {m} /\ m \in Id
        /\ m \notin index /\ jobs \in Seq(Id) /\ n \in Nat
    BY DEF Register, IInv, TypeOK, TablesTyped, Ownership, NotYetRegistered, StarterOwns
  <1>2. /\ Len(jobs') = n + 1 /\ jobs'[n + 1] = m
        /\ \A k \in 1 .. n : jobs'[k] = jobs[k]
    BY <1>1
  <1>3. /\ index = {jobs[k] : k \in 1 .. n}
        /\ \A k, l \in 1 .. n : jobs[k] = jobs[l] => k = l
    BY DEF TablesMatch
  <1> HIDE DEF n, m
  <1>4. index' = {jobs'[k] : k \in 1 .. n + 1}
    <2>1. \A k \in 1 .. n + 1 : k \in 1 .. n \/ k = n + 1
      BY <1>1
    <2>2. \A k \in 1 .. n : k \in 1 .. n + 1
      BY <1>1
    <2>3. n + 1 \in 1 .. n + 1
      BY <1>1
    <2> QED BY <1>1, <1>2, <1>3, <2>1, <2>2, <2>3
  <1>5. ASSUME NEW k \in 1 .. n + 1, NEW l \in 1 .. n + 1, jobs'[k] = jobs'[l]
        PROVE  k = l
    <2>1. CASE k \in 1 .. n /\ l \in 1 .. n
      BY <1>2, <1>3, <1>5, <2>1
    <2>2. CASE k = n + 1 /\ l = n + 1
      BY <2>2
    <2>3. \A x \in 1 .. n : jobs'[x] # m
      BY <1>1, <1>2, <1>3
    <2>4. (k \in 1 .. n \/ k = n + 1) /\ (l \in 1 .. n \/ l = n + 1)
      BY <1>1
    <2> QED BY <1>2, <1>5, <2>1, <2>2, <2>3, <2>4
  <1> QED BY <1>2, <1>4, <1>5 DEF TablesMatch

LEMMA EvictTables ==
    ASSUME IInv, TablesMatch, NEW s \in Starter, Evict(s)
    PROVE  TablesMatch'
  <1> DEFINE n == Len(jobs)
             c == at[s]
  <1>1. c >= 1
    BY DEF Evict, IInv, Slots, Scanning
  <1>2. /\ c \in 1 .. n /\ n \in Nat /\ Len(jobs') = n - 1
        /\ \A k \in 1 .. n - 1 : jobs'[k] = IF k < c THEN jobs[k] ELSE jobs[k + 1]
        /\ index' = index \ {jobs[c]}
    <2>1. TypeOK /\ n \in Nat
      BY DEF IInv, TypeOK, TablesTyped
    <2>2. /\ at[s] \in 1 .. Len(jobs) /\ Len(jobs') = Len(jobs) - 1
          /\ \A k \in 1 .. Len(jobs) - 1 :
                 jobs'[k] = IF k < at[s] THEN jobs[k] ELSE jobs[k + 1]
          /\ index' = index \ {jobs[at[s]]}
      BY <1>1, <2>1, EvictFacts
    <2> QED BY <2>1, <2>2
  <1>3. /\ index = {jobs[k] : k \in 1 .. n}
        /\ \A k, l \in 1 .. n : jobs[k] = jobs[l] => k = l
    BY DEF TablesMatch
  <1> HIDE DEF n, c
  <1>4. ASSUME NEW k \in 1 .. n - 1
        PROVE  \E x \in 1 .. n : x # c /\ jobs'[k] = jobs[x]
                                 /\ x = IF k < c THEN k ELSE k + 1
    <2>1. CASE k < c
      <3>1. k \in 1 .. n /\ k # c
        BY <1>2, <2>1
      <3> QED BY <1>2, <2>1, <3>1
    <2>2. CASE ~(k < c)
      <3>1. k + 1 \in 1 .. n /\ k + 1 # c
        BY <1>2, <2>2
      <3> QED BY <1>2, <2>2, <3>1
    <2> QED BY <2>1, <2>2
  <1>5. ASSUME NEW x \in 1 .. n, x # c
        PROVE  \E k \in 1 .. n - 1 : jobs'[k] = jobs[x]
    <2>1. CASE x < c
      <3>1. x \in 1 .. n - 1
        BY <1>2, <2>1
      <3> QED BY <1>2, <2>1, <3>1
    <2>2. CASE x > c
      <3>1. x - 1 \in 1 .. n - 1 /\ ~(x - 1 < c) /\ x - 1 + 1 = x
        BY <1>2, <2>2
      <3> QED BY <1>2, <3>1
    <2>3. x < c \/ x > c
      BY <1>2, <1>5
    <2> QED BY <2>1, <2>2, <2>3
  <1>6. index' = {jobs'[k] : k \in 1 .. n - 1}
    <2>1. ASSUME NEW i \in index' PROVE i \in {jobs'[k] : k \in 1 .. n - 1}
      <3>1. PICK x \in 1 .. n : i = jobs[x] /\ x # c
        BY <1>2, <1>3, <2>1
      <3> QED BY <3>1, <1>5
    <2>2. ASSUME NEW k \in 1 .. n - 1 PROVE jobs'[k] \in index'
      <3>1. PICK x \in 1 .. n : x # c /\ jobs'[k] = jobs[x]
        BY <1>4
      <3>2. jobs[x] \in index /\ jobs[x] # jobs[c]
        BY <1>2, <1>3, <3>1
      <3> QED BY <1>2, <3>1, <3>2
    <2> QED BY <2>1, <2>2
  <1>7. ASSUME NEW k \in 1 .. n - 1, NEW l \in 1 .. n - 1, jobs'[k] = jobs'[l]
        PROVE  k = l
    <2>1. PICK x \in 1 .. n : x # c /\ jobs'[k] = jobs[x]
                              /\ x = IF k < c THEN k ELSE k + 1
      BY <1>4
    <2>2. PICK y \in 1 .. n : y # c /\ jobs'[l] = jobs[y]
                              /\ y = IF l < c THEN l ELSE l + 1
      BY <1>4
    <2>3. x = y
      BY <1>3, <1>7, <2>1, <2>2
    <2>4. k \in Nat /\ l \in Nat /\ c \in Nat
      BY <1>2
    <2> QED BY <2>1, <2>2, <2>3, <2>4
  <1> QED BY <1>2, <1>6, <1>7 DEF TablesMatch
-----------------------------------------------------------------------------
LEMMA FollowedStep ==
    ASSUME IInv, PInv, FollowedKept, [Next]_vars
    PROVE  FollowedKept'
  <1>1. \A i \in Id : Finished(i) => Finished(i)'
    BY JobStep DEF PInv, Finished
  <1>2. /\ client \in [id : Id \cup {None}, handle : BOOLEAN, cursor : Nat,
                       seen : Seq(Nat), missed : Nat,
                       told : {"nothing", "running", "done", "error", "not found"}]
        /\ None \notin Id /\ index \subseteq Id
    BY JobsAssumption DEF IInv, TypeOK, ClientTyped, TablesTyped
  <1>3. CASE Poll
    <2>1. index' = index /\ job' = job
      BY <1>3 DEF Poll, Watch, PollGet, PollSnapshot, tableVars, jobVars
    <2>2. CASE Watch
      <3>1. PICK i \in index : client' = [client EXCEPT !.id = i, !.told = "running"]
        BY <2>2 DEF Watch
      <3>2. client'.id = i /\ client'.told = "running" /\ i # None
        BY <1>2, <3>1
      <3> QED BY <2>1, <3>2 DEF FollowedKept
    <2>3. CASE PollGet
      <3>1. /\ client.id # None /\ client'.id = client.id
            /\ client'.told = "not found" =>
                  client.told = "not found" \/ client.id \notin index
        BY <1>2, <2>3 DEF PollGet
      <3> QED BY <1>1, <2>1, <3>1 DEF FollowedKept
    <2>4. CASE PollSnapshot
      <3> DEFINE s == Snapshot(job[client.id], client.cursor)
      <3>1. client.id \in Id
        BY <2>4 DEF PollSnapshot, IInv, Ownership, HandleValid
      <3>2. s.phase = job[client.id].phase
        BY DEF Snapshot
      <3>3. s.phase # "not found"
        BY <3>1, <3>2 DEF IInv, TypeOK, JobsTyped, JobType, Phases
      <3>4. client'.id = client.id /\ client'.told = s.phase
        <4> HIDE DEF s
        <4> QED BY <1>2, <2>4 DEF PollSnapshot, s
      <3> QED BY <1>1, <2>1, <3>3, <3>4 DEF FollowedKept
    <2> QED BY <1>3, <2>2, <2>3, <2>4 DEF Poll
  <1>4. CASE ~Poll
    <2>1. client' = client
      BY <1>4, OnlyPollMovesPage
    <2>2. CASE \A i \in index : i \in index'
      BY <1>1, <2>1, <2>2 DEF FollowedKept
    <2>3. CASE \E s \in Starter : Evict(s)
      <3>1. PICK s \in Starter : Evict(s)
        BY <2>3
      <3>2. /\ at[s] \in 1 .. Len(jobs) /\ ~Running(jobs[at[s]])
            /\ index' = index \ {jobs[at[s]]}
        <4>1. at[s] >= 1
          BY <3>1 DEF Evict, IInv, Slots, Scanning
        <4> QED BY <3>1, <4>1, EvictFacts DEF IInv
      <3>3. jobs[at[s]] \in Id
        BY <3>2 DEF IInv, TypeOK, TablesTyped
      <3>4. Finished(jobs[at[s]])
        <4>1. job[jobs[at[s]]].phase # "unused"
          BY <3>2, <3>3 DEF IInv, Ownership, UnusedUnseen
        <4>2. job[jobs[at[s]]].phase \in Phases
          BY <3>3 DEF IInv, TypeOK, JobsTyped, JobType
        <4> QED BY <3>2, <4>1, <4>2 DEF Running, Finished, Phases
      <3> QED BY <1>1, <2>1, <3>2, <3>3, <3>4 DEF FollowedKept
    <2>4. CASE \E s \in Starter : Register(s)
      BY <2>2, <2>4 DEF Register
    <2> QED BY <2>2, <2>3, <2>4, TablesStep
  <1> QED BY <1>3, <1>4

(* Where a starter stands at its scan after a step of it or of anybody. *)
LEMMA ScanMoves ==
    ASSUME IInv, [Next]_vars, NEW t \in Starter, pc'[t] = "evict"
    PROVE  \/ Register(t)
           \/ Evict(t) /\ pc[t] = "evict"
           \/ SkipRunning(t) /\ pc[t] = "evict" /\ jobs' = jobs
           \/ pc[t] = "evict" /\ at'[t] = at[t] /\ jobs' = jobs
  <1>1. /\ pc \in [Starter -> {"idle", "lock", "count", "evict", "spawn"}]
        /\ at \in [Starter -> Nat]
    BY DEF IInv, TypeOK, StartersTyped
  <1>2. CASE UNCHANGED vars
    BY <1>2 DEF vars, starterVars, tableVars
  <1>3. CASE Poll \/ \E i \in Id : Work(i)
    BY <1>3 DEF Poll, Watch, PollGet, PollSnapshot, Work, Narrate, ConversionEnds,
                RecordSuccess, RecordFailure, Unwind, DropGuard, starterVars, tableVars
  <1>4. ASSUME NEW s \in Starter, Start(s)
        PROVE  \/ Register(t)
               \/ Evict(t) /\ pc[t] = "evict"
               \/ SkipRunning(t) /\ pc[t] = "evict" /\ jobs' = jobs
               \/ pc[t] = "evict" /\ at'[t] = at[t] /\ jobs' = jobs
    <2>1. CASE s = t
      BY <1>1, <1>4, <2>1
         DEF Start, MakeJob, LockTables, CountJob, Busy, SkipRunning, Evict,
             UnlockTables, Spawn, SpawnFails, Return, tableVars
    <2>2. CASE s # t
      <3>1. pc[t] = "evict" /\ at'[t] = at[t]
        BY <1>1, <1>4, <2>2
           DEF Start, MakeJob, LockTables, CountJob, Busy, Register, SkipRunning,
               Evict, UnlockTables, Spawn, SpawnFails, Return
      <3>2. tables = t
        BY <3>1 DEF IInv, Slots, Scanning
      <3>3. ~Register(s) /\ ~Evict(s)
        BY <2>2, <3>2 DEF Register, Evict, IInv, Slots, Scanning
      <3>4. jobs' = jobs
        BY <1>4, <3>3 DEF Start, MakeJob, LockTables, CountJob, Busy, SkipRunning,
                          UnlockTables, Spawn, SpawnFails, tableVars
      <3> QED BY <3>1, <3>4
    <2> QED BY <2>1, <2>2
  <1> QED BY <1>2, <1>3, <1>4 DEF Next

LEMMA ScanStep ==
    ASSUME IInv, IInv', TablesMatch, TablesMatch', ScanBounded, [Next]_vars
    PROVE  ScanBounded'
  <1> SUFFICES ASSUME NEW t \in Starter, pc'[t] = "evict"
               PROVE  Cardinality(Passed(t)') <= MaxRunning
    BY DEF ScanBounded
  <1>1. /\ jobs \in Seq(Id) /\ Len(jobs) \in Nat /\ at \in [Starter -> Nat]
        /\ MaxRunning \in Nat
    BY JobsAssumption DEF IInv, TypeOK, TablesTyped, StartersTyped
  <1>2. Passed(t) \subseteq Id
    BY DEF Passed
  <1>3. pc[t] = "evict" => Cardinality(Passed(t)) <= MaxRunning
    BY DEF ScanBounded
  <1>4. ASSUME pc[t] = "evict", Passed(t)' \subseteq Passed(t)
        PROVE  Cardinality(Passed(t)') <= MaxRunning
    BY <1>1, <1>2, <1>3, <1>4, Smaller
  <1>5. CASE at'[t] = 1 /\ job' = job
    <2> DEFINE now == {i \in index' : Running(i)'}
    <2>1. Passed(t)' \subseteq now
      <3>1. index' = {jobs'[k] : k \in 1 .. Len(jobs')}
        BY DEF TablesMatch
      <3>2. \A k \in 1 .. Len(jobs') : ~(k < 1)
        OBVIOUS
      <3> QED BY <1>5, <3>1, <3>2 DEF Passed
    <2>2. now \subseteq Id /\ Cardinality(now) <= MaxRunning
      BY DEF IInv, Slots, AtMostMaxRunning, TypeOK, TablesTyped
    <2> HIDE DEF now
    <2> QED BY <1>1, <2>1, <2>2, Smaller
  <1>6. CASE Register(t) \/ Evict(t)
    BY <1>1, <1>5, <1>6 DEF Register, Evict, jobVars
  <1>7. CASE SkipRunning(t) /\ pc[t] = "evict" /\ jobs' = jobs
    <2>1. /\ Running(jobs[at[t]]) /\ at'[t] = at[t] + 1 /\ job' = job
          /\ at[t] \in Nat
      BY <1>1, <1>7 DEF SkipRunning, jobVars
    <2>2. \A k \in 1 .. Len(jobs) : k < at[t] + 1 => k < at[t] \/ k = at[t]
      BY <1>1, <2>1
    <2>3. Passed(t)' \subseteq Passed(t)
      BY <1>7, <2>1, <2>2 DEF Passed, Running
    <2> QED BY <1>4, <1>7, <2>3
  <1>8. CASE pc[t] = "evict" /\ at'[t] = at[t] /\ jobs' = jobs
    <2>1. Passed(t)' \subseteq Passed(t)
      <3> SUFFICES ASSUME NEW i \in Id, NEW k \in 1 .. Len(jobs), jobs[k] = i,
                          k < at[t] \/ Running(i)'
                   PROVE  k < at[t] \/ Running(i)
        BY <1>8 DEF Passed
      <3> QED BY StillRunning
    <2> QED BY <1>4, <1>8, <2>1
  <1> QED BY <1>6, <1>7, <1>8, ScanMoves

LEMMA HistoryStep ==
    ASSUME IInv, TablesMatch, ScanBounded, HistoryBounded, [Next]_vars
    PROVE  HistoryBounded'
  <1> SUFFICES ASSUME \A t \in Starter : pc'[t] # "evict"
               PROVE  HistoryFits'
    BY DEF HistoryBounded
  <1>1. /\ pc \in [Starter -> {"idle", "lock", "count", "evict", "spawn"}]
        /\ jobs \in Seq(Id) /\ Len(jobs) \in Nat /\ MaxRunning \in Nat
        /\ at \in [Starter -> Nat]
    BY JobsAssumption DEF IInv, TypeOK, StartersTyped, TablesTyped
  <1>2. jobs' = jobs
    <2>1. \A s \in Starter : Register(s) => pc'[s] = "evict"
      BY <1>1 DEF Register
    <2>2. \A s \in Starter : Evict(s) => pc'[s] = "evict"
      BY <1>1 DEF Evict
    <2> QED BY <2>1, <2>2, TablesStep
  <1>3. CASE \A t \in Starter : pc[t] # "evict"
    BY <1>2, <1>3 DEF HistoryBounded, HistoryFits
  <1>4. CASE \E t \in Starter : pc[t] = "evict"
    <2>1. PICK t \in Starter : pc[t] = "evict"
      BY <1>4
    <2>2. UnlockTables(t)
      <3>1. pc'[t] # pc[t]
        BY <2>1
      <3>2. ~UNCHANGED vars /\ ~Poll /\ \A i \in Id : ~Work(i)
        BY <3>1 DEF vars, starterVars, Poll, Watch, PollGet, PollSnapshot, Work, Narrate,
                    ConversionEnds, RecordSuccess, RecordFailure, Unwind, DropGuard
      <3>3. PICK s \in Starter : Start(s)
        BY <3>2 DEF Next
      <3>4. s = t
        BY <1>1, <3>1, <3>3
           DEF Start, MakeJob, LockTables, CountJob, Busy, Register, SkipRunning,
               Evict, UnlockTables, Spawn, SpawnFails, Return
      <3> QED BY <2>1, <3>1, <3>3, <3>4
              DEF Start, MakeJob, LockTables, CountJob, Busy, Register, SkipRunning,
                  Evict, Spawn, SpawnFails
    <2>3. CASE Len(jobs) <= MaxRetained
      BY <1>2, <2>3 DEF HistoryFits
    <2>4. CASE at[t] > Len(jobs)
      <3> DEFINE R == {jobs[k] : k \in 1 .. Len(jobs)}
      <3>1. R \subseteq Passed(t)
        BY <1>1, <2>4 DEF Passed
      <3>2. Passed(t) \subseteq Id /\ Cardinality(Passed(t)) <= MaxRunning
        BY <2>1 DEF Passed, ScanBounded
      <3>3. Cardinality(R) = Len(jobs)
        BY <1>1, RangeCount DEF TablesMatch
      <3> HIDE DEF R
      <3>4. Len(jobs) <= MaxRunning
        BY <1>1, <3>1, <3>2, <3>3, Smaller
      <3> QED BY <1>2, <3>4 DEF HistoryFits
    <2> QED BY <2>2, <2>3, <2>4 DEF UnlockTables
  <1> QED BY <1>3, <1>4

LEMMA InitHInv == Init => HInv
  <1> SUFFICES ASSUME Init PROVE HInv
    OBVIOUS
  <1>1. FollowedKept
    BY JobsAssumption DEF Init, FollowedKept
  <1>2. TablesMatch /\ ScanBounded
    BY DEF Init, TablesMatch, ScanBounded
  <1>3. HistoryBounded
    BY JobsAssumption DEF Init, HistoryBounded, HistoryFits
  <1> QED BY <1>1, <1>2, <1>3 DEF HInv

LEMMA HistoryInvStep == ASSUME IInv, IInv', PInv, HInv, [Next]_vars PROVE HInv'
  <1>1. FollowedKept'
    BY FollowedStep DEF HInv
  <1>2. TablesMatch'
    <2>1. CASE jobs' = jobs /\ index' = index
      BY <2>1 DEF HInv, TablesMatch
    <2> QED BY <2>1, TablesStep, RegisterTables, EvictTables DEF HInv
  <1>3. ScanBounded' /\ HistoryBounded'
    BY <1>2, ScanStep, HistoryStep DEF HInv
  <1> QED BY <1>1, <1>2, <1>3 DEF HInv

(* Polling never says "no such job" of a conversion under way, and whenever  *)
(* the tables are free they hold the same jobs, each once, and no more than  *)
(* the history's bound or than can run at once, although jobs end while the  *)
(* eviction looks for one that has ended.                                    *)
THEOREM NotLost == Spec => []NeverLostWhileRunning
  <1>1. Init => PInv /\ HInv
    BY InitPInv, InitHInv
  <1>2. IInv /\ IInv' /\ PInv /\ HInv /\ [Next]_vars => PInv' /\ HInv'
    BY PollInvStep, HistoryInvStep
  <1>3. IInv /\ HInv => NeverLostWhileRunning
    <2> SUFFICES ASSUME IInv, HInv PROVE NeverLostWhileRunning
      OBVIOUS
    <2>1. client.told = "not found" => Finished(client.id)
      <3>1. client.id \in Id \cup {None}
        BY DEF IInv, TypeOK, ClientTyped
      <3> QED BY <3>1 DEF HInv, FollowedKept
    <2>2. index = {jobs[k] : k \in 1 .. Len(jobs)}
      BY DEF HInv, TablesMatch
    <2>3. Cardinality(index) = Len(jobs)
      BY <2>2, RangeCount DEF HInv, TablesMatch, IInv, TypeOK, TablesTyped
    <2>4. tables = None => HistoryFits
      <3> SUFFICES ASSUME tables = None PROVE HistoryFits
        OBVIOUS
      <3>1. \A s \in Starter : pc[s] # "evict"
        BY JobsAssumption DEF IInv, Slots, Scanning
      <3> QED BY <3>1 DEF HInv, HistoryBounded
    <2> QED BY <2>1, <2>2, <2>3, <2>4 DEF NeverLostWhileRunning, HistoryFits
  <1> QED BY <1>1, <1>2, <1>3, Invariance, PTL DEF Spec

-----------------------------------------------------------------------------
(* Sums, flattened sequences, and the sizes of what is written. *)

(* A non-empty set of naturals has a least member: induction here goes by a  *)
(* least counterexample.                                                     *)
LEMMA Least ==
    ASSUME NEW T \in SUBSET Nat, T # {}
    PROVE  \E m \in T : \A k \in T : m <= k
  <1>1. T \subseteq Nat
    OBVIOUS
  <1>2. PICK m \in T : \A k \in T : ~ (<<k, m>> \in OpToRel(<, Nat))
    BY <1>1, WFMin, NatLessThanWellFounded
  <1>3. \A k \in T : ~(k < m)
    BY <1>2 DEF OpToRel
  <1> QED BY <1>3

(* From 0 to n a step at a time: a least number that is not in T has one     *)
(* before it that is.                                                        *)
LEMMA Climb ==
    ASSUME NEW n \in Nat, NEW T, 0 \in T, \A k \in 1 .. n : k - 1 \in T => k \in T
    PROVE  \A k \in 0 .. n : k \in T
  <1> DEFINE Out == {k \in 0 .. n : k \notin T}
  <1> SUFFICES ASSUME Out # {} PROVE FALSE
    OBVIOUS
  <1>1. PICK k \in Out : \A i \in Out : k <= i
    <2>1. Out \in SUBSET Nat
      OBVIOUS
    <2> QED BY <2>1, Least
  <1>2. k \in 1 .. n /\ k \notin T
    BY <1>1
  <1>3. k - 1 \in T
    <2> SUFFICES ASSUME k - 1 \notin T PROVE FALSE
      OBVIOUS
    <2>1. k - 1 \in Out
      BY <1>2
    <2> QED BY <1>1, <1>2, <2>1
  <1> QED BY <1>2, <1>3

-----------------------------------------------------------------------------
(* Sums over a finite set, as SumFunction folds them: in the order of a      *)
(* choice, which does not matter.                                            *)
Folds(f, g, D) ==
    f = [s \in SUBSET D |-> IF s = {} THEN 0
                            ELSE g[CHOOSE x \in s : TRUE] + f[s \ {CHOOSE x \in s : TRUE}]]

(* The fold of g over every set of at most n members of D. *)
FoldsTo(f, g, D, n) ==
    f = [s \in {u \in SUBSET D : Cardinality(u) <= n} |->
           IF s = {} THEN 0
           ELSE g[CHOOSE x \in s : TRUE] + f[s \ {CHOOSE x \in s : TRUE}]]

(* Taking a member away leaves a smaller finite set. *)
LEMMA SmallerSet ==
    ASSUME NEW D, IsFiniteSet(D), NEW s \in SUBSET D, s # {}
    PROVE  /\ (CHOOSE x \in s : TRUE) \in s
           /\ \A x \in s : /\ s \ {x} \in SUBSET D
                           /\ Cardinality(s \ {x}) \in Nat
                           /\ Cardinality(s) = Cardinality(s \ {x}) + 1
  <1>1. IsFiniteSet(s)
    BY FS_Subset
  <1>2. ASSUME NEW x \in s
        PROVE  /\ s \ {x} \in SUBSET D /\ Cardinality(s \ {x}) \in Nat
               /\ Cardinality(s) = Cardinality(s \ {x}) + 1
    <2>1. IsFiniteSet(s \ {x}) /\ Cardinality(s \ {x}) = Cardinality(s) - 1
      BY <1>1, FS_RemoveElement
    <2>2. Cardinality(s \ {x}) \in Nat /\ Cardinality(s) \in Nat
      BY <1>1, <2>1, FS_CardinalityType
    <2> QED BY <2>1, <2>2
  <1> QED BY <1>2

(* The fold of the library is defined on the sets of at most n members, by   *)
(* induction on n.                                                           *)
LEMMA FoldsToExists ==
    ASSUME NEW D, IsFiniteSet(D), NEW g, NEW n \in Nat
    PROVE  \E f : FoldsTo(f, g, D, n)
  <1> DEFINE Missing == {k \in Nat : ~ \E f : FoldsTo(f, g, D, k)}
  <1> SUFFICES ASSUME Missing # {} PROVE FALSE
    OBVIOUS
  <1>1. PICK k \in Missing : \A j \in Missing : k <= j
    BY Least
  <1>2. CASE k = 0
    <2>1. PICK f : f = [s \in {u \in SUBSET D : Cardinality(u) <= 0} |-> 0]
      OBVIOUS
    <2>2. \A s \in {u \in SUBSET D : Cardinality(u) <= 0} : s = {}
      <3> TAKE s \in {u \in SUBSET D : Cardinality(u) <= 0}
      <3> SUFFICES ASSUME s # {} PROVE FALSE
        OBVIOUS
      <3>1. PICK x : x \in s
        OBVIOUS
      <3>2. Cardinality(s) = Cardinality(s \ {x}) + 1 /\ Cardinality(s \ {x}) \in Nat
        BY <3>1, SmallerSet
      <3> QED BY <3>2
    <2>3. FoldsTo(f, g, D, 0)
      BY <2>1, <2>2 DEF FoldsTo
    <2> QED BY <1>2, <2>3
  <1>3. CASE k # 0
    <2>1. k - 1 \in Nat /\ k - 1 \notin Missing
      BY <1>1, <1>3
    <2>2. PICK f : FoldsTo(f, g, D, k - 1)
      BY <2>1
    <2>3. PICK h : h = [s \in {u \in SUBSET D : Cardinality(u) <= k} |->
             IF s = {} THEN 0
             ELSE g[CHOOSE x \in s : TRUE] + f[s \ {CHOOSE x \in s : TRUE}]]
      OBVIOUS
    <2>4. ASSUME NEW s \in {u \in SUBSET D : Cardinality(u) <= k - 1}
          PROVE  h[s] = f[s]
      <3>1. Cardinality(s) \in Nat /\ Cardinality(s) <= k
        BY <1>1, FS_Subset, FS_CardinalityType
      <3>2. h[s] = IF s = {} THEN 0
                   ELSE g[CHOOSE x \in s : TRUE] + f[s \ {CHOOSE x \in s : TRUE}]
        BY <2>3, <3>1
      <3>3. f[s] = IF s = {} THEN 0
                   ELSE g[CHOOSE x \in s : TRUE] + f[s \ {CHOOSE x \in s : TRUE}]
        BY <2>2 DEF FoldsTo
      <3> QED BY <3>2, <3>3
    <2>5. ASSUME NEW s \in {u \in SUBSET D : Cardinality(u) <= k}, s # {}
          PROVE  f[s \ {CHOOSE x \in s : TRUE}] = h[s \ {CHOOSE x \in s : TRUE}]
      <3>1. PICK y \in s : y = CHOOSE x \in s : TRUE
        BY <2>5
      <3>2. s \ {y} \in {u \in SUBSET D : Cardinality(u) <= k - 1}
        <4>1. /\ s \ {y} \in SUBSET D /\ Cardinality(s \ {y}) \in Nat
              /\ Cardinality(s) = Cardinality(s \ {y}) + 1
          BY <2>5, <3>1, SmallerSet
        <4> QED BY <1>1, <4>1
      <3> QED BY <2>4, <3>1, <3>2
    <2>6. FoldsTo(h, g, D, k)
      <3>1. \A s \in {u \in SUBSET D : Cardinality(u) <= k} :
               h[s] = IF s = {} THEN 0
                      ELSE g[CHOOSE x \in s : TRUE] + h[s \ {CHOOSE x \in s : TRUE}]
        <4> TAKE s \in {u \in SUBSET D : Cardinality(u) <= k}
        <4>1. h[s] = IF s = {} THEN 0
                     ELSE g[CHOOSE x \in s : TRUE] + f[s \ {CHOOSE x \in s : TRUE}]
          BY <2>3
        <4>2. CASE s = {}
          BY <4>1, <4>2
        <4>3. CASE s # {}
          BY <2>5, <4>1, <4>3
        <4> QED BY <4>2, <4>3
      <3>2. h = [s \in {u \in SUBSET D : Cardinality(u) <= k} |-> h[s]]
        BY <2>3
      <3> QED BY <3>1, <3>2 DEF FoldsTo
    <2> QED BY <1>1, <2>6
  <1> QED BY <1>2, <1>3

(* The fold of the library is defined on every subset of a finite set. *)
LEMMA FoldsExists ==
    ASSUME NEW D, IsFiniteSet(D), NEW g
    PROVE  \E f : Folds(f, g, D)
  <1>1. PICK n \in Nat : n = Cardinality(D)
    BY FS_CardinalityType
  <1>2. {u \in SUBSET D : Cardinality(u) <= n} = SUBSET D
    BY <1>1, FS_Subset
  <1>3. PICK f : FoldsTo(f, g, D, n)
    BY FoldsToExists
  <1>4. Folds(f, g, D)
    BY <1>2, <1>3 DEF FoldsTo, Folds
  <1> QED BY <1>4

(* Whatever is chosen first, taking an element out takes its value out.      *)
LEMMA FoldsRemove ==
    ASSUME NEW D, IsFiniteSet(D), NEW g \in [D -> Nat], NEW f, Folds(f, g, D)
    PROVE  /\ f[{}] = 0
           /\ \A s \in SUBSET D : f[s] \in Nat
           /\ \A s \in SUBSET D : \A x \in s : f[s] = g[x] + f[s \ {x}]
  <1>1. f[{}] = 0
    BY DEF Folds
  <1>2. ASSUME NEW s \in SUBSET D, s # {}
        PROVE  \E y \in s : f[s] = g[y] + f[s \ {y}]
    BY <1>2 DEF Folds
  <1> DEFINE Good(s) == f[s] \in Nat /\ \A x \in s : f[s] = g[x] + f[s \ {x}]
             Bad == {n \in Nat : \E s \in SUBSET D : Cardinality(s) = n /\ ~ Good(s)}
  <1>3. SUFFICES ASSUME NEW t \in SUBSET D, ~ Good(t) PROVE FALSE
    BY <1>1
  <1>4. Cardinality(t) \in Bad
    BY <1>3, FS_Subset, FS_CardinalityType
  <1>5. PICK n \in Bad : \A k \in Bad : n <= k
    BY <1>4, Least
  <1>6. PICK s \in SUBSET D : Cardinality(s) = n /\ ~ Good(s)
    BY <1>5
  <1>7. ASSUME NEW u \in SUBSET D, Cardinality(u) \in Nat, Cardinality(u) < n
        PROVE  Good(u)
    BY <1>5, <1>7
  <1>8. s # {}
    BY <1>1, <1>6
  <1>9. PICK y \in s : f[s] = g[y] + f[s \ {y}]
    BY <1>2, <1>8
  <1>10. ASSUME NEW x \in s PROVE Good(s \ {x}) /\ s \ {x} \in SUBSET D
    <2>1. /\ s \ {x} \in SUBSET D /\ Cardinality(s \ {x}) \in Nat
          /\ Cardinality(s) = Cardinality(s \ {x}) + 1
      BY <1>8, SmallerSet
    <2>2. Cardinality(s \ {x}) < n
      BY <1>6, <2>1
    <2> QED BY <1>7, <2>1, <2>2
  <1>11. f[s] \in Nat
    <2>1. g[y] \in Nat
      OBVIOUS
    <2>2. f[s \ {y}] \in Nat
      BY <1>10
    <2> QED BY <1>9, <2>1, <2>2
  <1>12. ASSUME NEW x \in s PROVE f[s] = g[x] + f[s \ {x}]
    <2>1. CASE x = y
      BY <1>9, <2>1
    <2>2. CASE x # y
      <3>1. x \in s \ {y} /\ y \in s \ {x}
        BY <2>2
      <3>2. f[s \ {y}] = g[x] + f[(s \ {y}) \ {x}]
        BY <1>10, <3>1
      <3>3. f[s \ {x}] = g[y] + f[(s \ {x}) \ {y}]
        BY <1>10, <3>1
      <3>4. PICK u : u = (s \ {y}) \ {x}
        OBVIOUS
      <3>5. u = (s \ {x}) \ {y}
        BY <3>4
      <3>6. u \in SUBSET D /\ Good(s \ {x})
        BY <1>10, <3>4
      <3>7. g[x] \in Nat /\ g[y] \in Nat /\ f[s \ {x}] \in Nat
        BY <3>6
      <3>8. f[u] \in Nat
        <4>1. /\ Cardinality(s \ {x}) \in Nat /\ Cardinality(s) = Cardinality(s \ {x}) + 1
          BY <1>8, SmallerSet
        <4>2. /\ Cardinality(u) \in Nat /\ Cardinality(s \ {x}) = Cardinality(u) + 1
          <5>1. PICK v : v = s \ {x}
            OBVIOUS
          <5>2. v \in SUBSET D /\ y \in v /\ v # {} /\ u = v \ {y}
            BY <1>10, <3>1, <3>5, <5>1
          <5>3. Cardinality(u) \in Nat /\ Cardinality(v) = Cardinality(u) + 1
            BY <5>2, SmallerSet
          <5> QED BY <5>1, <5>3
        <4>3. Cardinality(u) < n
          BY <1>6, <4>1, <4>2
        <4> QED BY <1>7, <3>6, <4>2, <4>3
      <3>9. f[s] = g[y] + f[s \ {y}] /\ f[s \ {y}] = g[x] + f[u]
               /\ f[s \ {x}] = g[y] + f[u]
        BY <1>9, <3>2, <3>3, <3>4, <3>5
      <3> QED BY <3>7, <3>8, <3>9
    <2> QED BY <2>1, <2>2
  <1> QED BY <1>6, <1>11, <1>12

(* f gives the sum of g over every subset of D, and takes members away in    *)
(* any order.                                                                *)
SumsTo(f, g, D) ==
    /\ f[{}] = 0 /\ SumFunction(g) = f[D]
    /\ \A s \in SUBSET D : f[s] \in Nat
    /\ \A s \in SUBSET D : \A x \in s : f[s] = g[x] + f[s \ {x}]

(* SumFunction is such a sum. *)
LEMMA SumFolds ==
    ASSUME NEW D, IsFiniteSet(D), NEW g \in [D -> Nat]
    PROVE  \E f : SumsTo(f, g, D)
  <1>1. \E f : Folds(f, g, D)
    BY FoldsExists
  <1>2. Folds(CHOOSE f : Folds(f, g, D), g, D)
    BY <1>1
  <1>3. SumFunction(g) = (CHOOSE f : Folds(f, g, D))[D]
    <2>1. DOMAIN g = D
      OBVIOUS
    <2> QED BY <2>1 DEF SumFunction, SumFunctionOnSet, FoldFunctionOnSet, MapThenFoldSet, Folds
  <1>4. PICK f : f = (CHOOSE h : Folds(h, g, D))
    OBVIOUS
  <1>5. Folds(f, g, D) /\ SumFunction(g) = f[D]
    BY <1>2, <1>3, <1>4
  <1>6. /\ f[{}] = 0
        /\ \A s \in SUBSET D : f[s] \in Nat
        /\ \A s \in SUBSET D : \A x \in s : f[s] = g[x] + f[s \ {x}]
    BY <1>5, FoldsRemove
  <1>7. SumsTo(f, g, D)
    BY <1>5, <1>6 DEF SumsTo
  <1> QED BY <1>7

-----------------------------------------------------------------------------
(* FlattenSeq is a recursive function: that there is one, and only one, is   *)
(* shown for the shortest sequence that would have none, or two.             *)
Flattens(f, s, n) ==
    f = [i \in 1 .. n |-> IF i = 1 THEN s[i] ELSE f[i - 1] \o s[i]]

(* The folding function of FlattenSeq exists at every length: the least length without one
   would have one place the length before it. *)
LEMMA FlattenExists ==
    ASSUME NEW s, NEW n \in Nat
    PROVE  \E f : Flattens(f, s, n)
  <1> DEFINE Missing == {k \in Nat : ~ \E f : Flattens(f, s, k)}
  <1> SUFFICES ASSUME Missing # {} PROVE FALSE
    OBVIOUS
  <1>1. PICK m \in Missing : \A k \in Missing : m <= k
    BY Least
  <1>2. m # 0
    <2>1. PICK f : f = [i \in 1 .. 0 |-> 0]
      OBVIOUS
    <2>2. Flattens(f, s, 0)
      BY <2>1 DEF Flattens
    <2> QED BY <2>2
  <1>3. m - 1 \in Nat /\ m - 1 \notin Missing
    BY <1>1, <1>2
  <1>4. PICK f : Flattens(f, s, m - 1)
    BY <1>3
  <1>5. /\ DOMAIN f = 1 .. m - 1
        /\ \A i \in 1 .. m - 1 : f[i] = IF i = 1 THEN s[i] ELSE f[i - 1] \o s[i]
    BY <1>4 DEF Flattens
  <1> DEFINE g == [i \in 1 .. m |-> IF i <= m - 1 THEN f[i]
                                    ELSE IF i = 1 THEN s[i] ELSE f[i - 1] \o s[i]]
  <1>6. \A i \in 1 .. m : g[i] = IF i = 1 THEN s[i] ELSE g[i - 1] \o s[i]
    <2> TAKE i \in 1 .. m
    <2>1. CASE i <= m - 1
      <3>1. g[i] = f[i] /\ i \in 1 .. m - 1
        BY <2>1, <1>1
      <3>2. i # 1 => i - 1 \in 1 .. m /\ i - 1 <= m - 1 /\ g[i - 1] = f[i - 1]
        BY <2>1, <1>1
      <3> QED BY <3>1, <3>2, <1>5
    <2>2. CASE ~ (i <= m - 1)
      <3>1. g[i] = IF i = 1 THEN s[i] ELSE f[i - 1] \o s[i]
        BY <2>2
      <3>2. i # 1 => i - 1 \in 1 .. m /\ i - 1 <= m - 1 /\ g[i - 1] = f[i - 1]
        BY <2>2, <1>1
      <3> QED BY <3>1, <3>2
    <2> QED BY <2>1, <2>2
  <1>7. PICK h : h = g
    OBVIOUS
  <1>8. h = [i \in 1 .. m |-> h[i]]
    BY <1>7
  <1>9. \A i \in 1 .. m : h[i] = IF i = 1 THEN s[i] ELSE h[i - 1] \o s[i]
    BY <1>6, <1>7
  <1>10. Flattens(h, s, m)
    BY <1>8, <1>9 DEF Flattens
  <1> QED BY <1>1, <1>10

(* FlattenSeq is a fold over the sequences it joins. *)
LEMMA FlattenIs ==
    ASSUME NEW s, Len(s) \in Nat \ {0}
    PROVE  \E f : Flattens(f, s, Len(s)) /\ FlattenSeq(s) = f[Len(s)]
  <1> DEFINE F(f) == f = [i \in 1 .. Len(s) |-> IF i = 1 THEN s[i] ELSE f[i - 1] \o s[i]]
  <1>1. \E f : F(f)
    BY FlattenExists DEF Flattens
  <1>2. F(CHOOSE f : F(f))
    BY <1>1
  <1>3. FlattenSeq(s) = (CHOOSE f : F(f))[Len(s)]
    BY DEF FlattenSeq
  <1> HIDE DEF F
  <1>4. PICK f : f = (CHOOSE g : F(g))
    OBVIOUS
  <1>5. F(f) /\ FlattenSeq(s) = f[Len(s)]
    BY <1>2, <1>3, <1>4
  <1> QED BY <1>5 DEF F, Flattens

(* Two folds over the same values agree on what both are defined for.        *)
LEMMA SumsAgree ==
    ASSUME NEW D, IsFiniteSet(D), NEW E \in SUBSET D, NEW g \in [D -> Nat], NEW h \in [E -> Nat],
           \A x \in E : h[x] = g[x], NEW f, SumsTo(f, g, D), NEW e, SumsTo(e, h, E)
    PROVE  f[E] = e[E]
  <1> DEFINE Bad == {n \in Nat : \E s \in SUBSET E : Cardinality(s) = n /\ f[s] # e[s]}
  <1> SUFFICES ASSUME f[E] # e[E] PROVE FALSE
    OBVIOUS
  <1>1. IsFiniteSet(E) /\ \A s \in SUBSET E : IsFiniteSet(s) /\ Cardinality(s) \in Nat
    BY FS_Subset, FS_CardinalityType
  <1>2. Cardinality(E) \in Bad
    BY <1>1
  <1>3. PICK n \in Bad : \A k \in Bad : n <= k
    BY <1>2, Least
  <1>4. PICK s \in SUBSET E : Cardinality(s) = n /\ f[s] # e[s]
    BY <1>3
  <1>5. s # {}
    BY <1>4 DEF SumsTo
  <1>6. PICK x : x \in s
    BY <1>5
  <1>7. /\ s \ {x} \in SUBSET E /\ Cardinality(s \ {x}) \in Nat
        /\ Cardinality(s) = Cardinality(s \ {x}) + 1
    BY <1>1, <1>6, SmallerSet
  <1>8. f[s \ {x}] = e[s \ {x}]
    <2>1. n \in Nat /\ Cardinality(s \ {x}) < n
      BY <1>4, <1>7
    <2>2. Cardinality(s \ {x}) \notin Bad
      BY <1>3, <1>7, <2>1
    <2> QED BY <1>7, <2>2
  <1>9. f[s] = g[x] + f[s \ {x}] /\ e[s] = h[x] + e[s \ {x}]
    BY <1>6 DEF SumsTo
  <1> QED BY <1>4, <1>6, <1>8, <1>9

(* The sum over nothing is 0. *)
LEMMA SumNone ==
    ASSUME NEW g, DOMAIN g = {}, g = [x \in {} |-> g[x]]
    PROVE  SumFunction(g) = 0
  <1>1. g \in [{} -> Nat]
    OBVIOUS
  <1>2. IsFiniteSet({})
    BY FS_EmptySet
  <1>3. PICK f : SumsTo(f, g, {})
    BY <1>1, <1>2, SumFolds
  <1> QED BY <1>3 DEF SumsTo

(* Taking one element out takes its value out. *)
LEMMA SumRemove ==
    ASSUME NEW D, IsFiniteSet(D), NEW g \in [D -> Nat], NEW d \in D
    PROVE  /\ SumFunction(g) \in Nat
           /\ SumFunction([x \in D \ {d} |-> g[x]]) \in Nat
           /\ SumFunction(g) = g[d] + SumFunction([x \in D \ {d} |-> g[x]])
  <1>1. PICK E : E = D \ {d} /\ E \in SUBSET D /\ IsFiniteSet(E)
    <2>1. PICK E : E = D \ {d} /\ E \in SUBSET D
      OBVIOUS
    <2>2. IsFiniteSet(E)
      BY <2>1, FS_Subset
    <2> QED BY <2>1, <2>2
  <1>2. PICK h : h = [x \in E |-> g[x]]
    OBVIOUS
  <1>3. h \in [E -> Nat] /\ \A x \in E : h[x] = g[x]
    BY <1>1, <1>2
  <1>4. PICK f : SumsTo(f, g, D)
    BY SumFolds
  <1>5. PICK e : SumsTo(e, h, E)
    BY <1>1, <1>3, SumFolds
  <1>6. f[E] = e[E]
    BY <1>1, <1>3, <1>4, <1>5, SumsAgree
  <1>7. f[D] = g[d] + f[D \ {d}] /\ f[D] \in Nat /\ e[E] \in Nat
    BY <1>4, <1>5 DEF SumsTo
  <1>8. SumFunction(g) = f[D] /\ SumFunction(h) = e[E]
    BY <1>4, <1>5 DEF SumsTo
  <1> QED BY <1>1, <1>2, <1>6, <1>7, <1>8

(* The sum of the first n values, which is how every sum over a sequence is  *)
(* taken apart.                                                              *)
Total(g, n) == SumFunction([j \in 1 .. n |-> g[j]])

(* A total grows by its last summand. *)
LEMMA TotalFacts ==
    ASSUME NEW g, NEW n \in Nat, \A j \in 1 .. n + 1 : g[j] \in Nat
    PROVE  /\ Total(g, n + 1) = Total(g, n) + g[n + 1]
           /\ Total(g, n) \in Nat /\ Total(g, n + 1) \in Nat
  <1>1. PICK D : D = 1 .. n + 1
    OBVIOUS
  <1>2. IsFiniteSet(D) /\ n + 1 \in D /\ D \ {n + 1} = 1 .. n
    <2>1. 1 \in Int /\ n + 1 \in Int
      OBVIOUS
    <2>2. IsFiniteSet(1 .. n + 1)
      BY <2>1, FS_Interval
    <2> QED BY <1>1, <2>2
  <1>3. PICK h : h = [j \in D |-> g[j]]
    OBVIOUS
  <1>4. h \in [D -> Nat] /\ h[n + 1] = g[n + 1]
    BY <1>1, <1>2, <1>3
  <1>5. [x \in D \ {n + 1} |-> h[x]] = [j \in 1 .. n |-> g[j]]
    BY <1>1, <1>2, <1>3
  <1>6. /\ SumFunction(h) = h[n + 1] + SumFunction([x \in D \ {n + 1} |-> h[x]])
        /\ SumFunction(h) \in Nat /\ SumFunction([x \in D \ {n + 1} |-> h[x]]) \in Nat
    BY <1>2, <1>4, SumRemove
  <1>7. Total(g, n + 1) = SumFunction(h) /\ Total(g, n) = SumFunction([j \in 1 .. n |-> g[j]])
    BY <1>1, <1>3 DEF Total
  <1>8. g[n + 1] \in Nat
    OBVIOUS
  <1>9. PICK a, b : a = Total(g, n) /\ b = Total(g, n + 1)
    OBVIOUS
  <1>10. b = g[n + 1] + a /\ a \in Nat /\ b \in Nat
    BY <1>4, <1>5, <1>6, <1>7, <1>9
  <1> QED BY <1>8, <1>9, <1>10

(* The total of nothing is 0. *)
LEMMA TotalOfNone ==
    ASSUME NEW g
    PROVE  Total(g, 0) = 0
  <1>1. 1 .. 0 = {}
    OBVIOUS
  <1>2. PICK h : h = [j \in 1 .. 0 |-> g[j]]
    OBVIOUS
  <1>3. DOMAIN h = {} /\ h = [x \in {} |-> h[x]]
    BY <1>1, <1>2
  <1>4. SumFunction(h) = 0
    BY <1>3, SumNone
  <1> QED BY <1>2, <1>4 DEF Total

(* A total of naturals is one. *)
LEMMA TotalType ==
    ASSUME NEW g, NEW n \in Nat, \A j \in 1 .. n : g[j] \in Nat
    PROVE  Total(g, n) \in Nat
  <1>1. CASE n = 0
    BY <1>1, TotalOfNone
  <1>2. CASE n # 0
    <2>1. PICK m \in Nat : m + 1 = n /\ m = n - 1
      BY <1>2
    <2>2. \A j \in 1 .. m + 1 : g[j] \in Nat
      BY <2>1
    <2>3. Total(g, m + 1) \in Nat
      BY <2>2, TotalFacts
    <2> QED BY <2>1, <2>3
  <1> QED BY <1>1, <1>2

(* A total depends on its summands alone. *)
LEMMA TotalSame ==
    ASSUME NEW g, NEW h, NEW n \in Nat, \A j \in 1 .. n : g[j] = h[j]
    PROVE  Total(g, n) = Total(h, n)
  <1>1. [j \in 1 .. n |-> g[j]] = [j \in 1 .. n |-> h[j]]
    OBVIOUS
  <1> QED BY <1>1 DEF Total

(* The total of n times the same. *)
LEMMA TotalOfConstant ==
    ASSUME NEW g, NEW n \in Nat, NEW v \in Nat, \A j \in 1 .. n : g[j] = v
    PROVE  Total(g, n) = n * v
  <1> DEFINE T == {k \in 0 .. n : Total(g, k) = k * v}
  <1>1. 0 \in T
    <2>1. 0 * v = 0
      OBVIOUS
    <2> QED BY <2>1, TotalOfNone
  <1>2. ASSUME NEW k \in 1 .. n, k - 1 \in T PROVE k \in T
    <2>1. PICK m \in Nat : m = k - 1 /\ k = m + 1
      OBVIOUS
    <2>2. \A j \in 1 .. m + 1 : g[j] \in Nat
      BY <2>1
    <2>3. Total(g, m + 1) = Total(g, m) + g[m + 1]
      BY <2>2, TotalFacts
    <2>4. (m + 1) * v = m * v + v
      OBVIOUS
    <2>5. g[m + 1] = v /\ Total(g, m) = m * v
      BY <1>2, <2>1
    <2>6. Total(g, m + 1) = (m + 1) * v
      BY <2>3, <2>4, <2>5
    <2> QED BY <2>1, <2>6
  <1>3. \A k \in 0 .. n : k \in T
    <2> HIDE DEF T
    <2> QED BY <1>1, <1>2, Climb
  <1> QED BY <1>3

-----------------------------------------------------------------------------
(* Runs of blocks or of slots: sequences over a set of things with a size.   *)
Sized(S) == \A x \in S : x.bytes \in Nat

(* The sizes of the items of s, and what the first n weigh. *)
Sizes(s)     == [j \in DOMAIN s |-> s[j].bytes]
Weight(s, n) == Total(Sizes(s), n)

(* Each item adds its own size. *)
LEMMA WeightFacts ==
    ASSUME NEW S, Sized(S), NEW s \in Seq(S), NEW n \in 0 .. Len(s)
    PROVE  /\ Weight(s, 0) = 0
           /\ Weight(s, n) \in Nat
           /\ n < Len(s) => Weight(s, n + 1) = Weight(s, n) + s[n + 1].bytes
  <1>1. PICK g : g = Sizes(s)
    OBVIOUS
  <1>2. \A j \in 1 .. Len(s) : g[j] = s[j].bytes /\ g[j] \in Nat
    <2> TAKE j \in 1 .. Len(s)
    <2>1. s[j] \in S /\ j \in DOMAIN s
      OBVIOUS
    <2> QED BY <1>1, <2>1 DEF Sizes, Sized
  <1>3. n \in Nat /\ \A j \in 1 .. n : g[j] \in Nat
    BY <1>2
  <1>4. Total(g, 0) = 0
    BY TotalOfNone
  <1>5. Total(g, n) \in Nat
    BY <1>3, TotalType
  <1>6. ASSUME n < Len(s)
        PROVE  Total(g, n + 1) = Total(g, n) + s[n + 1].bytes
    <2>1. \A j \in 1 .. n + 1 : g[j] \in Nat
      BY <1>2, <1>6
    <2>2. Total(g, n + 1) = Total(g, n) + g[n + 1]
      BY <1>3, <2>1, TotalFacts
    <2>3. n + 1 \in 1 .. Len(s)
      BY <1>6
    <2> QED BY <1>2, <2>2, <2>3
  <1> QED BY <1>1, <1>4, <1>5, <1>6 DEF Weight

(* A run weighs what all its items do. *)
LEMMA TotalBytesIs ==
    ASSUME NEW S, Sized(S), NEW s \in Seq(S)
    PROVE  TotalBytes(s) = Weight(s, Len(s)) /\ TotalBytes(s) \in Nat
  <1>1. PICK n \in Nat : n = Len(s)
    OBVIOUS
  <1>2. DOMAIN s = 1 .. n
    BY <1>1
  <1>3. Sizes(s) = [j \in 1 .. n |-> s[j].bytes] /\ Sizes(s) = [j \in 1 .. n |-> Sizes(s)[j]]
    BY <1>2 DEF Sizes
  <1>4. TotalBytes(s) = SumFunction(Sizes(s))
    BY DEF TotalBytes, Sizes
  <1>5. TotalBytes(s) = Total(Sizes(s), n)
    BY <1>3, <1>4 DEF Total
  <1>6. n \in 0 .. Len(s)
    BY <1>1
  <1>7. Weight(s, n) \in Nat
    BY <1>6, WeightFacts
  <1> QED BY <1>1, <1>5, <1>7 DEF Weight

(* Runs of the same sizes weigh the same. *)
LEMMA WeightSame ==
    ASSUME NEW s, NEW t, NEW n \in Nat, n <= Len(s), n <= Len(t), Len(s) \in Nat, Len(t) \in Nat,
           DOMAIN s = 1 .. Len(s), DOMAIN t = 1 .. Len(t),
           \A j \in 1 .. n : s[j].bytes = t[j].bytes
    PROVE  Weight(s, n) = Weight(t, n)
  <1>1. \A j \in 1 .. n : Sizes(s)[j] = Sizes(t)[j]
    BY DEF Sizes
  <1> QED BY <1>1, TotalSame DEF Weight

(* u is s and then t, and every offset in it is the one in s, or the one in  *)
(* t behind s.                                                               *)
Spliced(S, s, t, u) ==
    /\ u \in Seq(S) /\ Len(u) = Len(s) + Len(t)
    /\ \A i \in 1 .. Len(s) : u[i] = s[i]
    /\ \A j \in 1 .. Len(t) : u[Len(s) + j] = t[j]
    /\ \A i \in 0 .. Len(s) : Weight(u, i) = Weight(s, i)
    /\ \A j \in 0 .. Len(t) : Weight(u, Len(s) + j) = Weight(s, Len(s)) + Weight(t, j)
    /\ TotalBytes(u) = TotalBytes(s) + TotalBytes(t)

(* Joining two runs keeps the offsets in each. *)
LEMMA WeightConcat ==
    ASSUME NEW S, Sized(S), NEW s \in Seq(S), NEW t \in Seq(S), NEW u, u = s \o t
    PROVE  Spliced(S, s, t, u)
  <1>1. PICK m \in Nat, n \in Nat : m = Len(s) /\ n = Len(t)
    OBVIOUS
  <1>2. /\ u \in Seq(S) /\ Len(u) = m + n
        /\ \A i \in 1 .. m + n : u[i] = IF i <= m THEN s[i] ELSE t[i - m]
    BY <1>1, ConcatProperties
  <1>3. \A i \in 1 .. m : u[i] = s[i]
    BY <1>2
  <1>4. ASSUME NEW j \in 1 .. n PROVE u[m + j] = t[j]
    <2>1. m + j \in 1 .. m + n /\ ~(m + j <= m) /\ (m + j) - m = j
      OBVIOUS
    <2> QED BY <1>2, <2>1
  <1>5. ASSUME NEW i \in 0 .. m PROVE Weight(u, i) = Weight(s, i)
    <2>1. i \in Nat /\ i <= Len(u) /\ i <= Len(s) /\ Len(u) \in Nat /\ Len(s) \in Nat
      BY <1>1, <1>2
    <2>2. DOMAIN u = 1 .. Len(u) /\ DOMAIN s = 1 .. Len(s)
      BY <1>2
    <2>3. \A j \in 1 .. i : u[j].bytes = s[j].bytes
      <3> TAKE j \in 1 .. i
      <3>1. j \in 1 .. m
        OBVIOUS
      <3>2. u[j] = s[j]
        BY <1>3, <3>1
      <3> QED BY <3>2
    <2> QED BY <2>1, <2>2, <2>3, WeightSame
  <1> DEFINE T == {j \in 0 .. n : Weight(u, m + j) = Weight(s, m) + Weight(t, j)}
  <1>6. 0 \in T
    <2>1. Weight(t, 0) = 0 /\ Weight(s, m) \in Nat
      <3>1. 0 \in 0 .. Len(t) /\ m \in 0 .. Len(s)
        BY <1>1
      <3> QED BY <3>1, WeightFacts
    <2>2. Weight(u, m) = Weight(s, m)
      BY <1>5
    <2> QED BY <2>1, <2>2
  <1>7. ASSUME NEW j \in 1 .. n, j - 1 \in T PROVE j \in T
    <2>1. PICK i \in Nat : i = j - 1 /\ j = i + 1
      OBVIOUS
    <2>2. Weight(u, m + i) = Weight(s, m) + Weight(t, i)
      BY <1>7, <2>1
    <2>3. Weight(t, i + 1) = Weight(t, i) + t[i + 1].bytes /\ Weight(t, i) \in Nat
      <3>1. i \in 0 .. Len(t) /\ i < Len(t)
        BY <1>1, <2>1
      <3> QED BY <3>1, WeightFacts
    <2>4. Weight(u, (m + i) + 1) = Weight(u, m + i) + u[(m + i) + 1].bytes
      <3>1. m + i \in 0 .. Len(u) /\ m + i < Len(u)
        BY <1>2, <2>1
      <3> QED BY <1>2, <3>1, WeightFacts
    <2>5. (m + i) + 1 = m + j /\ u[m + j] = t[j]
      <3>1. (m + i) + 1 = m + j
        BY <2>1
      <3>2. u[m + j] = t[j]
        BY <1>4
      <3> QED BY <3>1, <3>2
    <2>6. t[j].bytes \in Nat
      <3>1. t[j] \in S
        BY <1>1
      <3> QED BY <3>1 DEF Sized
    <2>7. Weight(s, m) \in Nat
      <3>1. m \in 0 .. Len(s)
        BY <1>1
      <3> QED BY <3>1, WeightFacts
    <2>8. Weight(u, m + j) = Weight(s, m) + Weight(t, j)
      <3>1. PICK a \in Nat, b \in Nat, d \in Nat :
               a = Weight(s, m) /\ b = Weight(t, i) /\ d = t[j].bytes
        BY <2>3, <2>6, <2>7
      <3>2. Weight(t, j) = b + d
        BY <2>1, <2>3, <3>1
      <3>3. Weight(u, m + j) = (a + b) + d
        BY <2>2, <2>4, <2>5, <3>1
      <3>4. (a + b) + d = a + (b + d)
        OBVIOUS
      <3> QED BY <3>1, <3>2, <3>3, <3>4
    <2> QED BY <2>8
  <1>8. \A j \in 0 .. n : j \in T
    <2> HIDE DEF T
    <2> QED BY <1>6, <1>7, Climb
  <1>9. \A j \in 0 .. n : Weight(u, m + j) = Weight(s, m) + Weight(t, j)
    BY <1>8
  <1>10. TotalBytes(u) = TotalBytes(s) + TotalBytes(t)
    <2>1. Weight(u, m + n) = Weight(s, m) + Weight(t, n)
      <3>1. n \in 0 .. n
        OBVIOUS
      <3> QED BY <1>9, <3>1
    <2>2. TotalBytes(s) = Weight(s, m) /\ TotalBytes(t) = Weight(t, n)
      BY <1>1, TotalBytesIs
    <2>3. TotalBytes(u) = Weight(u, m + n)
      BY <1>2, TotalBytesIs
    <2> QED BY <2>1, <2>2, <2>3
  <1> QED BY <1>1, <1>2, <1>3, <1>4, <1>5, <1>9, <1>10 DEF Spliced

(* What is laid end to end begins where the ones before it end. *)
LEMMA PlacedIs ==
    ASSUME NEW S, Sized(S), NEW s \in Seq(S), NEW from \in Nat, NEW i \in 1 .. Len(s)
    PROVE  [start |-> from + Weight(s, i - 1), item |-> s[i]] \in Placed(s, from)
  <1> DEFINE Rec(f) == f = [k \in 1 .. Len(s) |->
                              IF k = 1 THEN from ELSE f[k - 1] + s[k - 1].bytes]
  <1>1. PICK n \in Nat : n = Len(s)
    OBVIOUS
  <1>2. \E f : Rec(f)
    <2>1. PICK f : f = [k \in 1 .. n |-> from + Weight(s, k - 1)]
      OBVIOUS
    <2>2. ASSUME NEW k \in 1 .. n
          PROVE  f[k] = IF k = 1 THEN from ELSE f[k - 1] + s[k - 1].bytes
      <3>1. CASE k = 1
        <4>1. Weight(s, 0) = 0
          <5>1. 0 \in 0 .. Len(s)
            BY <1>1
          <5> QED BY <5>1, WeightFacts
        <4> QED BY <2>1, <3>1, <4>1
      <3>2. CASE k # 1
        <4>1. PICK j \in Nat : j = k - 2 /\ k - 1 = j + 1 /\ (k - 1) - 1 = j
          BY <3>2
        <4>2. j \in 0 .. Len(s) /\ j < Len(s) /\ k - 1 \in 1 .. n
          BY <1>1, <4>1
        <4>3. Weight(s, j + 1) = Weight(s, j) + s[j + 1].bytes /\ Weight(s, j) \in Nat
          BY <4>2, WeightFacts
        <4>4. s[k - 1].bytes \in Nat
          <5>1. s[k - 1] \in S
            BY <1>1, <4>2
          <5> QED BY <5>1 DEF Sized
        <4>5. f[k] = from + Weight(s, j + 1) /\ f[k - 1] = from + Weight(s, j)
          BY <2>1, <4>1, <4>2
        <4> QED BY <3>2, <4>1, <4>3, <4>4, <4>5
      <3> QED BY <3>1, <3>2
    <2>3. f = [k \in 1 .. n |-> IF k = 1 THEN from ELSE f[k - 1] + s[k - 1].bytes]
      BY <2>1, <2>2
    <2> QED BY <1>1, <2>3
  <1>3. Rec(CHOOSE f : Rec(f))
    BY <1>2
  <1>4. PICK start : start = (CHOOSE f : Rec(f)) /\ Rec(start)
    BY <1>3
  <1>5. Placed(s, from) = {[start |-> start[k], item |-> s[k]] : k \in DOMAIN s}
    BY <1>4 DEF Placed
  <1> DEFINE T == {k \in 0 .. n : k > 0 => start[k] = from + Weight(s, k - 1)}
  <1>6. 0 \in T
    OBVIOUS
  <1>7. ASSUME NEW k \in 1 .. n, k - 1 \in T PROVE k \in T
    <2>1. start[k] = IF k = 1 THEN from ELSE start[k - 1] + s[k - 1].bytes
      BY <1>1, <1>4
    <2>2. CASE k = 1
      <3>1. Weight(s, 0) = 0
        <4>1. 0 \in 0 .. Len(s)
          BY <1>1
        <4> QED BY <4>1, WeightFacts
      <3>2. start[k] = from + Weight(s, k - 1)
        BY <2>1, <2>2, <3>1
      <3> QED BY <3>2
    <2>3. CASE k # 1
      <3>1. PICK j \in Nat : j = k - 2 /\ k - 1 = j + 1 /\ (k - 1) - 1 = j
        BY <2>3
      <3>2. j \in 0 .. Len(s) /\ j < Len(s) /\ k - 1 \in 1 .. n
        BY <1>1, <3>1
      <3>3. Weight(s, j + 1) = Weight(s, j) + s[j + 1].bytes /\ Weight(s, j) \in Nat
        BY <3>2, WeightFacts
      <3>4. s[k - 1].bytes \in Nat
        <4>1. s[k - 1] \in S
          BY <1>1, <3>2
        <4> QED BY <4>1 DEF Sized
      <3>5. start[k - 1] = from + Weight(s, j)
        BY <1>7, <3>1, <3>2
      <3>6. start[k] = from + Weight(s, k - 1)
        BY <2>1, <2>3, <3>1, <3>3, <3>4, <3>5
      <3> QED BY <3>6
    <2> QED BY <2>2, <2>3
  <1>8. \A k \in 0 .. n : k \in T
    <2> HIDE DEF T
    <2> QED BY <1>6, <1>7, Climb
  <1>9. start[i] = from + Weight(s, i - 1) /\ i \in DOMAIN s
    BY <1>1, <1>8
  <1> QED BY <1>5, <1>9

-----------------------------------------------------------------------------
(* What FlattenSeq makes of runs: where each thing of each run comes to lie. *)
Runs(ss, S, n) == ss = [i \in 1 .. n |-> ss[i]] /\ \A i \in 1 .. n : ss[i] \in Seq(S)

(* What each of the runs ss weighs. *)
Totals(ss) == [i \in DOMAIN ss |-> TotalBytes(ss[i])]

(* Item q of u is item j of run i, at the offset the runs before it give. *)
LiesAt(u, q, ss, i, j) ==
    u[q] = ss[i][j] /\ Weight(u, q - 1) = Total(Totals(ss), i - 1) + Weight(ss[i], j - 1)

(* u is the first m runs of ss behind each other. *)
FlatTo(u, ss, S, m) ==
    /\ u \in Seq(S) /\ TotalBytes(u) = Total(Totals(ss), m)
    /\ \A i \in 1 .. m : \A j \in 1 .. Len(ss[i]) : \E q \in 1 .. Len(u) : LiesAt(u, q, ss, i, j)

(* Each run adds what it weighs. *)
LEMMA TotalsFacts ==
    ASSUME NEW S, Sized(S), NEW n \in Nat, NEW ss, Runs(ss, S, n), NEW m \in 0 .. n
    PROVE  /\ Total(Totals(ss), 0) = 0
           /\ Total(Totals(ss), m) \in Nat
           /\ m < n => Total(Totals(ss), m + 1) = Total(Totals(ss), m) + TotalBytes(ss[m + 1])
  <1>1. PICK g : g = Totals(ss)
    OBVIOUS
  <1>2. DOMAIN ss = 1 .. n
    BY DEF Runs
  <1>3. ASSUME NEW j \in 1 .. n PROVE g[j] = TotalBytes(ss[j]) /\ g[j] \in Nat
    <2>1. g[j] = TotalBytes(ss[j])
      BY <1>1, <1>2 DEF Totals
    <2>2. ss[j] \in Seq(S)
      BY DEF Runs
    <2> QED BY <2>1, <2>2, TotalBytesIs
  <1>4. Total(g, 0) = 0
    BY TotalOfNone
  <1>5. Total(g, m) \in Nat
    <2>1. m \in Nat /\ \A j \in 1 .. m : g[j] \in Nat
      BY <1>3
    <2> QED BY <2>1, TotalType
  <1>6. ASSUME m < n PROVE Total(g, m + 1) = Total(g, m) + TotalBytes(ss[m + 1])
    <2>1. m \in Nat /\ m + 1 \in 1 .. n /\ \A j \in 1 .. m + 1 : g[j] \in Nat
      BY <1>3, <1>6
    <2>2. Total(g, m + 1) = Total(g, m) + g[m + 1]
      BY <2>1, TotalFacts
    <2> QED BY <1>3, <2>1, <2>2
  <1> QED BY <1>1, <1>4, <1>5, <1>6

(* One run is the first run. *)
LEMMA FlatFirst ==
    ASSUME NEW S, Sized(S), NEW n \in Nat \ {0}, NEW ss, Runs(ss, S, n)
    PROVE  FlatTo(ss[1], ss, S, 1)
  <1>1. PICK u : u = ss[1] /\ u \in Seq(S)
    BY DEF Runs
  <1>2. TotalBytes(u) \in Nat /\ Weight(u, 0) = 0
    BY <1>1, TotalBytesIs, WeightFacts
  <1>3. Total(Totals(ss), 0) = 0 /\ Total(Totals(ss), 1) = TotalBytes(u)
    <2>1. 0 \in 0 .. n /\ 0 < n
      OBVIOUS
    <2>2. Total(Totals(ss), 0 + 1) = Total(Totals(ss), 0) + TotalBytes(ss[0 + 1])
      BY <2>1, TotalsFacts
    <2>3. Total(Totals(ss), 0) = 0
      BY <2>1, TotalsFacts
    <2> QED BY <1>1, <1>2, <2>2, <2>3
  <1>4. ASSUME NEW i \in 1 .. 1, NEW j \in 1 .. Len(ss[i])
        PROVE  LiesAt(u, j, ss, i, j) /\ j \in 1 .. Len(u)
    <2>1. i = 1 /\ j \in 1 .. Len(u)
      BY <1>1
    <2>2. Weight(u, j - 1) \in Nat
      <3>1. j - 1 \in 0 .. Len(u)
        BY <1>1, <2>1
      <3> QED BY <1>1, <3>1, WeightFacts
    <2> QED BY <1>1, <1>3, <2>1, <2>2 DEF LiesAt
  <1> QED BY <1>1, <1>3, <1>4 DEF FlatTo

(* Joining the next run keeps every item where it is. *)
LEMMA FlatNext ==
    ASSUME NEW S, Sized(S), NEW n \in Nat \ {0}, NEW ss, Runs(ss, S, n), NEW m \in 1 .. n - 1,
           NEW u, FlatTo(u, ss, S, m)
    PROVE  FlatTo(u \o ss[m + 1], ss, S, m + 1)
  <1>1. PICK s, w : s = ss[m + 1] /\ w = u \o s
    OBVIOUS
  <1>2. s \in Seq(S) /\ u \in Seq(S)
    BY <1>1 DEF Runs, FlatTo
  <1>3. /\ w \in Seq(S) /\ Len(w) = Len(u) + Len(s)
        /\ \A i \in 1 .. Len(u) : w[i] = u[i]
        /\ \A j \in 1 .. Len(s) : w[Len(u) + j] = s[j]
        /\ \A i \in 0 .. Len(u) : Weight(w, i) = Weight(u, i)
        /\ \A j \in 0 .. Len(s) : Weight(w, Len(u) + j) = Weight(u, Len(u)) + Weight(s, j)
        /\ TotalBytes(w) = TotalBytes(u) + TotalBytes(s)
    <2>1. Spliced(S, u, s, w)
      BY <1>1, <1>2, WeightConcat
    <2> QED BY <2>1 DEF Spliced
  <1>4. TotalBytes(w) = Total(Totals(ss), m + 1)
    <2>1. m \in 0 .. n /\ m < n
      OBVIOUS
    <2>2. Total(Totals(ss), m + 1) = Total(Totals(ss), m) + TotalBytes(s)
      BY <1>1, <2>1, TotalsFacts
    <2> QED BY <1>3, <2>2 DEF FlatTo
  <1>5. ASSUME NEW i \in 1 .. m + 1, NEW j \in 1 .. Len(ss[i])
        PROVE  \E q \in 1 .. Len(w) : LiesAt(w, q, ss, i, j)
    <2>0. PICK a \in Nat, b \in Nat : a = Len(u) /\ b = Len(s)
      BY <1>2
    <2>1. CASE i \in 1 .. m
      <3>1. PICK q \in 1 .. Len(u) : LiesAt(u, q, ss, i, j)
        BY <2>1 DEF FlatTo
      <3>2. q \in 1 .. a /\ q \in 1 .. Len(w) /\ q - 1 \in 0 .. a
        BY <1>3, <2>0, <3>1
      <3>3. w[q] = u[q] /\ Weight(w, q - 1) = Weight(u, q - 1)
        BY <1>3, <2>0, <3>2
      <3>4. LiesAt(w, q, ss, i, j)
        BY <3>1, <3>3 DEF LiesAt
      <3> QED BY <3>2, <3>4
    <2>2. CASE i = m + 1
      <3>1. ss[i] = s /\ i - 1 = m /\ j \in 1 .. b
        BY <1>1, <2>0, <2>2
      <3>2. PICK q \in Nat : q = a + j /\ q \in 1 .. Len(w) /\ q - 1 = a + (j - 1) /\ j - 1 \in 0 .. b
        BY <1>3, <2>0, <3>1
      <3>3. w[q] = s[j] /\ Weight(w, q - 1) = Weight(u, a) + Weight(s, j - 1)
        BY <1>3, <2>0, <3>1, <3>2
      <3>4. Weight(u, a) = Total(Totals(ss), m)
        BY <1>2, <2>0, TotalBytesIs DEF FlatTo
      <3>5. LiesAt(w, q, ss, i, j)
        BY <3>1, <3>3, <3>4 DEF LiesAt
      <3> QED BY <3>2, <3>5
    <2> QED BY <2>1, <2>2
  <1> QED BY <1>1, <1>3, <1>4, <1>5 DEF FlatTo

(* FlattenSeq puts every item where the sizes before it say. *)
LEMMA FlatFacts ==
    ASSUME NEW S, Sized(S), NEW n \in Nat, NEW ss, Runs(ss, S, n)
    PROVE  FlatTo(FlattenSeq(ss), ss, S, n)
  <1>1. Len(ss) = n
    <2>1. ss \in [1 .. n -> Seq(S)]
      BY DEF Runs
    <2> QED BY <2>1
  <1>2. CASE n = 0
    <2>1. FlattenSeq(ss) = ss
      BY <1>1, <1>2 DEF FlattenSeq
    <2>2. ss \in Seq(S) /\ ss = << >>
      BY <1>2 DEF Runs
    <2>3. TotalBytes(ss) = 0
      <3>1. TotalBytes(ss) = Weight(ss, 0)
        BY <1>1, <1>2, <2>2, TotalBytesIs
      <3>2. 0 \in 0 .. Len(ss)
        BY <1>1, <1>2
      <3>3. Weight(ss, 0) = 0
        BY <2>2, <3>2, WeightFacts
      <3> QED BY <3>1, <3>3
    <2>4. Total(Totals(ss), n) = 0
      BY <1>2, TotalOfNone
    <2> QED BY <1>2, <2>1, <2>2, <2>3, <2>4 DEF FlatTo
  <1>3. CASE n # 0
    <2>1. PICK f : Flattens(f, ss, n) /\ FlattenSeq(ss) = f[n]
      BY <1>1, <1>3, FlattenIs
    <2> DEFINE T == {k \in 0 .. n : k > 0 => FlatTo(f[k], ss, S, k)}
    <2>2. 0 \in T
      OBVIOUS
    <2>3. ASSUME NEW k \in 1 .. n, k - 1 \in T PROVE k \in T
      <3>1. f[k] = IF k = 1 THEN ss[k] ELSE f[k - 1] \o ss[k]
        BY <2>1 DEF Flattens
      <3>2. CASE k = 1
        BY <1>3, <3>1, <3>2, FlatFirst
      <3>3. CASE k # 1
        <4>1. PICK m \in 1 .. n - 1 : m = k - 1 /\ k = m + 1
          BY <3>3
        <4>2. FlatTo(f[m], ss, S, m)
          BY <2>3, <4>1
        <4>3. FlatTo(f[m] \o ss[m + 1], ss, S, m + 1)
          BY <1>3, <4>2, FlatNext
        <4>4. f[k] = f[m] \o ss[m + 1]
          BY <3>1, <3>3, <4>1
        <4>5. FlatTo(f[k], ss, S, k)
          BY <4>1, <4>3, <4>4
        <4> QED BY <4>5
      <3> QED BY <3>2, <3>3
    <2>4. \A k \in 0 .. n : k \in T
      <3> HIDE DEF T
      <3> QED BY <2>2, <2>3, Climb
    <2> QED BY <1>3, <2>1, <2>4
  <1> QED BY <1>2, <1>3

-----------------------------------------------------------------------------
(* Blocks and slots. *)
Parts    == {<<"params">>, <<"codes">>, <<"f32">>}
                \cup {<<"dims", d[1], d[2]>> : d \in Nat \X Nat}
(* The tensors of a checkpoint, the roles a reader gives them, and blocks    *)
(* and slots of them.                                                        *)
Names    == {"embed_tokens", "final_norm", "lm_head", "router", "q_norm", "k_norm",
             "q", "k", "v", "o", "gate", "up", "down", "w1", "w3", "w2",
             "q_bias", "k_bias", "v_bias", "o_bias", "gate_bias", "up_bias", "down_bias",
             "input_layernorm", "post_attention_layernorm", "pre_feedforward_layernorm",
             "post_feedforward_layernorm"}
Roles    == Names \cup {"before_attn", "before_mlp", "after_attn", "after_mlp"}
Tensors  == [layer : Nat, name : Names, expert : Nat, plusOne : BOOLEAN]
BlockSet == [tensor : Tensors, part : Parts, bytes : Nat]
SlotSet  == [layer : Nat, role : Roles, expert : Nat, part : Parts, bytes : Nat]

(* Blocks and slots have a size. *)
LEMMA SetsSized == Sized(BlockSet) /\ Sized(SlotSet)
  BY DEF Sized, BlockSet, SlotSet

(* A run of one. *)
LEMMA OneThing ==
    ASSUME NEW S, Sized(S), NEW x \in S
    PROVE  <<x>> \in Seq(S) /\ Len(<<x>>) = 1 /\ <<x>>[1] = x /\ TotalBytes(<<x>>) = x.bytes
  <1>1. PICK s : s = <<x>>
    OBVIOUS
  <1>2. s \in Seq(S) /\ Len(s) = 1 /\ s[1] = x
    BY <1>1
  <1>3. Weight(s, 0) = 0 /\ Weight(s, 0 + 1) = Weight(s, 0) + s[0 + 1].bytes
    <2>1. 0 \in 0 .. Len(s) /\ 0 < Len(s)
      BY <1>2
    <2> QED BY <1>2, <2>1, WeightFacts
  <1>4. x.bytes \in Nat
    BY DEF Sized
  <1>5. Weight(s, 1) = x.bytes
    BY <1>2, <1>3, <1>4
  <1>6. TotalBytes(s) = Weight(s, 1)
    BY <1>2, TotalBytesIs
  <1> QED BY <1>1, <1>2, <1>5, <1>6

(* A run of two. *)
LEMMA TwoThings ==
    ASSUME NEW S, Sized(S), NEW x \in S, NEW y \in S
    PROVE  /\ <<x, y>> \in Seq(S) /\ Len(<<x, y>>) = 2
           /\ TotalBytes(<<x, y>>) = x.bytes + y.bytes
  <1>1. PICK s, a, b : s = <<x, y>> /\ a = <<x>> /\ b = <<y>>
    OBVIOUS
  <1>3. /\ a \in Seq(S) /\ b \in Seq(S) /\ Len(a) = 1 /\ Len(b) = 1 /\ a[1] = x /\ b[1] = y
        /\ TotalBytes(a) = x.bytes /\ TotalBytes(b) = y.bytes
    BY <1>1, OneThing
  <1>2. s = a \o b /\ s \in Seq(S) /\ Len(s) = 2
    <2>1. /\ a \o b \in Seq(S) /\ Len(a \o b) = Len(a) + Len(b)
          /\ \A i \in 1 .. Len(a) + Len(b) :
                (a \o b)[i] = IF i <= Len(a) THEN a[i] ELSE b[i - Len(a)]
      BY <1>3, ConcatProperties
    <2>2. (a \o b)[1] = x /\ (a \o b)[2] = y
      BY <1>3, <2>1
    <2>3. s \in Seq(S) /\ Len(s) = 2 /\ s[1] = x /\ s[2] = y
      BY <1>1
    <2>4. PICK u : u = a \o b
      OBVIOUS
    <2>5. u \in Seq(S) /\ Len(u) = 2
      BY <1>3, <2>1, <2>4
    <2>6. u[1] = x /\ u[2] = y
      BY <2>2, <2>4
    <2> QED BY <2>3, <2>4, <2>5, <2>6
  <1>4. Spliced(S, a, b, s)
    BY <1>2, <1>3, WeightConcat
  <1> QED BY <1>1, <1>2, <1>3, <1>4 DEF Spliced

(* A run of three. *)
LEMMA ThreeThings ==
    ASSUME NEW S, Sized(S), NEW x \in S, NEW y \in S, NEW z \in S
    PROVE  /\ <<x, y, z>> \in Seq(S) /\ Len(<<x, y, z>>) = 3
           /\ TotalBytes(<<x, y, z>>) = x.bytes + y.bytes + z.bytes
  <1>1. PICK s, a, b : s = <<x, y, z>> /\ a = <<x, y>> /\ b = <<z>>
    OBVIOUS
  <1>2. s = a \o b /\ s \in Seq(S) /\ Len(s) = 3
    BY <1>1
  <1>3. /\ a \in Seq(S) /\ b \in Seq(S)
        /\ TotalBytes(a) = x.bytes + y.bytes /\ TotalBytes(b) = z.bytes
    BY <1>1, OneThing, TwoThings
  <1>4. Spliced(S, a, b, s)
    BY <1>2, <1>3, WeightConcat
  <1> QED BY <1>1, <1>2, <1>3, <1>4 DEF Spliced

-----------------------------------------------------------------------------
(* Sizes.  A configuration that the converter lets through: nothing is zero, *)
(* and what is packed two to a byte is even.                                 *)
Pos == Nat \ {0}

(* The dimensions of a configuration, as ModelConfig::validate leaves them. *)
Dimensioned(c) ==
    /\ c.hidden \in Pos /\ c.layers \in Pos /\ c.heads \in Pos /\ c.kvHeads \in Pos
    /\ c.headDim \in Pos /\ c.inter \in Pos /\ c.vocab \in Pos
    /\ c.group \in Pos /\ c.embedGroup \in Pos
    /\ Even(c.hidden) /\ Even(c.inter) /\ Even(AttentionDim(c))

(* And the capabilities that say which parts a layer has. *)
Shaped(c) ==
    /\ Dimensioned(c)
    /\ c.bias \subseteq 1 .. 7
    /\ c.qk \in {"none", "head", "full"}
    /\ c.sandwich \in BOOLEAN /\ c.postNorm \in BOOLEAN
    /\ c.experts \in Nat

(* A matrix of whole bytes. *)
Packable(d) == d.rows \in Pos /\ d.cols \in Pos /\ Even(d.cols)

(* Products of naturals. *)
LEMMA Products ==
    ASSUME NEW a \in Nat, NEW b \in Nat
    PROVE  a * b \in Nat /\ (a # 0 /\ b # 0 => a * b # 0)
  OBVIOUS

(* Rounding up stays in the naturals. *)
LEMMA DivCeilType ==
    ASSUME NEW a \in Nat, NEW b \in Pos
    PROVE  DivCeil(a, b) \in Nat
  <1>1. a + b - 1 \in Nat
    BY DEF Pos
  <1> QED BY <1>1 DEF DivCeil, Pos

(* The scales or zero points of a matrix: four bytes to a group. *)
LEMMA ParamBytesType ==
    ASSUME NEW r \in Nat, NEW n \in Nat, NEW g \in Pos
    PROVE  /\ ParamBytes(Dim(r, n), g) = r * DivCeil(n, g) * 4
           /\ ParamBytes(Dim(r, n), g) \in Nat
  <1>1. PICK q \in Nat : q = DivCeil(n, g)
    BY DivCeilType
  <1>2. PICK p \in Nat : p = r * q
    BY Products
  <1>3. ParamBytes(Dim(r, n), g) = r * DivCeil(n, g) * 4
    BY DEF ParamBytes, Dim
  <1>4. ParamBytes(Dim(r, n), g) = p * 4
    BY <1>1, <1>2, <1>3
  <1> QED BY <1>3, <1>4

(* Three ways to number the bytes of packed codes agree when a row is even.   *)
LEMMA CodesAgree ==
    ASSUME NEW r \in Pos, NEW n \in Pos, Even(n)
    PROVE  /\ r * (n \div 2) \in Nat
           /\ (r * n) \div 2 = r * (n \div 2) /\ DivCeil(r * n, 2) = r * (n \div 2)
  <1>1. PICK h \in Nat : h = n \div 2 /\ n = 2 * h
    BY DEF Even, Pos
  <1>2. PICK z \in Nat : z = r * h
    BY Products DEF Pos
  <1>3. r * n = 2 * z
    <2>1. r * (2 * h) = 2 * (r * h)
      BY DEF Pos
    <2> QED BY <1>1, <1>2, <2>1
  <1>4. (2 * z) \div 2 = z /\ (2 * z + 2 - 1) \div 2 = z
    OBVIOUS
  <1> QED BY <1>1, <1>2, <1>3, <1>4 DEF DivCeil

(* A linear as planned, twice, and as written. *)
LEMMA MatrixFacts ==
    ASSUME NEW t \in Tensors, NEW r \in Pos, NEW n \in Pos, Even(n), NEW g \in Pos,
           NEW d, d = Dim(r, n)
    PROVE  /\ WriteMatrix(t, d, g) \in Seq(BlockSet)
           /\ TotalBytes(WriteMatrix(t, d, g)) = LinearLen(d, g)
           /\ LinearLen(d, g) \in Nat /\ ExpertLinearLen(d, g) = LinearLen(d, g)
  <1>1. d.rows = r /\ d.cols = n
    BY DEF Dim
  <1>2. PICK p \in Nat : p = ParamBytes(d, g)
    BY ParamBytesType DEF Pos
  <1>3. PICK q \in Nat : q = r * (n \div 2) /\ (r * n) \div 2 = q /\ DivCeil(r * n, 2) = q
    BY CodesAgree
  <1>4. LinearLen(d, g) = 8 + p + q /\ ExpertLinearLen(d, g) = 8 + p + q
    BY <1>1, <1>2, <1>3 DEF LinearLen, ExpertLinearLen
  <1>5. PICK x, y, z : /\ x = Block(t, <<"dims", r, n>>, 8) /\ y = Block(t, <<"params">>, p)
                       /\ z = Block(t, <<"codes">>, q)
    OBVIOUS
  <1>6. x \in BlockSet /\ y \in BlockSet /\ z \in BlockSet
    <2>1. <<"dims", r, n>> \in Parts
      <3>1. <<r, n>> \in Nat \X Nat /\ <<r, n>>[1] = r /\ <<r, n>>[2] = n
        BY DEF Pos
      <3> QED BY <3>1 DEF Parts
    <2>2. <<"params">> \in Parts /\ <<"codes">> \in Parts
      BY DEF Parts
    <2> QED BY <1>5, <2>1, <2>2 DEF Block, BlockSet
  <1>7. x.bytes = 8 /\ y.bytes = p /\ z.bytes = q
    BY <1>5 DEF Block
  <1>8. WriteMatrix(t, d, g) = <<x, y, z>>
    BY <1>1, <1>2, <1>3, <1>5 DEF WriteMatrix
  <1>9. /\ <<x, y, z>> \in Seq(BlockSet)
        /\ TotalBytes(<<x, y, z>>) = x.bytes + y.bytes + z.bytes
    BY <1>6, SetsSized, ThreeThings
  <1> QED BY <1>4, <1>7, <1>8, <1>9

(* A vector takes four bytes a value. *)
LEMMA VectorFacts ==
    ASSUME NEW t \in Tensors, NEW n \in Nat
    PROVE  /\ WriteVector(t, n) \in Seq(BlockSet)
           /\ TotalBytes(WriteVector(t, n)) = n * 4
  <1>1. PICK x : x = Block(t, <<"f32">>, n * 4)
    OBVIOUS
  <1>2. x \in BlockSet /\ x.bytes = n * 4
    BY <1>1 DEF Block, BlockSet, Parts
  <1>3. WriteVector(t, n) = <<x>>
    BY <1>1 DEF WriteVector
  <1> QED BY <1>2, <1>3, SetsSized, OneThing

(* The tensor of a name and a layer. *)
LEMMA TensorType ==
    ASSUME NEW l \in Nat, NEW name \in Names
    PROVE  Tensor(l, name) \in Tensors
  <1>1. PICK b \in BOOLEAN : b = FALSE
    OBVIOUS
  <1>2. Tensor(l, name) = [layer |-> l, name |-> name, expert |-> 0, plusOne |-> b]
    BY <1>1 DEF Tensor
  <1>3. [layer |-> l, name |-> name, expert |-> 0, plusOne |-> b] \in Tensors
    BY DEF Tensors
  <1> QED BY <1>2, <1>3

(* The embedding written is as long as the one planned. *)
LEMMA EmbeddingFacts ==
    ASSUME NEW c, Dimensioned(c)
    PROVE  /\ WriteEmbedding(c) \in Seq(BlockSet)
           /\ TotalBytes(WriteEmbedding(c)) = EmbeddingLen(c)
  <1>1. PICK t : t = Tensor(0, "embed_tokens")
    OBVIOUS
  <1>2. t \in Tensors
    <2>1. "embed_tokens" \in Names
      BY DEF Names
    <2> QED BY <1>1, <2>1, TensorType
  <1>3. PICK p \in Nat : p = ParamBytes(Dim(c.vocab, c.hidden), c.embedGroup)
    BY ParamBytesType DEF Dimensioned, Pos
  <1>4. PICK q \in Nat : q = c.vocab * c.hidden
    BY Products DEF Dimensioned, Pos
  <1>5. PICK x, y : x = Block(t, <<"params">>, p) /\ y = Block(t, <<"codes">>, q)
    OBVIOUS
  <1>6. x \in BlockSet /\ y \in BlockSet /\ x.bytes = p /\ y.bytes = q
    BY <1>2, <1>5 DEF Block, BlockSet, Parts
  <1>7. WriteEmbedding(c) = <<x, y>>
    BY <1>1, <1>3, <1>4, <1>5 DEF WriteEmbedding
  <1>8. <<x, y>> \in Seq(BlockSet) /\ TotalBytes(<<x, y>>) = x.bytes + y.bytes
    BY <1>6, SetsSized, TwoThings
  <1> QED BY <1>3, <1>4, <1>6, <1>7, <1>8 DEF EmbeddingLen

-----------------------------------------------------------------------------
(* A layer, as it is planned and as it is written, part by part. *)

(* A sum over some of the indices is the sum over all with 0 for the others. *)
LEMMA SumSubset ==
    ASSUME NEW D, IsFiniteSet(D), NEW E \in SUBSET D, NEW g \in [D -> Nat], NEW h \in [E -> Nat],
           \A x \in E : h[x] = g[x], \A x \in D \ E : g[x] = 0
    PROVE  SumFunction(g) = SumFunction(h)
  <1>1. IsFiniteSet(E) /\ \A s \in SUBSET D : IsFiniteSet(s) /\ Cardinality(s) \in Nat
    BY FS_Subset, FS_CardinalityType
  <1>2. PICK f : SumsTo(f, g, D)
    BY SumFolds
  <1>3. PICK e : SumsTo(e, h, E)
    BY <1>1, SumFolds
  <1> DEFINE Bad == {n \in Nat : \E s \in SUBSET D : Cardinality(s) = n /\ f[s] # e[s \cap E]}
  <1>4. SUFFICES ASSUME f[D] # e[D \cap E] PROVE FALSE
    <2>1. D \cap E = E
      OBVIOUS
    <2> QED BY <1>2, <1>3, <2>1 DEF SumsTo
  <1>5. Cardinality(D) \in Bad
    BY <1>1, <1>4
  <1>6. PICK n \in Bad : \A k \in Bad : n <= k
    BY <1>5, Least
  <1>7. PICK s \in SUBSET D : Cardinality(s) = n /\ f[s] # e[s \cap E]
    BY <1>6
  <1>8. s # {}
    <2>1. {} \cap E = {}
      OBVIOUS
    <2> QED BY <1>2, <1>3, <1>7, <2>1 DEF SumsTo
  <1>9. PICK x : x \in s
    BY <1>8
  <1>10. PICK t : t = s \ {x}
    OBVIOUS
  <1>11. t \in SUBSET D /\ Cardinality(t) \in Nat /\ Cardinality(s) = Cardinality(t) + 1
    BY <1>1, <1>9, <1>10, SmallerSet
  <1>12. f[t] = e[t \cap E]
    <2>1. n \in Nat /\ Cardinality(t) < n
      BY <1>7, <1>11
    <2>2. Cardinality(t) \notin Bad
      BY <1>6, <1>11, <2>1
    <2> QED BY <1>11, <2>2
  <1>13. f[s] = g[x] + f[t] /\ f[t] \in Nat
    BY <1>2, <1>9, <1>10, <1>11 DEF SumsTo
  <1>14. CASE x \in E
    <2>1. PICK u : u = s \cap E /\ u \in SUBSET E /\ x \in u
      BY <1>9, <1>14
    <2>2. t \cap E = u \ {x}
      BY <1>10, <2>1
    <2>3. e[u] = h[x] + e[u \ {x}]
      BY <1>3, <2>1 DEF SumsTo
    <2> QED BY <1>7, <1>12, <1>13, <1>14, <2>1, <2>2, <2>3
  <1>15. CASE x \notin E
    <2>1. t \cap E = s \cap E
      BY <1>10, <1>15
    <2>2. g[x] = 0
      BY <1>9, <1>15
    <2>3. PICK u \in Nat : u = f[t]
      BY <1>13
    <2>4. f[s] = u
      BY <1>13, <2>2, <2>3
    <2>5. f[t] = e[s \cap E]
      BY <1>12, <2>1
    <2> QED BY <1>7, <2>3, <2>4, <2>5
  <1> QED BY <1>14, <1>15

(* The sum over three indices. *)
LEMMA SumOverThree ==
    ASSUME NEW a \in Nat, NEW b \in Nat, NEW d \in Nat, NEW g \in [5 .. 7 -> Nat],
           g[5] = a, g[6] = b, g[7] = d
    PROVE  SumFunction(g) = a + b + d
  <1>1. PICK D : D = 5 .. 7
    OBVIOUS
  <1>2. IsFiniteSet(D)
    <2>1. 5 \in Int /\ 7 \in Int
      OBVIOUS
    <2> QED BY <1>1, <2>1, FS_Interval
  <1>3. PICK f : SumsTo(f, g, D)
    BY <1>1, <1>2, SumFolds
  <1>4. D = {5, 6, 7}
    BY <1>1
  <1>5. {5, 6, 7} \ {7} = {5, 6} /\ {5, 6} \ {6} = {5} /\ {5} \ {5} = {}
    OBVIOUS
  <1>8. /\ {5, 6, 7} \in SUBSET D /\ {5, 6} \in SUBSET D /\ {5} \in SUBSET D
        /\ 7 \in {5, 6, 7} /\ 6 \in {5, 6} /\ 5 \in {5}
    BY <1>4
  <1>9. f[{}] = 0 /\ \A s \in SUBSET D : \A x \in s : f[s] = g[x] + f[s \ {x}]
    BY <1>3 DEF SumsTo
  <1>10. f[{5, 6, 7}] = g[7] + f[{5, 6, 7} \ {7}]
    BY <1>8, <1>9
  <1>11. f[{5, 6}] = g[6] + f[{5, 6} \ {6}]
    BY <1>8, <1>9
  <1>12. f[{5}] = g[5] + f[{5} \ {5}]
    BY <1>8, <1>9
  <1>6. /\ f[{5, 6, 7}] = g[7] + f[{5, 6}] /\ f[{5, 6}] = g[6] + f[{5}]
        /\ f[{5}] = g[5] + f[{}] /\ f[{}] = 0
    BY <1>5, <1>9, <1>10, <1>11, <1>12
  <1>7. SumFunction(g) = f[{5, 6, 7}]
    BY <1>3, <1>4 DEF SumsTo
  <1> QED BY <1>6, <1>7

(* The total of three. *)
LEMMA TotalOfThree ==
    ASSUME NEW g, g[1] \in Nat, g[2] \in Nat, g[3] \in Nat
    PROVE  Total(g, 3) = g[1] + g[2] + g[3]
  <1>1. Total(g, 0) = 0
    BY TotalOfNone
  <1>2. Total(g, 0 + 1) = Total(g, 0) + g[0 + 1]
    <2>1. \A j \in 1 .. 0 + 1 : g[j] \in Nat
      OBVIOUS
    <2> QED BY <2>1, TotalFacts
  <1>3. Total(g, 1 + 1) = Total(g, 1) + g[1 + 1]
    <2>1. \A j \in 1 .. 1 + 1 : g[j] \in Nat
      OBVIOUS
    <2> QED BY <2>1, TotalFacts
  <1>4. Total(g, 2 + 1) = Total(g, 2) + g[2 + 1]
    <2>1. \A j \in 1 .. 2 + 1 : g[j] \in Nat
      OBVIOUS
    <2> QED BY <2>1, TotalFacts
  <1>5. Total(g, 1) = g[1]
    BY <1>1, <1>2
  <1>6. Total(g, 2) = g[1] + g[2]
    BY <1>3, <1>5
  <1> QED BY <1>4, <1>6

(* The seven projections have sizes that can be packed. *)
LEMMA DimsPackable ==
    ASSUME NEW c, Dimensioned(c), NEW i \in 1 .. 7
    PROVE  \E r \in Pos, n \in Pos : Even(n) /\ ProjectionDims(c)[i] = Dim(r, n)
  <1>1. PICK h \in Pos : h = c.hidden /\ Even(h)
    BY DEF Dimensioned
  <1>2. PICK w \in Pos : w = c.inter /\ Even(w)
    BY DEF Dimensioned
  <1>3. PICK a \in Pos : a = AttentionDim(c) /\ Even(a)
    <2>1. AttentionDim(c) \in Pos
      BY Products DEF AttentionDim, Dimensioned, Pos
    <2> QED BY <2>1 DEF Dimensioned
  <1>4. PICK v \in Pos : v = KvDim(c)
    BY Products DEF KvDim, Dimensioned, Pos
  <1>5. PICK p : p = ProjectionDims(c)
    OBVIOUS
  <1>6. p = <<Dim(a, h), Dim(v, h), Dim(v, h), Dim(h, a), Dim(w, h), Dim(w, h), Dim(h, w)>>
    BY <1>1, <1>2, <1>3, <1>4, <1>5 DEF ProjectionDims
  <1>7. /\ p[1] = Dim(a, h) /\ p[2] = Dim(v, h) /\ p[3] = Dim(v, h) /\ p[4] = Dim(h, a)
        /\ p[5] = Dim(w, h) /\ p[6] = Dim(w, h) /\ p[7] = Dim(h, w)
    BY <1>6
  <1>8. i = 1 \/ i = 2 \/ i = 3 \/ i = 4 \/ i = 5 \/ i = 6 \/ i = 7
    OBVIOUS
  <1> QED BY <1>1, <1>2, <1>3, <1>4, <1>5, <1>7, <1>8

(* The parts of a layer, named one by one, as planned and as written. *)
DimOf(c, i) == ProjectionDims(c)[i]

(* The parts of layer_len: projections, biases, query and key norms,         *)
(* sandwich norms, experts.                                                  *)
PlannedLinears(c) == SumFunction([i \in 1 .. 7 |-> LinearLen(ProjectionDims(c)[i], c.group)])
PlannedBiases(c)  == SumFunction([i \in c.bias |-> ProjectionDims(c)[i].rows * 4])
PlannedQk(c) ==
    CASE c.qk = "head" -> 2 * c.headDim * 4
      [] c.qk = "full" -> (AttentionDim(c) + KvDim(c)) * 4
      [] OTHER         -> 0
PlannedSandwich(c) == IF c.sandwich THEN 2 * c.hidden * 4 ELSE 0
PlannedExpert(c)   ==
    SumFunction([i \in 5 .. 7 |-> ExpertLinearLen(ProjectionDims(c)[i], c.group)])
PlannedExperts(c)  ==
    IF c.experts = 0 THEN 0
    ELSE c.experts * c.hidden * 4 + (c.experts - 1) * PlannedExpert(c)

(* layer_len is the sum of its parts. *)
LEMMA LayerLenIs ==
    ASSUME NEW c
    PROVE  LayerLen(c) = PlannedLinears(c) + PlannedBiases(c) + PlannedQk(c) + PlannedSandwich(c)
                             + PlannedExperts(c) + 2 * c.hidden * 4
  BY DEF LayerLen, PlannedLinears, PlannedBiases, PlannedQk, PlannedSandwich, PlannedExperts,
         PlannedExpert

(* The tensors that write_layer writes, and the parts it writes them in. *)
Folded(l, name, fold) == [Tensor(l, name) EXCEPT !.plusOne = fold]
OfExpert(l, name, e)  == [Tensor(l, name) EXCEPT !.expert = e]

WrittenLinears(c, l, origin) ==
    [i \in 1 .. 7 |-> WriteMatrix(Tensor(l, origin[i]), ProjectionDims(c)[i], c.group)]
WrittenBiases(c, l) ==
    [i \in 1 .. 7 |-> IF i \in c.bias THEN WriteVector(Tensor(l, Biases[i]), ProjectionDims(c)[i].rows)
                      ELSE <<>>]
WrittenQk(c, l, fold) ==
    IF c.qk = "none" THEN <<>>
    ELSE WriteVector(Folded(l, "q_norm", fold), QkLens(c)[1])
             \o WriteVector(Folded(l, "k_norm", fold), QkLens(c)[2])
WrittenSandwich(c, l, fold) ==
    IF ~c.sandwich THEN <<>>
    ELSE WriteVector(Folded(l, SandwichNormNames[1], fold), c.hidden)
             \o WriteVector(Folded(l, SandwichNormNames[2], fold), c.hidden)
ExpertMatrices(c, l, origin, e) ==
    [i \in 1 .. 3 |-> WriteMatrix(OfExpert(l, origin[4 + i], e), ProjectionDims(c)[4 + i], c.group)]
WrittenExperts(c, l, origin) ==
    IF c.experts = 0 THEN <<>>
    ELSE WriteVector(Tensor(l, "router"), c.experts * c.hidden)
             \o FlattenSeq([e \in 1 .. (c.experts - 1) |-> FlattenSeq(ExpertMatrices(c, l, origin, e))])
WrittenTail(c, l, fold) ==
    WriteVector(Folded(l, TailNormNames(c)[1], fold), c.hidden)
        \o WriteVector(Folded(l, TailNormNames(c)[2], fold), c.hidden)

(* write_layer writes its parts behind each other. *)
LEMMA WriteLayerIs ==
    ASSUME NEW c, NEW l, NEW fold, NEW origin
    PROVE  WriteLayer(c, l, fold, origin)
               = FlattenSeq(WrittenLinears(c, l, origin)) \o FlattenSeq(WrittenBiases(c, l))
                     \o WrittenQk(c, l, fold) \o WrittenSandwich(c, l, fold)
                     \o WrittenExperts(c, l, origin) \o WrittenTail(c, l, fold)
  BY DEF WriteLayer, WrittenLinears, WrittenBiases, WrittenQk, WrittenSandwich, WrittenExperts,
         ExpertMatrices, WrittenTail, Folded, OfExpert

-----------------------------------------------------------------------------
(* Every part of a layer has the size that is planned for it. *)

(* A run of blocks of so many bytes. *)
IsRun(b, n) == b \in Seq(BlockSet) /\ TotalBytes(b) = n /\ n \in Nat

(* An empty run. *)
LEMMA RunOfNone == IsRun(<<>>, 0)
  <1>1. PICK s : s = <<>>
    OBVIOUS
  <1>2. s \in Seq(BlockSet) /\ Len(s) = 0
    BY <1>1
  <1>3. TotalBytes(s) = Weight(s, 0)
    BY <1>2, SetsSized, TotalBytesIs
  <1>4. 0 \in 0 .. Len(s)
    BY <1>2
  <1>5. Weight(s, 0) = 0
    BY <1>2, <1>4, SetsSized, WeightFacts
  <1> QED BY <1>1, <1>2, <1>3, <1>5 DEF IsRun

(* Runs behind each other. *)
LEMMA RunJoined ==
    ASSUME NEW a, NEW b, NEW m, NEW n, IsRun(a, m), IsRun(b, n)
    PROVE  IsRun(a \o b, m + n)
  <1>1. PICK u : u = a \o b
    OBVIOUS
  <1>2. Spliced(BlockSet, a, b, u)
    BY <1>1, SetsSized, WeightConcat DEF IsRun
  <1> QED BY <1>1, <1>2 DEF IsRun, Spliced

(* As many runs as there are, behind each other. *)
LEMMA FlatTotal ==
    ASSUME NEW n \in Nat, NEW ss, NEW g, ss = [i \in 1 .. n |-> ss[i]],
           \A i \in 1 .. n : IsRun(ss[i], g[i])
    PROVE  IsRun(FlattenSeq(ss), Total(g, n))
  <1>1. Runs(ss, BlockSet, n)
    BY DEF Runs, IsRun
  <1>2. FlatTo(FlattenSeq(ss), ss, BlockSet, n)
    BY <1>1, SetsSized, FlatFacts
  <1>3. \A i \in 1 .. n : Totals(ss)[i] = g[i] /\ g[i] \in Nat
    BY DEF Totals, IsRun
  <1>4. Total(Totals(ss), n) = Total(g, n) /\ Total(g, n) \in Nat
    BY <1>3, TotalSame, TotalType
  <1> QED BY <1>2, <1>4 DEF FlatTo, IsRun

(* Every projection is read from a tensor that has a name. *)
NamesOrigin(origin) == \A i \in 1 .. 7 : origin[i] \in Names

(* The tensors of experts, and those that a fold changes. *)
LEMMA TensorTypes ==
    ASSUME NEW l \in Nat, NEW name \in Names
    PROVE  /\ \A e \in Nat : OfExpert(l, name, e) \in Tensors
           /\ \A b \in BOOLEAN : Folded(l, name, b) \in Tensors
  <1>1. PICK t : t = Tensor(l, name) /\ t \in Tensors
    BY TensorType
  <1>2. ASSUME NEW e \in Nat PROVE [t EXCEPT !.expert = e] \in Tensors
    BY <1>1 DEF Tensors
  <1>3. ASSUME NEW b \in BOOLEAN PROVE [t EXCEPT !.plusOne = b] \in Tensors
    BY <1>1 DEF Tensors
  <1> QED BY <1>1, <1>2, <1>3 DEF OfExpert, Folded

(* A projection is as long as planned, and an expert's is as long as the     *)
(* first one's.                                                              *)
LEMMA MatrixRun ==
    ASSUME NEW c, Dimensioned(c), NEW t \in Tensors, NEW i \in 1 .. 7
    PROVE  /\ IsRun(WriteMatrix(t, ProjectionDims(c)[i], c.group),
                    LinearLen(ProjectionDims(c)[i], c.group))
           /\ ExpertLinearLen(ProjectionDims(c)[i], c.group) = LinearLen(ProjectionDims(c)[i], c.group)
  <1>1. PICK r \in Pos, n \in Pos : Even(n) /\ ProjectionDims(c)[i] = Dim(r, n)
    BY DimsPackable
  <1>2. PICK d : d = ProjectionDims(c)[i]
    OBVIOUS
  <1>3. PICK g \in Pos : g = c.group
    BY DEF Dimensioned
  <1>4. /\ WriteMatrix(t, d, g) \in Seq(BlockSet)
        /\ TotalBytes(WriteMatrix(t, d, g)) = LinearLen(d, g)
        /\ LinearLen(d, g) \in Nat /\ ExpertLinearLen(d, g) = LinearLen(d, g)
    BY <1>1, <1>2, MatrixFacts
  <1> QED BY <1>2, <1>3, <1>4 DEF IsRun

(* A vector is as long as planned. *)
LEMMA VectorRun ==
    ASSUME NEW t \in Tensors, NEW n \in Nat
    PROVE  IsRun(WriteVector(t, n), n * 4)
  <1>1. n * 4 \in Nat
    OBVIOUS
  <1> QED BY <1>1, VectorFacts DEF IsRun

(* The projections are as long as planned. *)
LEMMA LinearsRun ==
    ASSUME NEW c, Shaped(c), NEW l \in Nat, NEW origin, NamesOrigin(origin)
    PROVE  IsRun(FlattenSeq(WrittenLinears(c, l, origin)), PlannedLinears(c))
  <1>1. PICK ss : ss = WrittenLinears(c, l, origin)
    OBVIOUS
  <1>2. PICK g : g = [i \in 1 .. 7 |-> LinearLen(ProjectionDims(c)[i], c.group)]
    OBVIOUS
  <1>3. ASSUME NEW i \in 1 .. 7 PROVE IsRun(ss[i], g[i])
    <2>1. PICK t : t = Tensor(l, origin[i]) /\ t \in Tensors
      BY TensorType DEF NamesOrigin
    <2>2. ss[i] = WriteMatrix(t, ProjectionDims(c)[i], c.group)
      BY <1>1, <2>1 DEF WrittenLinears
    <2>3. g[i] = LinearLen(ProjectionDims(c)[i], c.group)
      BY <1>2
    <2> QED BY <2>1, <2>2, <2>3, MatrixRun DEF Shaped
  <1>4. ss = [i \in 1 .. 7 |-> ss[i]]
    BY <1>1 DEF WrittenLinears
  <1>5. IsRun(FlattenSeq(ss), Total(g, 7))
    BY <1>3, <1>4, FlatTotal
  <1>6. Total(g, 7) = PlannedLinears(c)
    <2>1. g = [j \in 1 .. 7 |-> g[j]]
      BY <1>2
    <2> QED BY <1>2, <2>1 DEF Total, PlannedLinears
  <1> QED BY <1>1, <1>5, <1>6

(* No projection is empty. *)
LEMMA RowsPositive ==
    ASSUME NEW c, Dimensioned(c), NEW i \in 1 .. 7
    PROVE  ProjectionDims(c)[i].rows \in Pos
  <1>1. PICK r \in Pos, n \in Pos : ProjectionDims(c)[i] = Dim(r, n)
    BY DimsPackable
  <1> QED BY <1>1 DEF Dim

(* Biases and projections are tensors. *)
LEMMA BiasNames == NamesOrigin(Biases) /\ NamesOrigin(Projections)
  <1>1. ASSUME NEW i \in 1 .. 7 PROVE Biases[i] \in Names /\ Projections[i] \in Names
    <2>1. i = 1 \/ i = 2 \/ i = 3 \/ i = 4 \/ i = 5 \/ i = 6 \/ i = 7
      OBVIOUS
    <2> QED BY <2>1 DEF Biases, Projections, Names
  <1> QED BY <1>1 DEF NamesOrigin

(* The biases are as long as planned. *)
LEMMA BiasesRun ==
    ASSUME NEW c, Shaped(c), NEW l \in Nat
    PROVE  IsRun(FlattenSeq(WrittenBiases(c, l)), PlannedBiases(c))
  <1>1. PICK ss : ss = WrittenBiases(c, l)
    OBVIOUS
  <1>2. PICK g : g = [i \in 1 .. 7 |-> IF i \in c.bias THEN ProjectionDims(c)[i].rows * 4 ELSE 0]
    OBVIOUS
  <1>3. ASSUME NEW i \in 1 .. 7 PROVE IsRun(ss[i], g[i])
    <2>1. PICK t : t = Tensor(l, Biases[i]) /\ t \in Tensors
      BY TensorType, BiasNames DEF NamesOrigin
    <2>2. PICK r \in Nat : r = ProjectionDims(c)[i].rows
      BY RowsPositive DEF Shaped, Pos
    <2>3. CASE i \in c.bias
      <3>1. ss[i] = WriteVector(t, r) /\ g[i] = r * 4
        BY <1>1, <1>2, <2>1, <2>2, <2>3 DEF WrittenBiases
      <3> QED BY <2>1, <3>1, VectorRun
    <2>4. CASE i \notin c.bias
      <3>1. ss[i] = <<>> /\ g[i] = 0
        BY <1>1, <1>2, <2>4 DEF WrittenBiases
      <3> QED BY <3>1, RunOfNone
    <2> QED BY <2>3, <2>4
  <1>4. ss = [i \in 1 .. 7 |-> ss[i]]
    BY <1>1 DEF WrittenBiases
  <1>5. IsRun(FlattenSeq(ss), Total(g, 7))
    BY <1>3, <1>4, FlatTotal
  <1>6. Total(g, 7) = PlannedBiases(c)
    <2>1. PICK D : D = 1 .. 7
      OBVIOUS
    <2>2. IsFiniteSet(D)
      <3>1. 1 \in Int /\ 7 \in Int
        OBVIOUS
      <3> QED BY <2>1, <3>1, FS_Interval
    <2>3. g \in [D -> Nat]
      <3>1. \A i \in D : g[i] \in Nat
        BY <1>3, <2>1 DEF IsRun
      <3>2. g = [i \in D |-> g[i]]
        BY <1>2, <2>1
      <3> QED BY <3>1, <3>2
    <2>4. PICK E \in SUBSET D : E = c.bias
      BY <2>1 DEF Shaped
    <2>5. PICK h : h = [i \in E |-> ProjectionDims(c)[i].rows * 4]
      OBVIOUS
    <2>6. \A x \in E : h[x] = g[x] /\ h[x] \in Nat
      BY <1>2, <2>1, <2>3, <2>4, <2>5
    <2>7. h \in [E -> Nat]
      <3>1. h = [i \in E |-> h[i]]
        BY <2>5
      <3> QED BY <2>6, <3>1
    <2>8. \A x \in D \ E : g[x] = 0
      BY <1>2, <2>1, <2>4
    <2>9. SumFunction(g) = SumFunction(h)
      BY <2>2, <2>3, <2>6, <2>7, <2>8, SumSubset
    <2>10. g = [j \in 1 .. 7 |-> g[j]]
      BY <1>2
    <2>11. PlannedBiases(c) = SumFunction(h)
      BY <2>4, <2>5 DEF PlannedBiases
    <2> QED BY <2>9, <2>10, <2>11 DEF Total
  <1> QED BY <1>1, <1>5, <1>6

(* Two vectors behind each other. *)
LEMMA TwoVectorsRun ==
    ASSUME NEW t \in Tensors, NEW u \in Tensors, NEW m \in Nat, NEW n \in Nat
    PROVE  IsRun(WriteVector(t, m) \o WriteVector(u, n), m * 4 + n * 4)
  BY VectorRun, RunJoined

(* The sizes of the heads are naturals. *)
LEMMA HeadSizes ==
    ASSUME NEW c, Dimensioned(c)
    PROVE  c.headDim \in Nat /\ AttentionDim(c) \in Nat /\ KvDim(c) \in Nat /\ c.hidden \in Nat
  <1>1. /\ c.headDim \in Nat /\ c.heads \in Nat /\ c.kvHeads \in Nat /\ c.hidden \in Nat
    BY DEF Dimensioned, Pos
  <1> QED BY <1>1, Products DEF AttentionDim, KvDim

(* The query and key norms are as long as planned. *)
LEMMA QkRun ==
    ASSUME NEW c, Shaped(c), NEW l \in Nat, NEW fold \in BOOLEAN
    PROVE  IsRun(WrittenQk(c, l, fold), PlannedQk(c))
  <1>1. PICK t \in Tensors, u \in Tensors : t = Folded(l, "q_norm", fold) /\ u = Folded(l, "k_norm", fold)
    <2>1. "q_norm" \in Names /\ "k_norm" \in Names
      BY DEF Names
    <2> QED BY <2>1, TensorTypes
  <1>2. PICK h \in Nat, a \in Nat, v \in Nat : h = c.headDim /\ a = AttentionDim(c) /\ v = KvDim(c)
    BY HeadSizes DEF Shaped
  <1>3. CASE c.qk = "none"
    <2>1. WrittenQk(c, l, fold) = <<>> /\ PlannedQk(c) = 0
      BY <1>3 DEF WrittenQk, PlannedQk
    <2> QED BY <2>1, RunOfNone
  <1>4. CASE c.qk = "head"
    <2>1. QkLens(c)[1] = h /\ QkLens(c)[2] = h
      BY <1>2, <1>4 DEF QkLens
    <2>2. WrittenQk(c, l, fold) = WriteVector(t, h) \o WriteVector(u, h)
      BY <1>1, <1>4, <2>1 DEF WrittenQk
    <2>3. PlannedQk(c) = 2 * h * 4
      BY <1>2, <1>4 DEF PlannedQk
    <2>4. 2 * h * 4 = h * 4 + h * 4
      OBVIOUS
    <2> QED BY <2>2, <2>3, <2>4, TwoVectorsRun
  <1>5. CASE c.qk = "full"
    <2>1. QkLens(c)[1] = a /\ QkLens(c)[2] = v
      BY <1>2, <1>5 DEF QkLens
    <2>2. WrittenQk(c, l, fold) = WriteVector(t, a) \o WriteVector(u, v)
      BY <1>1, <1>5, <2>1 DEF WrittenQk
    <2>3. PlannedQk(c) = (a + v) * 4
      BY <1>2, <1>5 DEF PlannedQk
    <2>4. (a + v) * 4 = a * 4 + v * 4
      OBVIOUS
    <2> QED BY <2>2, <2>3, <2>4, TwoVectorsRun
  <1> QED BY <1>3, <1>4, <1>5 DEF Shaped

(* Norms are tensors. *)
LEMMA NormNames ==
    ASSUME NEW c, NEW i \in 1 .. 2
    PROVE  SandwichNormNames[i] \in Names /\ TailNormNames(c)[i] \in Names
  <1>1. i = 1 \/ i = 2
    OBVIOUS
  <1> QED BY <1>1 DEF SandwichNormNames, TailNormNames, Names

(* The norms of a layer are as long as planned. *)
LEMMA SandwichRun ==
    ASSUME NEW c, Shaped(c), NEW l \in Nat, NEW fold \in BOOLEAN
    PROVE  /\ IsRun(WrittenSandwich(c, l, fold), PlannedSandwich(c))
           /\ IsRun(WrittenTail(c, l, fold), 2 * c.hidden * 4)
  <1>1. PICK h \in Nat : h = c.hidden
    BY HeadSizes DEF Shaped
  <1>2. 2 * h * 4 = h * 4 + h * 4
    OBVIOUS
  <1>3. IsRun(WrittenSandwich(c, l, fold), PlannedSandwich(c))
    <2>1. PICK t \in Tensors, u \in Tensors :
             t = Folded(l, SandwichNormNames[1], fold) /\ u = Folded(l, SandwichNormNames[2], fold)
      <3>1. 1 \in 1 .. 2 /\ 2 \in 1 .. 2
        OBVIOUS
      <3> QED BY <3>1, TensorTypes, NormNames
    <2>2. CASE c.sandwich
      <3>1. WrittenSandwich(c, l, fold) = WriteVector(t, h) \o WriteVector(u, h)
        BY <1>1, <2>1, <2>2 DEF WrittenSandwich
      <3>2. PlannedSandwich(c) = 2 * h * 4
        BY <1>1, <2>2 DEF PlannedSandwich
      <3> QED BY <1>2, <3>1, <3>2, TwoVectorsRun
    <2>3. CASE ~c.sandwich
      <3>1. WrittenSandwich(c, l, fold) = <<>> /\ PlannedSandwich(c) = 0
        BY <2>3 DEF WrittenSandwich, PlannedSandwich
      <3> QED BY <3>1, RunOfNone
    <2> QED BY <2>2, <2>3
  <1>4. IsRun(WrittenTail(c, l, fold), 2 * c.hidden * 4)
    <2>1. PICK t \in Tensors, u \in Tensors :
             t = Folded(l, TailNormNames(c)[1], fold) /\ u = Folded(l, TailNormNames(c)[2], fold)
      <3>1. 1 \in 1 .. 2 /\ 2 \in 1 .. 2
        OBVIOUS
      <3> QED BY <3>1, TensorTypes, NormNames
    <2>2. WrittenTail(c, l, fold) = WriteVector(t, h) \o WriteVector(u, h)
      BY <1>1, <2>1 DEF WrittenTail
    <2> QED BY <1>1, <1>2, <2>2, TwoVectorsRun
  <1> QED BY <1>3, <1>4

(* An expert is as long as planned. *)
LEMMA ExpertRun ==
    ASSUME NEW c, Shaped(c), NEW l \in Nat, NEW origin, NamesOrigin(origin), NEW e \in Nat
    PROVE  IsRun(FlattenSeq(ExpertMatrices(c, l, origin, e)), PlannedExpert(c))
  <1>1. PICK ss : ss = ExpertMatrices(c, l, origin, e)
    OBVIOUS
  <1>2. PICK g : g = [i \in 1 .. 3 |-> LinearLen(ProjectionDims(c)[4 + i], c.group)]
    OBVIOUS
  <1>3. ASSUME NEW i \in 1 .. 3 PROVE IsRun(ss[i], g[i])
    <2>1. 4 + i \in 1 .. 7
      OBVIOUS
    <2>2. PICK t : t = OfExpert(l, origin[4 + i], e) /\ t \in Tensors
      BY <2>1, TensorTypes DEF NamesOrigin
    <2>3. ss[i] = WriteMatrix(t, ProjectionDims(c)[4 + i], c.group)
      BY <1>1, <2>2 DEF ExpertMatrices
    <2>4. g[i] = LinearLen(ProjectionDims(c)[4 + i], c.group)
      BY <1>2
    <2> QED BY <2>1, <2>2, <2>3, <2>4, MatrixRun DEF Shaped
  <1>4. ss = [i \in 1 .. 3 |-> ss[i]]
    BY <1>1 DEF ExpertMatrices
  <1>5. IsRun(FlattenSeq(ss), Total(g, 3))
    BY <1>3, <1>4, FlatTotal
  <1>6. Total(g, 3) = PlannedExpert(c)
    <2>1. g[1] \in Nat /\ g[2] \in Nat /\ g[3] \in Nat
      BY <1>3 DEF IsRun
    <2>2. PICK h : h = [i \in 5 .. 7 |-> ExpertLinearLen(ProjectionDims(c)[i], c.group)]
      OBVIOUS
    <2>3. h[5] = g[1] /\ h[6] = g[2] /\ h[7] = g[3]
      <3>1. 5 \in 1 .. 7 /\ 6 \in 1 .. 7 /\ 7 \in 1 .. 7
        OBVIOUS
      <3>2. \A i \in {5, 6, 7} : ExpertLinearLen(ProjectionDims(c)[i], c.group)
                                     = LinearLen(ProjectionDims(c)[i], c.group)
        <4> TAKE i \in {5, 6, 7}
        <4>0. "embed_tokens" \in Names /\ 0 \in Nat
          BY DEF Names
        <4>1. PICK t : t \in Tensors
          BY <4>0, TensorType
        <4> QED BY <3>1, <4>1, MatrixRun DEF Shaped
      <3>3. h[5] = ExpertLinearLen(ProjectionDims(c)[5], c.group)
            /\ h[6] = ExpertLinearLen(ProjectionDims(c)[6], c.group)
            /\ h[7] = ExpertLinearLen(ProjectionDims(c)[7], c.group)
        BY <2>2
      <3>4. g[1] = LinearLen(ProjectionDims(c)[5], c.group)
            /\ g[2] = LinearLen(ProjectionDims(c)[6], c.group)
            /\ g[3] = LinearLen(ProjectionDims(c)[7], c.group)
        BY <1>2
      <3> QED BY <3>2, <3>3, <3>4
    <2>4. h \in [5 .. 7 -> Nat]
      <3>1. \A i \in 5 .. 7 : h[i] \in Nat
        <4> TAKE i \in 5 .. 7
        <4>1. i = 5 \/ i = 6 \/ i = 7
          OBVIOUS
        <4> QED BY <2>1, <2>3, <4>1
      <3>2. h = [i \in 5 .. 7 |-> h[i]]
        BY <2>2
      <3> QED BY <3>1, <3>2
    <2>5. SumFunction(h) = g[1] + g[2] + g[3]
      BY <2>1, <2>3, <2>4, SumOverThree
    <2>6. Total(g, 3) = g[1] + g[2] + g[3]
      BY <2>1, TotalOfThree
    <2> QED BY <2>2, <2>5, <2>6 DEF PlannedExpert
  <1> QED BY <1>1, <1>5, <1>6

(* The experts behind their router are as long as planned. *)
LEMMA ExpertsRun ==
    ASSUME NEW c, Shaped(c), NEW l \in Nat, NEW origin, NamesOrigin(origin)
    PROVE  IsRun(WrittenExperts(c, l, origin), PlannedExperts(c))
  <1>1. CASE c.experts = 0
    <2>1. WrittenExperts(c, l, origin) = <<>> /\ PlannedExperts(c) = 0
      BY <1>1 DEF WrittenExperts, PlannedExperts
    <2> QED BY <2>1, RunOfNone
  <1>2. CASE c.experts # 0
    <2>1. PICK m \in Nat : m = c.experts - 1
      BY <1>2 DEF Shaped
    <2>2. PICK ss : ss = [e \in 1 .. m |-> FlattenSeq(ExpertMatrices(c, l, origin, e))]
      OBVIOUS
    <2>3. PICK v : v = PlannedExpert(c)
      OBVIOUS
    <2>4. PICK g : g = [e \in 1 .. m |-> v]
      OBVIOUS
    <2>5. ASSUME NEW e \in 1 .. m PROVE IsRun(ss[e], g[e])
      BY <2>2, <2>3, <2>4, ExpertRun
    <2>6. ss = [e \in 1 .. m |-> ss[e]]
      BY <2>2
    <2>7. IsRun(FlattenSeq(ss), Total(g, m))
      BY <2>5, <2>6, FlatTotal
    <2>8. v \in Nat
      <3>1. 0 \in Nat
        OBVIOUS
      <3> QED BY <2>3, <3>1, ExpertRun DEF IsRun
    <2>9. Total(g, m) = m * v
      BY <2>4, <2>8, TotalOfConstant
    <2>10. PICK n \in Nat : n = c.experts * c.hidden
      <3>1. c.experts \in Nat /\ c.hidden \in Nat
        BY HeadSizes DEF Shaped
      <3> QED BY <3>1, Products
    <2>11. PICK t : t = Tensor(l, "router") /\ t \in Tensors
      <3>1. "router" \in Names
        BY DEF Names
      <3> QED BY <3>1, TensorType
    <2>12. IsRun(WriteVector(t, n) \o FlattenSeq(ss), n * 4 + m * v)
      BY <2>7, <2>9, <2>11, VectorRun, RunJoined
    <2>13. WrittenExperts(c, l, origin) = WriteVector(t, n) \o FlattenSeq(ss)
      BY <1>2, <2>1, <2>2, <2>10, <2>11 DEF WrittenExperts
    <2>14. PlannedExperts(c) = n * 4 + m * v
      BY <1>2, <2>1, <2>3, <2>10 DEF PlannedExperts
    <2> QED BY <2>12, <2>13, <2>14
  <1> QED BY <1>1, <1>2

(* A layer is as long as planned. *)
LEMMA LayerRun ==
    ASSUME NEW c, Shaped(c), NEW l \in Nat, NEW fold \in BOOLEAN, NEW origin, NamesOrigin(origin)
    PROVE  IsRun(WriteLayer(c, l, fold, origin), LayerLen(c))
  <1>1. PICK a, b, d, e, f, g :
           /\ a = FlattenSeq(WrittenLinears(c, l, origin)) /\ b = FlattenSeq(WrittenBiases(c, l))
           /\ d = WrittenQk(c, l, fold) /\ e = WrittenSandwich(c, l, fold)
           /\ f = WrittenExperts(c, l, origin) /\ g = WrittenTail(c, l, fold)
    OBVIOUS
  <1>2. PICK u, v, w, x, y, z :
           /\ u = PlannedLinears(c) /\ v = PlannedBiases(c) /\ w = PlannedQk(c)
           /\ x = PlannedSandwich(c) /\ y = PlannedExperts(c) /\ z = 2 * c.hidden * 4
    OBVIOUS
  <1>3. /\ IsRun(a, u) /\ IsRun(b, v) /\ IsRun(d, w) /\ IsRun(e, x) /\ IsRun(f, y) /\ IsRun(g, z)
    BY <1>1, <1>2, LinearsRun, BiasesRun, QkRun, SandwichRun, ExpertsRun
  <1>4. IsRun(a \o b, u + v)
    BY <1>3, RunJoined
  <1>5. IsRun(a \o b \o d, u + v + w)
    BY <1>3, <1>4, RunJoined
  <1>6. IsRun(a \o b \o d \o e, u + v + w + x)
    BY <1>3, <1>5, RunJoined
  <1>7. IsRun(a \o b \o d \o e \o f, u + v + w + x + y)
    BY <1>3, <1>6, RunJoined
  <1>8. IsRun(a \o b \o d \o e \o f \o g, u + v + w + x + y + z)
    BY <1>3, <1>7, RunJoined
  <1>9. WriteLayer(c, l, fold, origin) = a \o b \o d \o e \o f \o g
    BY <1>1, WriteLayerIs
  <1>10. LayerLen(c) = u + v + w + x + y + z
    BY <1>2, LayerLenIs
  <1> QED BY <1>8, <1>9, <1>10

-----------------------------------------------------------------------------
(* The sections: as many as planned, each of the size planned. *)

(* What a container lists: the embedding, the layers, the final norm, and the
   head unless it is tied. *)
Listed(s, x, f, n, y, tied, z) ==
    /\ Len(s) = n + 2 + (IF tied THEN 0 ELSE 1)
    /\ s = [i \in 1 .. Len(s) |-> s[i]]
    /\ s[1] = x /\ (\A i \in 1 .. n : s[i + 1] = f[i]) /\ s[n + 2] = y
    /\ ~tied => s[n + 3] = z

(* The last section but one, in numbers. *)
LEMMA LastButOne ==
    ASSUME NEW n \in Nat, NEW k \in Nat
    PROVE  /\ n + 2 \in 1 .. n + 2 + k /\ n + 2 \in 1 .. n + 2 /\ ~(n + 2 <= n + 1)
           /\ (n + 2) - (n + 1) = 1
  OBVIOUS

(* Putting a list together that way lists it. *)
LEMMA ListedIs ==
    ASSUME NEW x, NEW n \in Nat, NEW f, f = [i \in 1 .. n |-> f[i]], NEW y, NEW tied, NEW z,
           NEW s, s = <<x>> \o f \o <<y>> \o (IF tied THEN <<>> ELSE <<z>>)
    PROVE  Listed(s, x, f, n, y, tied, z)
  <1>1. PICK S : S = {x, y, z} \cup {f[i] : i \in 1 .. n}
    OBVIOUS
  <1>2. PICK a, b, d : a = <<x>> /\ b = <<y>> /\ d = IF tied THEN <<>> ELSE <<z>>
    OBVIOUS
  <1>3. /\ a \in Seq(S) /\ Len(a) = 1 /\ a[1] = x
        /\ b \in Seq(S) /\ Len(b) = 1 /\ b[1] = y
    <2>1. x \in S /\ y \in S
      BY <1>1
    <2> QED BY <1>2, <2>1
  <1>4. d \in Seq(S) /\ Len(d) = (IF tied THEN 0 ELSE 1) /\ (~tied => d[1] = z)
    <2>1. z \in S
      BY <1>1
    <2>2. CASE tied
      <3>1. d = <<>>
        BY <1>2, <2>2
      <3> QED BY <2>2, <3>1
    <2>3. CASE ~tied
      <3>1. d = <<z>>
        BY <1>2, <2>3
      <3> QED BY <2>1, <2>3, <3>1
    <2> QED BY <2>2, <2>3
  <1>5. f \in Seq(S) /\ Len(f) = n
    <2>1. \A i \in 1 .. n : f[i] \in S
      BY <1>1
    <2>2. f \in [1 .. n -> S]
      BY <2>1
    <2> QED BY <2>2
  <1>6. PICK u : u = a \o f
    OBVIOUS
  <1>7. /\ u \in Seq(S) /\ Len(u) = 1 + n
        /\ \A i \in 1 .. 1 + n : u[i] = IF i <= 1 THEN a[i] ELSE f[i - 1]
    <2>1. /\ u \in Seq(S) /\ Len(u) = Len(a) + Len(f)
          /\ \A i \in 1 .. Len(a) + Len(f) : u[i] = IF i <= Len(a) THEN a[i] ELSE f[i - Len(a)]
      BY <1>3, <1>5, <1>6, ConcatProperties
    <2>2. Len(a) = 1 /\ Len(a) + Len(f) = 1 + n
      BY <1>3, <1>5
    <2> QED BY <2>1, <2>2
  <1>8. PICK v : v = u \o b
    OBVIOUS
  <1>9. /\ v \in Seq(S) /\ Len(v) = n + 2
        /\ \A i \in 1 .. n + 2 : v[i] = IF i <= n + 1 THEN u[i] ELSE b[i - (n + 1)]
    <2>1. /\ v \in Seq(S) /\ Len(v) = Len(u) + Len(b)
          /\ \A i \in 1 .. Len(u) + Len(b) : v[i] = IF i <= Len(u) THEN u[i] ELSE b[i - Len(u)]
      BY <1>3, <1>7, <1>8, ConcatProperties
    <2>2. Len(u) = n + 1 /\ Len(u) + Len(b) = n + 2
      BY <1>3, <1>7
    <2> QED BY <2>1, <2>2
  <1>10. s = v \o d
    BY <1>2, <1>6, <1>8
  <1>11. PICK k \in Nat : k = (IF tied THEN 0 ELSE 1) /\ Len(d) = k
    BY <1>4
  <1>12. /\ s \in Seq(S) /\ Len(s) = n + 2 + k
         /\ \A i \in 1 .. n + 2 + k : s[i] = IF i <= n + 2 THEN v[i] ELSE d[i - (n + 2)]
    <2>0. v \in Seq(S) /\ d \in Seq(S)
      BY <1>4, <1>9
    <2>3. PICK w : w = v \o d
      OBVIOUS
    <2>1. /\ w \in Seq(S) /\ Len(w) = Len(v) + Len(d)
          /\ \A i \in 1 .. Len(v) + Len(d) : w[i] = IF i <= Len(v) THEN v[i] ELSE d[i - Len(v)]
      BY <2>0, <2>3, ConcatProperties
    <2>2. Len(v) = n + 2 /\ Len(d) = k
      BY <1>9, <1>11
    <2>4. w = s
      BY <1>10, <2>3
    <2> QED BY <2>1, <2>2, <2>4
  <1>13. s[1] = x
    BY <1>3, <1>7, <1>9, <1>12
  <1>14. ASSUME NEW i \in 1 .. n PROVE s[i + 1] = f[i]
    <2>1. i + 1 \in 1 .. n + 2 + k /\ i + 1 <= n + 2 /\ i + 1 \in 1 .. n + 2 /\ i + 1 <= n + 1
             /\ i + 1 \in 1 .. 1 + n /\ ~(i + 1 <= 1) /\ (i + 1) - 1 = i
      OBVIOUS
    <2>2. s[i + 1] = v[i + 1] /\ v[i + 1] = u[i + 1]
      BY <1>9, <1>12, <2>1
    <2>3. u[i + 1] = f[i]
      BY <1>7, <2>1
    <2> QED BY <2>2, <2>3
  <1>15. s[n + 2] = y
    <2>1. /\ n + 2 \in 1 .. n + 2 + k /\ n + 2 \in 1 .. n + 2 /\ ~(n + 2 <= n + 1)
          /\ (n + 2) - (n + 1) = 1
      BY LastButOne
    <2>0. n + 2 <= n + 2
      OBVIOUS
    <2>2. s[n + 2] = v[n + 2]
      BY <1>12, <2>0, <2>1
    <2>3. v[n + 2] = b[1]
      BY <1>9, <2>1
    <2> QED BY <1>3, <2>2, <2>3
  <1>16. ASSUME ~tied PROVE s[n + 3] = z
    <2>1. k = 1 /\ n + 3 \in 1 .. n + 2 + k /\ ~(n + 3 <= n + 2) /\ (n + 3) - (n + 2) = 1
      BY <1>11, <1>16
    <2>2. s[n + 3] = d[1]
      BY <1>12, <2>1
    <2> QED BY <1>4, <1>16, <2>2
  <1>17. s = [i \in 1 .. Len(s) |-> s[i]]
    BY <1>12
  <1> QED BY <1>11, <1>12, <1>13, <1>14, <1>15, <1>16, <1>17 DEF Listed

(* How many sections a container has. *)
SectionCount(c, tied) == c.layers + 2 + (IF tied THEN 0 ELSE 1)

(* The plan lists a size for each section. *)
LEMMA PlanListed ==
    ASSUME NEW c, Dimensioned(c), NEW tied
    PROVE  Listed(PlanSections(c, tied), EmbeddingLen(c), [l \in 1 .. c.layers |-> LayerLen(c)],
                  c.layers, c.hidden * 4, tied, LinearLen(Dim(c.vocab, c.hidden), c.group))
  <1>1. PICK n \in Nat : n = c.layers
    BY DEF Dimensioned, Pos
  <1>2. PICK f : f = [l \in 1 .. c.layers |-> LayerLen(c)]
    OBVIOUS
  <1>3. f = [i \in 1 .. n |-> f[i]]
    BY <1>1, <1>2
  <1>4. PICK s : s = PlanSections(c, tied)
    OBVIOUS
  <1>5. s = <<EmbeddingLen(c)>> \o f \o <<c.hidden * 4>>
               \o (IF tied THEN <<>> ELSE <<LinearLen(Dim(c.vocab, c.hidden), c.group)>>)
    BY <1>2, <1>4 DEF PlanSections
  <1> QED BY <1>1, <1>2, <1>3, <1>4, <1>5, ListedIs

(* The writer lists a run for each section. *)
LEMMA WriteListed ==
    ASSUME NEW c, Dimensioned(c), NEW tied, NEW fold, NEW origin
    PROVE  Listed(WriteSections(c, tied, fold, origin), WriteEmbedding(c),
                  [l \in 1 .. c.layers |-> WriteLayer(c, l, fold, origin)], c.layers,
                  WriteVector(Folded(0, "final_norm", fold), c.hidden), tied,
                  WriteMatrix(Tensor(0, "lm_head"), Dim(c.vocab, c.hidden), c.group))
  <1>1. PICK n \in Nat : n = c.layers
    BY DEF Dimensioned, Pos
  <1>2. PICK f : f = [l \in 1 .. c.layers |-> WriteLayer(c, l, fold, origin)]
    OBVIOUS
  <1>3. f = [i \in 1 .. n |-> f[i]]
    BY <1>1, <1>2
  <1>4. PICK s : s = WriteSections(c, tied, fold, origin)
    OBVIOUS
  <1>5. s = <<WriteEmbedding(c)>> \o f \o <<WriteVector(Folded(0, "final_norm", fold), c.hidden)>>
               \o (IF tied THEN <<>>
                   ELSE <<WriteMatrix(Tensor(0, "lm_head"), Dim(c.vocab, c.hidden), c.group)>>)
    BY <1>2, <1>4 DEF WriteSections, Folded
  <1> QED BY <1>1, <1>2, <1>3, <1>4, <1>5, ListedIs

(* Every section is as long as planned, and none is empty. *)
LEMMA HeadRun ==
    ASSUME NEW c, Dimensioned(c)
    PROVE  IsRun(WriteMatrix(Tensor(0, "lm_head"), Dim(c.vocab, c.hidden), c.group),
                 LinearLen(Dim(c.vocab, c.hidden), c.group))
  <1>1. PICK r \in Pos, n \in Pos, g \in Pos :
           r = c.vocab /\ n = c.hidden /\ g = c.group /\ Even(n)
    BY DEF Dimensioned
  <1>2. PICK t : t = Tensor(0, "lm_head") /\ t \in Tensors
    <2>1. "lm_head" \in Names
      BY DEF Names
    <2> QED BY <2>1, TensorType
  <1>3. PICK d : d = Dim(r, n)
    OBVIOUS
  <1>5. Even(n) /\ t \in Tensors
    BY <1>1, <1>2
  <1>4. /\ WriteMatrix(t, d, g) \in Seq(BlockSet)
        /\ TotalBytes(WriteMatrix(t, d, g)) = LinearLen(d, g)
        /\ LinearLen(d, g) \in Nat
    BY <1>3, <1>5, MatrixFacts
  <1> QED BY <1>1, <1>2, <1>3, <1>4 DEF IsRun

(* No section is empty. *)
LEMMA NothingEmpty ==
    ASSUME NEW c, Shaped(c)
    PROVE  /\ EmbeddingLen(c) \in Pos /\ LayerLen(c) \in Pos /\ c.hidden * 4 \in Pos
           /\ LinearLen(Dim(c.vocab, c.hidden), c.group) \in Pos
  <1>1. PICK v \in Pos, h \in Pos, g \in Pos, e \in Pos :
           v = c.vocab /\ h = c.hidden /\ g = c.group /\ e = c.embedGroup
    BY DEF Shaped, Dimensioned
  <1>2. PICK p \in Nat : p = ParamBytes(Dim(c.vocab, c.hidden), c.embedGroup)
    BY <1>1, ParamBytesType DEF Pos
  <1>3. PICK q \in Pos : q = v * h
    BY Products DEF Pos
  <1>4. EmbeddingLen(c) \in Pos
    BY <1>1, <1>2, <1>3 DEF EmbeddingLen, Pos
  <1>5. h * 4 \in Pos /\ 2 * h * 4 \in Pos
    BY DEF Pos
  <1>6. LayerLen(c) \in Pos
    <2>1. PICK f : f = Projections /\ NamesOrigin(f)
      BY BiasNames
    <2>2. PICK b \in BOOLEAN : TRUE
      OBVIOUS
    <2>3. PICK l \in Nat : TRUE
      OBVIOUS
    <2>4. /\ PlannedLinears(c) \in Nat /\ PlannedBiases(c) \in Nat /\ PlannedQk(c) \in Nat
          /\ PlannedSandwich(c) \in Nat /\ PlannedExperts(c) \in Nat
      BY <2>1, <2>2, <2>3, LinearsRun, BiasesRun, QkRun, SandwichRun, ExpertsRun DEF IsRun
    <2> QED BY <1>1, <1>5, <2>4, LayerLenIs DEF Pos
  <1>7. LinearLen(Dim(c.vocab, c.hidden), c.group) \in Pos
    <2>1. PICK d : d = Dim(c.vocab, c.hidden)
      OBVIOUS
    <2>2. PICK r \in Nat : r = ParamBytes(d, c.group)
      BY <1>1, <2>1, ParamBytesType DEF Pos
    <2>3. d.rows * d.cols = q
      BY <1>1, <1>3, <2>1 DEF Dim
    <2>4. q \div 2 \in Nat
      BY DEF Pos
    <2> QED BY <2>1, <2>2, <2>3, <2>4 DEF LinearLen, Pos
  <1> QED BY <1>1, <1>4, <1>5, <1>6, <1>7

(* Each section that is written is as long as the one planned. *)
LEMMA SectionRuns ==
    ASSUME NEW c, Shaped(c), NEW tied, NEW fold \in BOOLEAN, NEW origin, NamesOrigin(origin),
           NEW s, s = WriteSections(c, tied, fold, origin), NEW z, z = PlanSections(c, tied)
    PROVE  /\ SectionCount(c, tied) \in Nat
           /\ Len(s) = SectionCount(c, tied) /\ Len(z) = SectionCount(c, tied)
           /\ s = [i \in 1 .. SectionCount(c, tied) |-> s[i]]
           /\ z = [i \in 1 .. SectionCount(c, tied) |-> z[i]]
           /\ \A i \in 1 .. SectionCount(c, tied) : IsRun(s[i], z[i]) /\ z[i] \in Pos
  <1>1. PICK n \in Nat : n = c.layers
    BY DEF Shaped, Dimensioned, Pos
  <1>2. Dimensioned(c)
    BY DEF Shaped
  <1>3. PICK f, g : /\ f = [l \in 1 .. n |-> WriteLayer(c, l, fold, origin)]
                    /\ g = [l \in 1 .. n |-> LayerLen(c)]
    OBVIOUS
  <1>4. PICK a, b, d : /\ a = WriteEmbedding(c)
                       /\ b = WriteVector(Folded(0, "final_norm", fold), c.hidden)
                       /\ d = WriteMatrix(Tensor(0, "lm_head"), Dim(c.vocab, c.hidden), c.group)
    OBVIOUS
  <1>5. PICK u, v, w : /\ u = EmbeddingLen(c) /\ v = c.hidden * 4
                       /\ w = LinearLen(Dim(c.vocab, c.hidden), c.group)
    OBVIOUS
  <1>6. Listed(s, a, f, n, b, tied, d)
    BY <1>1, <1>2, <1>3, <1>4, WriteListed
  <1>7. Listed(z, u, g, n, v, tied, w)
    BY <1>1, <1>2, <1>3, <1>5, PlanListed
  <1>8. PICK k \in Nat : k = n + 2 + (IF tied THEN 0 ELSE 1) /\ (tied => k = n + 2) /\ (~tied => k = n + 3)
    OBVIOUS
  <1>9. SectionCount(c, tied) = k /\ Len(s) = k /\ Len(z) = k
    BY <1>1, <1>6, <1>7, <1>8 DEF SectionCount, Listed
  <1>10. IsRun(a, u) /\ IsRun(b, v) /\ IsRun(d, w) /\ \A i \in 1 .. n : IsRun(f[i], g[i])
    <2>1. IsRun(a, u)
      BY <1>2, <1>4, <1>5, EmbeddingFacts, NothingEmpty DEF IsRun, Pos
    <2>2. IsRun(b, v)
      <3>1. PICK t : t = Folded(0, "final_norm", fold) /\ t \in Tensors
        <4>1. "final_norm" \in Names
          BY DEF Names
        <4> QED BY <4>1, TensorTypes
      <3>2. c.hidden \in Nat
        BY <1>2, HeadSizes
      <3> QED BY <1>4, <1>5, <3>1, <3>2, VectorRun
    <2>3. IsRun(d, w)
      BY <1>2, <1>4, <1>5, HeadRun
    <2>4. ASSUME NEW i \in 1 .. n PROVE IsRun(f[i], g[i])
      <3>1. i \in Nat
        OBVIOUS
      <3> QED BY <1>3, <3>1, LayerRun
    <2> QED BY <2>1, <2>2, <2>3, <2>4
  <1>11. u \in Pos /\ v \in Pos /\ w \in Pos /\ \A i \in 1 .. n : g[i] \in Pos
    BY <1>3, <1>5, NothingEmpty
  <1>12. ASSUME NEW i \in 1 .. k PROVE IsRun(s[i], z[i]) /\ z[i] \in Pos
    <2>1. CASE i = 1
      BY <1>6, <1>7, <1>10, <1>11, <2>1 DEF Listed
    <2>2. CASE i \in 2 .. n + 1
      <3>1. PICK j \in 1 .. n : i = j + 1
        <4>1. i - 1 \in 1 .. n /\ i = (i - 1) + 1
          BY <2>2
        <4> QED BY <4>1
      <3>2. s[i] = f[j] /\ z[i] = g[j]
        BY <1>6, <1>7, <3>1 DEF Listed
      <3> QED BY <1>10, <1>11, <3>2
    <2>3. CASE i = n + 2
      BY <1>6, <1>7, <1>10, <1>11, <2>3 DEF Listed
    <2>4. CASE i = n + 3 /\ ~tied
      BY <1>6, <1>7, <1>10, <1>11, <2>4 DEF Listed
    <2>5. i = 1 \/ i \in 2 .. n + 1 \/ i = n + 2 \/ (i = n + 3 /\ ~tied)
      BY <1>8
    <2> QED BY <2>1, <2>2, <2>3, <2>4, <2>5
  <1>13. s = [i \in 1 .. k |-> s[i]] /\ z = [i \in 1 .. k |-> z[i]]
    BY <1>6, <1>7, <1>9 DEF Listed
  <1> QED BY <1>9, <1>12, <1>13

-----------------------------------------------------------------------------
(* The configuration a conversion writes, field by field. *)

(* h is f, and g where f has nothing. *)
Overlaid(f, g, h) ==
    /\ h = [x \in (DOMAIN f) \cup (DOMAIN g) |-> h[x]]
    /\ \A x \in DOMAIN f : h[x] = f[x]
    /\ \A x \in (DOMAIN g) \ (DOMAIN f) : h[x] = g[x]

(* With lays the one over the other. *)
LEMMA Overlay ==
    ASSUME NEW f, NEW g
    PROVE  Overlaid(f, g, With(f, g))
  BY DEF With, Overlaid

(* The fields of a configuration. *)
Fields == CoreSize \cup {"group", "embedGroup"} \cup Capability \cup {"qk", "sandwich", "postNorm"}

(* What convert makes of a checkpoint, field by field. *)
ConfigOf(c, k) ==
    /\ c = [x \in Fields |-> c[x]]
    /\ c.hidden = k.hidden /\ c.layers = k.layers /\ c.heads = k.heads /\ c.kvHeads = k.kvHeads
    /\ c.inter = k.inter /\ c.vocab = k.vocab
    /\ c.headDim = HeadDim(k) /\ c.context = ContextTokens(k)
    /\ c.group = k.group /\ c.embedGroup = k.embedGroup
    /\ c.activation = (CHOOSE a \in Activations(k) : TRUE) /\ c.rope = RopeScaling(k)
    /\ c.embedScale = (IF IsGemma(k) THEN k.hidden ELSE 1)
    /\ c.attnCap = k.attnCap /\ c.finalCap = k.finalCap /\ c.attnScale = AttnScale(k)
    /\ c.localBase = (IF Stride(k) = 0 THEN 0 ELSE k.localBase) /\ c.stride = Stride(k)
    /\ c.experts = k.experts /\ c.perToken = (IF k.experts = 0 THEN 0 ELSE k.perToken)
    /\ c.normTopk = (k.experts # 0 /\ k.normTopk)
    /\ c.bias = k.layer[1].bias /\ c.qk = QkKind(k)
    /\ c.sandwich = SandwichType(k) /\ c.postNorm = PostNorm(k)

(* The configuration of a conversion, field by field. *)
LEMMA ConvertedIs ==
    ASSUME NEW k
    PROVE  ConfigOf(ConvertedConfig(k), k)
  <1>1. PICK act, rope, escale, lb, pt, nt :
           /\ act = (CHOOSE a \in Activations(k) : TRUE) /\ rope = RopeScaling(k)
           /\ escale = (IF IsGemma(k) THEN k.hidden ELSE 1)
           /\ lb = (IF Stride(k) = 0 THEN 0 ELSE k.localBase)
           /\ pt = (IF k.experts = 0 THEN 0 ELSE k.perToken)
           /\ nt = (k.experts # 0 /\ k.normTopk)
    OBVIOUS
  <1>2. PICK hd, ctx, as, st, bi, qk, sw, pn :
           /\ hd = HeadDim(k) /\ ctx = ContextTokens(k) /\ as = AttnScale(k) /\ st = Stride(k)
           /\ bi = k.layer[1].bias /\ qk = QkKind(k) /\ sw = SandwichType(k) /\ pn = PostNorm(k)
    OBVIOUS
  <1>3. PICK a : a = [x \in CoreSize \ {"headDim", "context"} |-> k[x]]
    OBVIOUS
  <1>4. PICK b : b = [headDim |-> hd, context |-> ctx, group |-> k.group, embedGroup |-> k.embedGroup,
                      activation |-> act, rope |-> rope, embedScale |-> escale,
                      attnCap |-> k.attnCap, finalCap |-> k.finalCap, attnScale |-> as,
                      localBase |-> lb, stride |-> st, experts |-> k.experts, perToken |-> pt,
                      normTopk |-> nt]
    OBVIOUS
  <1>5. PICK d : d = [bias |-> bi, qk |-> qk, sandwich |-> sw, postNorm |-> pn]
    OBVIOUS
  <1>6. PICK e : e = With(a, b)
    OBVIOUS
  <1>7. PICK c : c = With(e, d)
    OBVIOUS
  <1>8. BaseConfig(k) = e
    BY <1>1, <1>2, <1>3, <1>4, <1>6 DEF BaseConfig
  <1>9. ConvertedConfig(k) = c
    BY <1>2, <1>5, <1>7, <1>8 DEF ConvertedConfig
  <1>10. DOMAIN a = {"hidden", "layers", "heads", "kvHeads", "inter", "vocab"}
    BY <1>3 DEF CoreSize
  <1>11. DOMAIN b = {"headDim", "context", "group", "embedGroup", "activation", "rope", "embedScale",
                     "attnCap", "finalCap", "attnScale", "localBase", "stride", "experts",
                     "perToken", "normTopk"}
    BY <1>4
  <1>12. DOMAIN d = {"bias", "qk", "sandwich", "postNorm"}
    BY <1>5
  <1>13. /\ e = [x \in (DOMAIN a) \cup (DOMAIN b) |-> e[x]]
         /\ \A x \in DOMAIN a : e[x] = a[x]
         /\ \A x \in (DOMAIN b) \ (DOMAIN a) : e[x] = b[x]
    <2>1. Overlaid(a, b, e)
      BY <1>6, Overlay
    <2> QED BY <2>1 DEF Overlaid
  <1>14. /\ c = [x \in (DOMAIN e) \cup (DOMAIN d) |-> c[x]]
         /\ \A x \in DOMAIN e : c[x] = e[x]
         /\ \A x \in (DOMAIN d) \ (DOMAIN e) : c[x] = d[x]
    <2>1. Overlaid(e, d, c)
      BY <1>7, Overlay
    <2> QED BY <2>1 DEF Overlaid
  <1>15. DOMAIN e = (DOMAIN a) \cup (DOMAIN b)
    BY <1>13
  <1>16. (DOMAIN e) \cup (DOMAIN d) = Fields
    BY <1>10, <1>11, <1>12, <1>15 DEF Fields, CoreSize, Capability
  <1>17. \A x \in DOMAIN a : c[x] = k[x]
    BY <1>3, <1>13, <1>14, <1>15
  <1>18. \A x \in DOMAIN b : c[x] = b[x]
    <2>1. \A x \in DOMAIN b : x \notin DOMAIN a
      BY <1>10, <1>11
    <2> QED BY <1>13, <1>14, <1>15, <2>1
  <1>19. \A x \in DOMAIN d : c[x] = d[x]
    <2>1. \A x \in DOMAIN d : x \notin DOMAIN e
      BY <1>10, <1>11, <1>12, <1>15
    <2> QED BY <1>14, <2>1
  <1>20. c = [x \in Fields |-> c[x]]
    BY <1>14, <1>16
  <1>21. /\ c.hidden = k.hidden /\ c.layers = k.layers /\ c.heads = k.heads
         /\ c.kvHeads = k.kvHeads /\ c.inter = k.inter /\ c.vocab = k.vocab
    BY <1>10, <1>17
  <1>22. /\ c.headDim = hd /\ c.context = ctx
         /\ c.group = k.group /\ c.embedGroup = k.embedGroup
         /\ c.activation = act /\ c.rope = rope /\ c.embedScale = escale
         /\ c.attnCap = k.attnCap /\ c.finalCap = k.finalCap /\ c.attnScale = as
         /\ c.localBase = lb /\ c.stride = st
         /\ c.experts = k.experts /\ c.perToken = pt /\ c.normTopk = nt
    BY <1>4, <1>11, <1>18
  <1>23. c.bias = bi /\ c.qk = qk /\ c.sandwich = sw /\ c.postNorm = pn
    BY <1>5, <1>12, <1>19
  <1> QED BY <1>1, <1>2, <1>9, <1>20, <1>21, <1>22, <1>23 DEF ConfigOf

-----------------------------------------------------------------------------
(* What the checks of convert leave of a configuration. *)

(* A checkpoint that passes every check of convert. *)
Good(k) == CheckpointType(k) /\ Converts(k)

(* The limits of the reader are naturals. *)
LEMMA LimitType ==
    ASSUME NEW x \in CoreSize
    PROVE  Limit[x] \in Nat
  BY ContainerAssumption

(* convert validates the dimensions it writes. *)
LEMMA ConvertedSizes ==
    ASSUME NEW k, Good(k), NEW c, c = ConvertedConfig(k)
    PROVE  /\ ModelConfigValid(c) /\ ConfigOf(c, k)
           /\ Dimensioned(c) /\ c.context \in Pos
  <1>1. ModelConfigValid(c) /\ OptionsValid(k)
    BY DEF Good, Converts
  <1>2. ConfigOf(c, k)
    BY ConvertedIs
  <1>3. \A x \in CoreSize : c[x] \in 1 .. Limit[x] /\ Limit[x] \in Nat
    BY <1>1, LimitType DEF ModelConfigValid
  <1>4. \A x \in CoreSize : c[x] \in Pos
    BY <1>3 DEF Pos
  <1>5. /\ c.hidden \in Pos /\ c.layers \in Pos /\ c.heads \in Pos /\ c.kvHeads \in Pos
        /\ c.headDim \in Pos /\ c.inter \in Pos /\ c.vocab \in Pos /\ c.context \in Pos
    BY <1>4 DEF CoreSize
  <1>6. c.group \in Pos /\ c.embedGroup \in Pos
    <2>1. k.group \in 2 .. 254 /\ k.embedGroup \in 2 .. 254
      BY <1>1 DEF OptionsValid
    <2> QED BY <1>2, <2>1 DEF ConfigOf, Pos
  <1>7. Even(c.hidden) /\ Even(c.inter) /\ Even(AttentionDim(c))
    BY <1>1 DEF ModelConfigValid
  <1> QED BY <1>1, <1>2, <1>5, <1>6, <1>7 DEF Dimensioned

(* Experts are none, or at least two of which some are used. *)
LEMMA ExpertsAre ==
    ASSUME NEW k, Good(k)
    PROVE  k.experts \in Nat /\ (k.experts # 0 => k.experts >= 2 /\ k.perToken \in 1 .. k.experts)
  <1>1. k.experts \in Int
    BY DEF Good, CheckpointType
  <1>2. ExpertsResolve(k)
    BY DEF Good, Converts, Resolves
  <1>3. CASE k.experts = 0
    BY <1>3
  <1>4. CASE k.experts # 0
    <2>1. k.experts >= 2 /\ k.perToken \in 1 .. k.experts
      BY <1>2, <1>4 DEF ExpertsResolve
    <2>2. k.experts \in Nat
      BY <1>1, <2>1
    <2> QED BY <2>1, <2>2
  <1> QED BY <1>3, <1>4

(* convert writes configurations whose layers have a shape. *)
LEMMA ConvertedShape ==
    ASSUME NEW k, Good(k), NEW c, c = ConvertedConfig(k)
    PROVE  Shaped(c)
  <1>1. Dimensioned(c) /\ ConfigOf(c, k)
    BY ConvertedSizes
  <1>2. c.bias \subseteq 1 .. 7
    BY <1>1 DEF ConfigOf, Good, CheckpointType
  <1>3. c.experts \in Nat
    BY <1>1, ExpertsAre DEF ConfigOf
  <1>4. c.qk \in {"none", "head", "full"}
    <2>1. QkKind(k) # "neither"
      BY DEF Good, Converts, Resolves, QkResolves
    <2>2. QkKind(k) \in {"none", "head", "full", "neither"}
      BY DEF QkKind
    <2> QED BY <1>1, <2>1, <2>2 DEF ConfigOf
  <1>5. c.sandwich \in BOOLEAN
    <2>1. SandwichType(k) \in BOOLEAN
      BY DEF SandwichType
    <2> QED BY <1>1, <2>1 DEF ConfigOf
  <1>6. c.postNorm \in BOOLEAN
    <2>1. PostNorm(k) \in BOOLEAN
      BY DEF PostNorm
    <2> QED BY <1>1, <2>1 DEF ConfigOf
  <1> QED BY <1>1, <1>2, <1>3, <1>4, <1>5, <1>6 DEF Shaped

(* Where the parts of a fused tensor begin, which tells them apart because
   none is empty. *)
LEMMA SumBefore ==
    ASSUME NEW D, IsFiniteSet(D), NEW g \in [D -> Nat]
    PROVE  /\ D = {} => SumFunction(g) = 0
           /\ \A x : D = {x} => SumFunction(g) = g[x]
           /\ \A x, y : D = {x, y} /\ x # y => SumFunction(g) = g[x] + g[y]
  <1>1. PICK f : SumsTo(f, g, D)
    BY SumFolds
  <1>2. f[{}] = 0 /\ SumFunction(g) = f[D] /\ (\A s \in SUBSET D : \A x \in s : f[s] = g[x] + f[s \ {x}])
    BY <1>1 DEF SumsTo
  <1>3. D = {} => SumFunction(g) = 0
    BY <1>2
  <1>4. ASSUME NEW x, D = {x} PROVE SumFunction(g) = g[x]
    <2>1. D \ {x} = {} /\ x \in D /\ D \in SUBSET D /\ g[x] \in Nat
      BY <1>4
    <2>2. f[D] = g[x] + f[D \ {x}]
      BY <1>2, <2>1
    <2> QED BY <1>2, <2>1, <2>2
  <1>5. ASSUME NEW x, NEW y, D = {x, y}, x # y PROVE SumFunction(g) = g[x] + g[y]
    <2>1. D \ {x} = {y} /\ {y} \ {y} = {} /\ x \in D /\ D \in SUBSET D /\ g[x] \in Nat /\ g[y] \in Nat
             /\ y \in {y} /\ {y} \in SUBSET D
      BY <1>5
    <2>2. f[D] = g[x] + f[D \ {x}]
      BY <1>2, <2>1
    <2>3. f[{y}] = g[y] + f[{y} \ {y}]
      BY <1>2, <2>1
    <2>4. PICK a \in Nat, b \in Nat : a = g[x] /\ b = g[y]
      BY <2>1
    <2>5. f[{y}] = b
      <3>1. f[{y} \ {y}] = 0
        BY <1>2, <2>1
      <3> QED BY <2>3, <2>4, <3>1
    <2>6. f[D] = a + b
      BY <2>1, <2>2, <2>4, <2>5
    <2> QED BY <1>2, <2>4, <2>6
  <1> QED BY <1>3, <1>4, <1>5

(* The parts of a fused tensor before p, and their rows. *)
Earlier(parts, p) == {r \in parts : r < p}
Before(parts, p, dims) == SumFunction([q \in Earlier(parts, p) |-> dims[q].rows])

(* Where in a fused tensor each part starts. *)
LEMMA BeforeIs ==
    ASSUME NEW dims, \A i \in 1 .. 7 : dims[i].rows \in Pos
    PROVE  /\ Before(1 .. 3, 1, dims) = 0
           /\ Before(1 .. 3, 2, dims) = dims[1].rows
           /\ Before(1 .. 3, 3, dims) = dims[1].rows + dims[2].rows
           /\ Before(5 .. 6, 5, dims) = 0
           /\ Before(5 .. 6, 6, dims) = dims[5].rows
  <1>1. ASSUME NEW D \in SUBSET (1 .. 7)
        PROVE  IsFiniteSet(D) /\ [q \in D |-> dims[q].rows] \in [D -> Nat]
    <2>1. IsFiniteSet(1 .. 7)
      <3>1. 1 \in Int /\ 7 \in Int
        OBVIOUS
      <3> QED BY <3>1, FS_Interval
    <2>2. IsFiniteSet(D)
      BY <2>1, FS_Subset
    <2>3. \A q \in D : dims[q].rows \in Nat
      BY DEF Pos
    <2> QED BY <2>2, <2>3
  <1>2. ASSUME NEW parts, NEW p, NEW D \in SUBSET (1 .. 7), Earlier(parts, p) = D
        PROVE  /\ D = {} => Before(parts, p, dims) = 0
               /\ \A x : D = {x} => Before(parts, p, dims) = dims[x].rows
               /\ \A x, y : D = {x, y} /\ x # y => Before(parts, p, dims) = dims[x].rows + dims[y].rows
    <2>1. PICK g : g = [q \in D |-> dims[q].rows]
      OBVIOUS
    <2>2. IsFiniteSet(D) /\ g \in [D -> Nat]
      BY <1>1, <2>1
    <2>3. Before(parts, p, dims) = SumFunction(g)
      BY <1>2, <2>1 DEF Before
    <2>4. /\ D = {} => SumFunction(g) = 0
          /\ \A x : D = {x} => SumFunction(g) = g[x]
          /\ \A x, y : D = {x, y} /\ x # y => SumFunction(g) = g[x] + g[y]
      BY <2>2, SumBefore
    <2>5. \A x \in D : g[x] = dims[x].rows
      BY <2>1
    <2>6. ASSUME NEW x, D = {x} PROVE Before(parts, p, dims) = dims[x].rows
      BY <2>3, <2>4, <2>5, <2>6
    <2>7. ASSUME NEW x, NEW y, D = {x, y}, x # y
          PROVE  Before(parts, p, dims) = dims[x].rows + dims[y].rows
      <3>1. g[x] = dims[x].rows /\ g[y] = dims[y].rows
        BY <2>5, <2>7
      <3>2. SumFunction(g) = g[x] + g[y]
        BY <2>4, <2>7
      <3> QED BY <2>3, <3>1, <3>2
    <2> QED BY <2>3, <2>4, <2>6, <2>7
  <1>3. /\ Earlier(1 .. 3, 1) = {} /\ Earlier(1 .. 3, 2) = {1} /\ Earlier(1 .. 3, 3) = {1, 2}
        /\ Earlier(5 .. 6, 5) = {} /\ Earlier(5 .. 6, 6) = {5}
    BY DEF Earlier
  <1>4. {} \in SUBSET (1 .. 7) /\ {1} \in SUBSET (1 .. 7) /\ {1, 2} \in SUBSET (1 .. 7)
           /\ {5} \in SUBSET (1 .. 7) /\ 1 # 2
    OBVIOUS
  <1>5. Before(1 .. 3, 1, dims) = 0 /\ Before(5 .. 6, 5, dims) = 0
    BY <1>2, <1>3, <1>4
  <1>8. ASSUME NEW parts, NEW p, NEW x \in 1 .. 7, Earlier(parts, p) = {x}
        PROVE  Before(parts, p, dims) = dims[x].rows
    <2>1. PICK D : D = {x}
      OBVIOUS
    <2>2. D \in SUBSET (1 .. 7) /\ Earlier(parts, p) = D
      BY <1>8, <2>1
    <2> QED BY <1>2, <2>1, <2>2
  <1>9. ASSUME NEW parts, NEW p, NEW x \in 1 .. 7, NEW y \in 1 .. 7, x # y,
               Earlier(parts, p) = {x, y}
        PROVE  Before(parts, p, dims) = dims[x].rows + dims[y].rows
    <2>1. PICK D : D = {x, y}
      OBVIOUS
    <2>2. D \in SUBSET (1 .. 7) /\ Earlier(parts, p) = D
      BY <1>9, <2>1
    <2> QED BY <1>2, <1>9, <2>1, <2>2
  <1>6. Before(1 .. 3, 2, dims) = dims[1].rows /\ Before(5 .. 6, 6, dims) = dims[5].rows
    <2>1. 1 \in 1 .. 7 /\ 5 \in 1 .. 7
      OBVIOUS
    <2> QED BY <1>3, <1>8, <2>1
  <1>7. Before(1 .. 3, 3, dims) = dims[1].rows + dims[2].rows
    <2>1. 1 \in 1 .. 7 /\ 2 \in 1 .. 7 /\ 1 # 2
      OBVIOUS
    <2> QED BY <1>3, <1>9, <2>1
  <1> QED BY <1>5, <1>6, <1>7

(* The rows at the offset of a projection are its own. *)
LEMMA HeldAtIs ==
    ASSUME NEW dims, \A i \in 1 .. 7 : dims[i].rows \in Pos, NEW i \in {1, 2, 3, 5, 6},
           NEW parts, parts = IF i \in 1 .. 3 THEN 1 .. 3 ELSE 5 .. 6
    PROVE  HeldAt(parts, RowOffset(i, dims), dims) = {i}
  <1>1. HeldAt(parts, RowOffset(i, dims), dims)
            = {p \in parts : Before(parts, p, dims) = RowOffset(i, dims)}
    BY DEF HeldAt, Before, Earlier
  <1>2. PICK a \in Pos, b \in Pos, d \in Pos :
           a = dims[1].rows /\ b = dims[2].rows /\ d = dims[5].rows
    <2>1. 1 \in 1 .. 7 /\ 2 \in 1 .. 7 /\ 5 \in 1 .. 7
      OBVIOUS
    <2> QED BY <2>1
  <1>3. CASE i \in 1 .. 3
    <2>1. parts = {1, 2, 3}
      BY <1>3
    <2>2. /\ Before(parts, 1, dims) = 0 /\ Before(parts, 2, dims) = a
          /\ Before(parts, 3, dims) = a + b
      BY <1>2, <1>3, BeforeIs
    <2>3. 0 # a /\ a # a + b /\ 0 # a + b
      BY DEF Pos
    <2>4. i = 1 => RowOffset(i, dims) = 0
      BY DEF RowOffset
    <2>5. i = 2 => RowOffset(i, dims) = a
      BY <1>2 DEF RowOffset
    <2>6. i = 3 => RowOffset(i, dims) = a + b
      BY <1>2 DEF RowOffset
    <2>7. i = 1 \/ i = 2 \/ i = 3
      BY <1>3
    <2>8. RowOffset(i, dims) = Before(parts, i, dims)
      BY <2>2, <2>4, <2>5, <2>6, <2>7
    <2>9. \A p \in parts : p # i => Before(parts, p, dims) # Before(parts, i, dims)
      BY <2>1, <2>2, <2>3, <2>7
    <2> QED BY <1>1, <2>1, <2>7, <2>8, <2>9
  <1>4. CASE i \in {5, 6}
    <2>1. parts = {5, 6}
      BY <1>4
    <2>2. Before(parts, 5, dims) = 0 /\ Before(parts, 6, dims) = d
      BY <1>2, <1>4, BeforeIs
    <2>3. 0 # d
      BY DEF Pos
    <2>4. i = 5 => RowOffset(i, dims) = 0
      BY DEF RowOffset
    <2>5. i = 6 => RowOffset(i, dims) = d
      BY <1>2 DEF RowOffset
    <2> QED BY <1>1, <1>4, <2>1, <2>2, <2>3, <2>4, <2>5
  <1> QED BY <1>3, <1>4

(* The tensors that the seven projections are read from. *)
Origins(k, c) == [i \in 1 .. 7 |-> Origin(k, c, i)]

(* Whose rows are read for a projection: its own, by their name in the
   checkpoint. *)
LEMMA OriginIs ==
    ASSUME NEW k, Good(k), NEW c, c = ConvertedConfig(k), NEW i \in 1 .. 7
    PROVE  Origin(k, c, i) = IF k.experts # 0 /\ i >= 5 THEN ExpertTensors(k)[i - 4] ELSE Projections[i]
  <1>1. PICK dims : dims = ProjectionDims(c)
    OBVIOUS
  <1>2. \A j \in 1 .. 7 : dims[j].rows \in Pos
    BY <1>1, ConvertedSizes, RowsPositive
  <1>3. PICK parts : parts = IF i \in 1 .. 3 THEN 1 .. 3 ELSE 5 .. 6
    OBVIOUS
  <1>4. Origin(k, c, i) =
           CASE k.experts # 0 /\ i >= 5 -> ExpertTensors(k)[i - 4]
             [] Fused(k) /\ i \notin {4, 7} /\ ~(k.experts # 0 /\ i >= 5) ->
                   Projections[CHOOSE p \in HeldAt(parts, RowOffset(i, dims), dims) : TRUE]
             [] OTHER -> Projections[i]
    BY <1>1, <1>3 DEF Origin
  <1>5. CASE k.experts # 0 /\ i >= 5
    BY <1>4, <1>5
  <1>6. CASE ~(k.experts # 0 /\ i >= 5)
    <2>1. CASE Fused(k) /\ i \notin {4, 7}
      <3>1. i \in {1, 2, 3, 5, 6}
        BY <2>1
      <3>2. HeldAt(parts, RowOffset(i, dims), dims) = {i}
        BY <1>2, <1>3, <3>1, HeldAtIs
      <3>3. (CHOOSE p \in HeldAt(parts, RowOffset(i, dims), dims) : TRUE) = i
        BY <3>2
      <3> QED BY <1>4, <1>6, <2>1, <3>3
    <2>2. CASE ~(Fused(k) /\ i \notin {4, 7})
      BY <1>4, <1>6, <2>2
    <2> QED BY <2>1, <2>2
  <1> QED BY <1>5, <1>6

(* They are tensors of the checkpoint. *)
LEMMA OriginNames ==
    ASSUME NEW k, Good(k), NEW c, c = ConvertedConfig(k)
    PROVE  NamesOrigin(Origins(k, c))
  <1>1. ASSUME NEW i \in 1 .. 7 PROVE Origins(k, c)[i] \in Names
    <2>1. Origins(k, c)[i] = Origin(k, c, i)
      BY DEF Origins
    <2>2. CASE k.experts # 0 /\ i >= 5
      <3>1. Origin(k, c, i) = ExpertTensors(k)[i - 4]
        BY <2>2, OriginIs
      <3>2. i - 4 = 1 \/ i - 4 = 2 \/ i - 4 = 3
        BY <2>2
      <3>3. \A j \in {1, 2, 3} : ExpertTensors(k)[j] \in Names
        <4>1. CASE k.router = "mlp"
          <5>1. /\ ExpertTensors(k)[1] = "gate" /\ ExpertTensors(k)[2] = "up"
                /\ ExpertTensors(k)[3] = "down"
            BY <4>1 DEF ExpertTensors
          <5> QED BY <5>1 DEF Names
        <4>2. CASE k.router # "mlp"
          <5>1. /\ ExpertTensors(k)[1] = "w1" /\ ExpertTensors(k)[2] = "w3"
                /\ ExpertTensors(k)[3] = "w2"
            BY <4>2 DEF ExpertTensors
          <5> QED BY <5>1 DEF Names
        <4> QED BY <4>1, <4>2
      <3> QED BY <2>1, <3>1, <3>2, <3>3
    <2>3. CASE ~(k.experts # 0 /\ i >= 5)
      <3>1. Origin(k, c, i) = Projections[i]
        BY <2>3, OriginIs
      <3> QED BY <2>1, <3>1, BiasNames DEF NamesOrigin
    <2> QED BY <2>2, <2>3
  <1> QED BY <1>1 DEF NamesOrigin

-----------------------------------------------------------------------------
(* The file: its table, and what lies behind it. *)

(* A block as it is in the file. *)
StoredBlock(k, b) == With(b, [valid |-> StoredValid(b.part[1], ValuesOf(k, b.tensor.name))])
(* Blocks as they are in the file, and runs of them. *)
StoredSet(k) == {StoredBlock(k, b) : b \in BlockSet}
StoredRun(k, s) == [j \in DOMAIN s |-> StoredBlock(k, s[j])]

(* Storing a block adds whether its values are valid. *)
LEMMA StoredFields ==
    ASSUME NEW k, NEW b \in BlockSet
    PROVE  /\ StoredBlock(k, b).bytes = b.bytes /\ StoredBlock(k, b).part = b.part
           /\ StoredBlock(k, b).tensor = b.tensor
           /\ StoredBlock(k, b).valid = StoredValid(b.part[1], ValuesOf(k, b.tensor.name))
  <1>1. PICK v : v = StoredValid(b.part[1], ValuesOf(k, b.tensor.name))
    OBVIOUS
  <1>2. PICK g : g = [valid |-> v]
    OBVIOUS
  <1>3. PICK h : h = With(b, g)
    OBVIOUS
  <1>4. Overlaid(b, g, h)
    BY <1>3, Overlay
  <1>5. DOMAIN b = {"tensor", "part", "bytes"}
    BY DEF BlockSet
  <1>6. DOMAIN g = {"valid"} /\ g["valid"] = v
    BY <1>2
  <1>7. h["bytes"] = b["bytes"] /\ h["part"] = b["part"] /\ h["tensor"] = b["tensor"]
    BY <1>4, <1>5 DEF Overlaid
  <1>8. h["valid"] = v
    BY <1>4, <1>5, <1>6 DEF Overlaid
  <1>9. StoredBlock(k, b) = h
    BY <1>1, <1>2, <1>3 DEF StoredBlock
  <1>10. h.bytes = b.bytes /\ h.part = b.part /\ h.tensor = b.tensor /\ h.valid = v
    BY <1>7, <1>8
  <1> QED BY <1>1, <1>9, <1>10

(* Stored blocks have a size. *)
LEMMA StoredSized ==
    ASSUME NEW k
    PROVE  Sized(StoredSet(k))
  BY StoredFields DEF Sized, StoredSet, BlockSet

(* Storing a run keeps the offsets in it. *)
LEMMA StoredRunFacts ==
    ASSUME NEW k, NEW s, NEW n, IsRun(s, n)
    PROVE  /\ StoredRun(k, s) \in Seq(StoredSet(k)) /\ Len(StoredRun(k, s)) = Len(s)
           /\ \A j \in 1 .. Len(s) : StoredRun(k, s)[j] = StoredBlock(k, s[j]) /\ s[j] \in BlockSet
           /\ \A j \in 0 .. Len(s) : Weight(StoredRun(k, s), j) = Weight(s, j)
           /\ TotalBytes(StoredRun(k, s)) = n
  <1>1. s \in Seq(BlockSet) /\ TotalBytes(s) = n
    BY DEF IsRun
  <1>2. PICK m \in Nat : m = Len(s) /\ DOMAIN s = 1 .. m
    BY <1>1
  <1>3. \A j \in 1 .. m : s[j] \in BlockSet
    BY <1>1, <1>2
  <1>4. PICK t : t = StoredRun(k, s)
    OBVIOUS
  <1>5. t = [j \in 1 .. m |-> StoredBlock(k, s[j])]
    BY <1>2, <1>4 DEF StoredRun
  <1>6. \A j \in 1 .. m : t[j] = StoredBlock(k, s[j]) /\ t[j] \in StoredSet(k)
    BY <1>3, <1>5 DEF StoredSet
  <1>7. t \in Seq(StoredSet(k)) /\ Len(t) = m /\ DOMAIN t = 1 .. m
    <2>1. t \in [1 .. m -> StoredSet(k)]
      BY <1>5, <1>6
    <2> QED BY <2>1
  <1>8. ASSUME NEW j \in 0 .. m PROVE Weight(t, j) = Weight(s, j)
    <2>1. \A i \in 1 .. j : t[i].bytes = s[i].bytes
      <3> TAKE i \in 1 .. j
      <3>1. i \in 1 .. m
        OBVIOUS
      <3> QED BY <1>3, <1>6, <3>1, StoredFields
    <2>2. /\ j \in Nat /\ j <= Len(t) /\ j <= Len(s) /\ Len(t) \in Nat /\ Len(s) \in Nat
          /\ DOMAIN t = 1 .. Len(t) /\ DOMAIN s = 1 .. Len(s)
      BY <1>2, <1>7
    <2> QED BY <2>1, <2>2, WeightSame
  <1>9. TotalBytes(t) = n
    <2>1. TotalBytes(t) = Weight(t, m)
      BY <1>7, StoredSized, TotalBytesIs
    <2>2. TotalBytes(s) = Weight(s, m)
      BY <1>1, <1>2, SetsSized, TotalBytesIs
    <2>3. m \in 0 .. m
      OBVIOUS
    <2> QED BY <1>1, <1>8, <2>1, <2>2, <2>3
  <1> QED BY <1>2, <1>3, <1>4, <1>6, <1>7, <1>8, <1>9

(* A file of the first n sections: its header, its table, its sections, and how
   long each is. *)
FileOf(k, n, f, c, z, s, number) ==
    /\ number \in Nat /\ c = ConvertedConfig(k) /\ Shaped(c)
    /\ z = PlanSections(c, k.tied) /\ Len(z) = number /\ z = [i \in 1 .. number |-> z[i]]
    /\ s = WriteSections(c, k.tied, IsGemma(k), Origins(k, c))
    /\ Len(s) = number
    /\ \A i \in 1 .. number : IsRun(s[i], z[i]) /\ z[i] \in Pos
    /\ number = PlannedSections(k) /\ number = SectionCount(c, k.tied)
    /\ f.header = WriteHeader(c, number) /\ f.table = SectionTable(c, z)
    /\ f.sections = [i \in 1 .. n |-> f.sections[i]]
    /\ \A i \in 1 .. n : f.sections[i] = StoredRun(k, s[i])

(* What a file of n sections consists of. *)
LEMMA FileIs ==
    ASSUME NEW k, Good(k), NEW n
    PROVE  \E c, z, s, number : FileOf(k, n, File(k, n), c, z, s, number)
  <1>1. PICK c : c = ConvertedConfig(k)
    OBVIOUS
  <1>2. Shaped(c)
    BY <1>1, ConvertedShape
  <1>3. PICK origin : origin = Origins(k, c) /\ NamesOrigin(origin)
    BY <1>1, OriginNames
  <1>4. PICK fold \in BOOLEAN : fold = IsGemma(k)
    <2>1. IsGemma(k) \in BOOLEAN
      BY DEF IsGemma
    <2> QED BY <2>1
  <1>5. PICK s, z : s = WriteSections(c, k.tied, fold, origin) /\ z = PlanSections(c, k.tied)
    OBVIOUS
  <1>6. PICK number : number = SectionCount(c, k.tied)
    OBVIOUS
  <1>7. /\ number \in Nat /\ Len(s) = number /\ Len(z) = number
        /\ s = [i \in 1 .. number |-> s[i]] /\ z = [i \in 1 .. number |-> z[i]]
        /\ \A i \in 1 .. number : IsRun(s[i], z[i]) /\ z[i] \in Pos
    BY <1>2, <1>3, <1>5, <1>6, SectionRuns
  <1>8. PICK f : f = File(k, n)
    OBVIOUS
  <1>9. f = [header   |-> WriteHeader(c, Len(z)), table |-> SectionTable(c, z),
             sections |-> [i \in 1 .. n |-> StoredRun(k, s[i])]]
    BY <1>1, <1>3, <1>4, <1>5, <1>8 DEF File, StoredRun, StoredBlock, Origins
  <1>10. /\ f.header = WriteHeader(c, number) /\ f.table = SectionTable(c, z)
         /\ f.sections = [i \in 1 .. n |-> StoredRun(k, s[i])]
    BY <1>7, <1>9
  <1>11. /\ f.sections = [i \in 1 .. n |-> f.sections[i]]
         /\ \A i \in 1 .. n : f.sections[i] = StoredRun(k, s[i])
    BY <1>10
  <1>12. s = WriteSections(c, k.tied, IsGemma(k), Origins(k, c))
    BY <1>3, <1>4, <1>5
  <1>13. number = PlannedSections(k)
    BY <1>1, <1>5, <1>7 DEF PlannedSections
  <1>14. FileOf(k, n, f, c, z, s, number)
    BY <1>1, <1>2, <1>5, <1>6, <1>7, <1>10, <1>11, <1>12, <1>13 DEF FileOf
  <1> QED BY <1>8, <1>14

(* Where the sections start: behind the header and the table. *)
DataAt(c, number) == HeaderSize(Version(c)) + number * EntrySize

(* The table says where each section starts and how long it is. *)
LEMMA TableIs ==
    ASSUME NEW c, NEW number \in Nat, NEW z, Len(z) = number, z = [i \in 1 .. number |-> z[i]]
    PROVE  /\ DataAt(c, number) \in Nat
           /\ SectionTable(c, z) = [i \in 1 .. number |-> SectionTable(c, z)[i]]
           /\ Len(SectionTable(c, z)) = number
           /\ \A i \in 1 .. number : /\ SectionTable(c, z)[i].offset = DataAt(c, number) + Total(z, i - 1)
                                    /\ SectionTable(c, z)[i].size = z[i]
  <1>1. HeaderSize(Version(c)) \in Nat
    BY DEF HeaderSize
  <1>2. DataAt(c, number) \in Nat
    BY <1>1 DEF DataAt, EntrySize
  <1>3. PICK t : t = SectionTable(c, z)
    OBVIOUS
  <1>4. DOMAIN z = 1 .. number
    OBVIOUS
  <1>5. t = [i \in 1 .. number |-> [offset |-> DataAt(c, number) + Total(z, i - 1), size |-> z[i]]]
    BY <1>3, <1>4 DEF SectionTable, DataAt, Total
  <1>6. Len(t) = number
    BY <1>5
  <1>7. t = [i \in 1 .. number |-> t[i]]
    BY <1>5
  <1> QED BY <1>2, <1>3, <1>5, <1>6, <1>7

(* What is written is what was planned. *)
LEMMA FileLength ==
    ASSUME NEW k, Good(k)
    PROVE  /\ SizeAsPlanned(k, PlannedSections(k))
           /\ PlannedSections(k) \in Nat \ {0}
  <1>1. PICK number : number = PlannedSections(k)
    OBVIOUS
  <1>2. PICK f : f = File(k, number)
    OBVIOUS
  <1>3. PICK c, z, s, m : FileOf(k, number, f, c, z, s, m)
    BY <1>2, FileIs
  <1>4. /\ number \in Nat /\ c = ConvertedConfig(k) /\ z = PlanSections(c, k.tied) /\ Len(z) = number
        /\ z = [i \in 1 .. number |-> z[i]]
        /\ \A i \in 1 .. number : IsRun(s[i], z[i]) /\ z[i] \in Pos
        /\ f.header = WriteHeader(c, number) /\ f.table = SectionTable(c, z)
        /\ f.sections = [i \in 1 .. number |-> f.sections[i]]
        /\ \A i \in 1 .. number : f.sections[i] = StoredRun(k, s[i])
        /\ Shaped(c) /\ number = SectionCount(c, k.tied)
    BY <1>1, <1>3 DEF FileOf
  <1>5. PICK n \in Nat : n = number - 1 /\ number = n + 1
    <2>1. c.layers \in Nat
      BY <1>4 DEF Shaped, Dimensioned, Pos
    <2>2. number # 0
      BY <1>4, <2>1 DEF SectionCount
    <2> QED BY <1>4, <2>2
  <1>6. Runs(f.sections, StoredSet(k), number)
    BY <1>4, StoredRunFacts DEF Runs
  <1>7. FlatTo(FlattenSeq(f.sections), f.sections, StoredSet(k), number)
    BY <1>4, <1>6, StoredSized, FlatFacts
  <1>8. TotalBytes(FlattenSeq(f.sections)) = Total(Totals(f.sections), number)
    BY <1>7 DEF FlatTo
  <1>9. \A i \in 1 .. number : Totals(f.sections)[i] = z[i]
    <2> TAKE i \in 1 .. number
    <2>1. Totals(f.sections)[i] = TotalBytes(f.sections[i])
      <3>1. i \in DOMAIN f.sections
        BY <1>4
      <3> QED BY <3>1 DEF Totals
    <2>2. TotalBytes(StoredRun(k, s[i])) = z[i]
      BY <1>4, StoredRunFacts
    <2> QED BY <1>4, <2>1, <2>2
  <1>10. Total(Totals(f.sections), number) = Total(z, number)
    BY <1>4, <1>9, TotalSame
  <1>11. Total(z, n + 1) = Total(z, n) + z[n + 1] /\ Total(z, n) \in Nat
    <2>1. \A j \in 1 .. n + 1 : z[j] \in Nat
      BY <1>4, <1>5 DEF Pos
    <2> QED BY <2>1, TotalFacts
  <1>12. PICK t : t = SectionTable(c, z)
    OBVIOUS
  <1>13. /\ DataAt(c, number) \in Nat /\ Len(t) = number
         /\ t[number].offset = DataAt(c, number) + Total(z, number - 1) /\ t[number].size = z[number]
    <2>1. number \in 1 .. number
      BY <1>5
    <2> QED BY <1>4, <1>12, <2>1, TableIs
  <1>14. f.header.version = Version(c)
    BY <1>4 DEF WriteHeader
  <1>15. FileLen(f) = DataAt(c, number) + Total(z, number)
    BY <1>4, <1>8, <1>10, <1>12, <1>13, <1>14 DEF FileLen, DataAt
  <1>16. z[number] \in Nat
    BY <1>4, <1>5 DEF Pos
  <1>17. FileLen(f) = t[number].offset + t[number].size
    <2>1. PICK a \in Nat, b \in Nat, d \in Nat : a = DataAt(c, number) /\ b = Total(z, n) /\ d = z[number]
      BY <1>11, <1>13, <1>16
    <2>2. t[number].offset = a + b /\ t[number].size = d
      BY <1>5, <1>13, <2>1
    <2>3. FileLen(f) = a + (b + d)
      BY <1>5, <1>11, <1>15, <2>1
    <2> QED BY <2>2, <2>3
  <1>18. SizeAsPlanned(k, number)
    BY <1>2, <1>4, <1>12, <1>17 DEF SizeAsPlanned
  <1> QED BY <1>1, <1>5, <1>18

-----------------------------------------------------------------------------
(* The report of preflight. *)

(* The sizes are fields of every configuration. *)
LEMMA BaseDomain ==
    ASSUME NEW k
    PROVE  CoreSize \cup {"group", "embedGroup"} \subseteq DOMAIN BaseConfig(k)
  <1>1. PICK a : a = [x \in CoreSize \ {"headDim", "context"} |-> k[x]]
    OBVIOUS
  <1>2. PICK act, rope, escale, lb, pt, nt :
           /\ act = (CHOOSE x \in Activations(k) : TRUE) /\ rope = RopeScaling(k)
           /\ escale = (IF IsGemma(k) THEN k.hidden ELSE 1)
           /\ lb = (IF Stride(k) = 0 THEN 0 ELSE k.localBase)
           /\ pt = (IF k.experts = 0 THEN 0 ELSE k.perToken)
           /\ nt = (k.experts # 0 /\ k.normTopk)
    OBVIOUS
  <1>3. PICK b : b = [headDim |-> HeadDim(k), context |-> ContextTokens(k), group |-> k.group,
                      embedGroup |-> k.embedGroup, activation |-> act, rope |-> rope,
                      embedScale |-> escale, attnCap |-> k.attnCap, finalCap |-> k.finalCap,
                      attnScale |-> AttnScale(k), localBase |-> lb, stride |-> Stride(k),
                      experts |-> k.experts, perToken |-> pt, normTopk |-> nt]
    OBVIOUS
  <1>4. BaseConfig(k) = With(a, b)
    BY <1>1, <1>2, <1>3 DEF BaseConfig
  <1>5. PICK e : e = With(a, b)
    OBVIOUS
  <1>6. Overlaid(a, b, e)
    BY <1>5, Overlay
  <1>7. DOMAIN a = CoreSize \ {"headDim", "context"}
    BY <1>1
  <1>8. {"headDim", "context", "group", "embedGroup"} \subseteq DOMAIN b
    BY <1>3
  <1>9. DOMAIN e = (DOMAIN a) \cup (DOMAIN b)
    BY <1>6 DEF Overlaid
  <1> QED BY <1>4, <1>5, <1>7, <1>8, <1>9

(* Validation looks at the sizes alone. *)
LEMMA SizesAlone ==
    ASSUME NEW c, NEW d, \A x \in CoreSize \cup {"group", "embedGroup"} : c[x] = d[x],
           ModelConfigValid(c)
    PROVE  ModelConfigValid(d)
  <1>1. /\ c.hidden = d.hidden /\ c.heads = d.heads /\ c.kvHeads = d.kvHeads
        /\ c.headDim = d.headDim /\ c.inter = d.inter /\ c.context = d.context
        /\ c.group = d.group /\ c.embedGroup = d.embedGroup
        /\ \A x \in CoreSize : c[x] = d[x]
    BY DEF CoreSize
  <1>2. AttentionDim(c) = AttentionDim(d)
    BY <1>1 DEF AttentionDim
  <1>3. PICK a : a = AttentionDim(d)
    OBVIOUS
  <1> QED BY <1>1, <1>2 DEF ModelConfigValid

(* preflight validates what convert does. *)
LEMMA PreflightSizes ==
    ASSUME NEW k, Good(k), NEW w \in BOOLEAN, NEW c, c = PreflightConfig(k, w)
    PROVE  ModelConfigValid(c)
  <1>1. PICK e, g, h : /\ e = BaseConfig(k)
                       /\ g = [bias |-> k.layer[1].bias, qk |-> QkKind(k),
                               sandwich |-> SandwichType(k), postNorm |-> PostNorm(k)]
                       /\ h = With(e, g)
    OBVIOUS
  <1>2. h = ConvertedConfig(k) /\ Overlaid(e, g, h)
    BY <1>1, Overlay DEF ConvertedConfig
  <1>3. PICK u : c = With(e, u)
    <2>1. CASE w
      BY <1>1, <2>1 DEF PreflightConfig
    <2>2. CASE ~w
      BY <1>1, <2>2 DEF PreflightConfig
    <2> QED BY <2>1, <2>2
  <1>4. Overlaid(e, u, c)
    BY <1>3, Overlay
  <1>5. CoreSize \cup {"group", "embedGroup"} \subseteq DOMAIN e
    BY <1>1, BaseDomain
  <1>6. \A x \in CoreSize \cup {"group", "embedGroup"} : h[x] = c[x]
    BY <1>2, <1>4, <1>5 DEF Overlaid
  <1>7. ModelConfigValid(h)
    BY <1>2, ConvertedSizes
  <1> QED BY <1>6, <1>7, SizesAlone

(* With the weights at hand, preflight sees the configuration that convert will
   write. *)
LEMMA PreflightSame ==
    ASSUME NEW k, Good(k), NEW w \in BOOLEAN, w
    PROVE  PreflightConfig(k, w) = ConvertedConfig(k)
  <1>1. ~(PostNorm(k) /\ SandwichType(k))
    BY DEF Good, Converts
  <1>2. PICK a, b : a = (SandwichType(k) /\ ~PostNorm(k)) /\ b = SandwichType(k)
    OBVIOUS
  <1>3. a = b
    BY <1>1, <1>2 DEF SandwichType, PostNorm
  <1>4. PreflightConfig(k, w) = With(BaseConfig(k), [bias |-> k.layer[1].bias, qk |-> QkKind(k),
                                                     sandwich |-> a, postNorm |-> PostNorm(k)])
    BY <1>2 DEF PreflightConfig
  <1>5. ConvertedConfig(k) = With(BaseConfig(k), [bias |-> k.layer[1].bias, qk |-> QkKind(k),
                                                  sandwich |-> b, postNorm |-> PostNorm(k)])
    BY <1>2 DEF ConvertedConfig
  <1> QED BY <1>3, <1>4, <1>5

(* What converts, preflight has called supported. *)
LEMMA PreflightAgrees ==
    ASSUME NEW k, Good(k), NEW w \in BOOLEAN
    PROVE  PreflightSupports(k, w)
  <1>1. PICK c : c = PreflightConfig(k, w)
    OBVIOUS
  <1>2. Resolves(k, w)
    <2>1. Resolves(k, TRUE)
      BY DEF Good, Converts
    <2>2. CASE w
      <3>1. w = TRUE
        BY <2>2
      <3> QED BY <2>1, <3>1
    <2>3. CASE ~w
      BY <2>1, <2>3 DEF Resolves, ArchitectureExportable
    <2> QED BY <2>2, <2>3
  <1>3. k.group <= 255 /\ k.embedGroup <= 255
    <2>1. k.group \in 2 .. 254 /\ k.embedGroup \in 2 .. 254
      BY DEF Good, Converts, OptionsValid
    <2> QED BY <2>1
  <1>4. ModelConfigValid(c)
    BY <1>1, PreflightSizes
  <1>5. ASSUME w PROVE /\ c.sandwich => SandwichNormsPresent(k)
                       /\ LayoutDetected(k) /\ FusedTensorsChecked(k, c)
    <2>1. c = ConvertedConfig(k)
      BY <1>1, <1>5, PreflightSame
    <2>2. ConfigOf(c, k)
      BY <2>1, ConvertedIs
    <2>3. c.sandwich = SandwichType(k)
      BY <2>2 DEF ConfigOf
    <2> QED BY <2>1, <2>3 DEF Good, Converts
  <1> QED BY <1>1, <1>2, <1>3, <1>4, <1>5 DEF PreflightSupports

(* z lists so many sizes. *)
Tabled(number, z) == number \in Nat /\ Len(z) = number /\ z = [i \in 1 .. number |-> z[i]]

(* The table has a row for each size. *)
LEMMA TableLength ==
    ASSUME NEW c, NEW number, NEW z, Tabled(number, z)
    PROVE  Len(SectionTable(c, z)) = number
  <1>1. number \in Nat /\ Len(z) = number /\ z = [i \in 1 .. number |-> z[i]]
    BY DEF Tabled
  <1>2. DOMAIN z = 1 .. number
    BY <1>1
  <1>3. PICK t : t = SectionTable(c, z)
    OBVIOUS
  <1>4. t = [i \in 1 .. number |-> t[i]]
    BY <1>2, <1>3 DEF SectionTable
  <1> QED BY <1>1, <1>3, <1>4

(* And its report is of the file that is then written. *)
LEMMA ReportExact ==
    ASSUME NEW k, Good(k), NEW w \in BOOLEAN, NEW r, r = PreflightReport(k, w), NEW f,
           f = File(k, PlannedSections(k))
    PROVE  /\ r.supported
           /\ r.weights => r.container[1] = [version |-> f.header.version, sections |-> Len(f.table),
                                             bytes |-> FileLen(f)]
  <1>1. PreflightSupports(k, w)
    BY PreflightAgrees
  <1>2. r.weights = w /\ r.supported
    <2>1. PICK p : p = PreflightSupports(k, w)
      OBVIOUS
    <2>2. r.supported = p /\ r.weights = w
      BY <2>1 DEF PreflightReport
    <2> QED BY <1>1, <2>1, <2>2
  <1>3. ASSUME w
        PROVE  r.container[1] = [version |-> f.header.version, sections |-> Len(f.table),
                                 bytes |-> FileLen(f)]
    <2>1. PICK number : number = PlannedSections(k)
      OBVIOUS
    <2>2. PICK c, z, s, m : FileOf(k, number, f, c, z, s, m)
      BY <2>1, FileIs
    <2>3. /\ number \in Nat /\ c = ConvertedConfig(k) /\ z = PlanSections(c, k.tied) /\ Len(z) = number
          /\ z = [i \in 1 .. number |-> z[i]]
          /\ f.header = WriteHeader(c, number) /\ f.table = SectionTable(c, z)
      BY <2>1, <2>2 DEF FileOf
    <2>4. PreflightConfig(k, w) = c
      BY <1>3, <2>3, PreflightSame
    <2>5. PICK t : t = SectionTable(c, z)
      OBVIOUS
    <2>6. r.container = <<[version |-> Version(c), sections |-> number,
                           bytes |-> t[number].offset + t[number].size]>>
      BY <1>1, <2>3, <2>4, <2>5 DEF PreflightReport
    <2>7. r.container[1] = [version |-> Version(c), sections |-> number,
                            bytes |-> t[number].offset + t[number].size]
      BY <2>6
    <2>8. f.header.version = Version(c)
      BY <2>3 DEF WriteHeader
    <2>9. Len(f.table) = number
      <3>1. Tabled(number, z)
        BY <2>3 DEF Tabled
      <3>2. Len(SectionTable(c, z)) = number
        BY <3>1, TableLength
      <3> QED BY <2>3, <3>2
    <2>10. FileLen(f) = t[number].offset + t[number].size
      <3>1. SizeAsPlanned(k, number)
        BY <2>1, FileLength
      <3> QED BY <2>1, <2>3, <2>5, <3>1 DEF SizeAsPlanned
    <2> QED BY <2>7, <2>8, <2>9, <2>10
  <1> QED BY <1>2, <1>3

-----------------------------------------------------------------------------
(* The inductive invariant of a conversion, and every step of it. *)

(* Every section of k can be written. *)
AllWritable(k) == \A i \in 1 .. PlannedSections(k) : SectionWritable(k, i)

(* The complete file of k, and the complete files there can be. *)
FullFile(k) == Written(k, PlannedSections(k))
Complete    == {FullFile(k) : k \in {s \in Source : Converts(s)} \cup Existing}

(* The conversion has passed its checks. *)
Committed == stage \in {"writing", "synced", "renamed", "copying"}

(* The files: only complete ones come to the output path, and only synced ones. *)
FilesInv ==
    /\ output \in {Absent} \cup Complete /\ replaced \subseteq {Absent} \cup Complete
    /\ "output" \notin unsynced
    /\ stage # "writing" /\ partial # Absent /\ ~killed => partial \in Complete

(* The conversion under way. *)
UnderWay ==
    /\ stage \in {"idle", "asked", "writing", "synced", "renamed", "copying"}
    /\ stage # "idle" => ckpt \in Source
    /\ Committed => Converts(ckpt)
    /\ stage = "writing" =>
          \E n \in 0 .. PlannedSections(ckpt) :
              partial = Written(ckpt, n) /\ \A i \in 1 .. n : SectionWritable(ckpt, i)
    /\ stage = "synced" => partial = FullFile(ckpt) /\ "partial" \notin unsynced
    /\ stage \in {"renamed", "copying"} => output = FullFile(ckpt)
    /\ stage \in {"synced", "renamed", "copying"} => AllWritable(ckpt)

(* What has been answered. *)
Answers ==
    /\ result = "ok" => /\ stage = "idle" /\ ckpt \in Source /\ Converts(ckpt)
                        /\ output = FullFile(ckpt) /\ tokenizer = ckpt.tok
                        /\ AllWritable(ckpt)
    /\ result # "wrong size"
    /\ report # Absent => \E w \in BOOLEAN : report = PreflightReport(ckpt, w)

(* Together they are inductive. *)
ConvertInv == FilesInv /\ UnderWay /\ Answers

(* A source that converts is written as planned. *)
LEMMA SourceTypes ==
    ASSUME NEW k \in Source, Converts(k)
    PROVE  Good(k) /\ PlannedSections(k) \in Nat \ {0} /\ SizeAsPlanned(k, PlannedSections(k))
  <1>1. Good(k)
    BY ConvertAssumption DEF Good
  <1> QED BY <1>1, FileLength

(* A file that is being written is there and not torn. *)
LEMMA WrittenIs ==
    ASSUME NEW k \in Source, Converts(k), NEW n \in 0 .. PlannedSections(k)
    PROVE  Written(k, n) # Absent /\ Written(k, n) # Torn
  BY ConvertAssumption

(* A complete file is there and whole. *)
LEMMA CompleteIs ==
    ASSUME NEW w \in Complete
    PROVE  w # Absent /\ Whole(w)
  <1>1. PICK k \in {s \in Source : Converts(s)} \cup Existing : w = FullFile(k)
    BY DEF Complete
  <1>2. w # Absent /\ w # Torn
    <2>1. CASE k \in Existing
      BY <1>1, <2>1, ConvertAssumption DEF FullFile
    <2>2. CASE k \in Source /\ Converts(k)
      <3>1. PlannedSections(k) \in 0 .. PlannedSections(k)
        BY <2>2, SourceTypes
      <3> QED BY <1>1, <2>2, <3>1, WrittenIs DEF FullFile
    <2> QED BY <1>1, <2>1, <2>2
  <1>3. w.sections = PlannedSections(w.of)
    BY <1>1 DEF FullFile, Written
  <1> QED BY <1>2, <1>3 DEF Whole

(* Writing all sections completes a file. *)
LEMMA FinishedComplete ==
    ASSUME NEW k \in Source, Converts(k)
    PROVE  FullFile(k) \in Complete /\ FullFile(k) # Absent
  <1>1. FullFile(k) \in Complete
    BY DEF Complete
  <1> QED BY <1>1, CompleteIs

(* The invariant holds at the start: an output that is already there is a whole
   one. *)
LEMMA ConvertStarts ==
    ASSUME ConvertInit
    PROVE  ConvertInv
  <1>1. output \in {Absent} \cup Complete
    BY DEF ConvertInit, Complete, FullFile
  <1>2. FilesInv
    BY <1>1 DEF ConvertInit, FilesInv
  <1>3. UnderWay
    BY DEF ConvertInit, UnderWay, Committed
  <1>4. Answers
    BY ConvertAssumption DEF ConvertInit, Answers
  <1> QED BY <1>2, <1>3, <1>4 DEF ConvertInv

(* A conversion that starts leaves the files as they are. *)
LEMMA ChooseSafe ==
    ASSUME ConvertInv, NEW k \in Source, Choose(k)
    PROVE  ConvertInv'
  <1>1. FilesInv'
    BY DEF ConvertInv, FilesInv, Choose, disk, Complete, FullFile, Written
  <1>2. UnderWay'
    BY DEF ConvertInv, UnderWay, Committed, Choose
  <1>3. Answers'
    BY ConvertAssumption DEF Answers, Choose
  <1> QED BY <1>1, <1>2, <1>3 DEF ConvertInv

(* Nothing on the disk changes and the conversion ends, without success. *)
LEMMA QuietEnd ==
    ASSUME ConvertInv, NEW how, how \notin {"ok", "wrong size"}, stage # "writing", End(how),
           UNCHANGED <<ckpt, report, disk, started, crashes>>
    PROVE  ConvertInv'
  <1>1. FilesInv'
    BY DEF ConvertInv, FilesInv, End, disk, Complete, FullFile, Written
  <1>2. UnderWay'
    BY DEF ConvertInv, UnderWay, Committed, End
  <1>3. Answers'
    BY DEF ConvertInv, Answers, End
  <1> QED BY <1>1, <1>2, <1>3 DEF ConvertInv

(* The guard removes what was written, and the conversion ends. *)
LEMMA RemovedEnd ==
    ASSUME ConvertInv, NEW how, how \notin {"ok", "wrong size"}, RemovePartial, End(how),
           UNCHANGED <<ckpt, report, started, crashes>>
    PROVE  ConvertInv'
  <1>1. FilesInv'
    BY DEF ConvertInv, FilesInv, End, RemovePartial, Complete, FullFile, Written
  <1>2. UnderWay'
    BY DEF ConvertInv, UnderWay, Committed, End
  <1>3. Answers'
    BY DEF ConvertInv, Answers, End
  <1> QED BY <1>1, <1>2, <1>3 DEF ConvertInv

(* So does preflight. *)
LEMMA InspectSafe ==
    ASSUME ConvertInv, Inspect
    PROVE  ConvertInv'
  <1>1. FilesInv'
    BY DEF ConvertInv, FilesInv, Inspect, disk, Complete, FullFile, Written
  <1>2. UnderWay'
    BY DEF ConvertInv, UnderWay, Committed, Inspect, disk
  <1>3. Answers'
    <2>1. \E w \in BOOLEAN : report' = PreflightReport(ckpt, w)
      BY DEF Inspect
    <2>2. ckpt' = ckpt /\ result' = result /\ result # "ok"
      BY DEF Inspect, ConvertInv, Answers
    <2> QED BY <2>1, <2>2 DEF ConvertInv, Answers
  <1> QED BY <1>1, <1>2, <1>3 DEF ConvertInv

(* Creating the partial file, the checks having passed. *)
LEMMA CreateSafe ==
    ASSUME ConvertInv, Create
    PROVE  ConvertInv'
  <1>1. FilesInv'
    BY DEF ConvertInv, FilesInv, Create, Complete, FullFile, Written
  <1>2. UnderWay'
    <2>1. ckpt \in Source /\ Converts(ckpt) /\ ckpt' = ckpt /\ stage' = "writing"
      BY DEF ConvertInv, UnderWay, Create
    <2>2. partial' = Written(ckpt, 0)
      BY DEF Create
    <2>3. 0 \in 0 .. PlannedSections(ckpt) /\ \A i \in 1 .. 0 : SectionWritable(ckpt, i)
      BY <2>1, SourceTypes
    <2>4. \E n \in 0 .. PlannedSections(ckpt) :
             partial' = Written(ckpt, n) /\ \A i \in 1 .. n : SectionWritable(ckpt, i)
      BY <2>2, <2>3
    <2> QED BY <2>1, <2>4 DEF UnderWay, Committed
  <1>3. Answers'
    BY DEF ConvertInv, Answers, Create
  <1> QED BY <1>1, <1>2, <1>3 DEF ConvertInv

(* Writing the next section, which could be written. *)
LEMMA WriteSectionSafe ==
    ASSUME ConvertInv, WriteSection
    PROVE  ConvertInv'
  <1>1. FilesInv'
    BY DEF ConvertInv, FilesInv, WriteSection, Complete, FullFile, Written
  <1>2. UnderWay'
    <2>1. ckpt \in Source /\ Converts(ckpt) /\ ckpt' = ckpt /\ stage' = "writing" /\ stage = "writing"
      BY DEF ConvertInv, UnderWay, Committed, WriteSection
    <2>2. PICK n \in 0 .. PlannedSections(ckpt) :
             partial = Written(ckpt, n) /\ \A i \in 1 .. n : SectionWritable(ckpt, i)
      BY <2>1 DEF ConvertInv, UnderWay
    <2>3. partial.sections = n /\ [partial EXCEPT !.sections = n + 1] = Written(ckpt, n + 1)
      BY <2>2 DEF Written
    <2>4. /\ n < PlannedSections(ckpt) /\ SectionWritable(ckpt, n + 1)
          /\ partial' = Written(ckpt, n + 1)
      BY <2>3 DEF WriteSection
    <2>5. n + 1 \in 0 .. PlannedSections(ckpt)
      BY <2>1, <2>4, SourceTypes
    <2>6. \A i \in 1 .. n + 1 : SectionWritable(ckpt, i)
      <3> TAKE i \in 1 .. n + 1
      <3>1. i \in 1 .. n \/ i = n + 1
        OBVIOUS
      <3> QED BY <2>2, <2>4, <3>1
    <2>7. \E m \in 0 .. PlannedSections(ckpt) :
             partial' = Written(ckpt, m) /\ \A i \in 1 .. m : SectionWritable(ckpt, i)
      BY <2>4, <2>5, <2>6
    <2> QED BY <2>1, <2>7 DEF UnderWay, Committed
  <1>3. Answers'
    BY DEF ConvertInv, Answers, WriteSection
  <1> QED BY <1>1, <1>2, <1>3 DEF ConvertInv

(* The last check cannot fail: the file is as long as planned. *)
LEMMA SyncSafe ==
    ASSUME ConvertInv, Sync
    PROVE  ConvertInv'
  <1>1. ckpt \in Source /\ Converts(ckpt) /\ stage = "writing"
    BY DEF ConvertInv, UnderWay, Committed, Sync
  <1>2. PICK n \in 0 .. PlannedSections(ckpt) :
           partial = Written(ckpt, n) /\ \A i \in 1 .. n : SectionWritable(ckpt, i)
    BY <1>1 DEF ConvertInv, UnderWay
  <1>3. n = PlannedSections(ckpt) /\ partial.sections = n
    BY <1>2 DEF Sync, Written
  <1>4. SizeAsPlanned(ckpt, partial.sections)
    BY <1>1, <1>3, SourceTypes
  <1>5. /\ unsynced' = unsynced \ {"partial"} /\ stage' = "synced"
        /\ UNCHANGED <<result, partial, output, tokenizer, replaced, killed, ckpt, report>>
    BY <1>4 DEF Sync
  <1>6. partial = FullFile(ckpt) /\ AllWritable(ckpt)
    BY <1>2, <1>3 DEF FullFile, AllWritable
  <1>7. FilesInv'
    <2>1. FullFile(ckpt) \in Complete
      BY <1>1, FinishedComplete
    <2> QED BY <1>5, <1>6, <2>1 DEF ConvertInv, FilesInv, Complete, FullFile, Written
  <1>8. UnderWay'
    BY <1>1, <1>5, <1>6 DEF UnderWay, Committed, AllWritable, FullFile, Written
  <1>9. Answers'
    BY <1>1, <1>5 DEF ConvertInv, Answers
  <1> QED BY <1>7, <1>8, <1>9 DEF ConvertInv

(* A complete and synced file becomes the output. *)
LEMMA RenameSafe ==
    ASSUME ConvertInv, Rename
    PROVE  ConvertInv'
  <1>1. /\ ckpt \in Source /\ Converts(ckpt) /\ stage = "synced"
        /\ partial = FullFile(ckpt) /\ "partial" \notin unsynced /\ AllWritable(ckpt)
    BY DEF ConvertInv, UnderWay, Committed, Rename
  <1>2. FullFile(ckpt) \in Complete
    BY <1>1, FinishedComplete
  <1>3. /\ output' = FullFile(ckpt) /\ partial' = Absent /\ unsynced' = Renamed(unsynced)
        /\ replaced' = replaced \cup {output} /\ stage' = "renamed"
        /\ UNCHANGED <<ckpt, report, result, tokenizer, killed>>
    BY <1>1 DEF Rename
  <1>4. FilesInv'
    <2>1. "output" \notin Renamed(unsynced)
      BY <1>1 DEF Renamed
    <2> QED BY <1>2, <1>3, <2>1 DEF ConvertInv, FilesInv, Complete, FullFile, Written
  <1>5. UnderWay'
    BY <1>1, <1>3 DEF UnderWay, Committed, AllWritable, FullFile, Written
  <1>6. Answers'
    BY <1>1, <1>3 DEF ConvertInv, Answers
  <1> QED BY <1>4, <1>5, <1>6 DEF ConvertInv

(* A tokenizer that is there ends the conversion if it is the checkpoint's. *)
LEMMA TokenizerThereSafe ==
    ASSUME ConvertInv, TokenizerThere
    PROVE  ConvertInv'
  <1>1. /\ stage = "renamed" /\ ckpt \in Source /\ Converts(ckpt) /\ output = FullFile(ckpt)
        /\ AllWritable(ckpt)
    BY DEF ConvertInv, UnderWay, Committed, TokenizerThere
  <1>2. CASE tokenizer = ckpt.tok
    <2>1. stage' = "idle" /\ result' = "ok" /\ UNCHANGED <<ckpt, report, disk>>
      BY <1>2 DEF TokenizerThere, End
    <2>2. FilesInv'
      BY <1>1, <2>1 DEF ConvertInv, FilesInv, disk, Complete, FullFile, Written
    <2>3. UnderWay'
      BY <2>1 DEF UnderWay, Committed
    <2>4. Answers'
      BY <1>1, <1>2, <2>1 DEF ConvertInv, Answers, disk, AllWritable, FullFile, Written
    <2> QED BY <2>2, <2>3, <2>4 DEF ConvertInv
  <1>3. CASE tokenizer # ckpt.tok
    <2>1. End("tokenizer refused") /\ UNCHANGED <<ckpt, report, disk, started, crashes>>
      BY <1>3 DEF TokenizerThere
    <2> QED BY <1>1, <2>1, QuietEnd
  <1> QED BY <1>2, <1>3

(* The copy of the tokenizer starts. *)
LEMMA CopyTokenizerSafe ==
    ASSUME ConvertInv, CopyTokenizer
    PROVE  ConvertInv'
  <1>1. FilesInv'
    BY DEF ConvertInv, FilesInv, CopyTokenizer, Complete, FullFile, Written
  <1>2. UnderWay'
    BY DEF ConvertInv, UnderWay, Committed, CopyTokenizer, AllWritable, FullFile, Written
  <1>3. Answers'
    BY DEF ConvertInv, Answers, CopyTokenizer
  <1> QED BY <1>1, <1>2, <1>3 DEF ConvertInv

(* The copy of the tokenizer ends the conversion. *)
LEMMA TokenizerCopiedSafe ==
    ASSUME ConvertInv, TokenizerCopied
    PROVE  ConvertInv'
  <1>1. /\ stage = "copying" /\ ckpt \in Source /\ Converts(ckpt) /\ output = FullFile(ckpt)
        /\ AllWritable(ckpt)
    BY DEF ConvertInv, UnderWay, Committed, TokenizerCopied
  <1>2. /\ stage' = "idle" /\ result' = "ok" /\ tokenizer' = ckpt.tok
        /\ UNCHANGED <<ckpt, report, partial, output, unsynced, replaced, killed>>
    BY DEF TokenizerCopied, End
  <1>3. FilesInv'
    BY <1>1, <1>2 DEF ConvertInv, FilesInv, Complete, FullFile, Written
  <1>4. UnderWay'
    BY <1>2 DEF UnderWay, Committed
  <1>5. Answers'
    BY <1>1, <1>2 DEF ConvertInv, Answers, AllWritable, FullFile, Written
  <1> QED BY <1>3, <1>4, <1>5 DEF ConvertInv

(* A kill leaves whatever is on the disk. *)
LEMMA KillSafe ==
    ASSUME ConvertInv, Kill
    PROVE  ConvertInv'
  <1>1. FilesInv'
    BY DEF ConvertInv, FilesInv, Kill, Complete, FullFile, Written
  <1>2. UnderWay'
    BY DEF ConvertInv, UnderWay, Committed, Kill
  <1>3. Answers'
    BY ConvertAssumption DEF ConvertInv, Answers, Kill
  <1> QED BY <1>1, <1>2, <1>3 DEF ConvertInv

(* A power loss tears only what was not synced, and undoes a rename only to what
   was there before it. *)
LEMMA PowerLossSafe ==
    ASSUME ConvertInv, PowerLoss
    PROVE  ConvertInv'
  <1>1. AfterPowerLoss("output", output) = {output}
    BY DEF ConvertInv, FilesInv, AfterPowerLoss
  <1>2. output' = output \/ output' \in replaced
    BY <1>1 DEF PowerLoss
  <1>3. FilesInv'
    BY <1>2 DEF ConvertInv, FilesInv, PowerLoss, Complete, FullFile, Written
  <1>4. UnderWay'
    BY DEF ConvertInv, UnderWay, Committed, PowerLoss
  <1>5. Answers'
    BY ConvertAssumption DEF ConvertInv, Answers, PowerLoss
  <1> QED BY <1>3, <1>4, <1>5 DEF ConvertInv

(* Every step keeps the invariant. *)
LEMMA ConvertSteps ==
    ASSUME ConvertInv, [ConvertNext]_convertVars
    PROVE  ConvertInv'
  <1>1. CASE UNCHANGED convertVars
    <2>1. UNCHANGED <<ckpt, stage, report, result, partial, output, tokenizer, unsynced, replaced,
                      killed>>
      BY <1>1 DEF convertVars, disk
    <2>2. FilesInv'
      BY <2>1 DEF ConvertInv, FilesInv, Complete, FullFile, Written
    <2>3. UnderWay'
      BY <2>1 DEF ConvertInv, UnderWay, Committed, AllWritable, FullFile, Written
    <2>4. Answers'
      BY <2>1 DEF ConvertInv, Answers, AllWritable, FullFile, Written
    <2> QED BY <2>2, <2>3, <2>4 DEF ConvertInv
  <1>2. CASE \E k \in Source : Choose(k)
    BY <1>2, ChooseSafe
  <1>3. CASE Inspect
    BY <1>3, InspectSafe
  <1>4. CASE Refuse
    <2>1. stage # "writing" /\ End("refused") /\ UNCHANGED <<ckpt, report, disk, started, crashes>>
      BY <1>4 DEF Refuse
    <2> QED BY <2>1, QuietEnd
  <1>5. CASE NoTokenizer
    <2>1. stage # "writing" /\ End("no tokenizer") /\ UNCHANGED <<ckpt, report, disk, started, crashes>>
      BY <1>5 DEF NoTokenizer
    <2> QED BY <2>1, QuietEnd
  <1>6. CASE NoRoom
    <2>1. stage # "writing" /\ End("no room") /\ UNCHANGED <<ckpt, report, disk, started, crashes>>
      BY <1>6 DEF NoRoom
    <2> QED BY <2>1, QuietEnd
  <1>7. CASE CannotCreate
    BY <1>7, RemovedEnd DEF CannotCreate
  <1>8. CASE Create
    BY <1>8, CreateSafe
  <1>9. CASE WriteSection
    BY <1>9, WriteSectionSafe
  <1>10. CASE FailWriting
    BY <1>10, RemovedEnd DEF FailWriting
  <1>11. CASE Sync
    BY <1>11, SyncSafe
  <1>12. CASE Rename
    BY <1>12, RenameSafe
  <1>13. CASE RenameFails
    <2>1. stage # "writing" /\ End("rename failed") /\ UNCHANGED <<ckpt, report, disk, started, crashes>>
      BY <1>13 DEF RenameFails
    <2> QED BY <2>1, QuietEnd
  <1>14. CASE TokenizerThere
    BY <1>14, TokenizerThereSafe
  <1>15. CASE CopyTokenizer
    BY <1>15, CopyTokenizerSafe
  <1>16. CASE TokenizerCopied
    BY <1>16, TokenizerCopiedSafe
  <1>17. CASE TokenizerFails
    <2>1. stage # "writing" /\ End("tokenizer failed") /\ UNCHANGED <<ckpt, report, disk, started, crashes>>
      BY <1>17 DEF TokenizerFails
    <2> QED BY <2>1, QuietEnd
  <1>18. CASE Kill
    BY <1>18, KillSafe
  <1>19. CASE PowerLoss
    BY <1>19, PowerLossSafe
  <1> QED BY <1>1, <1>2, <1>3, <1>4, <1>5, <1>6, <1>7, <1>8, <1>9, <1>10, <1>11, <1>12, <1>13,
             <1>14, <1>15, <1>16, <1>17, <1>18, <1>19 DEF ConvertNext

(* The invariant holds of every conversion. *)
LEMMA ConvertInvariant == ConvertSpec => []ConvertInv
  <1> QED BY ConvertStarts, ConvertSteps, PTL DEF ConvertSpec

(* What lies at the output path is, at any moment, no file or one complete   *)
(* file, the old one or the new: no write that fails, no kill and no loss of *)
(* power leaves a part of one there, since convert_with_progress writes a    *)
(* partial file beside it, syncs that, and only then renames it.  Nor does a *)
(* conversion that ends by itself leave a part of one as that partial file.  *)
THEOREM WholeOutput == ConvertSpec => []OnlyWholeFiles
  <1>1. ConvertInv => OnlyWholeFiles
    BY CompleteIs DEF ConvertInv, FilesInv, OnlyWholeFiles
  <1> QED BY <1>1, ConvertInvariant, PTL

(* The sizes planned are those of the file a conversion ends with: planner   *)
(* and writer go through the layers of every architecture in the same steps, *)
(* so the check at the end of convert_with_progress never fails; and what    *)
(* preflight reported before a conversion that succeeds, its verdict and     *)
(* with the weights at hand the version, the sections and the bytes, is so.  *)
THEOREM ExactPlan == ConvertSpec => []PlanIsExact
  <1>1. ASSUME ConvertInv PROVE PlanIsExact
    <2>1. result # "wrong size"
      BY <1>1 DEF ConvertInv, Answers
    <2>2. ASSUME result = "ok", report # Absent
          PROVE  /\ report.supported
                 /\ report.weights =>
                       LET f == File(ckpt, PlannedSections(ckpt))
                       IN  report.container[1] = [version  |-> f.header.version,
                                                  sections |-> Len(f.table),
                                                  bytes    |-> FileLen(f)]
      <3>1. ckpt \in Source /\ Converts(ckpt)
        BY <1>1, <2>2 DEF ConvertInv, Answers
      <3>2. PICK w \in BOOLEAN : report = PreflightReport(ckpt, w)
        BY <1>1, <2>2 DEF ConvertInv, Answers
      <3>3. PICK f : f = File(ckpt, PlannedSections(ckpt))
        OBVIOUS
      <3>4. /\ report.supported
            /\ report.weights => report.container[1] = [version |-> f.header.version,
                                                        sections |-> Len(f.table),
                                                        bytes |-> FileLen(f)]
        BY <3>1, <3>2, <3>3, SourceTypes, ReportExact
      <3> QED BY <3>3, <3>4
    <2> QED BY <2>1, <2>2 DEF PlanIsExact
  <1> QED BY <1>1, ConvertInvariant, PTL

-----------------------------------------------------------------------------
(* What is written against what the reader takes it for. *)

(* A run of slots that fits a run of blocks, slot for block. *)
FitsIn(R, b, r) ==
    /\ b \in Seq(BlockSet) /\ r \in Seq(SlotSet) /\ Len(b) = Len(r)
    /\ \A j \in 1 .. Len(b) : <<r[j], b[j]>> \in R

(* Nothing fits nothing. *)
LEMMA FitsNone ==
    ASSUME NEW R
    PROVE  FitsIn(R, <<>>, <<>>)
  <1>1. PICK s : s = <<>>
    OBVIOUS
  <1>2. s \in Seq(BlockSet) /\ s \in Seq(SlotSet) /\ Len(s) = 0
    BY <1>1
  <1> QED BY <1>1, <1>2 DEF FitsIn

(* A slot that fits a block. *)
LEMMA FitsOne ==
    ASSUME NEW R, NEW x \in BlockSet, NEW y \in SlotSet, <<y, x>> \in R
    PROVE  FitsIn(R, <<x>>, <<y>>)
  <1>1. PICK b, r : b = <<x>> /\ r = <<y>>
    OBVIOUS
  <1>2. b \in Seq(BlockSet) /\ Len(b) = 1 /\ b[1] = x
    BY <1>1
  <1>3. r \in Seq(SlotSet) /\ Len(r) = 1 /\ r[1] = y
    BY <1>1
  <1> QED BY <1>1, <1>2, <1>3 DEF FitsIn

(* What fits, joined, fits. *)
LEMMA FitsJoined ==
    ASSUME NEW R, NEW a, NEW b, NEW r, NEW s, FitsIn(R, a, r), FitsIn(R, b, s)
    PROVE  FitsIn(R, a \o b, r \o s)
  <1>1. /\ a \in Seq(BlockSet) /\ b \in Seq(BlockSet) /\ r \in Seq(SlotSet) /\ s \in Seq(SlotSet)
        /\ Len(r) = Len(a) /\ Len(s) = Len(b)
    BY DEF FitsIn
  <1>2. PICK m \in Nat, n \in Nat : m = Len(a) /\ n = Len(b)
    BY <1>1
  <1>3. PICK u, v : u = a \o b /\ v = r \o s
    OBVIOUS
  <1>4. Spliced(BlockSet, a, b, u)
    BY <1>1, <1>3, SetsSized, WeightConcat
  <1>5. Spliced(SlotSet, r, s, v)
    BY <1>1, <1>3, SetsSized, WeightConcat
  <1>6. u \in Seq(BlockSet) /\ v \in Seq(SlotSet) /\ Len(u) = m + n /\ Len(v) = m + n
    BY <1>1, <1>2, <1>4, <1>5 DEF Spliced
  <1>7. ASSUME NEW j \in 1 .. m + n PROVE <<v[j], u[j]>> \in R
    <2>1. CASE j <= m
      <3>1. j \in 1 .. m
        BY <2>1
      <3>2. u[j] = a[j] /\ v[j] = r[j]
        BY <1>1, <1>2, <1>4, <1>5, <3>1 DEF Spliced
      <3> QED BY <1>2, <3>1, <3>2 DEF FitsIn
    <2>2. CASE ~(j <= m)
      <3>1. PICK i \in 1 .. n : j = m + i
        <4>1. j - m \in 1 .. n /\ j = m + (j - m)
          BY <2>2
        <4> QED BY <4>1
      <3>2. u[j] = b[i] /\ v[j] = s[i]
        BY <1>1, <1>2, <1>4, <1>5, <3>1 DEF Spliced
      <3> QED BY <1>2, <3>1, <3>2 DEF FitsIn
    <2> QED BY <2>1, <2>2
  <1> QED BY <1>3, <1>6, <1>7 DEF FitsIn

(* As many runs as there are that fit, flattened, fit. *)
LEMMA FitsFlat ==
    ASSUME NEW R, NEW n \in Nat, NEW ss, NEW rr, ss = [i \in 1 .. n |-> ss[i]],
           rr = [i \in 1 .. n |-> rr[i]], \A i \in 1 .. n : FitsIn(R, ss[i], rr[i])
    PROVE  FitsIn(R, FlattenSeq(ss), FlattenSeq(rr))
  <1>1. Len(ss) = n /\ Len(rr) = n
    OBVIOUS
  <1>2. CASE n = 0
    <2>1. FlattenSeq(ss) = ss /\ FlattenSeq(rr) = rr
      BY <1>1, <1>2 DEF FlattenSeq
    <2>2. ss = <<>> /\ rr = <<>>
      BY <1>2
    <2> QED BY <2>1, <2>2, FitsNone
  <1>3. CASE n # 0
    <2>1. PICK f : Flattens(f, ss, n) /\ FlattenSeq(ss) = f[n]
      BY <1>1, <1>3, FlattenIs
    <2>2. PICK g : Flattens(g, rr, n) /\ FlattenSeq(rr) = g[n]
      BY <1>1, <1>3, FlattenIs
    <2> DEFINE T == {k \in 0 .. n : k > 0 => FitsIn(R, f[k], g[k])}
    <2>3. 0 \in T
      OBVIOUS
    <2>4. ASSUME NEW k \in 1 .. n, k - 1 \in T PROVE k \in T
      <3>1. f[k] = IF k = 1 THEN ss[k] ELSE f[k - 1] \o ss[k]
        BY <2>1 DEF Flattens
      <3>2. g[k] = IF k = 1 THEN rr[k] ELSE g[k - 1] \o rr[k]
        BY <2>2 DEF Flattens
      <3>3. FitsIn(R, ss[k], rr[k])
        OBVIOUS
      <3>4. CASE k = 1
        BY <3>1, <3>2, <3>3, <3>4
      <3>5. CASE k # 1
        <4>1. FitsIn(R, f[k - 1], g[k - 1])
          BY <2>4, <3>5
        <4>2. FitsIn(R, f[k - 1] \o ss[k], g[k - 1] \o rr[k])
          BY <3>3, <4>1, FitsJoined
        <4>3. f[k] = f[k - 1] \o ss[k] /\ g[k] = g[k - 1] \o rr[k]
          BY <3>1, <3>2, <3>5
        <4>4. FitsIn(R, f[k], g[k])
          BY <4>2, <4>3
        <4> QED BY <4>4
      <3> QED BY <3>4, <3>5
    <2>5. \A k \in 0 .. n : k \in T
      <3> HIDE DEF T
      <3> QED BY <2>3, <2>4, Climb
    <2> QED BY <1>3, <2>1, <2>2, <2>5
  <1> QED BY <1>2, <1>3

(* As many bytes, the same kind of bytes, and the tensor that plays the role in
   the checkpoint's own model. *)
Plays(k, t, role) ==
    Role(k, t.name) = role /\ t.plusOne = (IsGemma(k) /\ t.name \in NormTensors)

(* Slot and block of one size and part, of a tensor that plays the role it   *)
(* is read in.                                                               *)
AlikeIn(k, e) ==
    {p \in SlotSet \X BlockSet :
        /\ p[1].bytes = p[2].bytes /\ p[2].part = p[1].part
        /\ p[2].tensor.layer = p[1].layer /\ Plays(k, p[2].tensor, p[1].role)
        /\ p[2].tensor.expert = e /\ p[1].expert = 0}

(* The block holds what the slot is for. *)
HoldsIn(k) ==
    {p \in SlotSet \X BlockSet : p[1].bytes = p[2].bytes /\ Holds(k, p[1], p[2])}

(* Without experts, alike is enough. *)
LEMMA AlikeHolds ==
    ASSUME NEW k, NEW b, NEW r, FitsIn(AlikeIn(k, 0), b, r)
    PROVE  FitsIn(HoldsIn(k), b, r)
  <1>1. ASSUME NEW p \in AlikeIn(k, 0) PROVE p \in HoldsIn(k)
    BY DEF AlikeIn, HoldsIn, Holds, Plays
  <1> QED BY <1>1 DEF FitsIn

(* An expert's blocks hold what its slots are for, once they are numbered. *)
LEMMA ExpertHolds ==
    ASSUME NEW k, NEW e \in Nat, NEW b, NEW r, FitsIn(AlikeIn(k, e), b, r),
           NEW s, s = [j \in DOMAIN r |-> [r[j] EXCEPT !.expert = e]]
    PROVE  FitsIn(HoldsIn(k), b, s)
  <1>1. b \in Seq(BlockSet) /\ r \in Seq(SlotSet) /\ Len(b) = Len(r)
    BY DEF FitsIn
  <1>2. PICK n \in Nat : n = Len(r) /\ DOMAIN r = 1 .. n
    BY <1>1
  <1>3. ASSUME NEW j \in 1 .. n PROVE s[j] \in SlotSet /\ <<s[j], b[j]>> \in HoldsIn(k)
    <2>1. PICK x, y : x = r[j] /\ y = b[j]
      OBVIOUS
    <2>2. <<x, y>> \in AlikeIn(k, e)
      BY <1>1, <1>2, <2>1 DEF FitsIn
    <2>3. /\ x \in SlotSet /\ y \in BlockSet /\ x.bytes = y.bytes /\ y.part = x.part
          /\ y.tensor.layer = x.layer /\ Plays(k, y.tensor, x.role) /\ y.tensor.expert = e
      BY <2>2 DEF AlikeIn
    <2>4. PICK z : z = [x EXCEPT !.expert = e]
      OBVIOUS
    <2>5. /\ z \in SlotSet /\ z.bytes = x.bytes /\ z.part = x.part /\ z.layer = x.layer
          /\ z.role = x.role /\ z.expert = e
      BY <2>3, <2>4 DEF SlotSet
    <2>6. Holds(k, z, y)
      BY <2>3, <2>5 DEF Holds, Plays
    <2>7. <<z, y>> \in HoldsIn(k)
      BY <2>3, <2>5, <2>6 DEF HoldsIn
    <2>8. s[j] = z
      BY <1>2, <2>1, <2>4
    <2> QED BY <2>1, <2>5, <2>7, <2>8
  <1>4. s \in Seq(SlotSet) /\ Len(s) = n
    <2>1. s = [j \in 1 .. n |-> s[j]]
      BY <1>2
    <2>2. s \in [1 .. n -> SlotSet]
      BY <1>3, <2>1
    <2> QED BY <2>2
  <1> QED BY <1>1, <1>2, <1>3, <1>4 DEF FitsIn

(* Three joined one by one. *)
LEMMA ThreeJoined ==
    ASSUME NEW a, NEW b, NEW d
    PROVE  <<a>> \o <<b>> \o <<d>> = <<a, b, d>>
  <1>1. PICK S : a \in S /\ b \in S /\ d \in S
    <2>1. a \in {a, b, d} /\ b \in {a, b, d} /\ d \in {a, b, d}
      OBVIOUS
    <2> QED BY <2>1
  <1>2. PICK x, y, z : x = <<a>> /\ y = <<b>> /\ z = <<d>>
    OBVIOUS
  <1>3. /\ x \in Seq(S) /\ y \in Seq(S) /\ z \in Seq(S)
        /\ Len(x) = 1 /\ x[1] = a /\ Len(y) = 1 /\ y[1] = b /\ Len(z) = 1 /\ z[1] = d
    BY <1>1, <1>2
  <1>4. PICK u : u = x \o y
    OBVIOUS
  <1>5. u \in Seq(S) /\ Len(u) = 2 /\ u[1] = a /\ u[2] = b
    <2>1. /\ u \in Seq(S) /\ Len(u) = Len(x) + Len(y)
          /\ \A i \in 1 .. Len(x) + Len(y) : u[i] = IF i <= Len(x) THEN x[i] ELSE y[i - Len(x)]
      BY <1>3, <1>4, ConcatProperties
    <2>2. Len(u) = 2 /\ \A i \in 1 .. 2 : u[i] = IF i <= 1 THEN x[i] ELSE y[i - 1]
      BY <1>3, <2>1
    <2>3. u[1] = x[1] /\ u[2] = y[1]
      BY <2>2
    <2> QED BY <1>3, <2>1, <2>2, <2>3
  <1>6. PICK v : v = u \o z
    OBVIOUS
  <1>7. v \in Seq(S) /\ Len(v) = 3 /\ v[1] = a /\ v[2] = b /\ v[3] = d
    <2>1. /\ v \in Seq(S) /\ Len(v) = Len(u) + Len(z)
          /\ \A i \in 1 .. Len(u) + Len(z) : v[i] = IF i <= Len(u) THEN u[i] ELSE z[i - Len(u)]
      BY <1>3, <1>5, <1>6, ConcatProperties
    <2>2. Len(v) = 3 /\ \A i \in 1 .. 3 : v[i] = IF i <= 2 THEN u[i] ELSE z[i - 2]
      BY <1>3, <1>5, <2>1
    <2>3. v[1] = u[1] /\ v[2] = u[2] /\ v[3] = z[1]
      BY <2>2
    <2> QED BY <1>3, <1>5, <2>1, <2>2, <2>3
  <1>8. PICK w : w = <<a, b, d>>
    OBVIOUS
  <1>9. w \in Seq(S) /\ Len(w) = 3 /\ w[1] = a /\ w[2] = b /\ w[3] = d
    BY <1>1, <1>8
  <1>10. v = w
    <2>1. \A i \in 1 .. Len(v) : v[i] = w[i]
      <3>1. \A i \in 1 .. 3 : i = 1 \/ i = 2 \/ i = 3
        OBVIOUS
      <3> QED BY <1>7, <1>9, <3>1
    <2> QED BY <1>7, <1>9, <2>1, SeqEqual
  <1> QED BY <1>2, <1>4, <1>6, <1>8, <1>10

(* A matrix is read as it is written: the same parts in the same order and   *)
(* sizes.                                                                    *)
LEMMA MatrixFits ==
    ASSUME NEW k, NEW e \in Nat, NEW t \in Tensors, t.expert = e, NEW role \in Roles, Plays(k, t, role),
           NEW r \in Pos, NEW n \in Pos, Even(n), NEW g \in Pos, NEW d, d = Dim(r, n)
    PROVE  FitsIn(AlikeIn(k, e), WriteMatrix(t, d, g), ReadLinear(t.layer, role, d, g))
  <1>1. d.rows = r /\ d.cols = n
    BY DEF Dim
  <1>2. PICK p \in Nat : p = ParamBytes(d, g)
    BY ParamBytesType DEF Pos
  <1>3. PICK q \in Nat : q = r * (n \div 2) /\ DivCeil(r * n, 2) = q
    BY CodesAgree
  <1>4. <<"dims", r, n>> \in Parts /\ <<"params">> \in Parts /\ <<"codes">> \in Parts
    <2>1. <<"dims", r, n>> \in Parts
      <3>1. <<r, n>> \in Nat \X Nat /\ <<r, n>>[1] = r /\ <<r, n>>[2] = n
        BY DEF Pos
      <3> QED BY <3>1 DEF Parts
    <2> QED BY <2>1 DEF Parts
  <1>5. t.layer \in Nat
    BY DEF Tensors
  <1>6. ASSUME NEW part \in Parts, NEW m \in Nat
        PROVE  FitsIn(AlikeIn(k, e), <<Block(t, part, m)>>, <<Slot(t.layer, role, part, m)>>)
    <2>1. PICK x, y : x = Block(t, part, m) /\ y = Slot(t.layer, role, part, m)
      OBVIOUS
    <2>2. x \in BlockSet /\ x.tensor = t /\ x.part = part /\ x.bytes = m
      BY <2>1 DEF Block, BlockSet
    <2>3. /\ y \in SlotSet /\ y.layer = t.layer /\ y.role = role /\ y.expert = 0 /\ y.part = part
          /\ y.bytes = m
      BY <1>5, <2>1 DEF Slot, SlotSet
    <2>4. <<y, x>> \in AlikeIn(k, e)
      BY <2>2, <2>3 DEF AlikeIn
    <2> QED BY <2>1, <2>2, <2>3, <2>4, FitsOne
  <1>7. PICK x, y, z : /\ x = Block(t, <<"dims", r, n>>, 8) /\ y = Block(t, <<"params">>, p)
                       /\ z = Block(t, <<"codes">>, q)
    OBVIOUS
  <1>8. PICK u, v, w : /\ u = Slot(t.layer, role, <<"dims", r, n>>, 8)
                       /\ v = Slot(t.layer, role, <<"params">>, p)
                       /\ w = Slot(t.layer, role, <<"codes">>, q)
    OBVIOUS
  <1>9. WriteMatrix(t, d, g) = <<x, y, z>> /\ ReadLinear(t.layer, role, d, g) = <<u, v, w>>
    BY <1>1, <1>2, <1>3, <1>7, <1>8 DEF WriteMatrix, ReadLinear
  <1>10. /\ FitsIn(AlikeIn(k, e), <<x>>, <<u>>) /\ FitsIn(AlikeIn(k, e), <<y>>, <<v>>)
         /\ FitsIn(AlikeIn(k, e), <<z>>, <<w>>)
    BY <1>4, <1>6, <1>7, <1>8
  <1>11. FitsIn(AlikeIn(k, e), <<x>> \o <<y>> \o <<z>>, <<u>> \o <<v>> \o <<w>>)
    <2>1. FitsIn(AlikeIn(k, e), <<x>> \o <<y>>, <<u>> \o <<v>>)
      BY <1>10, FitsJoined
    <2> QED BY <1>10, <2>1, FitsJoined
  <1>12. <<x>> \o <<y>> \o <<z>> = <<x, y, z>> /\ <<u>> \o <<v>> \o <<w>> = <<u, v, w>>
    BY ThreeJoined
  <1> QED BY <1>9, <1>11, <1>12

(* So is a vector. *)
LEMMA VectorFits ==
    ASSUME NEW k, NEW t \in Tensors, t.expert = 0, NEW role \in Roles, Plays(k, t, role), NEW n \in Nat
    PROVE  FitsIn(AlikeIn(k, 0), WriteVector(t, n), TakeVector(t.layer, role, n))
  <1>1. PICK x, y : x = Block(t, <<"f32">>, n * 4) /\ y = Slot(t.layer, role, <<"f32">>, n * 4)
    OBVIOUS
  <1>2. <<"f32">> \in Parts /\ n * 4 \in Nat /\ t.layer \in Nat
    BY DEF Parts, Tensors
  <1>3. x \in BlockSet /\ x.tensor = t /\ x.part = <<"f32">> /\ x.bytes = n * 4
    BY <1>1, <1>2 DEF Block, BlockSet
  <1>4. /\ y \in SlotSet /\ y.layer = t.layer /\ y.role = role /\ y.expert = 0 /\ y.part = <<"f32">>
        /\ y.bytes = n * 4
    BY <1>1, <1>2 DEF Slot, SlotSet
  <1>5. <<y, x>> \in AlikeIn(k, 0)
    BY <1>3, <1>4 DEF AlikeIn
  <1>6. WriteVector(t, n) = <<x>> /\ TakeVector(t.layer, role, n) = <<y>>
    BY <1>1 DEF WriteVector, TakeVector
  <1> QED BY <1>3, <1>4, <1>5, <1>6, FitsOne

-----------------------------------------------------------------------------
(* A layer, as the reader takes it apart. *)

(* What the reader makes of a layer, part by part. *)
ReadLinears(c, l) ==
    [i \in 1 .. 7 |-> ReadLinear(l, Projections[i], ReaderDims(c)[i], c.group)]
(* The biases of a layer. *)
ReadBiases(c, l) ==
    [i \in 1 .. 7 |-> IF i \in c.bias THEN TakeVector(l, Biases[i], ReaderDims(c)[i].rows)
                      ELSE <<>>]
(* Its query and key norms. *)
ReadQk(c, l) ==
    CASE c.qk = "head" -> TakeVector(l, "q_norm", c.headDim) \o TakeVector(l, "k_norm", c.headDim)
      [] c.qk = "full" -> TakeVector(l, "q_norm", AttentionDim(c))
                              \o TakeVector(l, "k_norm", KvDim(c))
      [] OTHER -> <<>>
(* Its sandwich norms. *)
ReadSandwich(c, l) ==
    IF c.sandwich THEN TakeVector(l, "after_attn", c.hidden) \o TakeVector(l, "after_mlp", c.hidden)
    ELSE <<>>
(* The projections of one expert, and slots with the number of theirs. *)
ReadExpertLinears(c, l) ==
    [i \in 1 .. 3 |-> ReadLinear(l, Projections[4 + i], ReaderDims(c)[4 + i], c.group)]
Numbered(slots, e) == [j \in DOMAIN slots |-> [slots[j] EXCEPT !.expert = e]]
(* Its router and the experts behind the first. *)
ReadExperts(c, l) ==
    IF c.experts = 0 THEN <<>>
    ELSE TakeVector(l, "router", c.experts * c.hidden)
             \o FlattenSeq([e \in 1 .. (c.experts - 1) |->
                               Numbered(FlattenSeq(ReadExpertLinears(c, l)), e)])
(* The two norms every layer ends with. *)
ReadTail(c, l) ==
    IF c.postNorm
    THEN TakeVector(l, "after_attn", c.hidden) \o TakeVector(l, "after_mlp", c.hidden)
    ELSE TakeVector(l, "before_attn", c.hidden) \o TakeVector(l, "before_mlp", c.hidden)

(* The reader takes a layer apart into these. *)
LEMMA ReadLayerIs ==
    ASSUME NEW c, NEW l
    PROVE  ReadLayer(c, l)
               = FlattenSeq(ReadLinears(c, l)) \o FlattenSeq(ReadBiases(c, l)) \o ReadQk(c, l)
                     \o ReadSandwich(c, l) \o ReadExperts(c, l) \o ReadTail(c, l)
  BY DEF ReadLayer, ReadLinears, ReadBiases, ReadQk, ReadSandwich, ReadExperts, ReadTail,
         ReadExpertLinears, Numbered

(* Reader and writer have the same dimensions for each projection. *)
LEMMA ReaderDimsAre ==
    ASSUME NEW c
    PROVE  ReaderDims(c) = ProjectionDims(c)
  BY DEF ReaderDims, ProjectionDims

(* Names that are their own roles. *)
Weights == {"embed_tokens", "lm_head", "router", "q", "k", "v", "o", "gate", "up", "down",
            "q_bias", "k_bias", "v_bias", "o_bias", "gate_bias", "up_bias", "down_bias"}

(* Such a tensor plays the role of its name. *)
LEMMA WeightNames ==
    ASSUME NEW name \in Weights
    PROVE  /\ name \in Names \ NormTensors /\ name \in Roles
           /\ \A k : Role(k, name) = name
  <1>1. name \in Names /\ name \in Roles /\ name \notin NormTensors
    BY DEF Weights, Names, Roles, NormTensors
  <1>2. ASSUME NEW k PROVE Role(k, name) = name
    BY DEF Weights, Role
  <1> QED BY <1>1, <1>2

(* A tensor that is no norm plays its role as it is stored. *)
LEMMA WeightPlays ==
    ASSUME NEW k, NEW l \in Nat, NEW name \in Names \ NormTensors
    PROVE  /\ Tensor(l, name) \in Tensors /\ Plays(k, Tensor(l, name), Role(k, name))
           /\ Tensor(l, name).layer = l /\ Tensor(l, name).expert = 0
  <1>1. PICK t \in Tensors : t = Tensor(l, name)
    BY TensorType
  <1>2. t.name = name /\ t.plusOne = FALSE /\ t.layer = l /\ t.expert = 0
    BY <1>1 DEF Tensor
  <1>3. Plays(k, t, Role(k, name))
    BY <1>2 DEF Plays
  <1> QED BY <1>1, <1>2, <1>3

(* A norm plays its role with the fold of its family. *)
LEMMA NormPlays ==
    ASSUME NEW k, NEW l \in Nat, NEW name \in NormTensors
    PROVE  /\ Folded(l, name, IsGemma(k)) \in Tensors
           /\ Plays(k, Folded(l, name, IsGemma(k)), Role(k, name))
           /\ Folded(l, name, IsGemma(k)).layer = l /\ Folded(l, name, IsGemma(k)).expert = 0
  <1>1. name \in Names
    BY DEF NormTensors, Names
  <1>2. PICK b \in BOOLEAN : b = IsGemma(k)
    <2>1. IsGemma(k) = TRUE \/ IsGemma(k) = FALSE
      BY DEF IsGemma
    <2> QED BY <2>1
  <1>3. PICK t \in Tensors : t = Folded(l, name, b)
    BY <1>1, TensorTypes
  <1>4. t.name = name /\ t.plusOne = b /\ t.layer = l /\ t.expert = 0
    BY <1>3 DEF Tensor, Folded
  <1>5. Plays(k, t, Role(k, name))
    BY <1>2, <1>4 DEF Plays
  <1> QED BY <1>2, <1>3, <1>4, <1>5

(* The names of an expert's projections. *)
ExpertNames == {"gate", "up", "down", "w1", "w3", "w2"}

(* The projections of an expert play their roles. *)
LEMMA ExpertPlays ==
    ASSUME NEW k, NEW l \in Nat, NEW e \in Nat, NEW name \in ExpertNames
    PROVE  /\ OfExpert(l, name, e) \in Tensors /\ Plays(k, OfExpert(l, name, e), Role(k, name))
           /\ OfExpert(l, name, e).layer = l /\ OfExpert(l, name, e).expert = e
  <1>1. name \in Names /\ name \notin NormTensors
    BY DEF NormTensors, Names, ExpertNames
  <1>2. PICK t \in Tensors : t = OfExpert(l, name, e)
    BY <1>1, TensorTypes
  <1>3. t.name = name /\ t.plusOne = FALSE /\ t.layer = l /\ t.expert = e
    BY <1>2 DEF Tensor, OfExpert
  <1>4. Plays(k, t, Role(k, name))
    BY <1>1, <1>3 DEF Plays
  <1> QED BY <1>2, <1>3, <1>4

(* The rows read for a projection have its role. *)
LEMMA OriginRole ==
    ASSUME NEW k, Good(k), NEW c, c = ConvertedConfig(k), NEW i \in 1 .. 7
    PROVE  /\ Role(k, Origins(k, c)[i]) = Projections[i]
           /\ Projections[i] \in Roles
           /\ Origins(k, c)[i] \in Names \ NormTensors
           /\ i >= 5 => Origins(k, c)[i] \in ExpertNames
  <1>1. PICK o : o = Origins(k, c)[i]
    OBVIOUS
  <1>2. o = IF k.experts # 0 /\ i >= 5 THEN ExpertTensors(k)[i - 4] ELSE Projections[i]
    BY <1>1, OriginIs DEF Origins
  <1>3. i = 1 \/ i = 2 \/ i = 3 \/ i = 4 \/ i = 5 \/ i = 6 \/ i = 7
    OBVIOUS
  <1>4. Projections[i] \in Weights
    BY <1>3 DEF Weights, Projections
  <1>5. CASE ~(k.experts # 0 /\ i >= 5)
    <2>1. o = Projections[i]
      BY <1>2, <1>5
    <2>2. Role(k, Projections[i]) = Projections[i] /\ Projections[i] \in Names \ NormTensors
      BY <1>4, WeightNames
    <2>3. i >= 5 => Projections[i] \in {"gate", "up", "down"}
      BY <1>3 DEF Projections
    <2>5. i >= 5 => Projections[i] \in ExpertNames
      BY <2>3 DEF ExpertNames
    <2>4. Projections[i] \in Roles
      BY <1>4, WeightNames
    <2> QED BY <1>1, <2>1, <2>2, <2>5, <2>4
  <1>6. CASE k.experts # 0 /\ i >= 5
    <2>1. o = ExpertTensors(k)[i - 4]
      BY <1>2, <1>6
    <2>2. \/ i = 5 /\ Projections[i] = "gate" /\ o \in {"gate", "w1"}
          \/ i = 6 /\ Projections[i] = "up" /\ o \in {"up", "w3"}
          \/ i = 7 /\ Projections[i] = "down" /\ o \in {"down", "w2"}
      BY <1>3, <1>6, <2>1 DEF Projections, ExpertTensors
    <2>3. Role(k, o) = Projections[i]
      BY <2>2 DEF Role
    <2>4. o \in ExpertNames
      BY <2>2 DEF ExpertNames
    <2>5. o \in Names \ NormTensors
      BY <2>4 DEF Names, NormTensors, ExpertNames
    <2>6. Projections[i] \in Roles
      BY <1>4, WeightNames
    <2> QED BY <1>1, <2>3, <2>4, <2>5, <2>6
  <1> QED BY <1>5, <1>6

-----------------------------------------------------------------------------
(* The layer, part by part, fits what the reader makes of it. *)

(* A vector that is no norm is read in the role of its name. *)
LEMMA WeightVector ==
    ASSUME NEW k, NEW l \in Nat, NEW name \in Weights, NEW n \in Nat
    PROVE  FitsIn(HoldsIn(k), WriteVector(Tensor(l, name), n), TakeVector(l, name, n))
  <1>1. name \in Names \ NormTensors /\ name \in Roles /\ Role(k, name) = name
    BY WeightNames
  <1>2. PICK t \in Tensors :
           t = Tensor(l, name) /\ Plays(k, t, name) /\ t.layer = l /\ t.expert = 0
    BY <1>1, WeightPlays
  <1>3. FitsIn(AlikeIn(k, 0), WriteVector(t, n), TakeVector(t.layer, name, n))
    BY <1>1, <1>2, VectorFits
  <1> QED BY <1>2, <1>3, AlikeHolds

(* A norm is read in the role its model gives it. *)
LEMMA NormVector ==
    ASSUME NEW k, NEW l \in Nat, NEW name \in NormTensors, NEW role, role = Role(k, name),
           NEW n \in Nat
    PROVE  FitsIn(HoldsIn(k), WriteVector(Folded(l, name, IsGemma(k)), n), TakeVector(l, role, n))
  <1>1. PICK t \in Tensors :
           t = Folded(l, name, IsGemma(k)) /\ Plays(k, t, role) /\ t.layer = l /\ t.expert = 0
    BY NormPlays
  <1>2. role \in Roles
    BY DEF Role, NormTensors, Roles, Names
  <1>3. FitsIn(AlikeIn(k, 0), WriteVector(t, n), TakeVector(t.layer, role, n))
    BY <1>1, <1>2, VectorFits
  <1> QED BY <1>1, <1>3, AlikeHolds

(* A projection is read as it is written. *)
LEMMA DimsMatrix ==
    ASSUME NEW k, NEW c, Dimensioned(c), NEW i \in 1 .. 7, NEW e \in Nat, NEW t \in Tensors,
           t.expert = e, NEW role \in Roles, Plays(k, t, role)
    PROVE  FitsIn(AlikeIn(k, e), WriteMatrix(t, ProjectionDims(c)[i], c.group),
                  ReadLinear(t.layer, role, ReaderDims(c)[i], c.group))
  <1>1. PICK r \in Pos, n \in Pos : Even(n) /\ ProjectionDims(c)[i] = Dim(r, n)
    BY DimsPackable
  <1>2. PICK d : d = ProjectionDims(c)[i] /\ d = ReaderDims(c)[i]
    BY ReaderDimsAre
  <1>3. PICK g \in Pos : g = c.group
    BY DEF Dimensioned
  <1>4. d = Dim(r, n)
    BY <1>1, <1>2
  <1>5. FitsIn(AlikeIn(k, e), WriteMatrix(t, d, g), ReadLinear(t.layer, role, d, g))
    BY <1>1, <1>4, MatrixFits
  <1> QED BY <1>2, <1>3, <1>5

(* The configuration of a checkpoint that is converted, and where its rows come
   from. *)
Converting(k, c, origin) ==
    Good(k) /\ c = ConvertedConfig(k) /\ Shaped(c) /\ origin = Origins(k, c)

(* The projections, fused or not, are read as they are written. *)
LEMMA LinearsFit ==
    ASSUME NEW k, NEW c, NEW origin, Converting(k, c, origin), NEW l \in Nat
    PROVE  FitsIn(HoldsIn(k), FlattenSeq(WrittenLinears(c, l, origin)), FlattenSeq(ReadLinears(c, l)))
  <1>1. PICK ss, rr : ss = WrittenLinears(c, l, origin) /\ rr = ReadLinears(c, l)
    OBVIOUS
  <1>2. ss = [i \in 1 .. 7 |-> ss[i]] /\ rr = [i \in 1 .. 7 |-> rr[i]]
    BY <1>1 DEF WrittenLinears, ReadLinears
  <1>3. ASSUME NEW i \in 1 .. 7 PROVE FitsIn(HoldsIn(k), ss[i], rr[i])
    <2>1. PICK name, role : name = origin[i] /\ role = Projections[i]
      OBVIOUS
    <2>2. name \in Names \ NormTensors /\ role \in Roles /\ Role(k, name) = role
      BY <2>1, OriginRole DEF Converting
    <2>3. PICK t \in Tensors :
             t = Tensor(l, name) /\ Plays(k, t, role) /\ t.layer = l /\ t.expert = 0
      BY <2>2, WeightPlays
    <2>4. FitsIn(AlikeIn(k, 0), WriteMatrix(t, ProjectionDims(c)[i], c.group),
                 ReadLinear(t.layer, role, ReaderDims(c)[i], c.group))
      <3>1. Dimensioned(c) /\ 0 \in Nat
        BY DEF Converting, Shaped
      <3> QED BY <2>2, <2>3, <3>1, DimsMatrix
    <2>5. ss[i] = WriteMatrix(t, ProjectionDims(c)[i], c.group)
      BY <1>1, <2>1, <2>3 DEF WrittenLinears
    <2>6. rr[i] = ReadLinear(t.layer, role, ReaderDims(c)[i], c.group)
      BY <1>1, <2>1, <2>3 DEF ReadLinears
    <2> QED BY <2>4, <2>5, <2>6, AlikeHolds
  <1>4. FitsIn(HoldsIn(k), FlattenSeq(ss), FlattenSeq(rr))
    BY <1>2, <1>3, FitsFlat
  <1> QED BY <1>1, <1>4

(* So are the biases. *)
LEMMA BiasesFit ==
    ASSUME NEW k, NEW c, NEW origin, Converting(k, c, origin), NEW l \in Nat
    PROVE  FitsIn(HoldsIn(k), FlattenSeq(WrittenBiases(c, l)), FlattenSeq(ReadBiases(c, l)))
  <1>1. PICK ss, rr : ss = WrittenBiases(c, l) /\ rr = ReadBiases(c, l)
    OBVIOUS
  <1>2. ss = [i \in 1 .. 7 |-> ss[i]] /\ rr = [i \in 1 .. 7 |-> rr[i]]
    BY <1>1 DEF WrittenBiases, ReadBiases
  <1>3. ASSUME NEW i \in 1 .. 7 PROVE FitsIn(HoldsIn(k), ss[i], rr[i])
    <2>1. PICK n \in Nat : n = ProjectionDims(c)[i].rows
      BY RowsPositive DEF Converting, Shaped, Pos
    <2>2. n = ReaderDims(c)[i].rows
      BY <2>1, ReaderDimsAre
    <2>3. CASE i \in c.bias
      <3>1. PICK name \in Weights : name = Biases[i]
        <4>1. i = 1 \/ i = 2 \/ i = 3 \/ i = 4 \/ i = 5 \/ i = 6 \/ i = 7
          OBVIOUS
        <4>2. Biases[i] \in Weights
          BY <4>1 DEF Biases, Weights
        <4> QED BY <4>2
      <3>2. ss[i] = WriteVector(Tensor(l, name), n) /\ rr[i] = TakeVector(l, name, n)
        BY <1>1, <2>1, <2>2, <2>3, <3>1 DEF WrittenBiases, ReadBiases
      <3> QED BY <3>2, WeightVector
    <2>4. CASE i \notin c.bias
      <3>1. ss[i] = <<>> /\ rr[i] = <<>>
        BY <1>1, <2>4 DEF WrittenBiases, ReadBiases
      <3> QED BY <3>1, FitsNone
    <2> QED BY <2>3, <2>4
  <1>4. FitsIn(HoldsIn(k), FlattenSeq(ss), FlattenSeq(rr))
    BY <1>2, <1>3, FitsFlat
  <1> QED BY <1>1, <1>4

(* Two norms, one after the other. *)
LEMMA TwoNorms ==
    ASSUME NEW k, NEW l \in Nat, NEW a \in NormTensors, NEW b \in NormTensors, NEW m \in Nat,
           NEW n \in Nat, NEW x, x = Role(k, a), NEW y, y = Role(k, b)
    PROVE  FitsIn(HoldsIn(k),
                  WriteVector(Folded(l, a, IsGemma(k)), m) \o WriteVector(Folded(l, b, IsGemma(k)), n),
                  TakeVector(l, x, m) \o TakeVector(l, y, n))
  BY NormVector, FitsJoined

(* So are the query and key norms. *)
LEMMA QkFits ==
    ASSUME NEW k, NEW c, NEW origin, Converting(k, c, origin), NEW l \in Nat
    PROVE  FitsIn(HoldsIn(k), WrittenQk(c, l, IsGemma(k)), ReadQk(c, l))
  <1>1. PICK a \in NormTensors, b \in NormTensors : a = "q_norm" /\ b = "k_norm"
    BY DEF NormTensors
  <1>2. Role(k, a) = a /\ Role(k, b) = b
    BY <1>1 DEF Role
  <1>3. PICK h \in Nat, m \in Nat, n \in Nat : h = c.headDim /\ m = AttentionDim(c) /\ n = KvDim(c)
    BY HeadSizes DEF Shaped, Converting
  <1>4. CASE c.qk = "none"
    <2>1. WrittenQk(c, l, IsGemma(k)) = <<>> /\ ReadQk(c, l) = <<>>
      BY <1>4 DEF WrittenQk, ReadQk
    <2> QED BY <2>1, FitsNone
  <1>5. CASE c.qk = "head"
    <2>1. QkLens(c)[1] = h /\ QkLens(c)[2] = h
      BY <1>3, <1>5 DEF QkLens
    <2>2. /\ WrittenQk(c, l, IsGemma(k))
                 = WriteVector(Folded(l, a, IsGemma(k)), h) \o WriteVector(Folded(l, b, IsGemma(k)), h)
          /\ ReadQk(c, l) = TakeVector(l, a, h) \o TakeVector(l, b, h)
      BY <1>1, <1>3, <1>5, <2>1 DEF WrittenQk, ReadQk
    <2> QED BY <1>2, <2>2, TwoNorms
  <1>6. CASE c.qk = "full"
    <2>1. QkLens(c)[1] = m /\ QkLens(c)[2] = n
      BY <1>3, <1>6 DEF QkLens
    <2>2. /\ WrittenQk(c, l, IsGemma(k))
                 = WriteVector(Folded(l, a, IsGemma(k)), m) \o WriteVector(Folded(l, b, IsGemma(k)), n)
          /\ ReadQk(c, l) = TakeVector(l, a, m) \o TakeVector(l, b, n)
      BY <1>1, <1>3, <1>6, <2>1 DEF WrittenQk, ReadQk
    <2> QED BY <1>2, <2>2, TwoNorms
  <1> QED BY <1>4, <1>5, <1>6 DEF Converting, Shaped

(* The norms behind attention and perceptron. *)
LEMMA SandwichSet ==
    ToSet(SandwichNormNames) = {"post_attention_layernorm", "post_feedforward_layernorm"}
  <1>1. PICK s : s = SandwichNormNames
    OBVIOUS
  <1>2. /\ DOMAIN s = 1 .. 2 /\ s[1] = "post_attention_layernorm"
        /\ s[2] = "post_feedforward_layernorm"
    BY <1>1 DEF SandwichNormNames
  <1>3. 1 \in 1 .. 2 /\ 2 \in 1 .. 2 /\ \A i \in 1 .. 2 : i = 1 \/ i = 2
    OBVIOUS
  <1>4. {s[i] : i \in DOMAIN s} = {s[1], s[2]}
    BY <1>2, <1>3
  <1> QED BY <1>1, <1>2, <1>4 DEF ToSet

(* The norms are applied where their names say. *)
LEMMA NormRoles ==
    ASSUME NEW k, NEW c, NEW origin, Converting(k, c, origin), NormsRecognised(k)
    PROVE  /\ c.sandwich \/ c.postNorm =>
                 Role(k, "post_attention_layernorm") = "after_attn"
           /\ ~c.sandwich /\ ~c.postNorm =>
                 Role(k, "post_attention_layernorm") = "before_mlp"
  <1>1. c.sandwich = SandwichType(k) /\ c.postNorm = PostNorm(k) /\ c.layers = k.layers
    BY ConvertedIs DEF Converting, ConfigOf
  <1>2. 1 \in 1 .. k.layers
    BY <1>1 DEF Converting, Shaped, Dimensioned, Pos
  <1>3. Converts(k)
    BY DEF Converting, Good
  <1>4. c.sandwich => "post_feedforward_layernorm" \in k.layer[1].norms
    <2>1. c.sandwich => SandwichNormsPresent(k)
      BY <1>1, <1>3 DEF Converts
    <2>2. "post_feedforward_layernorm" \in ToSet(SandwichNormNames)
      BY SandwichSet
    <2> QED BY <1>2, <2>1, <2>2 DEF SandwichNormsPresent
  <1>5. c.postNorm => "post_feedforward_layernorm" \in k.layer[1].norms
    <2>1. PostNormResolves(k)
      BY <1>3 DEF Converts, Resolves
    <2>2. "post_feedforward_layernorm" \in ToSet(SandwichNormNames)
      BY SandwichSet
    <2> QED BY <1>1, <1>2, <2>1, <2>2 DEF PostNormResolves
  <1>6. ~c.sandwich /\ ~c.postNorm => "post_feedforward_layernorm" \notin k.layer[1].norms
    BY <1>1 DEF NormsRecognised
  <1> QED BY <1>4, <1>5, <1>6 DEF Role

-----------------------------------------------------------------------------
(* Norms and experts. *)

(* Which norm is written where. *)
LEMMA NormSets ==
    ASSUME NEW c
    PROVE  /\ SandwichNormNames[1] = "post_attention_layernorm"
           /\ SandwichNormNames[2] = "post_feedforward_layernorm"
           /\ c.postNorm => TailNormNames(c)[1] = "post_attention_layernorm"
                              /\ TailNormNames(c)[2] = "post_feedforward_layernorm"
           /\ ~c.postNorm => TailNormNames(c)[1] = "input_layernorm"
           /\ ~c.postNorm /\ c.sandwich => TailNormNames(c)[2] = "pre_feedforward_layernorm"
           /\ ~c.postNorm /\ ~c.sandwich => TailNormNames(c)[2] = "post_attention_layernorm"
  BY DEF SandwichNormNames, TailNormNames

(* The sandwich norms are read in their roles, where they are recognised. *)
LEMMA SandwichFits ==
    ASSUME NEW k, NEW c, NEW origin, Converting(k, c, origin), NormsRecognised(k), NEW l \in Nat
    PROVE  FitsIn(HoldsIn(k), WrittenSandwich(c, l, IsGemma(k)), ReadSandwich(c, l))
  <1>1. PICK a \in NormTensors, b \in NormTensors :
           a = "post_attention_layernorm" /\ b = "post_feedforward_layernorm"
    BY DEF NormTensors
  <1>2. Role(k, b) = "after_mlp"
    BY <1>1 DEF Role
  <1>3. PICK h \in Nat : h = c.hidden
    BY HeadSizes DEF Shaped, Converting
  <1>4. CASE c.sandwich
    <2>1. Role(k, a) = "after_attn"
      BY <1>1, <1>4, NormRoles
    <2>2. /\ WrittenSandwich(c, l, IsGemma(k))
                 = WriteVector(Folded(l, a, IsGemma(k)), h) \o WriteVector(Folded(l, b, IsGemma(k)), h)
          /\ ReadSandwich(c, l) = TakeVector(l, "after_attn", h) \o TakeVector(l, "after_mlp", h)
      BY <1>1, <1>3, <1>4, NormSets DEF WrittenSandwich, ReadSandwich
    <2> QED BY <1>2, <2>1, <2>2, TwoNorms
  <1>5. CASE ~c.sandwich
    <2>1. WrittenSandwich(c, l, IsGemma(k)) = <<>> /\ ReadSandwich(c, l) = <<>>
      BY <1>5 DEF WrittenSandwich, ReadSandwich
    <2> QED BY <2>1, FitsNone
  <1> QED BY <1>4, <1>5

(* So are the two norms at the end of a layer. *)
LEMMA TailFits ==
    ASSUME NEW k, NEW c, NEW origin, Converting(k, c, origin), NormsRecognised(k), NEW l \in Nat
    PROVE  FitsIn(HoldsIn(k), WrittenTail(c, l, IsGemma(k)), ReadTail(c, l))
  <1>1. PICK a \in NormTensors, b \in NormTensors :
           a = TailNormNames(c)[1] /\ b = TailNormNames(c)[2]
    BY NormSets DEF NormTensors
  <1>2. PICK h \in Nat : h = c.hidden
    BY HeadSizes DEF Shaped, Converting
  <1>3. WrittenTail(c, l, IsGemma(k))
            = WriteVector(Folded(l, a, IsGemma(k)), h) \o WriteVector(Folded(l, b, IsGemma(k)), h)
    BY <1>1, <1>2 DEF WrittenTail
  <1>4. CASE c.postNorm
    <2>1. Role(k, a) = "after_attn"
      BY <1>1, <1>4, NormSets, NormRoles
    <2>2. Role(k, b) = "after_mlp"
      BY <1>1, <1>4, NormSets DEF Role
    <2>3. ReadTail(c, l) = TakeVector(l, "after_attn", h) \o TakeVector(l, "after_mlp", h)
      BY <1>2, <1>4 DEF ReadTail
    <2> QED BY <1>3, <2>1, <2>2, <2>3, TwoNorms
  <1>5. CASE ~c.postNorm
    <2>1. Role(k, a) = "before_attn"
      BY <1>1, <1>5, NormSets DEF Role
    <2>2. Role(k, b) = "before_mlp"
      <3>1. CASE c.sandwich
        BY <1>1, <1>5, <3>1, NormSets DEF Role
      <3>2. CASE ~c.sandwich
        BY <1>1, <1>5, <3>2, NormSets, NormRoles
      <3> QED BY <3>1, <3>2
    <2>3. ReadTail(c, l) = TakeVector(l, "before_attn", h) \o TakeVector(l, "before_mlp", h)
      BY <1>2, <1>5 DEF ReadTail
    <2> QED BY <1>3, <2>1, <2>2, <2>3, TwoNorms
  <1> QED BY <1>4, <1>5

(* An expert is read as it is written. *)
LEMMA ExpertFits ==
    ASSUME NEW k, NEW c, NEW origin, Converting(k, c, origin), NEW l \in Nat, NEW e \in Nat
    PROVE  FitsIn(HoldsIn(k), FlattenSeq(ExpertMatrices(c, l, origin, e)),
                  Numbered(FlattenSeq(ReadExpertLinears(c, l)), e))
  <1>1. PICK ss, rr : ss = ExpertMatrices(c, l, origin, e) /\ rr = ReadExpertLinears(c, l)
    OBVIOUS
  <1>2. ss = [i \in 1 .. 3 |-> ss[i]] /\ rr = [i \in 1 .. 3 |-> rr[i]]
    BY <1>1 DEF ExpertMatrices, ReadExpertLinears
  <1>3. ASSUME NEW j \in 1 .. 3 PROVE FitsIn(AlikeIn(k, e), ss[j], rr[j])
    <2>0. PICK i \in 1 .. 7 : i = 4 + j /\ i >= 5
      <3>1. 4 + j \in 1 .. 7 /\ 4 + j >= 5
        OBVIOUS
      <3> QED BY <3>1
    <2>1. PICK name, role : name = origin[i] /\ role = Projections[i]
      OBVIOUS
    <2>2. /\ name \in ExpertNames /\ role \in Roles
          /\ Role(k, name) = role
      BY <2>0, <2>1, OriginRole DEF Converting
    <2>3. PICK t \in Tensors :
             t = OfExpert(l, name, e) /\ Plays(k, t, role) /\ t.layer = l /\ t.expert = e
      BY <2>2, ExpertPlays
    <2>4. FitsIn(AlikeIn(k, e), WriteMatrix(t, ProjectionDims(c)[i], c.group),
                 ReadLinear(t.layer, role, ReaderDims(c)[i], c.group))
      <3>1. Dimensioned(c)
        BY DEF Converting, Shaped
      <3> QED BY <2>2, <2>3, <3>1, DimsMatrix
    <2>5. ss[j] = WriteMatrix(t, ProjectionDims(c)[i], c.group)
      BY <1>1, <2>0, <2>1, <2>3 DEF ExpertMatrices
    <2>6. rr[j] = ReadLinear(t.layer, role, ReaderDims(c)[i], c.group)
      BY <1>1, <2>0, <2>1, <2>3 DEF ReadExpertLinears
    <2> QED BY <2>4, <2>5, <2>6
  <1>4. FitsIn(AlikeIn(k, e), FlattenSeq(ss), FlattenSeq(rr))
    <2>1. 3 \in Nat
      OBVIOUS
    <2> QED BY <1>2, <1>3, <2>1, FitsFlat
  <1>5. PICK r, s : r = FlattenSeq(rr) /\ s = Numbered(r, e)
    OBVIOUS
  <1>6. s = [j \in DOMAIN r |-> [r[j] EXCEPT !.expert = e]]
    BY <1>5 DEF Numbered
  <1>7. FitsIn(HoldsIn(k), FlattenSeq(ss), s)
    BY <1>4, <1>5, <1>6, ExpertHolds
  <1> QED BY <1>1, <1>5, <1>7

(* So are the router and all experts. *)
LEMMA ExpertsFit ==
    ASSUME NEW k, NEW c, NEW origin, Converting(k, c, origin), NEW l \in Nat
    PROVE  FitsIn(HoldsIn(k), WrittenExperts(c, l, origin), ReadExperts(c, l))
  <1>1. CASE c.experts = 0
    <2>1. WrittenExperts(c, l, origin) = <<>> /\ ReadExperts(c, l) = <<>>
      BY <1>1 DEF WrittenExperts, ReadExperts
    <2> QED BY <2>1, FitsNone
  <1>2. CASE c.experts # 0
    <2>1. PICK m \in Nat : m = c.experts - 1
      BY <1>2 DEF Shaped, Converting
    <2>2. PICK ss, rr :
             /\ ss = [e \in 1 .. m |-> FlattenSeq(ExpertMatrices(c, l, origin, e))]
             /\ rr = [e \in 1 .. m |-> Numbered(FlattenSeq(ReadExpertLinears(c, l)), e)]
      OBVIOUS
    <2>3. ss = [e \in 1 .. m |-> ss[e]] /\ rr = [e \in 1 .. m |-> rr[e]]
      BY <2>2
    <2>4. ASSUME NEW e \in 1 .. m PROVE FitsIn(HoldsIn(k), ss[e], rr[e])
      <3>1. e \in Nat
        OBVIOUS
      <3> QED BY <2>2, <3>1, ExpertFits
    <2>5. FitsIn(HoldsIn(k), FlattenSeq(ss), FlattenSeq(rr))
      BY <2>3, <2>4, FitsFlat
    <2>6. PICK n \in Nat : n = c.experts * c.hidden
      <3>1. c.experts \in Nat /\ c.hidden \in Nat
        BY HeadSizes DEF Shaped, Converting
      <3> QED BY <3>1, Products
    <2>7. FitsIn(HoldsIn(k), WriteVector(Tensor(l, "router"), n), TakeVector(l, "router", n))
      <3>1. "router" \in Weights
        BY DEF Weights
      <3> QED BY <3>1, WeightVector
    <2>8. /\ WrittenExperts(c, l, origin) = WriteVector(Tensor(l, "router"), n) \o FlattenSeq(ss)
          /\ ReadExperts(c, l) = TakeVector(l, "router", n) \o FlattenSeq(rr)
      BY <1>2, <2>1, <2>2, <2>6 DEF WrittenExperts, ReadExperts
    <2> QED BY <2>5, <2>7, <2>8, FitsJoined
  <1> QED BY <1>1, <1>2

(* What the reader takes of a layer is what the writer put there. *)
LEMMA LayerFits ==
    ASSUME NEW k, NEW c, NEW origin, Converting(k, c, origin), NormsRecognised(k), NEW l \in Nat
    PROVE  FitsIn(HoldsIn(k), WriteLayer(c, l, IsGemma(k), origin), ReadLayer(c, l))
  <1>1. PICK a, b, d, e, f, g :
           /\ a = FlattenSeq(WrittenLinears(c, l, origin)) /\ b = FlattenSeq(WrittenBiases(c, l))
           /\ d = WrittenQk(c, l, IsGemma(k)) /\ e = WrittenSandwich(c, l, IsGemma(k))
           /\ f = WrittenExperts(c, l, origin) /\ g = WrittenTail(c, l, IsGemma(k))
    OBVIOUS
  <1>2. PICK u, v, w, x, y, z :
           /\ u = FlattenSeq(ReadLinears(c, l)) /\ v = FlattenSeq(ReadBiases(c, l)) /\ w = ReadQk(c, l)
           /\ x = ReadSandwich(c, l) /\ y = ReadExperts(c, l) /\ z = ReadTail(c, l)
    OBVIOUS
  <1> DEFINE Fits(s, r) == FitsIn(HoldsIn(k), s, r)
  <1>3. Fits(a, u) /\ Fits(b, v) /\ Fits(d, w) /\ Fits(e, x) /\ Fits(f, y) /\ Fits(g, z)
    BY <1>1, <1>2, LinearsFit, BiasesFit, QkFits, SandwichFits, ExpertsFit, TailFits
  <1>4. Fits(a \o b, u \o v)
    BY <1>3, FitsJoined
  <1>5. Fits(a \o b \o d, u \o v \o w)
    BY <1>3, <1>4, FitsJoined
  <1>6. Fits(a \o b \o d \o e, u \o v \o w \o x)
    BY <1>3, <1>5, FitsJoined
  <1>7. Fits(a \o b \o d \o e \o f, u \o v \o w \o x \o y)
    BY <1>3, <1>6, FitsJoined
  <1>8. Fits(a \o b \o d \o e \o f \o g, u \o v \o w \o x \o y \o z)
    BY <1>3, <1>7, FitsJoined
  <1>9. WriteLayer(c, l, IsGemma(k), origin) = a \o b \o d \o e \o f \o g
    BY <1>1, WriteLayerIs
  <1>10. ReadLayer(c, l) = u \o v \o w \o x \o y \o z
    BY <1>2, ReadLayerIs
  <1> QED BY <1>8, <1>9, <1>10

-----------------------------------------------------------------------------
(* The other sections, and every section. *)

(* Two joined one by one. *)
LEMMA TwoJoined ==
    ASSUME NEW a, NEW b
    PROVE  <<a>> \o <<b>> = <<a, b>>
  <1>1. PICK S : a \in S /\ b \in S
    <2>1. a \in {a, b} /\ b \in {a, b}
      OBVIOUS
    <2> QED BY <2>1
  <1>2. PICK x, y : x = <<a>> /\ y = <<b>>
    OBVIOUS
  <1>3. /\ x \in Seq(S) /\ y \in Seq(S)
        /\ Len(x) = 1 /\ x[1] = a /\ Len(y) = 1 /\ y[1] = b
    BY <1>1, <1>2
  <1>4. PICK u : u = x \o y
    OBVIOUS
  <1>5. u \in Seq(S) /\ Len(u) = 2 /\ u[1] = a /\ u[2] = b
    <2>1. /\ u \in Seq(S) /\ Len(u) = Len(x) + Len(y)
          /\ \A i \in 1 .. Len(x) + Len(y) : u[i] = IF i <= Len(x) THEN x[i] ELSE y[i - Len(x)]
      BY <1>3, <1>4, ConcatProperties
    <2>2. Len(u) = 2 /\ \A i \in 1 .. 2 : u[i] = IF i <= 1 THEN x[i] ELSE y[i - 1]
      BY <1>3, <2>1
    <2>3. u[1] = x[1] /\ u[2] = y[1]
      BY <2>2
    <2> QED BY <1>3, <2>1, <2>2, <2>3
  <1>6. PICK w : w = <<a, b>>
    OBVIOUS
  <1>7. w \in Seq(S) /\ Len(w) = 2 /\ w[1] = a /\ w[2] = b
    BY <1>1, <1>6
  <1>8. u = w
    <2>1. \A i \in 1 .. Len(u) : u[i] = w[i]
      <3>1. \A i \in 1 .. 2 : i = 1 \/ i = 2
        OBVIOUS
      <3> QED BY <1>5, <1>7, <3>1
    <2> QED BY <1>5, <1>7, <2>1, SeqEqual
  <1> QED BY <1>2, <1>4, <1>6, <1>8

(* The embedding is read as it is written. *)
LEMMA EmbeddingFits ==
    ASSUME NEW k, NEW c, Dimensioned(c)
    PROVE  FitsIn(HoldsIn(k), WriteEmbedding(c), ReadEmbedding(c))
  <1>1. PICK v \in Nat, h \in Nat, g \in Pos : v = c.vocab /\ h = c.hidden /\ g = c.embedGroup
    BY DEF Dimensioned, Pos
  <1>2. PICK p \in Nat : p = ParamBytes(Dim(v, h), g) /\ p = v * DivCeil(h, g) * 4
    BY ParamBytesType
  <1>3. PICK q \in Nat : q = v * h
    BY Products
  <1>4. PICK t \in Tensors :
           t = Tensor(0, "embed_tokens") /\ Plays(k, t, "embed_tokens") /\ t.layer = 0 /\ t.expert = 0
    <2>1. "embed_tokens" \in Weights /\ 0 \in Nat
      BY DEF Weights
    <2> QED BY <2>1, WeightNames, WeightPlays
  <1>5. "embed_tokens" \in Roles
    BY DEF Roles, Names
  <1>6. <<"params">> \in Parts /\ <<"codes">> \in Parts
    BY DEF Parts
  <1>7. ASSUME NEW part \in Parts, NEW m \in Nat
        PROVE  FitsIn(AlikeIn(k, 0), <<Block(t, part, m)>>, <<Slot(0, "embed_tokens", part, m)>>)
    <2>1. PICK x, y : x = Block(t, part, m) /\ y = Slot(0, "embed_tokens", part, m)
      OBVIOUS
    <2>2. x \in BlockSet /\ x.tensor = t /\ x.part = part /\ x.bytes = m
      BY <2>1 DEF Block, BlockSet
    <2>3. /\ y \in SlotSet /\ y.layer = 0 /\ y.role = "embed_tokens" /\ y.expert = 0
          /\ y.part = part /\ y.bytes = m
      BY <1>5, <2>1 DEF Slot, SlotSet
    <2>4. <<y, x>> \in AlikeIn(k, 0)
      BY <1>4, <2>2, <2>3 DEF AlikeIn
    <2> QED BY <2>1, <2>2, <2>3, <2>4, FitsOne
  <1>8. PICK x, y, u, w : /\ x = Block(t, <<"params">>, p) /\ y = Block(t, <<"codes">>, q)
                          /\ u = Slot(0, "embed_tokens", <<"params">>, p)
                          /\ w = Slot(0, "embed_tokens", <<"codes">>, q)
    OBVIOUS
  <1>9. WriteEmbedding(c) = <<x, y>> /\ ReadEmbedding(c) = <<u, w>>
    BY <1>1, <1>2, <1>3, <1>4, <1>8 DEF WriteEmbedding, ReadEmbedding
  <1>10. FitsIn(AlikeIn(k, 0), <<x>> \o <<y>>, <<u>> \o <<w>>)
    BY <1>6, <1>7, <1>8, FitsJoined
  <1>11. <<x>> \o <<y>> = <<x, y>> /\ <<u>> \o <<w>> = <<u, w>>
    BY TwoJoined
  <1> QED BY <1>9, <1>10, <1>11, AlikeHolds

(* So is the head. *)
LEMMA HeadFits ==
    ASSUME NEW k, NEW c, Dimensioned(c)
    PROVE  FitsIn(HoldsIn(k), WriteMatrix(Tensor(0, "lm_head"), Dim(c.vocab, c.hidden), c.group),
                  ReadLinear(0, "lm_head", Dim(c.vocab, c.hidden), c.group))
  <1>1. PICK v \in Pos, h \in Pos, g \in Pos :
           v = c.vocab /\ h = c.hidden /\ g = c.group /\ Even(h)
    BY DEF Dimensioned
  <1>2. PICK t \in Tensors :
           t = Tensor(0, "lm_head") /\ Plays(k, t, "lm_head") /\ t.layer = 0 /\ t.expert = 0
    <2>1. "lm_head" \in Weights /\ 0 \in Nat
      BY DEF Weights
    <2> QED BY <2>1, WeightNames, WeightPlays
  <1>3. "lm_head" \in Roles
    BY DEF Roles, Names
  <1>4. PICK d : d = Dim(v, h)
    OBVIOUS
  <1>5. FitsIn(AlikeIn(k, 0), WriteMatrix(t, d, g), ReadLinear(t.layer, "lm_head", d, g))
    <2>1. 0 \in Nat
      OBVIOUS
    <2> QED BY <1>1, <1>2, <1>3, <1>4, <2>1, MatrixFits
  <1> QED BY <1>1, <1>2, <1>4, <1>5, AlikeHolds

(* A section is the embedding, a layer, the final norm or the head. *)
LEMMA SectionKinds ==
    ASSUME NEW n \in Nat, NEW i \in 1 .. n + 3
    PROVE  i = 1 \/ i \in 2 .. n + 1 \/ i = n + 2 \/ i = n + 3
  OBVIOUS

(* Every section of the file is what the reader takes it for. *)
LEMMA SectionFits ==
    ASSUME NEW k, NEW c, NEW origin, Converting(k, c, origin), NormsRecognised(k),
           NEW s, s = WriteSections(c, k.tied, IsGemma(k), origin),
           NEW i \in 1 .. SectionCount(c, k.tied)
    PROVE  FitsIn(HoldsIn(k), s[i], ReadSection(c, i))
  <1>1. Dimensioned(c)
    BY DEF Converting, Shaped
  <1>2. PICK n \in Nat : n = c.layers
    BY <1>1 DEF Dimensioned, Pos
  <1>3. PICK f, y, z : /\ f = [l \in 1 .. n |-> WriteLayer(c, l, IsGemma(k), origin)]
                       /\ y = WriteVector(Folded(0, "final_norm", IsGemma(k)), c.hidden)
                       /\ z = WriteMatrix(Tensor(0, "lm_head"), Dim(c.vocab, c.hidden), c.group)
    OBVIOUS
  <1>4. Listed(s, WriteEmbedding(c), f, n, y, k.tied, z)
    BY <1>1, <1>2, <1>3, WriteListed
  <1>5. /\ s[1] = WriteEmbedding(c) /\ (\A l \in 1 .. n : s[l + 1] = f[l]) /\ s[n + 2] = y
        /\ ~k.tied => s[n + 3] = z
    BY <1>4 DEF Listed
  <1>6. i \in 1 .. n + 3 /\ (i = n + 3 => ~k.tied)
    <2>1. CASE k.tied
      <3>1. SectionCount(c, k.tied) = n + 2
        BY <1>2, <2>1 DEF SectionCount
      <3> QED BY <3>1
    <2>2. CASE ~k.tied
      <3>1. SectionCount(c, k.tied) = n + 3
        BY <1>2, <2>2 DEF SectionCount
      <3>2. i \in 1 .. n + 3
        BY <3>1
      <3> QED BY <2>2, <3>2
    <2> QED BY <2>1, <2>2
  <1>7. CASE i = 1
    <2>1. ReadSection(c, i) = ReadEmbedding(c)
      BY <1>2, <1>7 DEF ReadSection
    <2> QED BY <1>1, <1>5, <1>7, <2>1, EmbeddingFits
  <1>8. CASE i \in 2 .. n + 1
    <2>1. PICK l \in 1 .. n : i = l + 1
      <3>1. i - 1 \in 1 .. n /\ i = (i - 1) + 1
        BY <1>8
      <3> QED BY <3>1
    <2>2. ReadSection(c, i) = ReadLayer(c, l)
      <3>1. ReadSection(c, i) = ReadLayer(c, i - 1)
        BY <1>2, <1>8 DEF ReadSection
      <3>2. i - 1 = l
        BY <2>1
      <3> QED BY <3>1, <3>2
    <2>3. s[i] = WriteLayer(c, l, IsGemma(k), origin)
      BY <1>3, <1>5, <2>1
    <2>4. l \in Nat
      OBVIOUS
    <2> QED BY <2>2, <2>3, <2>4, LayerFits
  <1>9. CASE i = n + 2
    <2>1. ReadSection(c, i) = TakeVector(0, "final_norm", c.hidden)
      BY <1>2, <1>9 DEF ReadSection
    <2>2. PICK name \in NormTensors : name = "final_norm"
      BY DEF NormTensors
    <2>3. Role(k, name) = name
      BY <2>2 DEF Role
    <2>4. PICK h \in Nat : h = c.hidden
      BY <1>1, HeadSizes
    <2>5. FitsIn(HoldsIn(k), WriteVector(Folded(0, name, IsGemma(k)), h), TakeVector(0, name, h))
      <3>1. 0 \in Nat
        OBVIOUS
      <3> QED BY <2>3, <3>1, NormVector
    <2> QED BY <1>3, <1>5, <1>9, <2>1, <2>2, <2>4, <2>5
  <1>10. CASE i = n + 3
    <2>1. ReadSection(c, i) = ReadLinear(0, "lm_head", Dim(c.vocab, c.hidden), c.group)
      BY <1>2, <1>10 DEF ReadSection
    <2>2. s[i] = z
      BY <1>5, <1>6, <1>10
    <2> QED BY <1>1, <1>3, <2>1, <2>2, HeadFits
  <1> QED BY <1>6, <1>7, <1>8, <1>9, <1>10, SectionKinds

-----------------------------------------------------------------------------
(* The header reads back as the configuration it was written from. *)

(* The fields of the header's core, and those that its flags carry. *)
CoreFields == CoreSize \cup {"group", "embedGroup"}
Named      == {"qk", "sandwich", "postNorm"}

(* Configurations that agree on every field are the same. *)
LEMMA SameFields ==
    ASSUME NEW c, NEW d, c = [x \in Fields |-> c[x]], d = [x \in Fields |-> d[x]],
           \A x \in Fields : c[x] = d[x]
    PROVE  c = d
  OBVIOUS

(* A version 1 header: nothing of the model needs more. *)
LEMMA PlainReads ==
    ASSUME NEW k, Good(k), NEW c, c = ConvertedConfig(k), NEW n, Version(c) = 1
    PROVE  ReadConfig(WriteHeader(c, n)) = c
  <1>1. PICK core : core = [x \in CoreFields |-> c[x]]
    OBVIOUS
  <1>2. PICK d : d = With(core, NoCapabilities)
    OBVIOUS
  <1>3. ReadConfig(WriteHeader(c, n)) = d
    BY <1>1, <1>2 DEF ReadConfig, WriteHeader, CoreFields
  <1>4. ConfigOf(c, k)
    BY ConvertedIs
  <1>5. DOMAIN NoCapabilities = Capability \cup Named
    BY DEF NoCapabilities, Capability, Named
  <1>6. \A x \in (Capability \cup Named) \ {"localBase", "perToken", "normTopk"} :
           c[x] = NoCapabilities[x]
    BY <1>5 DEF Version
  <1>7. /\ d = [x \in (DOMAIN core) \cup (DOMAIN NoCapabilities) |-> d[x]]
        /\ \A x \in DOMAIN core : d[x] = core[x]
        /\ \A x \in (DOMAIN NoCapabilities) \ (DOMAIN core) : d[x] = NoCapabilities[x]
    <2>1. Overlaid(core, NoCapabilities, d)
      BY <1>2, Overlay
    <2> QED BY <2>1 DEF Overlaid
  <1>8. DOMAIN core = CoreFields
    BY <1>1
  <1>9. CoreFields \cup (Capability \cup Named) = Fields
    BY DEF CoreFields, Named, Fields
  <1>10. \A x \in Capability \cup Named : x \notin CoreFields
    BY DEF CoreFields, CoreSize, Capability, Named
  <1>11. d = [x \in Fields |-> d[x]]
    BY <1>5, <1>7, <1>8, <1>9
  <1>12. \A x \in CoreFields : d[x] = c[x]
    BY <1>1, <1>7, <1>8
  <1>13. \A x \in Capability \cup Named : d[x] = NoCapabilities[x]
    BY <1>5, <1>7, <1>8, <1>10
  <1>14. c["stride"] = 0 /\ c["experts"] = 0
    <2>1. "stride" \in (Capability \cup Named) \ {"localBase", "perToken", "normTopk"}
      BY DEF Capability
    <2>2. "experts" \in (Capability \cup Named) \ {"localBase", "perToken", "normTopk"}
      BY DEF Capability
    <2>3. NoCapabilities["stride"] = 0 /\ NoCapabilities["experts"] = 0
      BY DEF NoCapabilities
    <2> QED BY <1>6, <2>1, <2>2, <2>3
  <1>15. c.stride = 0 /\ c.experts = 0
    BY <1>14
  <1>16. c.localBase = 0
    <2>1. c.stride = Stride(k) /\ c.localBase = (IF Stride(k) = 0 THEN 0 ELSE k.localBase)
      BY <1>4 DEF ConfigOf
    <2> QED BY <1>15, <2>1
  <1>17. c.perToken = 0 /\ c.normTopk = FALSE
    <2>1. /\ c.experts = k.experts /\ c.perToken = (IF k.experts = 0 THEN 0 ELSE k.perToken)
          /\ c.normTopk = (k.experts # 0 /\ k.normTopk)
      BY <1>4 DEF ConfigOf
    <2>2. k.experts = 0
      BY <1>15, <2>1
    <2>3. c.perToken = 0
      BY <2>1, <2>2
    <2>4. (k.experts # 0 /\ k.normTopk) = FALSE
      BY <2>2
    <2> QED BY <2>1, <2>3, <2>4
  <1>18. /\ NoCapabilities["localBase"] = c["localBase"] /\ NoCapabilities["perToken"] = c["perToken"]
         /\ NoCapabilities["normTopk"] = c["normTopk"]
    <2>1. NoCapabilities.localBase = 0 /\ NoCapabilities.perToken = 0
      BY DEF NoCapabilities
    <2>2. NoCapabilities.normTopk = FALSE
      BY DEF NoCapabilities
    <2> QED BY <1>16, <1>17, <2>1, <2>2
  <1>19. \A x \in Fields : d[x] = c[x]
    BY <1>6, <1>9, <1>12, <1>13, <1>18
  <1>20. c = [x \in Fields |-> c[x]]
    BY <1>4 DEF ConfigOf
  <1> QED BY <1>3, <1>11, <1>19, <1>20, SameFields

(* What a version 2 header keeps. *)
Kept(v, c) ==
    /\ v.flags = Flags(c) /\ \A x \in Capability : v[x] = c[x]

(* The capability record keeps every capability. *)
LEMMA CapsKept ==
    ASSUME NEW c, NEW v, v = With([flags |-> Flags(c)], [x \in Capability |-> c[x]])
    PROVE  Kept(v, c)
  <1>1. PICK f, g : f = [flags |-> Flags(c)] /\ g = [x \in Capability |-> c[x]]
    OBVIOUS
  <1>2. DOMAIN f = {"flags"} /\ DOMAIN g = Capability /\ "flags" \notin Capability
    BY <1>1 DEF Capability
  <1>3. /\ \A x \in DOMAIN f : v[x] = f[x]
        /\ \A x \in (DOMAIN g) \ (DOMAIN f) : v[x] = g[x]
    <2>1. Overlaid(f, g, v)
      BY <1>1, Overlay
    <2> QED BY <2>1 DEF Overlaid
  <1>4. v["flags"] = f["flags"]
    BY <1>2, <1>3
  <1>5. f["flags"] = Flags(c)
    BY <1>1
  <1>6. \A x \in Capability : v[x] = c[x]
    BY <1>1, <1>2, <1>3
  <1> QED BY <1>4, <1>5, <1>6 DEF Kept

(* The flags say which parts a layer has. *)
LEMMA FlagsAre ==
    ASSUME NEW c
    PROVE  /\ "biases" \in Flags(c) <=> c.bias # {}
           /\ "qkHead" \in Flags(c) <=> c.qk = "head"
           /\ "qkFull" \in Flags(c) <=> c.qk = "full"
           /\ "sandwich" \in Flags(c) <=> c.sandwich
           /\ "postNorm" \in Flags(c) <=> c.postNorm
  BY DEF Flags

(* A version 2 header: every capability is in it, by value or by flag. *)
LEMMA CapableReads ==
    ASSUME NEW k, Good(k), NEW c, c = ConvertedConfig(k), NEW n, Version(c) # 1
    PROVE  ReadConfig(WriteHeader(c, n)) = c
  <1>1. PICK core, v : /\ core = [x \in CoreFields |-> c[x]]
                       /\ v = With([flags |-> Flags(c)], [x \in Capability |-> c[x]])
    OBVIOUS
  <1>2. PICK named : named = [sandwich |-> "sandwich" \in v.flags, postNorm |-> "postNorm" \in v.flags,
                              qk |-> CASE "qkHead" \in v.flags -> "head"
                                       [] "qkFull" \in v.flags -> "full"
                                       [] OTHER -> "none"]
    OBVIOUS
  <1>3. PICK caps : caps = [x \in Capability |-> v[x]]
    OBVIOUS
  <1>4. PICK e : e = With(core, caps)
    OBVIOUS
  <1>5. PICK d : d = With(e, named)
    OBVIOUS
  <1>6. ReadConfig(WriteHeader(c, n)) = d
    <2>1. PICK h : h = WriteHeader(c, n)
      OBVIOUS
    <2>2. h.version = Version(c) /\ h.core = core /\ h.caps = <<v>>
      BY <1>1, <2>1 DEF WriteHeader, CoreFields
    <2>3. h.caps[1] = v
      BY <2>2
    <2>4. ReadConfig(h) = d
      BY <1>2, <1>3, <1>4, <1>5, <2>2, <2>3 DEF ReadConfig
    <2> QED BY <2>1, <2>4
  <1>7. ConfigOf(c, k) /\ Shaped(c)
    BY ConvertedIs, ConvertedShape
  <1>8. Kept(v, c)
    BY <1>1, CapsKept
  <1>9. /\ e = [x \in (DOMAIN core) \cup (DOMAIN caps) |-> e[x]]
        /\ \A x \in DOMAIN core : e[x] = core[x]
        /\ \A x \in (DOMAIN caps) \ (DOMAIN core) : e[x] = caps[x]
    <2>1. Overlaid(core, caps, e)
      BY <1>4, Overlay
    <2> QED BY <2>1 DEF Overlaid
  <1>10. /\ d = [x \in (DOMAIN e) \cup (DOMAIN named) |-> d[x]]
         /\ \A x \in DOMAIN e : d[x] = e[x]
         /\ \A x \in (DOMAIN named) \ (DOMAIN e) : d[x] = named[x]
    <2>1. Overlaid(e, named, d)
      BY <1>5, Overlay
    <2> QED BY <2>1 DEF Overlaid
  <1>11. DOMAIN core = CoreFields /\ DOMAIN caps = Capability
    BY <1>1, <1>3
  <1>12. DOMAIN named = Named
    BY <1>2 DEF Named
  <1>13. DOMAIN e = CoreFields \cup Capability
    BY <1>9, <1>11
  <1>14. CoreFields \cup Capability \cup Named = Fields
    BY DEF CoreFields, Named, Fields
  <1>15. /\ \A x \in Capability : x \notin CoreFields
         /\ \A x \in Named : x \notin CoreFields \cup Capability
    BY DEF CoreFields, CoreSize, Capability, Named
  <1>16. d = [x \in Fields |-> d[x]]
    BY <1>10, <1>12, <1>13, <1>14
  <1>17. \A x \in CoreFields : d[x] = c[x]
    BY <1>1, <1>9, <1>10, <1>11, <1>13
  <1>18. \A x \in Capability : d[x] = c[x]
    <2>1. \A x \in Capability : caps[x] = c[x]
      BY <1>3, <1>8 DEF Kept
    <2> QED BY <1>9, <1>10, <1>11, <1>13, <1>15, <2>1
  <1>19. \A x \in Named : d[x] = named[x]
    BY <1>10, <1>12, <1>13, <1>15
  <1>20. v.flags = Flags(c)
    BY <1>8 DEF Kept
  <1>21. named.qk = c.qk
    <2>1. /\ "qkHead" \in v.flags <=> c.qk = "head"
          /\ "qkFull" \in v.flags <=> c.qk = "full"
      BY <1>20, FlagsAre
    <2>2. named.qk = CASE c.qk = "head" -> "head" [] c.qk = "full" -> "full" [] OTHER -> "none"
      BY <1>2, <2>1
    <2>3. c.qk \in {"none", "head", "full"}
      BY <1>7 DEF Shaped
    <2> QED BY <2>2, <2>3
  <1>22. named.sandwich = c.sandwich
    <2>1. PICK b \in BOOLEAN : b = c.sandwich
      BY <1>7 DEF Shaped
    <2>2. ("sandwich" \in v.flags) = b
      BY <1>20, <2>1, FlagsAre
    <2> QED BY <1>2, <2>1, <2>2
  <1>23. named.postNorm = c.postNorm
    <2>1. PICK b \in BOOLEAN : b = c.postNorm
      BY <1>7 DEF Shaped
    <2>2. ("postNorm" \in v.flags) = b
      BY <1>20, <2>1, FlagsAre
    <2> QED BY <1>2, <2>1, <2>2
  <1>24. \A x \in Named : named[x] = c[x]
    BY <1>21, <1>22, <1>23 DEF Named
  <1>25. \A x \in Fields : d[x] = c[x]
    BY <1>14, <1>17, <1>18, <1>19, <1>24
  <1>26. c = [x \in Fields |-> c[x]]
    BY <1>7 DEF ConfigOf
  <1> QED BY <1>6, <1>16, <1>25, <1>26, SameFields

(* The header forgets nothing. *)
LEMMA HeaderReads ==
    ASSUME NEW k, Good(k), NEW c, c = ConvertedConfig(k), NEW n
    PROVE  ReadConfig(WriteHeader(c, n)) = c
  BY PlainReads, CapableReads

-----------------------------------------------------------------------------
(* The header passes the checks of the reader. *)

(* The flags are accepted: no two of them exclude each other. *)
LEMMA FlagsPass ==
    ASSUME NEW k, Good(k), NEW c, c = ConvertedConfig(k), NEW v, Kept(v, c)
    PROVE  FlagsAccepted(v)
  <1>1. ConfigOf(c, k) /\ Shaped(c) /\ Converts(k)
    BY ConvertedIs, ConvertedShape DEF Good
  <1>2. v.activation = c.activation /\ v.bias = c.bias /\ v.flags = Flags(c)
    <2>1. "activation" \in Capability /\ "bias" \in Capability
      BY DEF Capability
    <2> QED BY <2>1 DEF Kept
  <1>3. c.activation \in {"silu", "gelu_tanh"}
    <2>1. PICK A : A = Activations(k)
      OBVIOUS
    <2>2. A # {}
      BY <1>1, <2>1 DEF Converts, Resolves
    <2>3. (CHOOSE a \in A : TRUE) \in A
      BY <2>2
    <2>4. A \subseteq {"silu", "gelu_tanh"}
      BY <2>1 DEF Activations
    <2>5. c.activation = CHOOSE a \in A : TRUE
      BY <1>1, <2>1 DEF ConfigOf
    <2> QED BY <2>3, <2>4, <2>5
  <1>4. c.bias \subseteq 1 .. 7
    BY <1>1 DEF Shaped
  <1>5. ("biases" \in v.flags) = (v.bias # {})
    <2>1. "biases" \in v.flags <=> v.bias # {}
      BY <1>2, FlagsAre
    <2> QED BY <2>1
  <1>6. ~({"qkHead", "qkFull"} \subseteq v.flags)
    <2>1. ~("qkHead" \in v.flags /\ "qkFull" \in v.flags)
      BY <1>2, FlagsAre
    <2> QED BY <2>1
  <1>7. ~({"sandwich", "postNorm"} \subseteq v.flags)
    <2>1. ~(c.postNorm /\ c.sandwich)
      BY <1>1 DEF Converts, ConfigOf
    <2>2. ~("sandwich" \in v.flags /\ "postNorm" \in v.flags)
      BY <1>2, <2>1, FlagsAre
    <2> QED BY <2>2
  <1> QED BY <1>2, <1>3, <1>4, <1>5, <1>6, <1>7 DEF FlagsAccepted

(* The rope scaling is accepted. *)
LEMMA RopePasses ==
    ASSUME NEW k, Good(k), NEW c, c = ConvertedConfig(k)
    PROVE  RopeAccepted(c.rope)
  <1>1. RopeScalingResolves(k)
    BY DEF Good, Converts, Resolves
  <1>2. c.rope = RopeScaling(k)
    BY ConvertedIs DEF ConfigOf
  <1> QED BY <1>1, <1>2 DEF RopeScalingResolves, RopeAccepted

(* So are scales and caps. *)
LEMMA ScalesPass ==
    ASSUME NEW k, Good(k), NEW c, c = ConvertedConfig(k)
    PROVE  c.embedScale > 0 /\ c.attnCap >= 0 /\ c.finalCap >= 0 /\ c.attnScale >= 0
  <1>1. /\ c.embedScale = (IF IsGemma(k) THEN k.hidden ELSE 1)
        /\ c.attnCap = k.attnCap /\ c.finalCap = k.finalCap /\ c.attnScale = AttnScale(k)
        /\ c.hidden = k.hidden
    BY ConvertedIs DEF ConfigOf
  <1>2. c.hidden \in Pos
    BY ConvertedShape DEF Shaped, Dimensioned
  <1>3. SoftcapResolves(k.attnCap) /\ SoftcapResolves(k.finalCap) /\ SoftcapResolves(k.preAttn)
    BY DEF Good, Converts, Resolves
  <1>4. c.embedScale > 0
    BY <1>1, <1>2 DEF Pos
  <1>5. c.attnScale >= 0
    BY <1>1, <1>3 DEF AttnScale, SoftcapResolves
  <1> QED BY <1>1, <1>3, <1>4, <1>5 DEF SoftcapResolves

(* So are the experts. *)
LEMMA ExpertsPass ==
    ASSUME NEW k, Good(k), NEW c, c = ConvertedConfig(k), NEW v, Kept(v, c)
    PROVE  ExpertsAccepted(v)
  <1>1. v.experts = c.experts /\ v.perToken = c.perToken /\ v.normTopk = c.normTopk
    <2>1. "experts" \in Capability /\ "perToken" \in Capability /\ "normTopk" \in Capability
      BY DEF Capability
    <2> QED BY <2>1 DEF Kept
  <1>2. /\ c.experts = k.experts /\ c.perToken = (IF k.experts = 0 THEN 0 ELSE k.perToken)
        /\ c.normTopk = (k.experts # 0 /\ k.normTopk)
    BY ConvertedIs DEF ConfigOf
  <1>3. CASE k.experts = 0
    <2>1. v.experts = 0 /\ v.perToken = 0
      BY <1>1, <1>2, <1>3
    <2>2. (k.experts # 0 /\ k.normTopk) = FALSE
      BY <1>3
    <2>3. ~v.normTopk
      BY <1>1, <1>2, <2>2
    <2> QED BY <2>1, <2>3 DEF ExpertsAccepted
  <1>4. CASE k.experts # 0
    <2>1. k.experts >= 2 /\ k.perToken \in 1 .. k.experts
      BY <1>4, ExpertsAre
    <2>2. v.experts = k.experts /\ v.perToken = k.perToken
      BY <1>1, <1>2, <1>4
    <2> QED BY <1>4, <2>1, <2>2 DEF ExpertsAccepted
  <1> QED BY <1>3, <1>4

(* So is the rope of local layers. *)
LEMMA LocalRopePasses ==
    ASSUME NEW k, Good(k), NEW c, c = ConvertedConfig(k), NEW v, Kept(v, c)
    PROVE  LocalRopeAccepted(v)
  <1>1. v.localBase = c.localBase /\ v.stride = c.stride
    <2>1. "localBase" \in Capability /\ "stride" \in Capability
      BY DEF Capability
    <2> QED BY <2>1 DEF Kept
  <1>2. PICK b \in Int : b = k.localBase
    BY DEF Good, CheckpointType
  <1>3. PICK s : s = Stride(k)
    OBVIOUS
  <1>4. c.localBase = (IF s = 0 THEN 0 ELSE b) /\ c.stride = s
    BY <1>2, <1>3, ConvertedIs DEF ConfigOf
  <1>5. b <= 0 => s = 0
    BY <1>2, <1>3 DEF Stride
  <1>6. b > 0 => s \in 2 .. 255
    <2>1. LocalRopeResolves(k)
      BY DEF Good, Converts, Resolves
    <2> QED BY <1>2, <1>3, <2>1 DEF LocalRopeResolves
  <1>7. CASE b <= 0
    BY <1>1, <1>4, <1>5, <1>7 DEF LocalRopeAccepted
  <1>8. CASE ~(b <= 0)
    <2>1. b > 0 /\ s \in 2 .. 255
      BY <1>6, <1>8
    <2>2. v.localBase = b /\ v.stride = s
      BY <1>1, <1>4, <2>1
    <2> QED BY <2>1, <2>2 DEF LocalRopeAccepted
  <1> QED BY <1>7, <1>8

(* So are all capabilities: what convert lets through, the reader accepts. *)
LEMMA CapabilitiesPass ==
    ASSUME NEW k, Good(k), NEW c, c = ConvertedConfig(k), NEW v, Kept(v, c)
    PROVE  CapabilitiesAccepted(v)
  <1>1. /\ v.rope = c.rope /\ v.embedScale = c.embedScale /\ v.attnCap = c.attnCap
        /\ v.finalCap = c.finalCap /\ v.attnScale = c.attnScale
    <2>1. /\ "rope" \in Capability /\ "embedScale" \in Capability /\ "attnCap" \in Capability
          /\ "finalCap" \in Capability /\ "attnScale" \in Capability
      BY DEF Capability
    <2> QED BY <2>1 DEF Kept
  <1>2. FlagsAccepted(v) /\ ExpertsAccepted(v) /\ LocalRopeAccepted(v)
    BY FlagsPass, ExpertsPass, LocalRopePasses
  <1>3. RopeAccepted(c.rope)
    BY RopePasses
  <1>4. c.embedScale > 0 /\ c.attnCap >= 0 /\ c.finalCap >= 0 /\ c.attnScale >= 0
    BY ScalesPass
  <1> QED BY <1>1, <1>2, <1>3, <1>4 DEF CapabilitiesAccepted

(* The checks of the converter are as strict as those of the reader. *)
LEMMA HeaderPasses ==
    ASSUME NEW k, Good(k), NEW c, c = ConvertedConfig(k)
    PROVE  HeaderAccepted(WriteHeader(c, SectionCount(c, k.tied)))
  <1>1. PICK n : n = SectionCount(c, k.tied)
    OBVIOUS
  <1>2. PICK h : h = WriteHeader(c, n)
    OBVIOUS
  <1>3. h.version = Version(c) /\ h.sections = n /\ h.core.layers = c.layers
    <2>1. /\ h.version = Version(c) /\ h.sections = n
          /\ h.core = [x \in CoreSize \cup {"group", "embedGroup"} |-> c[x]]
      BY <1>2 DEF WriteHeader
    <2>2. "layers" \in CoreSize
      BY DEF CoreSize
    <2> QED BY <2>1, <2>2
  <1>4. h.version = 1 \/ CapabilitiesAccepted(h.caps[1])
    <2>1. CASE Version(c) = 1
      BY <1>3, <2>1
    <2>2. CASE Version(c) # 1
      <3>1. PICK v : v = With([flags |-> Flags(c)], [x \in Capability |-> c[x]])
        OBVIOUS
      <3>2. h.caps = <<v>>
        BY <1>2, <2>2, <3>1 DEF WriteHeader
      <3>3. h.caps[1] = v
        BY <3>2
      <3>4. CapabilitiesAccepted(v)
        BY <3>1, CapsKept, CapabilitiesPass
      <3> QED BY <3>3, <3>4
    <2> QED BY <2>1, <2>2
  <1>5. ConfigAccepted(ReadConfig(h))
    <2>1. ReadConfig(h) = c
      BY <1>2, HeaderReads
    <2>2. ModelConfigValid(c) /\ Dimensioned(c) /\ ConfigOf(c, k)
      BY ConvertedSizes
    <2>3. OptionsValid(k)
      BY DEF Good, Converts
    <2>4. c.group > 0 /\ c.embedGroup > 0
      BY <2>2 DEF Dimensioned, Pos
    <2>5. Even(c.group) /\ Even(c.embedGroup)
      BY <2>2, <2>3 DEF OptionsValid, ConfigOf
    <2>6. ConfigAccepted(c)
      BY <2>2, <2>4, <2>5 DEF ModelConfigValid, ConfigAccepted
    <2> QED BY <2>1, <2>6
  <1>6. n \in {c.layers + 2, c.layers + 3}
    <2>1. c.layers \in Nat
      BY ConvertedShape DEF Shaped, Dimensioned, Pos
    <2>2. CASE k.tied
      BY <1>1, <2>1, <2>2 DEF SectionCount
    <2>3. CASE ~k.tied
      BY <1>1, <2>1, <2>3 DEF SectionCount
    <2> QED BY <2>2, <2>3
  <1> QED BY <1>1, <1>2, <1>3, <1>4, <1>5, <1>6 DEF HeaderAccepted

-----------------------------------------------------------------------------
(* Where the blocks of a whole file are. *)

(* The whole file of k, and what it was written from. *)
WholeFile(k, f, c, z, s, number) ==
    /\ Good(k) /\ f = File(k, number) /\ FileOf(k, number, f, c, z, s, number)
    /\ f.header.version = Version(c) /\ f.header.sections = number
    /\ ReadConfig(f.header) = c
    /\ Len(f.table) = number /\ DOMAIN f.table = 1 .. number
    /\ \A i \in 1 .. number : /\ f.table[i].offset = DataAt(c, number) + Total(z, i - 1)
                             /\ f.table[i].size = z[i]

(* The rows of the table. *)
LEMMA TableRows ==
    ASSUME NEW c, NEW number, NEW z, Tabled(number, z)
    PROVE  /\ SectionTable(c, z) = [i \in 1 .. number |-> SectionTable(c, z)[i]]
           /\ Len(SectionTable(c, z)) = number
           /\ \A i \in 1 .. number : /\ SectionTable(c, z)[i].offset = DataAt(c, number) + Total(z, i - 1)
                                    /\ SectionTable(c, z)[i].size = z[i]
  <1>1. number \in Nat /\ Len(z) = number /\ z = [i \in 1 .. number |-> z[i]]
    BY DEF Tabled
  <1>2. PICK t : t = SectionTable(c, z)
    OBVIOUS
  <1>3. DOMAIN z = 1 .. number
    BY <1>1
  <1>4. t = [i \in 1 .. number |-> [offset |-> DataAt(c, number) + Total(z, i - 1), size |-> z[i]]]
    BY <1>1, <1>2, <1>3 DEF SectionTable, DataAt, Total
  <1>5. Len(t) = number
    BY <1>1, <1>4
  <1>6. t = [i \in 1 .. number |-> t[i]]
    BY <1>4
  <1>7. \A i \in 1 .. number : t[i].offset = DataAt(c, number) + Total(z, i - 1) /\ t[i].size = z[i]
    BY <1>4
  <1> QED BY <1>2, <1>5, <1>6, <1>7

(* The file of a checkpoint that converts is whole. *)
LEMMA WholeFileIs ==
    ASSUME NEW k, Good(k), NEW f, f = File(k, PlannedSections(k))
    PROVE  \E c, z, s, number : WholeFile(k, f, c, z, s, number)
  <1>1. PICK c, z, s, number : FileOf(k, PlannedSections(k), f, c, z, s, number)
    BY FileIs
  <1>2. /\ number \in Nat /\ c = ConvertedConfig(k) /\ Len(z) = number /\ z = [i \in 1 .. number |-> z[i]]
        /\ number = PlannedSections(k) /\ f.header = WriteHeader(c, number)
        /\ f.table = SectionTable(c, z)
    BY <1>1 DEF FileOf
  <1>3. f.header.version = Version(c) /\ f.header.sections = number
    BY <1>2 DEF WriteHeader
  <1>4. ReadConfig(f.header) = c
    BY <1>2, HeaderReads
  <1>5. PICK t : t = f.table
    OBVIOUS
  <1>6. /\ t = [i \in 1 .. number |-> t[i]] /\ Len(t) = number
        /\ \A i \in 1 .. number : t[i].offset = DataAt(c, number) + Total(z, i - 1) /\ t[i].size = z[i]
    <2>1. /\ SectionTable(c, z) = [i \in 1 .. number |-> SectionTable(c, z)[i]]
          /\ Len(SectionTable(c, z)) = number
          /\ \A i \in 1 .. number : /\ SectionTable(c, z)[i].offset = DataAt(c, number) + Total(z, i - 1)
                                   /\ SectionTable(c, z)[i].size = z[i]
      <3>1. Tabled(number, z)
        BY <1>2 DEF Tabled
      <3> QED BY <3>1, TableRows
    <2>2. t = SectionTable(c, z)
      BY <1>2, <1>5
    <2> QED BY <2>1, <2>2
  <1>7. DOMAIN t = 1 .. number
    BY <1>6
  <1>8. f = File(k, number) /\ FileOf(k, number, f, c, z, s, number)
    BY <1>1, <1>2
  <1>9. WholeFile(k, f, c, z, s, number)
    BY <1>2, <1>3, <1>4, <1>5, <1>6, <1>7, <1>8 DEF WholeFile
  <1> QED BY <1>9

(* The blocks of the file as runs. *)
LEMMA SectionsAreRuns ==
    ASSUME NEW k, NEW f, NEW c, NEW z, NEW s, NEW number, WholeFile(k, f, c, z, s, number)
    PROVE  /\ Runs(f.sections, StoredSet(k), number)
           /\ \A i \in 1 .. number : f.sections[i] = StoredRun(k, s[i]) /\ IsRun(s[i], z[i])
           /\ \A m \in 0 .. number : Total(Totals(f.sections), m) = Total(z, m)
           /\ FlatTo(FlattenSeq(f.sections), f.sections, StoredSet(k), number)
  <1>1. PICK ss : ss = f.sections
    OBVIOUS
  <1>2. /\ number \in Nat /\ ss = [i \in 1 .. number |-> ss[i]]
        /\ \A i \in 1 .. number : ss[i] = StoredRun(k, s[i]) /\ IsRun(s[i], z[i])
    BY <1>1 DEF WholeFile, FileOf
  <1>3. \A i \in 1 .. number : ss[i] \in Seq(StoredSet(k)) /\ TotalBytes(ss[i]) = z[i]
    BY <1>2, StoredRunFacts
  <1>4. Runs(ss, StoredSet(k), number)
    BY <1>2, <1>3 DEF Runs
  <1>5. ASSUME NEW m \in 0 .. number PROVE Total(Totals(ss), m) = Total(z, m)
    <2>1. m \in Nat
      OBVIOUS
    <2>2. PICK tt : tt = Totals(ss)
      OBVIOUS
    <2>3. ASSUME NEW j \in 1 .. m PROVE tt[j] = z[j]
      <3>1. j \in 1 .. number
        BY <1>2
      <3>2. tt[j] = TotalBytes(ss[j])
        BY <1>2, <2>2, <3>1 DEF Totals
      <3> QED BY <1>3, <3>1, <3>2
    <2>4. Total(tt, m) = Total(z, m)
      BY <2>1, <2>3, TotalSame
    <2> QED BY <2>2, <2>4
  <1>6. FlatTo(FlattenSeq(ss), ss, StoredSet(k), number)
    BY <1>2, <1>4, StoredSized, FlatFacts
  <1> QED BY <1>1, <1>2, <1>4, <1>5, <1>6

(* The indices of a sequence. *)
LEMMA DomainIs ==
    ASSUME NEW S, NEW s \in Seq(S)
    PROVE  DOMAIN s = 1 .. Len(s)
  OBVIOUS

(* Where the reader takes a slot, the block that plays its role lies. *)
LEMMA SlotFound ==
    ASSUME NEW k, NEW f, NEW c, NEW z, NEW s, NEW number, WholeFile(k, f, c, z, s, number),
           NEW i \in 1 .. number, NEW r, r = ReadSection(c, i), FitsIn(HoldsIn(k), s[i], r),
           NEW j \in 1 .. Len(r)
    PROVE  \E p \in ReadPairs(f, i) : p[1].item = r[j] /\ Holds(k, r[j], p[2].item)
  <1>1. PICK ss, b : ss = f.sections /\ b = s[i]
    OBVIOUS
  <1>2. PICK n \in Nat : n = Len(r) /\ n = Len(b)
    BY <1>1 DEF FitsIn
  <1>3. b \in Seq(BlockSet) /\ r \in Seq(SlotSet) /\ <<r[j], b[j]>> \in HoldsIn(k)
    BY <1>1, <1>2 DEF FitsIn
  <1>4. \A m \in 1 .. n : b[m].bytes = r[m].bytes
    <2> TAKE m \in 1 .. n
    <2>1. <<r[m], b[m]>> \in HoldsIn(k)
      BY <1>1, <1>2 DEF FitsIn
    <2> QED BY <2>1 DEF HoldsIn
  <1>5. /\ Runs(ss, StoredSet(k), number) /\ ss[i] = StoredRun(k, b) /\ IsRun(b, z[i])
        /\ Total(Totals(ss), i - 1) = Total(z, i - 1)
        /\ FlatTo(FlattenSeq(ss), ss, StoredSet(k), number)
    <2>1. i - 1 \in 0 .. number
      BY DEF WholeFile, FileOf
    <2> QED BY <1>1, <2>1, SectionsAreRuns
  <1>6. PICK x : x = StoredBlock(k, b[j])
    OBVIOUS
  <1>7. /\ Len(ss[i]) = n /\ ss[i][j] = x
        /\ Weight(ss[i], j - 1) = Weight(b, j - 1)
    <2>1. j - 1 \in 0 .. n /\ j \in 1 .. n
      BY <1>2
    <2>2. /\ Len(StoredRun(k, b)) = Len(b)
          /\ \A m \in 1 .. Len(b) : StoredRun(k, b)[m] = StoredBlock(k, b[m])
          /\ \A m \in 0 .. Len(b) : Weight(StoredRun(k, b), m) = Weight(b, m)
      BY <1>5, StoredRunFacts
    <2> QED BY <1>2, <1>5, <1>6, <2>1, <2>2
  <1>8. Weight(b, j - 1) = Weight(r, j - 1) /\ Weight(r, j - 1) \in Nat
    <2>1. j - 1 \in Nat /\ j - 1 <= n /\ j - 1 \in 0 .. n
      BY <1>2
    <2>2. DOMAIN b = 1 .. n /\ DOMAIN r = 1 .. n
      <3>1. DOMAIN b = 1 .. Len(b)
        BY <1>3, DomainIs
      <3>2. DOMAIN r = 1 .. Len(r)
        BY <1>3, DomainIs
      <3> QED BY <1>2, <3>1, <3>2
    <2>3. \A m \in 1 .. j - 1 : b[m].bytes = r[m].bytes
      BY <1>2, <1>4
    <2>4. Weight(b, j - 1) = Weight(r, j - 1)
      BY <1>2, <2>1, <2>2, <2>3, WeightSame
    <2>5. Weight(r, j - 1) \in Nat
      BY <1>2, <1>3, <2>1, SetsSized, WeightFacts
    <2> QED BY <2>4, <2>5
  <1>9. PICK u : u = FlattenSeq(ss)
    OBVIOUS
  <1>10. PICK q \in 1 .. Len(u) : LiesAt(u, q, ss, i, j)
    <2>1. j \in 1 .. Len(ss[i])
      BY <1>2, <1>7
    <2> QED BY <1>5, <1>9, <2>1 DEF FlatTo
  <1>11. PICK from \in Nat, w \in Nat, place \in Nat :
            from = DataAt(c, number) /\ w = Total(z, i - 1) /\ place = Weight(r, j - 1)
    <2>1. DataAt(c, number) \in Nat
      BY TableIs DEF WholeFile, FileOf
    <2>2. Total(z, i - 1) \in Nat
      <3>1. i - 1 \in 0 .. number
        BY DEF WholeFile, FileOf
      <3>2. number \in Nat /\ Total(Totals(ss), i - 1) \in Nat
        BY <1>5, <3>1, StoredSized, TotalsFacts DEF WholeFile, FileOf
      <3> QED BY <1>5, <3>2
    <2> QED BY <1>8, <2>1, <2>2
  <1>12. u[q] = x /\ Weight(u, q - 1) = w + place
    BY <1>5, <1>7, <1>8, <1>10, <1>11 DEF LiesAt
  <1>13. [start |-> from + (w + place), item |-> x] \in Placed(u, from)
    <2>1. u \in Seq(StoredSet(k))
      BY <1>5, <1>9 DEF FlatTo
    <2> QED BY <1>11, <1>12, <2>1, StoredSized, PlacedIs
  <1>14. [start |-> (from + w) + place, item |-> r[j]] \in Placed(r, from + w)
    <2>1. from + w \in Nat
      OBVIOUS
    <2> QED BY <1>2, <1>3, <1>11, <2>1, SetsSized, PlacedIs
  <1>15. PICK v, y, e : /\ v \in Nat /\ v = from + (w + place) /\ v = (from + w) + place
                       /\ y = [start |-> v, item |-> r[j]] /\ e = [start |-> v, item |-> x]
    <2>1. from + (w + place) \in Nat /\ from + (w + place) = (from + w) + place
      OBVIOUS
    <2> QED BY <2>1
  <1>16. x.bytes = r[j].bytes /\ Holds(k, r[j], x)
    <2>1. b[j] \in BlockSet /\ b[j].bytes = r[j].bytes /\ Holds(k, r[j], b[j])
      BY <1>3 DEF HoldsIn
    <2>2. x.bytes = b[j].bytes /\ x.part = b[j].part /\ x.tensor = b[j].tensor
      BY <1>6, <2>1, StoredFields
    <2> QED BY <2>1, <2>2 DEF Holds
  <1>17. <<y, e>> \in ReadPairs(f, i)
    <2>1. /\ HeaderSize(f.header.version) + Len(f.table) * EntrySize = from
          /\ ReadSection(ReadConfig(f.header), i) = r /\ f.table[i].offset = from + w
      BY <1>11 DEF WholeFile, DataAt
    <2>2. y \in Placed(r, from + w) /\ e \in Placed(u, from)
      BY <1>13, <1>14, <1>15
    <2>3. y.start = e.start /\ y.item.bytes = e.item.bytes
      BY <1>15, <1>16
    <2>4. <<y, e>>[1] = y /\ <<y, e>>[2] = e
      OBVIOUS
    <2> QED BY <1>1, <1>9, <2>1, <2>2, <2>3, <2>4 DEF ReadPairs
  <1>18. <<y, e>>[1].item = r[j] /\ <<y, e>>[2].item = x
    BY <1>15
  <1> QED BY <1>16, <1>17, <1>18

-----------------------------------------------------------------------------
(* A whole file holds what the reader looks for. *)

(* Every section of the file against what the reader makes of it. *)
LEMMA FileFits ==
    ASSUME NEW k, NormsRecognised(k), NEW f, NEW c, NEW z, NEW s, NEW number,
           WholeFile(k, f, c, z, s, number), NEW i \in 1 .. number
    PROVE  FitsIn(HoldsIn(k), s[i], ReadSection(c, i))
  <1>1. PICK origin : origin = Origins(k, c)
    OBVIOUS
  <1>2. /\ Converting(k, c, origin) /\ s = WriteSections(c, k.tied, IsGemma(k), origin)
        /\ number = SectionCount(c, k.tied)
    BY <1>1 DEF WholeFile, FileOf, Converting
  <1>3. i \in 1 .. SectionCount(c, k.tied)
    BY <1>2
  <1> QED BY <1>2, <1>3, SectionFits

(* For every slot of a section a block of the file lies there, and holds     *)
(* what it is for.                                                           *)
LEMMA SlotsFound ==
    ASSUME NEW k, NormsRecognised(k), NEW f, NEW c, NEW z, NEW s, NEW number,
           WholeFile(k, f, c, z, s, number), NEW i \in 1 .. number,
           NEW x \in ToSet(ReadSection(c, i))
    PROVE  \E p \in ReadPairs(f, i) : p[1].item = x /\ Holds(k, x, p[2].item)
  <1>1. PICK r : r = ReadSection(c, i)
    OBVIOUS
  <1>2. FitsIn(HoldsIn(k), s[i], r)
    BY <1>1, FileFits
  <1>3. r \in Seq(SlotSet)
    BY <1>2 DEF FitsIn
  <1>4. PICK j \in 1 .. Len(r) : x = r[j]
    <2>1. DOMAIN r = 1 .. Len(r)
      BY <1>3, DomainIs
    <2>2. x \in {r[j] : j \in DOMAIN r}
      BY <1>1 DEF ToSet
    <2> QED BY <2>1, <2>2
  <1> QED BY <1>1, <1>2, <1>4, SlotFound

(* A whole file reads back as the checkpoint it was written from. *)
LEMMA FileReadsBack ==
    ASSUME NEW k, Good(k), NormsRecognised(k), NEW f, f = File(k, PlannedSections(k))
    PROVE  ReadsBack(k, f)
  <1>1. PICK c, z, s, number : WholeFile(k, f, c, z, s, number)
    BY WholeFileIs
  <1>2. ReadConfig(f.header) = c /\ c = ConvertedConfig(k) /\ DOMAIN f.table = 1 .. number
    BY <1>1 DEF WholeFile, FileOf
  <1>3. ASSUME NEW i \in DOMAIN f.table, NEW x \in ToSet(ReadSection(ReadConfig(f.header), i))
        PROVE  \E p \in ReadPairs(f, i) : p[1].item = x /\ Holds(k, x, p[2].item)
    <2>1. i \in 1 .. number /\ x \in ToSet(ReadSection(c, i))
      BY <1>2
    <2> QED BY <1>1, <2>1, SlotsFound
  <1> QED BY <1>2, <1>3 DEF ReadsBack

(* What quantize_row and write_f32_vector let through is what the reader asks
   for. *)
LEMMA QuantizedIsValid ==
    ASSUME NEW k, Good(k), NEW name, NEW part, Quantizes(part, ValuesOf(k, name))
    PROVE  StoredValid(part, ValuesOf(k, name))
  <1>1. PICK v : v = ValuesOf(k, name)
    OBVIOUS
  <1>2. v \in {"plain", "flat", "wide", "nonfinite"}
    BY <1>1 DEF ValuesOf, Good, CheckpointType
  <1>3. v # "nonfinite" /\ (part = "params" => v # "wide")
    BY <1>1 DEF Quantizes
  <1> QED BY <1>1, <1>2, <1>3 DEF StoredValid

(* Stored blocks whose values the reader accepts. *)
Valid(k) == {b \in StoredSet(k) : b.valid}

(* The sections of a file that could be written hold valid blocks alone. *)
LEMMA BlocksValid ==
    ASSUME NEW k, AllWritable(k), NEW f, NEW c, NEW z, NEW s, NEW number,
           WholeFile(k, f, c, z, s, number), NEW i \in 1 .. number
    PROVE  f.sections[i] \in Seq(Valid(k))
  <1>1. PICK g : g = File(k, i)
    OBVIOUS
  <1>2. Good(k) /\ c = ConvertedConfig(k) /\ number \in Nat /\ number = PlannedSections(k)
    BY DEF WholeFile, FileOf
  <1>3. PICK c2, z2, s2, count2 : FileOf(k, i, g, c2, z2, s2, count2)
    BY <1>1, <1>2, FileIs
  <1>4. s2 = s /\ i \in 1 .. i
    <2>1. s2 = WriteSections(c2, k.tied, IsGemma(k), Origins(k, c2)) /\ c2 = ConvertedConfig(k)
      BY <1>3 DEF FileOf
    <2>2. s = WriteSections(c, k.tied, IsGemma(k), Origins(k, c))
      BY DEF WholeFile, FileOf
    <2> QED BY <1>2, <2>1, <2>2
  <1>5. PICK b : b = s[i]
    OBVIOUS
  <1>6. PICK t : t = StoredRun(k, b)
    OBVIOUS
  <1>7. g.sections[i] = t /\ f.sections[i] = t /\ IsRun(b, z[i])
    <2>1. g.sections[i] = StoredRun(k, s2[i])
      BY <1>3, <1>4 DEF FileOf
    <2> QED BY <1>4, <1>5, <1>6, <2>1, SectionsAreRuns
  <1>8. /\ t \in Seq(StoredSet(k)) /\ Len(t) = Len(b)
        /\ \A j \in 1 .. Len(b) : t[j] = StoredBlock(k, b[j]) /\ b[j] \in BlockSet
    BY <1>6, <1>7, StoredRunFacts
  <1>9. DOMAIN t = 1 .. Len(b)
    BY <1>8, DomainIs
  <1>10. ASSUME NEW j \in 1 .. Len(b) PROVE t[j] \in Valid(k)
    <2>1. PICK x : x = t[j]
      OBVIOUS
    <2>2. SectionWritable(k, i)
      BY <1>2 DEF AllWritable
    <2>3. x \in ToSet(g.sections[i])
      BY <1>7, <1>9, <2>1 DEF ToSet
    <2>4. Quantizes(x.part[1], ValuesOf(k, x.tensor.name))
      BY <1>1, <2>2, <2>3 DEF SectionWritable
    <2>5. x.valid = StoredValid(x.part[1], ValuesOf(k, x.tensor.name))
      <3>1. x = StoredBlock(k, b[j]) /\ b[j] \in BlockSet
        BY <1>8, <2>1
      <3>2. /\ x.part = b[j].part /\ x.tensor = b[j].tensor
            /\ x.valid = StoredValid(b[j].part[1], ValuesOf(k, b[j].tensor.name))
        BY <3>1, StoredFields
      <3> QED BY <3>2
    <2>6. StoredValid(x.part[1], ValuesOf(k, x.tensor.name))
      BY <1>2, <2>4, QuantizedIsValid
    <2>7. x \in StoredSet(k)
      BY <1>8, <1>9, <2>1
    <2> QED BY <2>1, <2>5, <2>6, <2>7 DEF Valid
  <1>11. t \in Seq(Valid(k))
    <2>1. PICK n \in Nat : n = Len(b)
      BY <1>7 DEF IsRun
    <2>2. t = [j \in 1 .. n |-> t[j]] /\ \A j \in 1 .. n : t[j] \in Valid(k)
      BY <1>8, <1>9, <1>10, <2>1
    <2> QED BY <2>2
  <1> QED BY <1>7, <1>11

(* So the reader accepts its values. *)
LEMMA ValuesPass ==
    ASSUME NEW k, AllWritable(k), NEW f, NEW c, NEW z, NEW s, NEW number,
           WholeFile(k, f, c, z, s, number)
    PROVE  ValuesAccepted(f)
  <1>1. PICK ss : ss = f.sections
    OBVIOUS
  <1>2. number \in Nat /\ ss = [i \in 1 .. number |-> ss[i]]
    BY <1>1 DEF WholeFile, FileOf
  <1>3. \A i \in 1 .. number : ss[i] \in Seq(Valid(k))
    BY <1>1, BlocksValid
  <1>4. Runs(ss, Valid(k), number)
    BY <1>2, <1>3 DEF Runs
  <1>5. Sized(Valid(k))
    BY StoredSized DEF Sized, Valid
  <1>6. FlattenSeq(ss) \in Seq(Valid(k))
    BY <1>2, <1>4, <1>5, FlatFacts DEF FlatTo
  <1>7. PICK u : u = FlattenSeq(ss) /\ u \in Seq(Valid(k))
    BY <1>6
  <1>8. DOMAIN u = 1 .. Len(u)
    BY <1>7, DomainIs
  <1>9. \A b \in ToSet(u) : b.valid
    <2>1. \A j \in 1 .. Len(u) : u[j] \in Valid(k)
      BY <1>7
    <2> QED BY <1>8, <2>1 DEF ToSet, Valid
  <1> QED BY <1>1, <1>7, <1>9 DEF ValuesAccepted

(* As many bytes as the slots of the reader take. *)
LEMMA SlotBytes ==
    ASSUME NEW k, NormsRecognised(k), NEW f, NEW c, NEW z, NEW s, NEW number,
           WholeFile(k, f, c, z, s, number), NEW i \in 1 .. number
    PROVE  TotalBytes(ReadSection(c, i)) = z[i]
  <1>1. PICK b, r : b = s[i] /\ r = ReadSection(c, i)
    OBVIOUS
  <1>2. FitsIn(HoldsIn(k), b, r)
    BY <1>1, FileFits
  <1>3. IsRun(b, z[i])
    BY <1>1, SectionsAreRuns
  <1>4. b \in Seq(BlockSet) /\ r \in Seq(SlotSet) /\ TotalBytes(b) = z[i]
    BY <1>2, <1>3 DEF FitsIn, IsRun
  <1>5. PICK n \in Nat : n = Len(b) /\ n = Len(r)
    BY <1>2 DEF FitsIn
  <1>6. DOMAIN b = 1 .. n /\ DOMAIN r = 1 .. n
    BY <1>4, <1>5, DomainIs
  <1>7. \A m \in 1 .. n : b[m].bytes = r[m].bytes
    <2> TAKE m \in 1 .. n
    <2>1. <<r[m], b[m]>> \in HoldsIn(k)
      BY <1>2, <1>5 DEF FitsIn
    <2> QED BY <2>1 DEF HoldsIn
  <1>8. Weight(b, n) = Weight(r, n)
    BY <1>5, <1>6, <1>7, WeightSame
  <1>9. TotalBytes(b) = Weight(b, n) /\ TotalBytes(r) = Weight(r, n)
    BY <1>4, <1>5, SetsSized, TotalBytesIs
  <1> QED BY <1>1, <1>4, <1>8, <1>9

-----------------------------------------------------------------------------
(* Sections lie behind each other and end with the file. *)

(* Where section i of a file ends, and 0 where the table does. *)
EndOf(f, i) ==
    IF i = 0 THEN HeaderSize(f.header.version) + f.header.sections * EntrySize
    ELSE f.table[i].offset + f.table[i].size

(* Sections end where the sizes before them say. *)
LEMMA EndIs ==
    ASSUME NEW k, NEW f, NEW c, NEW z, NEW s, NEW number, WholeFile(k, f, c, z, s, number),
           NEW i \in 0 .. number
    PROVE  EndOf(f, i) = DataAt(c, number) + Total(z, i)
  <1>1. /\ number \in Nat /\ f.header.version = Version(c) /\ f.header.sections = number
        /\ \A j \in 1 .. number : z[j] \in Nat
        /\ \A j \in 1 .. number : /\ f.table[j].offset = DataAt(c, number) + Total(z, j - 1)
                                 /\ f.table[j].size = z[j]
    BY DEF WholeFile, FileOf, Pos
  <1>2. PICK from \in Nat : from = DataAt(c, number)
    BY TableIs DEF WholeFile, FileOf
  <1>3. CASE i = 0
    <2>1. EndOf(f, i) = from
      BY <1>1, <1>2, <1>3 DEF EndOf, DataAt
    <2>2. Total(z, 0) = 0
      BY TotalOfNone
    <2> QED BY <1>2, <1>3, <2>1, <2>2
  <1>4. CASE i # 0
    <2>1. PICK n \in Nat : i = n + 1 /\ n = i - 1
      <3>1. i - 1 \in Nat /\ i = (i - 1) + 1
        BY <1>4
      <3> QED BY <3>1
    <2>2. \A j \in 1 .. n + 1 : z[j] \in Nat
      BY <1>1, <2>1
    <2>3. /\ Total(z, n + 1) = Total(z, n) + z[n + 1]
          /\ Total(z, n) \in Nat
      BY <2>2, TotalFacts
    <2>4. PICK a \in Nat, b \in Nat : a = Total(z, n) /\ b = z[i]
      BY <2>1, <2>2, <2>3
    <2>5. Total(z, i) = a + b
      BY <2>1, <2>3, <2>4
    <2>6. i \in 1 .. number
      BY <1>1, <1>4
    <2>7. f.table[i].offset = from + a /\ f.table[i].size = b
      BY <1>1, <1>2, <2>1, <2>4, <2>6
    <2>8. EndOf(f, i) = (from + a) + b
      BY <1>4, <2>7 DEF EndOf
    <2> QED BY <1>2, <2>5, <2>8
  <1> QED BY <1>3, <1>4

(* The last section ends with the file. *)
LEMMA FileEnds ==
    ASSUME NEW k, NEW f, NEW c, NEW z, NEW s, NEW number, WholeFile(k, f, c, z, s, number)
    PROVE  EndOf(f, number) = FileLen(f)
  <1>1. /\ Good(k) /\ f = File(k, number) /\ number = PlannedSections(k) /\ Len(z) = number
        /\ c = ConvertedConfig(k) /\ z = PlanSections(c, k.tied) /\ f.table = SectionTable(c, z)
    BY DEF WholeFile, FileOf
  <1>2. SizeAsPlanned(k, number) /\ number # 0
    BY <1>1, FileLength
  <1>3. FileLen(f) = SectionTable(c, z)[Len(z)].offset + SectionTable(c, z)[Len(z)].size
    BY <1>1, <1>2 DEF SizeAsPlanned
  <1>4. FileLen(f) = f.table[number].offset + f.table[number].size
    BY <1>1, <1>3
  <1> QED BY <1>2, <1>4 DEF EndOf

(* What was converted opens if its size is within the reader's limit. *)
LEMMA FileOpens ==
    ASSUME NEW k, Good(k), NormsRecognised(k), AllWritable(k), NEW f,
           f = File(k, PlannedSections(k))
    PROVE  Opens(f) <=> WithinFileLimit(f)
  <1>1. PICK c, z, s, number : WholeFile(k, f, c, z, s, number)
    BY WholeFileIs
  <1>2. /\ number \in Nat /\ ReadConfig(f.header) = c /\ f.header.sections = number
        /\ c = ConvertedConfig(k) /\ f.header = WriteHeader(c, number)
        /\ number = SectionCount(c, k.tied) /\ \A i \in 1 .. number : z[i] \in Pos
        /\ \A i \in 1 .. number : /\ f.table[i].offset = DataAt(c, number) + Total(z, i - 1)
                                 /\ f.table[i].size = z[i]
    BY <1>1 DEF WholeFile, FileOf
  <1>3. HeaderAccepted(f.header)
    <2>1. HeaderAccepted(WriteHeader(c, SectionCount(c, k.tied)))
      BY <1>2, HeaderPasses
    <2> QED BY <1>2, <2>1
  <1>4. \A i \in 1 .. number : f.table[i].size > 0 /\ f.table[i].offset = EndOf(f, i - 1)
    <2> TAKE i \in 1 .. number
    <2>1. i - 1 \in 0 .. number
      BY <1>2
    <2>2. EndOf(f, i - 1) = DataAt(c, number) + Total(z, i - 1)
      BY <1>1, <2>1, EndIs
    <2>3. f.table[i].size > 0
      BY <1>2 DEF Pos
    <2> QED BY <1>2, <2>2, <2>3
  <1>5. EndOf(f, number) = FileLen(f)
    BY <1>1, FileEnds
  <1>6. \A i \in 1 .. number :
           /\ f.table[i].size = TotalBytes(ReadSection(c, i))
           /\ \A x \in ToSet(ReadSection(c, i)) : x.part[1] = "dims" =>
                 \E p \in ReadPairs(f, i) : p[1].item = x /\ p[2].item.part = x.part
    <2> TAKE i \in 1 .. number
    <2>1. f.table[i].size = TotalBytes(ReadSection(c, i))
      BY <1>1, <1>2, SlotBytes
    <2>2. ASSUME NEW x \in ToSet(ReadSection(c, i))
          PROVE  \E p \in ReadPairs(f, i) : p[1].item = x /\ p[2].item.part = x.part
      <3>1. PICK p \in ReadPairs(f, i) : p[1].item = x /\ Holds(k, x, p[2].item)
        BY <1>1, SlotsFound
      <3>2. p[2].item.part = x.part
        BY <3>1 DEF Holds
      <3> QED BY <3>1, <3>2
    <2> QED BY <2>1, <2>2
  <1>7. ValuesAccepted(f)
    BY <1>1, ValuesPass
  <1>8. WithinFileLimit(f) => Opens(f)
    BY <1>2, <1>3, <1>4, <1>5, <1>6, <1>7 DEF Opens, EndOf
  <1>9. Opens(f) => WithinFileLimit(f)
    BY DEF Opens
  <1> QED BY <1>8, <1>9

(* A conversion that succeeded left a model that is the checkpoint's and     *)
(* opens unless it is too large.                                             *)
LEMMA SuccessIsUsable ==
    ASSUME ConvertInv, \A k \in Source : Converts(k) => NormsRecognised(k)
    PROVE  SuccessMeansUsable
  <1> SUFFICES ASSUME result = "ok"
               PROVE  /\ output = FullFile(ckpt) /\ tokenizer = ckpt.tok
                      /\ Usable[ckpt] <=> WithinFileLimit(File(ckpt, PlannedSections(ckpt)))
    BY DEF SuccessMeansUsable, FullFile
  <1>1. /\ ckpt \in Source /\ Converts(ckpt) /\ output = FullFile(ckpt) /\ tokenizer = ckpt.tok
        /\ AllWritable(ckpt)
    BY DEF ConvertInv, Answers
  <1>2. PICK k \in Source : k = ckpt /\ Converts(k) /\ AllWritable(k) /\ NormsRecognised(k)
    BY <1>1
  <1>3. Good(k)
    BY <1>2, SourceTypes
  <1>4. PICK f : f = File(k, PlannedSections(k))
    OBVIOUS
  <1>5. (Opens(f) <=> WithinFileLimit(f)) /\ ReadsBack(k, f)
    BY <1>2, <1>3, <1>4, FileOpens, FileReadsBack
  <1>6. k \in {x \in Source : Converts(x)}
    BY <1>2
  <1>7. Usable[k] = (Opens(f) /\ ReadsBack(k, f))
    BY <1>4, <1>6 DEF Usable
  <1>8. Usable[k] <=> WithinFileLimit(File(k, PlannedSections(k)))
    BY <1>4, <1>5, <1>7
  <1> QED BY <1>1, <1>2, <1>8

(* A conversion that answers Ok leaves the tokenizer of the checkpoint beside*)
(* a file that the reader opens, finding every tensor where it looks for it  *)
(* and in the role it has in the checkpoint, exactly when the file is no     *)
(* larger than the reader's limit: this is the only thing a success leaves   *)
(* open, for nothing in the conversion bounds the size.  The hypothesis is   *)
(* about the checkpoints: convert names sandwich norms by the model type, so *)
(* one that has them under another type would be taken for a plain model.    *)
THEOREM UsableOutput ==
    (\A k \in Source : Converts(k) => NormsRecognised(k)) => (ConvertSpec => []SuccessMeansUsable)
  <1> SUFFICES ASSUME \A k \in Source : Converts(k) => NormsRecognised(k)
               PROVE  ConvertSpec => []SuccessMeansUsable
    OBVIOUS
  <1>1. ConvertInv => SuccessMeansUsable
    BY SuccessIsUsable
  <1> QED BY <1>1, ConvertInvariant, PTL
=============================================================================
