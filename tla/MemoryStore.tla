---------------------------- MODULE MemoryStore ----------------------------
(***************************************************************************)
(* The durable memory service: MemoryManager::store and forget (rai-core,  *)
(* memory/manager.rs) behind AppState (rai-server/src/state.rs), with      *)
(* MemorySnapshot::save and load (rai-core, memory/persistence.rs) under   *)
(* process crashes and power loss.                                         *)
(*                                                                         *)
(* A mutation takes the server's persistence lock, embeds its text, takes  *)
(* the exclusive guard of the store, stages a copy of every structure,     *)
(* writes the copy to disk on a blocking thread and only then publishes    *)
(* it.  A request can be abandoned at every await (the 30-second limit, a  *)
(* client that disconnects); the blocking thread goes on without it and    *)
(* keeps the guard.  A crash can fall between any two steps.               *)
(*                                                                         *)
(* An item of the two vector stores is known by the text it was made from; *)
(* what a request that reads is answered is in Queries.  The service       *)
(* without RAI_DATA_PATH, which writes nothing, is left out.               *)
(***************************************************************************)
EXTENDS Queries

CONSTANTS
    Client,         \* concurrent requests that store or forget
    Reader,         \* concurrent requests that recall
    Capacities,     \* what RAI_CAPACITY may be at a start, or None
    DefaultUnits,   \* num_units of NRAConfig::default
    Found,          \* snapshots the first start may find, or None
    MaxRequests,    \* bound: mutations requested
    MaxCrashes      \* bound: crashes

ASSUME MemoryStoreAssumption ==
    /\ DefaultUnits \in Nat \ {0} /\ Capacities \ {None} \subseteq Nat \ {0}
    /\ MaxRequests \in Nat /\ MaxCrashes \in Nat
    /\ None \notin Client \cup Reader \cup Nat

VARIABLES
    up,         \* is the process running?
    mem,        \* Inner, its capacity and the bridge's text index
    disk,       \* the snapshot file a reader of the directory sees, or None
    kept,       \* the snapshots a power loss may leave there
    gate,       \* who holds persistence_lock
    pc,         \* Client -> where its request is
    req,        \* Client -> what it asked for
    result,     \* Client -> what the blocking thread, or a check, returned
    txn,        \* the mutation that holds the exclusive guard, or None
    reading,    \* Reader -> what a recall retrieved under the shared guard, or None
    requests,   \* mutations requested so far
    crashes,    \* crashes so far
    sent,       \* Text -> stores requested, less removals confirmed
    promised,   \* Text -> stores confirmed, less removals written to disk
    refused     \* Text -> stores answered with an error

taskVars  == <<gate, pc, req, result, requests>>
diskVars  == <<disk, kept>>
tallyVars == <<sent, promised, refused>>
vars == <<up, mem, diskVars, taskVars, txn, reading, crashes, tallyVars>>

-----------------------------------------------------------------------------
(* Vec::remove at a position counted from 1. *)
RemoveAt(q, k) == [n \in 1 .. Len(q) - 1 |-> IF n < k THEN q[n] ELSE q[n + 1]]

FirstAt(q, t) == CHOOSE k \in 1 .. Len(q) :
                     q[k] = t /\ \A n \in 1 .. k - 1 : q[n] # t

Texts(q) == {q[k] : k \in 1 .. Len(q)}

Copies(q, t) == Cardinality({k \in 1 .. Len(q) : q[k] = t})

(* TextIndex: entries with their ids, and the map from a text to its id.     *)
(* Each text is there once.                                                  *)
EmptyIndex == [entries |-> <<>>, ids |-> [t \in Text |-> None]]

IndexInsert(ix, t) ==
    IF ix.ids[t] # None
    THEN ix
    ELSE [ entries |-> Append(ix.entries, [id |-> Len(ix.entries), text |-> t]),
           ids     |-> [ix.ids EXCEPT ![t] = Len(ix.entries)] ]

(* The entries behind the removed one shift down, and are renumbered. *)
IndexRemove(ix, t) ==
    IF ix.ids[t] = None
    THEN ix
    ELSE LET rest == RemoveAt(ix.entries, ix.ids[t] + 1)
         IN  [ entries |-> [k \in 1 .. Len(rest) |-> [rest[k] EXCEPT !.id = k - 1]],
               ids     |-> [u \in Text |->
                              IF u = t THEN None
                              ELSE IF ix.ids[u] = None THEN None
                              ELSE IF ix.ids[u] > ix.ids[t] THEN ix.ids[u] - 1
                              ELSE ix.ids[u]] ]

(* Inner, with num_units of the address store. *)
EmptyStore(units) ==
    [units |-> units, nra |-> <<>>, rem |-> <<>>, texts |-> <<>>, index |-> EmptyIndex]

(* What store stages. *)
Stored(m, t) ==
    [ units |-> m.units,
      nra   |-> Append(m.nra, t),
      rem   |-> Append(m.rem, t),
      texts |-> Append(m.texts, t),
      index |-> IndexInsert(m.index, t) ]

(* What forget stages: the first copy goes from every store, and the decode  *)
(* entry only with the last copy.                                            *)
ForgottenEverywhere(m, t) ==           \* mutant: the entry goes with any copy
    LET k == FirstAt(m.texts, t)
    IN  [ units |-> m.units,
          nra   |-> RemoveAt(m.nra, k),
          rem   |-> RemoveAt(m.rem, k),
          texts |-> RemoveAt(m.texts, k),
          index |-> IndexRemove(m.index, t) ]

ForgottenNewestKey(m, t) ==            \* mutant: the key store drops its newest
    LET k     == FirstAt(m.texts, t)
        texts == RemoveAt(m.texts, k)
    IN  [ units |-> m.units,
          nra   |-> RemoveAt(m.nra, k),
          rem   |-> RemoveAt(m.rem, Len(m.rem)),
          texts |-> texts,
          index |-> IF t \in Texts(texts) THEN m.index ELSE IndexRemove(m.index, t) ]

Forgotten(m, t) ==
    LET k     == FirstAt(m.texts, t)
        texts == RemoveAt(m.texts, k)
    IN  [ units |-> m.units,
          nra   |-> RemoveAt(m.nra, k),
          rem   |-> RemoveAt(m.rem, k),
          texts |-> texts,
          index |-> IF t \in Texts(texts) THEN m.index ELSE IndexRemove(m.index, t) ]

(* snapshot_from_parts *)
Snapshot(m) ==
    [ version |-> 1, units |-> m.units, nra |-> m.nra, rem |-> m.rem,
      texts |-> m.texts, index |-> m.index ]

(* MemorySnapshot::validate: what it says of the counts and of the index.    *)
(* The labels are newer than the format: version 0 may lack them.            *)
Valid(s) ==
    LET entries == s.index.entries
        items   == Len(s.nra)
    IN  /\ items <= s.units
        /\ Len(s.rem) = items
        /\ s.texts # <<>> => Len(s.texts) = items
        /\ Len(entries) <= items
        /\ Cardinality({t \in Text : s.index.ids[t] # None}) = Len(entries)
        /\ \A k \in 1 .. Len(entries) :
               /\ entries[k].id = k - 1
               /\ s.index.ids[entries[k].text] = k - 1
               /\ \A n \in 1 .. k - 1 : entries[n].text # entries[k].text
        /\ s.version = 1 =>
              /\ Len(s.texts) = items
              /\ {entries[k].text : k \in 1 .. Len(entries)} = Texts(s.texts)

(* The labels of the items, from the index where the snapshot has none.      *)
Labels(s) ==
    IF s.texts # <<>> THEN s.texts
    ELSE [k \in DOMAIN s.index.entries |-> s.index.entries[k].text]

(* What load takes for granted: the vectors are those of the labels it puts  *)
(* to them by their places.                                                  *)
Faithful(s) == Len(Labels(s)) = Len(s.nra) => s.nra = Labels(s) /\ s.rem = Labels(s)

(* load_with_capacity: the store of a snapshot, unless it is refused; a      *)
(* capacity that is set replaces the one it was written with.                *)
UnitsOf(s, capacity) == IF capacity = None THEN s.units ELSE capacity

ItemsFit(s, units) == Len(s.nra) <= units

Loads(s, capacity) ==
    /\ Valid(s)
    /\ Len(Labels(s)) = Len(s.nra)
    /\ ItemsFit(s, UnitsOf(s, capacity))

Loaded(s, capacity) ==
    [ units |-> UnitsOf(s, capacity), nra |-> s.nra, rem |-> s.rem,
      texts |-> Labels(s), index |-> s.index ]

(* What deserializes as a snapshot.  Its index maps finitely many texts, and *)
(* version 0 predates the labels.                                            *)
IndexType == [entries : Seq([id : Nat, text : Text]), ids : [Text -> Nat \cup {None}]]

SnapshotType == [version : {0, 1}, units : Nat, nra : Seq(Text), rem : Seq(Text),
                 texts : Seq(Text), index : IndexType]

Readable(s) ==
    /\ s \in SnapshotType
    /\ IsFiniteSet({t \in Text : s.index.ids[t] # None})
    /\ s.version = 0 => s.texts = <<>>

StoreType == [units : Nat, nra : Seq(Text), rem : Seq(Text), texts : Seq(Text),
              index : IndexType]

(* What the blocking thread takes with it. *)
Mutation == [op : {"store", "forget"}, text : Text, by : Client \cup {None},
             at : {"save", "sync", "publish", "index"}, staged : StoreType]

ASSUME SnapshotAssumption ==
    /\ \A s \in Found \ {None} : Readable(s)
    /\ None \notin Mutation /\ None \notin SnapshotType

-----------------------------------------------------------------------------
Init ==
    /\ up = FALSE
    /\ mem = EmptyStore(0)
    /\ disk \in Found
    /\ kept = {disk}
    /\ gate = None
    /\ pc = [c \in Client |-> "idle"]
    /\ req = [c \in Client |-> None]
    /\ result = [c \in Client |-> None]
    /\ txn = None
    /\ reading = [r \in Reader |-> None]
    /\ requests = 0
    /\ crashes = 0
    /\ sent = [t \in Text |-> IF disk = None THEN 0 ELSE Copies(Labels(disk), t)]
    /\ promised = sent
    /\ refused = [t \in Text |-> 0]

Less(n) == IF n = 0 THEN 0 ELSE n - 1

(* A request to store or to forget a text arrives. *)
Request(c) ==
    /\ up /\ pc[c] = "idle"
    /\ requests < MaxRequests
    /\ \E op \in {"store", "forget"}, t \in Text :
           /\ req' = [req EXCEPT ![c] = [op |-> op, text |-> t]]
           /\ sent' = IF op = "store" THEN [sent EXCEPT ![t] = @ + 1] ELSE sent
    /\ pc' = [pc EXCEPT ![c] = "gate"]
    /\ result' = [result EXCEPT ![c] = None]
    /\ requests' = requests + 1
    /\ UNCHANGED <<up, mem, diskVars, gate, txn, reading, crashes, promised, refused>>

(* AppState: the persistence lock, taken before anything else. *)
EnterGate(c) ==
    /\ up /\ pc[c] = "gate"
    /\ gate = None
    /\ gate' = c
    /\ pc' = [pc EXCEPT ![c] = IF req[c].op = "store" THEN "embed" ELSE "lock"]
    /\ UNCHANGED <<up, mem, diskVars, req, result, requests, txn, reading, crashes,
                   tallyVars>>

(* project_text: the embedding provider is asked while no guard is held. *)
Embed(c) ==
    /\ up /\ pc[c] = "embed"
    /\ \/ pc' = [pc EXCEPT ![c] = "lock"] /\ UNCHANGED result
       \/ pc' = [pc EXCEPT ![c] = "answer"] /\ result' = [result EXCEPT ![c] = "error"]
    /\ UNCHANGED <<up, mem, diskVars, gate, req, requests, txn, reading, crashes,
                   tallyVars>>

(* The exclusive guard is free: no mutation and no recall holds one. *)
GuardFree == txn = None /\ \A r \in Reader : reading[r] = None

(* The guard is taken and the checks under it fail: it is dropped again. *)
Declined(c) ==
    \/ req[c].op = "store" /\ Len(mem.nra) >= mem.units /\ result' = [result EXCEPT ![c] = "full"]
    \/ req[c].op = "forget" /\ req[c].text \notin Texts(mem.texts)
       /\ result' = [result EXCEPT ![c] = "not found"]

Decline(c) ==
    /\ up /\ pc[c] = "lock"
    /\ GuardFree
    /\ Declined(c)
    /\ pc' = [pc EXCEPT ![c] = "answer"]
    /\ UNCHANGED <<up, mem, diskVars, gate, req, requests, txn, reading, crashes,
                   tallyVars>>

(* The guard is taken, every structure is staged, and guard and copy move to *)
(* a blocking thread.                                                        *)
Stage(c) ==
    /\ up /\ pc[c] = "lock"
    /\ GuardFree
    /\ LET op == req[c].op
           t  == req[c].text
       IN  /\ op = "store" => Len(mem.nra) < mem.units
           /\ op = "forget" => t \in Texts(mem.texts)
           /\ txn' = [ op |-> op, text |-> t, by |-> c, at |-> "save",
                       staged |-> IF op = "store" THEN Stored(mem, t)
                                  ELSE Forgotten(mem, t) ]
    /\ pc' = [pc EXCEPT ![c] = "write"]
    /\ UNCHANGED <<up, mem, diskVars, gate, req, result, requests, reading, crashes,
                   tallyVars>>

-----------------------------------------------------------------------------
(* The blocking thread ends: the guard is dropped, and the request that      *)
(* still waits is told.                                                      *)
Finish(outcome) ==
    /\ txn' = None
    /\ IF txn.by = None
       THEN UNCHANGED <<pc, result>>
       ELSE /\ pc' = [pc EXCEPT ![txn.by] = "answer"]
            /\ result' = [result EXCEPT ![txn.by] = outcome]

At(stage) == up /\ txn # None /\ txn.at = stage

(* save fails before the file is replaced: validation, the size limit, the   *)
(* temporary file, the rename.  The temporary file is removed.               *)
SaveFailsPublished ==                  \* mutant: the guarded state was edited first
    /\ At("save")
    /\ mem' = txn.staged
    /\ Finish("error")
    /\ UNCHANGED <<up, diskVars, gate, req, requests, reading, crashes, tallyVars>>

SaveFails ==
    /\ At("save")
    /\ Finish("error")
    /\ UNCHANGED <<up, mem, diskVars, gate, req, requests, reading, crashes, tallyVars>>

(* The temporary file, complete and synced, replaces the snapshot.  Until    *)
(* the directory is synced a power loss may undo that.                       *)
Rename ==
    /\ At("save")
    /\ Valid(Snapshot(txn.staged))
    /\ disk' = Snapshot(txn.staged)
    /\ kept' = kept \cup {disk'}
    /\ txn' = [txn EXCEPT !.at = "sync"]
    /\ promised' = IF txn.op = "forget"
                   THEN [promised EXCEPT ![txn.text] = Less(@)] ELSE promised
    /\ UNCHANGED <<up, mem, taskVars, reading, crashes, sent, refused>>

SyncSkipped ==                         \* mutant: the directory is not synced
    /\ At("sync")
    /\ txn' = [txn EXCEPT !.at = "publish"]
    /\ UNCHANGED <<up, mem, diskVars, taskVars, reading, crashes, tallyVars>>

SyncDirectory ==
    /\ At("sync")
    /\ kept' = {disk}
    /\ txn' = [txn EXCEPT !.at = "publish"]
    /\ UNCHANGED <<up, mem, disk, taskVars, reading, crashes, tallyVars>>

(* Opening or syncing the directory fails: save reports an error, with the   *)
(* new snapshot in place.                                                    *)
SyncFails ==
    /\ At("sync")
    /\ Finish("error")
    /\ UNCHANGED <<up, mem, diskVars, gate, req, requests, reading, crashes, tallyVars>>

(* The staged stores are published, then the text index, under the guard.    *)
PublishStores ==
    /\ At("publish")
    /\ mem' = [txn.staged EXCEPT !.index = mem.index]
    /\ txn' = [txn EXCEPT !.at = "index"]
    /\ UNCHANGED <<up, diskVars, taskVars, reading, crashes, tallyVars>>

PublishIndex ==
    /\ At("index")
    /\ mem' = [mem EXCEPT !.index = txn.staged.index]
    /\ Finish(IF txn.op = "store" THEN "stored" ELSE "removed")
    /\ UNCHANGED <<up, diskVars, gate, req, requests, reading, crashes, tallyVars>>

-----------------------------------------------------------------------------
(* The request's task resumes with its outcome, lets the persistence lock go *)
(* and answers its client.                                                   *)
Answer(c) ==
    /\ up /\ pc[c] = "answer"
    /\ pc' = [pc EXCEPT ![c] = "idle"]
    /\ gate' = None
    /\ LET t == req[c].text
       IN  /\ promised' = IF result[c] = "stored"
                          THEN [promised EXCEPT ![t] = @ + 1] ELSE promised
           /\ sent' = IF result[c] = "removed"
                      THEN [sent EXCEPT ![t] = Less(@)] ELSE sent
           /\ refused' = IF req[c].op = "store" /\ result[c] \in {"error", "full"}
                         THEN [refused EXCEPT ![t] = @ + 1] ELSE refused
    /\ UNCHANGED <<up, mem, diskVars, req, result, requests, txn, reading, crashes>>

(* The request is abandoned at an await: the 30-second limit, or its client  *)
(* is gone.  Its locks go with it, except what moved to a blocking thread.   *)
AbandonInGate(c) ==                    \* mutant: the persistence lock stays taken
    /\ up /\ pc[c] \in {"gate", "embed", "lock", "write", "answer"}
    /\ pc' = [pc EXCEPT ![c] = "idle"]
    /\ txn' = IF pc[c] = "write" THEN [txn EXCEPT !.by = None] ELSE txn
    /\ UNCHANGED <<up, mem, diskVars, gate, req, result, requests, reading, crashes,
                   tallyVars>>

Abandon(c) ==
    /\ up /\ pc[c] \in {"gate", "embed", "lock", "write", "answer"}
    /\ pc' = [pc EXCEPT ![c] = "idle"]
    /\ gate' = IF gate = c THEN None ELSE gate
    /\ txn' = IF pc[c] = "write" THEN [txn EXCEPT !.by = None] ELSE txn
    /\ UNCHANGED <<up, mem, diskVars, req, result, requests, reading, crashes, tallyVars>>

(* recall and intersect, under the shared guard: the value of the best match *)
(* is retrieved, then the text index is asked which text it is.  The other   *)
(* requests that read end with the first of these steps.                     *)
Retrieve(r) ==
    /\ up /\ reading[r] = None
    /\ txn = None
    /\ \E q \in Question : reading' = [reading EXCEPT ![r] = Retrieved(q, mem.nra)]
    /\ UNCHANGED <<up, mem, diskVars, taskVars, txn, crashes, tallyVars>>

RecallText(r) ==
    /\ up /\ reading[r] # None
    /\ reading' = [reading EXCEPT ![r] = None]
    /\ UNCHANGED <<up, mem, diskVars, taskVars, txn, crashes, tallyVars>>

-----------------------------------------------------------------------------
(* The process is gone, with everything in memory.  A power loss also        *)
(* decides which of the snapshots that may be on the disk is there.          *)
Crash ==
    /\ up
    /\ crashes < MaxCrashes
    /\ up' = FALSE
    /\ crashes' = crashes + 1
    /\ \/ UNCHANGED diskVars
       \/ \E found \in kept : disk' = found /\ kept' = {found}
    /\ mem' = EmptyStore(0)
    /\ gate' = None
    /\ pc' = [c \in Client |-> "idle"]
    /\ txn' = None
    /\ reading' = [r \in Reader |-> None]
    /\ UNCHANGED <<req, result, requests, tallyVars>>

(* load_or_create_manager.  A snapshot that is there must load, or the       *)
(* server does not start.                                                    *)
Units(capacity) == IF capacity = None THEN DefaultUnits ELSE capacity

RestartFresh ==                        \* mutant: starts without the snapshot
    /\ ~up
    /\ up' = TRUE
    /\ \E capacity \in Capacities : mem' = EmptyStore(Units(capacity))
    /\ UNCHANGED <<diskVars, taskVars, txn, reading, crashes, tallyVars>>

Restart ==
    /\ ~up
    /\ up' = TRUE
    /\ \E capacity \in Capacities :
          IF disk = None THEN mem' = EmptyStore(Units(capacity))
          ELSE Loads(disk, capacity) /\ mem' = Loaded(disk, capacity)
    /\ UNCHANGED <<diskVars, taskVars, txn, reading, crashes, tallyVars>>

Blocking ==
    SaveFails \/ Rename \/ SyncDirectory \/ SyncFails \/ PublishStores \/ PublishIndex

Handle(c) ==
    EnterGate(c) \/ Embed(c) \/ Decline(c) \/ Stage(c) \/ Answer(c)

Next ==
    \/ \E c \in Client : Request(c) \/ Handle(c) \/ Abandon(c)
    \/ Blocking
    \/ \E r \in Reader : Retrieve(r) \/ RecallText(r)
    \/ Crash \/ Restart

(* The blocking thread and a task that can run do run, and a recall ends.    *)
(* Tokio's locks are handed over in the order they were asked for: whoever   *)
(* waits for one that is freed again and again gets it.  The embedding       *)
(* request has a time limit of its own.                                      *)
Fairness ==
    /\ WF_vars(Blocking)
    /\ \A r \in Reader : WF_vars(RecallText(r))
    /\ \A c \in Client : SF_vars(EnterGate(c)) /\ WF_vars(Embed(c))
                         /\ SF_vars(Decline(c) \/ Stage(c)) /\ WF_vars(Answer(c))

Spec == Init /\ [][Next]_vars /\ Fairness

-----------------------------------------------------------------------------
(* What a mutation stages always passes the validation that save runs, and   *)
(* what is published the one of a start: no sequence of stores and forgets   *)
(* leaves a store that refuses every later mutation, or a snapshot that      *)
(* keeps the server from starting with the capacity it had.                  *)
NeverWedged ==
    /\ txn # None => Valid(Snapshot(txn.staged))
    /\ up /\ disk # None => Loads(disk, None)

(* A store that was confirmed, or was in the snapshot the service began      *)
(* with, is in memory and in every snapshot that a crash or a power loss can *)
(* leave, until a forget of it reaches the disk; and nothing is there that   *)
(* was not asked for: what a confirmed forget removed does not come back.    *)
ConfirmedKept ==
    \A t \in Text :
        /\ up => Copies(mem.texts, t) \in promised[t] .. sent[t]
        /\ \A s \in kept \ {None} : Copies(Labels(s), t) \in promised[t] .. sent[t]
        /\ None \in kept => promised[t] = 0

(* A confirmation is given only for what is on the disk for good: no         *)
(* snapshot but the published one can be found there.                        *)
ConfirmedIsDurable ==
    \A c \in Client : pc[c] = "answer" /\ result[c] \in {"stored", "removed"} =>
        kept = {Snapshot(mem)}

(* A mutation answered with an error is not in the memory of the process     *)
(* that answered.                                                            *)
RefusedNotPublished ==
    crashes = 0 => \A t \in Text : Copies(mem.texts, t) + refused[t] <= sent[t]

(* The stores, the labels and the index speak of the same facts, renumbered  *)
(* as often as they may be: a text that is stored is recalled with a full    *)
(* score and does not surprise; there is no match only for what no stored    *)
(* text is near to; and what a new fact is said to crowd are the labels that *)
(* no other stored text is about as near to.  And a recall that retrieved a  *)
(* value finds its text in the index, which it reads under another lock,     *)
(* whatever is stored and forgotten meanwhile.                               *)
QueriesAgree ==
    /\ \A r \in Reader : reading[r] # None =>
          NearestText(reading[r].value, mem.index.entries) = reading[r].value
    /\ up /\ txn = None =>
        LET texts == mem.texts
            Nearest(k) == Max({0} \cup {Similarity(texts[n], texts[k]) :
                                       n \in DOMAIN texts \ {k}})
        IN  /\ \A t \in Texts(texts) :
                  /\ Retrieved(t, mem.nra) = [value |-> t, energy |-> -50]
                  /\ Unsurprising(mem.rem, t)
            /\ \A q \in Question :
                  (Tier(Retrieved(q, mem.nra).energy) # "no match") <=>
                      \E t \in Texts(texts) : Similarity(q, t) > 0
            /\ \A t \in Text :
                  Crowded(mem.nra, t) =
                      {k \in DOMAIN texts : Similarity(t, texts[k]) > Nearest(k) + 1}
            /\ \A t \in Text : (Severity(mem.nra, t) = "none") <=> Crowded(mem.nra, t) = {}
            /\ Health(mem.nra, mem.units).memories = Len(texts)

(* Every request is answered, abandoned or cut off by a crash, however many  *)
(* others want the locks.                                                    *)
Answered == \A c \in Client : pc[c] # "idle" ~> pc[c] = "idle"

(* manager.rs: a failed disk operation cannot leak a supposedly failed       *)
(* mutation into memory.                                                     *)
RefusedStaysOut ==
    up => \A t \in Text : Copies(mem.texts, t) + refused[t] <= sent[t]
=============================================================================
