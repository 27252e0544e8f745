---------------------------- MODULE ServerProofs ----------------------------
(***************************************************************************)
(* Proofs about Server, for any environment, any clients and any mix of    *)
(* what they send, and any MCP input: who is let in, that an answer says   *)
(* what became of the memories, and that each MCP line has its own.        *)
(***************************************************************************)
EXTENDS Server, FiniteSetTheorems, SequenceTheorems, WellFoundedInduction, TLAPS

-----------------------------------------------------------------------------
Phases == {"new", "arrived", "counted", "holding", "body", "waiting", "embedding",
           "staging", "writing", "detached", "answered"}

(* Past the screening, with a handler or with what it left. *)
Inside == {"body", "waiting", "embedding", "staging", "writing", "detached"}

Holders == {r \in Client : Holding(r)}

EffectOf(what) == {r \in Client : effect[r] = what}

Types ==
    /\ phase \in [Client -> Phases] /\ status \in [Client -> Codes \cup {None}]
    /\ effect \in [Client -> {None, "stored", "removed"}]
    /\ memories \in 0 .. MaxMemories /\ window \in 0 .. MaxPerMinute /\ permits \in Nat

(* Which mode the server is in says what was checked, and who is served. *)
ModeOK ==
    /\ mode # None => config = FromEnv(env)
    /\ mode \in {"rest", "draining", "stopped"} => RestSecure(config) /\ requests \in Mixes
    /\ mode \in {None, "mcp", "refused"} =>
          \A r \in Client : phase[r] = "new"
    /\ mode = "mcp" /\ memories > 0 => MutationsEnabled

Screened ==
    \A r \in Client :
        (phase[r] \in Inside \/ effect[r] # None \/ status[r] \in {200, 400, 409, 413, 415, 422, 500})
           => Admitted(r)

(* The phase of a request says what it may have done and been told. *)
Ledger ==
    \A r \in Client :
        /\ phase[r] # "answered" => effect[r] = None
        /\ phase[r] \notin {"answered", "detached"} => status[r] = None
        /\ phase[r] = "detached" => status[r] \in {None, 503}
        /\ Promised(r)

(* Only mutations wait for the lock, stage and write; who writes has the     *)
(* guard, and nothing has changed since it staged.                           *)
Mutating == {"waiting", "staging", "writing", "detached"}

Writers ==
  /\ \A r \in Client : phase[r] \in Mutating => Op(r) # "read"
  /\ \A r \in Client : phase[r] \in {"writing", "detached"} =>
        /\ guard = r
        /\ Op(r) = "store" => memories < MaxMemories
        /\ Op(r) = "forget" => memories > 0

Counts ==
    /\ IsFiniteSet(Holders) /\ permits + Cardinality(Holders) = MaxConcurrent
    /\ IsFiniteSet(counted) /\ Cardinality(counted) <= window
    /\ IsFiniteSet(EffectOf("stored")) /\ IsFiniteSet(EffectOf("removed"))
    /\ mode # "mcp" =>
          memories = Cardinality(EffectOf("stored")) - Cardinality(EffectOf("removed"))

IInv == Types /\ ModeOK /\ Screened /\ Ledger /\ Writers /\ Counts

(* What stays as it is in a step that serves no REST client. *)
LEMMA RestStutter ==
    ASSUME IInv, UNCHANGED <<restState>>, memories' = memories
    PROVE  Types' /\ (requests' = requests => Writers')
  <1>1. /\ phase' = phase /\ status' = status /\ effect' = effect /\ permits' = permits
        /\ window' = window /\ guard' = guard
    BY DEF restState
  <1> QED BY <1>1 DEF IInv, Types, Writers, Op

-----------------------------------------------------------------------------
(* A client's request moves on without touching the memories: its phase and  *)
(* status, the permit and the guard, each as it may be there.                *)
HoldingPhases == {"holding", "body", "waiting", "embedding", "staging", "writing"}

Move(r, p, s) ==
    /\ mode \in {"rest", "draining"} /\ UNCHANGED <<startVars, requests, memories, effect>>
    /\ phase' = [phase EXCEPT ![r] = p] /\ status' = [status EXCEPT ![r] = s]
    /\ phase[r] # "answered"
    /\ (Holding(r) /\ p \notin HoldingPhases) => permits' = permits + 1
    /\ (~Holding(r) /\ p \in HoldingPhases) => permits > 0 /\ permits' = permits - 1
    /\ (Holding(r) <=> p \in HoldingPhases) => permits' = permits
    /\ p \in {"writing", "detached"} =>
           /\ guard' = r
           /\ Op(r) = "store" => memories < MaxMemories
           /\ Op(r) = "forget" => memories > 0
    /\ p \in Mutating => Op(r) # "read"
    /\ \A c \in Client \ {r} : phase[c] \in {"writing", "detached"} => guard' = guard
    /\ (p \in Inside \/ s \in {200, 400, 409, 413, 415, 422, 500}) => Admitted(r)
    /\ p \notin {"answered", "detached"} => s = None
    /\ p = "detached" => s \in {None, 503}
    /\ s = 200 => Op(r) # "store"
    /\ IsFiniteSet(counted') /\ Cardinality(counted') <= window' /\ window' \in 0 .. MaxPerMinute

LEMMA MoveInv ==
    ASSUME IInv, NEW r \in Client, NEW p \in Phases, NEW s \in Codes \cup {None}, Move(r, p, s)
    PROVE  IInv'
  <1> USE DEF Move
  <1>1. /\ phase'[r] = p /\ status'[r] = s /\ effect' = effect /\ effect[r] = None
        /\ \A c \in Client \ {r} : phase'[c] = phase[c] /\ status'[c] = status[c]
        /\ requests' = requests /\ mode' = mode /\ env' = env /\ config' = config
        /\ memories' = memories
    BY DEF IInv, Types, Ledger, startVars
  <1>2. \A c \in Client : Op(c)' = Op(c) /\ (Admitted(c)' <=> Admitted(c))
    BY <1>1 DEF Op, Admitted
  <1>3. permits \in Nat /\ IsFiniteSet(Holders) /\ permits + Cardinality(Holders) = MaxConcurrent
        /\ Cardinality(Holders) \in Nat
    BY FS_CardinalityType DEF IInv, Types, Counts
  <1>4. /\ permits' \in Nat /\ IsFiniteSet(Holders')
        /\ permits' + Cardinality(Holders') = MaxConcurrent
    <2>1. /\ \A c \in Client : c \in Holders <=> phase[c] \in HoldingPhases
          /\ \A c \in Client : c \in Holders' <=> phase'[c] \in HoldingPhases
          /\ r \in Holders <=> Holding(r)
      BY DEF Holders, Holding, HoldingPhases
    <2>2. Holders \subseteq Client /\ Holders' \subseteq Client
      BY DEF Holders
    <2>3. CASE Holding(r) /\ p \notin HoldingPhases
      <3>1. Holders' = Holders \ {r} /\ r \in Holders
        BY <1>1, <2>1, <2>2, <2>3
      <3>2. IsFiniteSet(Holders') /\ Cardinality(Holders') = Cardinality(Holders) - 1
        BY <1>3, <3>1, FS_RemoveElement
      <3> QED BY <1>3, <2>3, <3>2
    <2>4. CASE ~Holding(r) /\ p \in HoldingPhases
      <3>1. Holders' = Holders \cup {r} /\ r \notin Holders
        BY <1>1, <2>1, <2>2, <2>4
      <3>2. IsFiniteSet(Holders') /\ Cardinality(Holders') = Cardinality(Holders) + 1
        BY <1>3, <3>1, FS_AddElement
      <3> QED BY <1>3, <2>4, <3>2
    <2>5. CASE Holding(r) <=> p \in HoldingPhases
      <3>1. Holders' = Holders
        BY <1>1, <2>1, <2>2, <2>5
      <3> QED BY <1>3, <2>5, <3>1
    <2> QED BY <2>3, <2>4, <2>5
  <1>5. Types'
    BY <1>1, <1>4 DEF IInv, Types
  <1>6. ModeOK'
    BY <1>1, StartupAssumption DEF IInv, ModeOK, MutationsEnabled, Modes
  <1>7. Screened'
    BY <1>1, <1>2 DEF IInv, Screened
  <1>8. Ledger'
    <2>1. s = 200 => Op(r) # "store"
      OBVIOUS
    <2>2. Promised(r)'
      BY <1>1, <1>2, <2>1 DEF Promised
    <2>3. \A c \in Client \ {r} : Promised(c)'
      BY <1>1, <1>2 DEF IInv, Ledger, Promised
    <2> QED BY <1>1, <2>2, <2>3 DEF IInv, Ledger
  <1>9. Writers'
    BY <1>1, <1>2 DEF IInv, Writers
  <1>10. Counts'
    <2>1. EffectOf("stored")' = EffectOf("stored") /\ EffectOf("removed")' = EffectOf("removed")
      BY <1>1 DEF EffectOf
    <2> QED BY <1>1, <1>4, <2>1 DEF IInv, Counts
  <1> QED BY <1>5, <1>6, <1>7, <1>8, <1>9, <1>10 DEF IInv

-----------------------------------------------------------------------------
(* A request that is answered, and one that is dropped. *)
LEMMA RespondInv ==
    ASSUME IInv, NEW r \in Client, NEW s \in Codes \cup {None},
           mode \in {"rest", "draining"},
           UNCHANGED <<startVars, requests, memories, effect>>,
           phase[r] # "answered", Respond(r, s),
           s \in {200, 400, 409, 413, 415, 422, 500} => Admitted(r),
           s = 200 => Op(r) # "store",
           IsFiniteSet(counted'), Cardinality(counted') <= window',
           window' \in 0 .. MaxPerMinute
    PROVE  IInv'
  <1>1. /\ phase' = [phase EXCEPT ![r] = "answered"] /\ status' = [status EXCEPT ![r] = s]
        /\ permits' = IF Holding(r) THEN permits + 1 ELSE permits
        /\ guard' = IF guard = r THEN None ELSE guard
    BY DEF Respond, End
  <1>2. \A c \in Client \ {r} : phase[c] \in {"writing", "detached"} => guard' = guard
    BY <1>1 DEF IInv, Writers
  <1>3. "answered" \notin HoldingPhases /\ "answered" \in Phases
        /\ "answered" \notin Inside \cup Mutating \cup {"writing", "detached"}
    BY DEF HoldingPhases, Phases, Inside, Mutating
  <1>4. Move(r, "answered", s)
    BY <1>1, <1>2, <1>3 DEF Move
  <1> QED BY <1>3, <1>4, MoveInv

LEMMA AbandonInv ==
    ASSUME IInv, NEW r \in Client, NEW s \in {None, 503},
           mode \in {"rest", "draining"},
           UNCHANGED <<startVars, requests>>, Abandon(r, s)
    PROVE  IInv'
  <1>1. /\ phase[r] \notin {"new", "answered", "detached"}
        /\ UNCHANGED <<memories, effect, window, counted>> /\ End(r, AbandonPhase(r), s)
    BY DEF Abandon, DropHandler, rate
  <1>2. s \in Codes \cup {None} /\ s \notin {200, 400, 409, 413, 415, 422, 500} /\ s # 200
    BY RestAssumption DEF Codes
  <1>3. IsFiniteSet(counted') /\ Cardinality(counted') <= window' /\ window' \in 0 .. MaxPerMinute
    BY <1>1 DEF IInv, Counts, Types
  <1>4. CASE phase[r] = "writing"
    <2>1. /\ phase' = [phase EXCEPT ![r] = "detached"] /\ status' = [status EXCEPT ![r] = s]
          /\ permits' = IF Holding(r) THEN permits + 1 ELSE permits
          /\ guard' = guard
      BY <1>1, <1>4 DEF End, AbandonPhase
    <2>2. Holding(r) /\ "detached" \notin HoldingPhases /\ "detached" \in Phases
      BY <1>4 DEF Holding, HoldingPhases, Phases
    <2>3. /\ guard' = r
          /\ Op(r) = "store" => memories < MaxMemories
          /\ Op(r) = "forget" => memories > 0
      BY <1>4, <2>1 DEF IInv, Writers
    <2>4. Admitted(r)
      BY <1>4 DEF IInv, Screened, Inside
    <2>5. Op(r) # "read"
      BY <1>4 DEF IInv, Writers, Mutating
    <2>6. Move(r, "detached", s)
      BY <1>1, <1>2, <1>3, <1>4, <2>1, <2>2, <2>3, <2>4, <2>5 DEF Move
    <2> QED BY <1>2, <2>2, <2>6, MoveInv
  <1>5. CASE phase[r] # "writing"
    <2>1. Respond(r, s)
      BY <1>1, <1>5 DEF Respond, AbandonPhase
    <2> QED BY <1>1, <1>2, <1>3, <2>1, RespondInv
  <1> QED BY <1>4, <1>5

-----------------------------------------------------------------------------
(* Up to the screening. *)
LEMMA SameRate ==
    ASSUME IInv, UNCHANGED rate
    PROVE  IsFiniteSet(counted') /\ Cardinality(counted') <= window' /\ window' \in 0 .. MaxPerMinute
  BY DEF IInv, Counts, Types, rate

(* A request that goes on, as far into the server as it was, or further in.  *)
LEMMA GoOnInv ==
    ASSUME IInv, NEW r \in Client, NEW p \in Phases \ {"answered", "detached"},
           mode \in {"rest", "draining"},
           UNCHANGED <<startVars, requests, memories, effect, status>>,
           phase[r] \notin {"answered", "detached"}, phase' = [phase EXCEPT ![r] = p],
           ~Holding(r) /\ p \in HoldingPhases => permits > 0 /\ permits' = permits - 1,
           Holding(r) => p \in HoldingPhases,
           (Holding(r) <=> p \in HoldingPhases) => permits' = permits,
           p \in Inside => Admitted(r), p \in Mutating => Op(r) # "read",
           p = "writing" =>
               /\ guard' = r
               /\ Op(r) = "store" => memories < MaxMemories
               /\ Op(r) = "forget" => memories > 0,
           \A c \in Client \ {r} : phase[c] \in {"writing", "detached"} => guard' = guard,
           IsFiniteSet(counted'), Cardinality(counted') <= window',
           window' \in 0 .. MaxPerMinute
    PROVE  IInv'
  <1>1. status[r] = None /\ status' = [status EXCEPT ![r] = None]
    BY DEF IInv, Types, Ledger
  <1>2. None \in Codes \cup {None} /\ None \notin {200, 400, 409, 413, 415, 422, 500}
    BY RestAssumption DEF Codes
  <1>3. None # 200
    BY <1>2
  <1>4. Move(r, p, None)
    BY <1>1, <1>2, <1>3 DEF Move
  <1> QED BY <1>2, <1>4, MoveInv

LEMMA ArriveInv ==
    ASSUME IInv, NEW r \in Client, mode \in {"rest", "draining"},
           UNCHANGED <<startVars, requests>>, Arrive(r)
    PROVE  IInv'
  <1>1. /\ phase[r] = "new" /\ phase' = [phase EXCEPT ![r] = "arrived"]
        /\ UNCHANGED <<status, effect, permits, guard, memories, rate>>
    BY DEF Arrive, Continue
  <1>2. ~Holding(r) /\ "arrived" \notin HoldingPhases /\ "arrived" \in Phases
        /\ "arrived" \notin Inside \cup Mutating
    BY <1>1 DEF Holding, HoldingPhases, Phases, Inside, Mutating
  <1>3. IsFiniteSet(counted') /\ Cardinality(counted') <= window' /\ window' \in 0 .. MaxPerMinute
    BY <1>1, SameRate
  <1> QED BY <1>1, <1>2, <1>3, GoOnInv

LEMMA AccountInv ==
    ASSUME IInv, NEW r \in Client, mode \in {"rest", "draining"},
           UNCHANGED <<startVars, requests>>, Account(r)
    PROVE  IInv'
  <1>1. PICK used : used = IF elapsed THEN 0 ELSE window
    OBVIOUS
  <1>2. PICK seen : seen = IF elapsed THEN {} ELSE counted
    OBVIOUS
  <1>3. /\ phase[r] = "arrived" /\ UNCHANGED <<effect, memories>>
        /\ IF used >= MaxPerMinute
           THEN window' = used /\ counted' = seen /\ Respond(r, 429)
           ELSE /\ window' = used + 1 /\ counted' = seen \cup {r}
                /\ phase' = [phase EXCEPT ![r] = "counted"]
                /\ UNCHANGED <<status, permits, lock, guard>>
    BY <1>1, <1>2 DEF Account
  <1>4. used \in 0 .. MaxPerMinute /\ IsFiniteSet(seen) /\ Cardinality(seen) <= used
        /\ Cardinality(seen) \in Nat
    BY <1>1, <1>2, FS_EmptySet, FS_CardinalityType, RestAssumption DEF IInv, Counts, Types
  <1>5. CASE used >= MaxPerMinute
    BY <1>3, <1>4, <1>5, RespondInv DEF Codes
  <1>6. CASE ~(used >= MaxPerMinute)
    <2>1. /\ IsFiniteSet(seen \cup {r}) /\ Cardinality(seen \cup {r}) <= used + 1
          /\ used + 1 \in 0 .. MaxPerMinute
      <3>1. IsFiniteSet(seen \cup {r})
            /\ Cardinality(seen \cup {r}) \in {Cardinality(seen), Cardinality(seen) + 1}
        BY <1>4, FS_AddElement
      <3> QED BY <1>4, <1>6, <3>1, RestAssumption
    <2>2. ~Holding(r) /\ "counted" \notin HoldingPhases /\ "counted" \in Phases
          /\ "counted" \notin Inside \cup Mutating
      BY <1>3 DEF Holding, HoldingPhases, Phases, Inside, Mutating
    <2> QED BY <1>3, <1>6, <2>1, <2>2, GoOnInv
  <1> QED BY <1>5, <1>6

LEMMA AcquireInv ==
    ASSUME IInv, NEW r \in Client, mode \in {"rest", "draining"},
           UNCHANGED <<startVars, requests>>, Acquire(r)
    PROVE  IInv'
  <1>1. /\ phase[r] = "counted" /\ UNCHANGED <<effect, memories, rate>>
        /\ IF permits = 0 THEN Respond(r, 429)
           ELSE /\ permits' = permits - 1 /\ phase' = [phase EXCEPT ![r] = "holding"]
                /\ UNCHANGED <<status, guard>>
    BY DEF Acquire
  <1>2. CASE permits = 0
    BY <1>1, <1>2, SameRate, RespondInv DEF Codes
  <1>3. CASE permits # 0
    <2>1. permits > 0
      BY <1>3 DEF IInv, Types
    <2>2. ~Holding(r) /\ "holding" \in HoldingPhases /\ "holding" \in Phases
          /\ "holding" \notin Inside \cup Mutating
      BY <1>1 DEF Holding, HoldingPhases, Phases, Inside, Mutating
    <2>3. IsFiniteSet(counted') /\ Cardinality(counted') <= window' /\ window' \in 0 .. MaxPerMinute
      BY <1>1, SameRate
    <2> QED BY <1>1, <1>3, <2>1, <2>2, <2>3, GoOnInv
  <1> QED BY <1>2, <1>3

-----------------------------------------------------------------------------
(* The screening, and what a handler does before it writes. *)
LEMMA ScreenInv ==
    ASSUME IInv, NEW r \in Client, mode \in {"rest", "draining"},
           UNCHANGED <<startVars, requests>>, Screen(r)
    PROVE  IInv'
  <1>1. PICK q : q = requests[r]
    OBVIOUS
  <1>2. /\ phase[r] = "holding" /\ UNCHANGED <<effect, memories, rate>>
        /\ \/ Respond(r, 403)
           \/ Respond(r, 401)
           \/ /\ HostAllowed(q) /\ OriginAllowed(q) /\ Authorized(q)
              /\ phase' = [phase EXCEPT ![r] = "body"]
              /\ UNCHANGED <<status, permits, guard>>
    BY <1>1 DEF Screen
  <1>3. IsFiniteSet(counted') /\ Cardinality(counted') <= window' /\ window' \in 0 .. MaxPerMinute
    BY <1>2, SameRate
  <1>4. CASE Respond(r, 403) \/ Respond(r, 401)
    BY <1>2, <1>3, <1>4, RespondInv DEF Codes
  <1>5. CASE /\ HostAllowed(q) /\ OriginAllowed(q) /\ Authorized(q)
             /\ phase' = [phase EXCEPT ![r] = "body"]
             /\ UNCHANGED <<status, permits, guard>>
    <2>1. config = FromEnv(env) /\ RestSecure(config)
      BY StartupAssumption DEF IInv, ModeOK, Modes
    <2>2. env.host \in {"unset", "loopback"} /\ config.token = env.token
      BY <2>1 DEF FromEnv, Read, RestSecure
    <2>3. Admitted(r)
      BY <1>1, <1>5, <2>2 DEF Admitted, HostAllowed, OriginAllowed, Authorized
    <2>4. Holding(r) /\ "body" \in HoldingPhases /\ "body" \in Phases /\ "body" \notin Mutating
      BY <1>2 DEF Holding, HoldingPhases, Phases, Mutating
    <2> QED BY <1>2, <1>3, <1>5, <2>3, <2>4, GoOnInv
  <1> QED BY <1>2, <1>4, <1>5

LEMMA ReadBodyInv ==
    ASSUME IInv, NEW r \in Client, mode \in {"rest", "draining"},
           UNCHANGED <<startVars, requests>>, ReadBody(r)
    PROVE  IInv'
  <1>1. PICK code : code = BodyStatus(requests[r])
    OBVIOUS
  <1>2. PICK to \in {"embedding", "waiting"} : to = IF Op(r) = "read" THEN "embedding" ELSE "waiting"
    OBVIOUS
  <1>3. /\ phase[r] = "body" /\ UNCHANGED <<effect, memories, rate>>
        /\ IF code # 200 THEN Respond(r, code)
           ELSE phase' = [phase EXCEPT ![r] = to] /\ UNCHANGED <<status, permits, guard>>
    BY <1>1, <1>2 DEF ReadBody
  <1>4. IsFiniteSet(counted') /\ Cardinality(counted') <= window' /\ window' \in 0 .. MaxPerMinute
    BY <1>3, SameRate
  <1>5. Admitted(r) /\ requests[r].body \in Bodies
    BY <1>3, RestAssumption DEF IInv, Screened, Inside, ModeOK
  <1>6. code \in {200, 400, 413, 415, 422}
    BY <1>1, <1>5 DEF BodyStatus, Bodies
  <1>7. CASE code # 200
    BY <1>3, <1>4, <1>5, <1>6, <1>7, RespondInv DEF Codes
  <1>8. CASE code = 200
    <2>1. Holding(r) /\ to \in HoldingPhases /\ to \in Phases /\ to # "writing"
          /\ (to \in Mutating => Op(r) # "read")
      BY <1>2, <1>3 DEF Holding, HoldingPhases, Phases, Mutating
    <2> QED BY <1>3, <1>4, <1>5, <1>8, <2>1, GoOnInv
  <1> QED BY <1>7, <1>8

LEMMA TakeLockInv ==
    ASSUME IInv, NEW r \in Client, mode \in {"rest", "draining"},
           UNCHANGED <<startVars, requests>>, TakeLock(r)
    PROVE  IInv'
  <1>1. PICK to \in {"embedding", "staging"} : to = IF Op(r) = "store" THEN "embedding" ELSE "staging"
    OBVIOUS
  <1>2. /\ phase[r] = "waiting" /\ phase' = [phase EXCEPT ![r] = to]
        /\ UNCHANGED <<status, effect, permits, rate, guard, memories>>
    BY <1>1 DEF TakeLock, Continue
  <1>3. IsFiniteSet(counted') /\ Cardinality(counted') <= window' /\ window' \in 0 .. MaxPerMinute
    BY <1>2, SameRate
  <1>4. Admitted(r)
    BY <1>2 DEF IInv, Screened, Inside
  <1>5. Holding(r) /\ to \in HoldingPhases /\ to \in Phases /\ Op(r) # "read"
    BY <1>2 DEF Holding, HoldingPhases, Phases, IInv, Writers, Mutating
  <1> QED BY <1>2, <1>3, <1>4, <1>5, GoOnInv

LEMMA EmbeddedInv ==
    ASSUME IInv, NEW r \in Client, mode \in {"rest", "draining"},
           UNCHANGED <<startVars, requests>>, Embedded(r)
    PROVE  IInv'
  <1>1. /\ phase[r] = "embedding" /\ UNCHANGED <<effect, rate, memories>>
        /\ IF Op(r) = "read" THEN Respond(r, 200)
           ELSE /\ phase' = [phase EXCEPT ![r] = "staging"]
                /\ UNCHANGED <<status, permits, lock, guard>>
    BY DEF Embedded
  <1>2. IsFiniteSet(counted') /\ Cardinality(counted') <= window' /\ window' \in 0 .. MaxPerMinute
    BY <1>1, SameRate
  <1>3. Admitted(r)
    BY <1>1 DEF IInv, Screened, Inside
  <1>4. CASE Op(r) = "read"
    BY <1>1, <1>2, <1>3, <1>4, RespondInv DEF Codes
  <1>5. CASE Op(r) # "read"
    <2>1. Holding(r) /\ "staging" \in HoldingPhases /\ "staging" \in Phases
      BY <1>1 DEF Holding, HoldingPhases, Phases
    <2> QED BY <1>1, <1>2, <1>3, <1>5, <2>1, GoOnInv
  <1> QED BY <1>4, <1>5

LEMMA EmbeddingFailsInv ==
    ASSUME IInv, NEW r \in Client, mode \in {"rest", "draining"},
           UNCHANGED <<startVars, requests>>, EmbeddingFails(r)
    PROVE  IInv'
  <1>1. phase[r] = "embedding" /\ Respond(r, 500) /\ UNCHANGED <<effect, rate, memories>>
    BY DEF EmbeddingFails
  <1>2. IsFiniteSet(counted') /\ Cardinality(counted') <= window' /\ window' \in 0 .. MaxPerMinute
    BY <1>1, SameRate
  <1>3. Admitted(r)
    BY <1>1 DEF IInv, Screened, Inside
  <1> QED BY <1>1, <1>2, <1>3, RespondInv DEF Codes

(* What a mutation makes of the memories. *)
LEMMA Outcomes ==
    ASSUME NEW op \in {"store", "forget", "read"}, memories \in 0 .. MaxMemories
    PROVE  /\ Outcome(op).result \in {"stored", "full", "removed", "nothing", "read"}
           /\ Outcome(op).result = "stored" =>
                 op = "store" /\ memories < MaxMemories /\ Outcome(op).after = memories + 1
           /\ Outcome(op).result = "removed" =>
                 op = "forget" /\ memories > 0 /\ Outcome(op).after = memories - 1
           /\ Outcome(op).result \in {"full", "nothing", "read"} => Outcome(op).after = memories
           /\ Outcome(op).result = "nothing" => op = "forget"
           /\ op = "store" /\ memories < MaxMemories => Outcome(op).result = "stored"
           /\ op = "forget" /\ memories > 0 => Outcome(op).result = "removed"
           /\ op # "read" /\ Outcome(op).result \notin {"full", "nothing"} =>
                 Outcome(op).result \in {"stored", "removed"}
  <1>1. CASE op = "store" /\ memories < MaxMemories
    <2>1. Outcome(op) = [result |-> "stored", after |-> memories + 1]
      BY <1>1 DEF Outcome
    <2> QED BY <1>1, <2>1
  <1>2. CASE op = "store" /\ memories = MaxMemories
    <2>1. Outcome(op) = [result |-> "full", after |-> memories]
      BY <1>2, StartupAssumption DEF Outcome
    <2> QED BY <1>2, <2>1, StartupAssumption
  <1>3. CASE op = "forget" /\ memories > 0
    <2>1. Outcome(op) = [result |-> "removed", after |-> memories - 1]
      BY <1>3 DEF Outcome
    <2> QED BY <1>3, <2>1
  <1>4. CASE op = "forget" /\ memories = 0
    <2>1. Outcome(op) = [result |-> "nothing", after |-> memories]
      BY <1>4 DEF Outcome
    <2> QED BY <1>4, <2>1
  <1>5. CASE op = "read"
    <2>1. Outcome(op) = [result |-> "read", after |-> memories]
      BY <1>5 DEF Outcome
    <2> QED BY <1>5, <2>1
  <1> QED BY <1>1, <1>2, <1>3, <1>4, <1>5, StartupAssumption

LEMMA StageInv ==
    ASSUME IInv, NEW r \in Client, mode \in {"rest", "draining"},
           UNCHANGED <<startVars, requests>>, Stage(r)
    PROVE  IInv'
  <1>1. PICK result : result = Outcome(Op(r)).result
    OBVIOUS
  <1>2. /\ phase[r] = "staging" /\ guard = None /\ UNCHANGED <<effect, memories, rate>>
        /\ \/ result = "full" /\ Respond(r, 409)
           \/ result = "nothing" /\ Respond(r, 200)
           \/ /\ result \notin {"full", "nothing"}
              /\ phase' = [phase EXCEPT ![r] = "writing"] /\ guard' = r
              /\ UNCHANGED <<status, permits>>
    BY <1>1 DEF Stage
  <1>3. IsFiniteSet(counted') /\ Cardinality(counted') <= window' /\ window' \in 0 .. MaxPerMinute
    BY <1>2, SameRate
  <1>4. Admitted(r) /\ Op(r) # "read" /\ memories \in 0 .. MaxMemories
    BY <1>2 DEF IInv, Types, Screened, Inside, Writers, Mutating
  <1>5. Op(r) \in {"store", "forget", "read"}
    BY DEF Op
  <1>6. /\ result = "nothing" => Op(r) # "store"
        /\ result \notin {"full", "nothing"} => result \in {"stored", "removed"}
        /\ result = "stored" => Op(r) = "store" /\ memories < MaxMemories
        /\ result = "removed" => Op(r) = "forget" /\ memories > 0
    BY <1>1, <1>4, <1>5, Outcomes
  <1>7. CASE result = "full" /\ Respond(r, 409)
    BY <1>2, <1>3, <1>4, <1>7, RespondInv DEF Codes
  <1>8. CASE result = "nothing" /\ Respond(r, 200)
    BY <1>2, <1>3, <1>4, <1>6, <1>8, RespondInv DEF Codes
  <1>9. CASE /\ result \notin {"full", "nothing"}
             /\ phase' = [phase EXCEPT ![r] = "writing"] /\ guard' = r
             /\ UNCHANGED <<status, permits>>
    <2>1. Holding(r) /\ "writing" \in HoldingPhases /\ "writing" \in Phases
      BY <1>2 DEF Holding, HoldingPhases, Phases
    <2>2. \A c \in Client : phase[c] \notin {"writing", "detached"}
      BY <1>2, RestAssumption DEF IInv, Writers
    <2>3. /\ Op(r) = "store" => memories < MaxMemories
          /\ Op(r) = "forget" => memories > 0
      BY <1>6, <1>9
    <2> QED BY <1>2, <1>3, <1>4, <1>9, <2>1, <2>2, <2>3, GoOnInv
  <1> QED BY <1>2, <1>7, <1>8, <1>9

-----------------------------------------------------------------------------
(* The write that ends, well or not, with its client there or gone. *)
EndsWell(r, s) ==
    /\ mode \in {"rest", "draining"} /\ UNCHANGED <<startVars, requests, window, counted>>
    /\ phase[r] \in {"writing", "detached"} /\ Publish(r)
    /\ phase' = [phase EXCEPT ![r] = "answered"] /\ status' = [status EXCEPT ![r] = s]
    /\ s \in {200, None, 503}
    /\ permits' = IF phase[r] = "writing" THEN permits + 1 ELSE permits

LEMMA PublishInv ==
    ASSUME IInv, NEW r \in Client, NEW s \in Codes \cup {None}, EndsWell(r, s)
    PROVE  IInv'
  <1> USE DEF EndsWell
  <1>1. PICK result, after : result = Outcome(Op(r)).result /\ after = Outcome(Op(r)).after
    OBVIOUS
  <1>2. /\ guard = r /\ memories' = after /\ effect' = [effect EXCEPT ![r] = result]
    BY <1>1 DEF Publish
  <1>3. Op(r) \in {"store", "forget"} /\ memories \in 0 .. MaxMemories
    BY DEF Op, IInv, Types, Writers, Mutating
  <1>4. \/ result = "stored" /\ Op(r) = "store" /\ memories < MaxMemories /\ after = memories + 1
        \/ result = "removed" /\ Op(r) = "forget" /\ memories > 0 /\ after = memories - 1
    BY <1>1, <1>3, Outcomes DEF IInv, Writers
  <1>5. /\ phase'[r] = "answered" /\ status'[r] = s /\ effect'[r] = result /\ effect[r] = None
        /\ \A c \in Client \ {r} :
              phase'[c] = phase[c] /\ status'[c] = status[c] /\ effect'[c] = effect[c]
        /\ requests' = requests /\ mode' = mode /\ env' = env /\ config' = config
    BY <1>2 DEF IInv, Types, Ledger, startVars
  <1>6. \A c \in Client : Op(c)' = Op(c) /\ (Admitted(c)' <=> Admitted(c))
    BY <1>5 DEF Op, Admitted
  <1>7. \A c \in Client \ {r} : phase[c] \notin {"writing", "detached"}
    BY <1>2 DEF IInv, Writers
  <1>8. permits' \in Nat /\ IsFiniteSet(Holders') /\ permits' + Cardinality(Holders') = MaxConcurrent
    <2>1. /\ \A c \in Client : c \in Holders <=> phase[c] \in HoldingPhases
          /\ \A c \in Client : c \in Holders' <=> phase'[c] \in HoldingPhases
          /\ Holders \subseteq Client /\ Holders' \subseteq Client
      BY DEF Holders, Holding, HoldingPhases
    <2>2. permits \in Nat /\ IsFiniteSet(Holders) /\ permits + Cardinality(Holders) = MaxConcurrent
          /\ Cardinality(Holders) \in Nat
      BY FS_CardinalityType DEF IInv, Types, Counts
    <2>3. CASE phase[r] = "writing"
      <3>1. Holders' = Holders \ {r} /\ r \in Holders
        BY <1>5, <2>1, <2>3 DEF HoldingPhases
      <3>2. IsFiniteSet(Holders') /\ Cardinality(Holders') = Cardinality(Holders) - 1
        BY <2>2, <3>1, FS_RemoveElement
      <3> QED BY <2>2, <2>3, <3>2
    <2>4. CASE phase[r] = "detached"
      <3>1. Holders' = Holders
        BY <1>5, <2>1, <2>4 DEF HoldingPhases
      <3> QED BY <2>2, <2>4, <3>1
    <2> QED BY <2>3, <2>4
  <1>9. Types'
    BY <1>2, <1>3, <1>4, <1>8, StartupAssumption DEF IInv, Types, Phases
  <1>10. ModeOK'
    BY <1>5, StartupAssumption DEF IInv, ModeOK, MutationsEnabled, Modes
  <1>11. Screened'
    BY <1>5, <1>6 DEF IInv, Screened, Inside
  <1>12. Ledger'
    <2>1. Promised(r)'
      <3>1. s \notin {400, 401, 403, 409, 413, 415, 422, 429, 500}
        BY RestAssumption DEF Codes
      <3> QED BY <1>4, <1>5, <1>6, <3>1 DEF Promised
    <2>2. \A c \in Client \ {r} : Promised(c)'
      BY <1>5, <1>6 DEF IInv, Ledger, Promised
    <2> QED BY <1>5, <2>1, <2>2 DEF IInv, Ledger
  <1>13. Writers'
    BY <1>5, <1>6, <1>7 DEF IInv, Writers, Mutating
  <1>14. Counts'
    <2>1. IsFiniteSet(EffectOf("stored")) /\ IsFiniteSet(EffectOf("removed"))
          /\ Cardinality(EffectOf("stored")) \in Nat /\ Cardinality(EffectOf("removed")) \in Nat
          /\ memories = Cardinality(EffectOf("stored")) - Cardinality(EffectOf("removed"))
      BY FS_CardinalityType DEF IInv, Counts
    <2>2. None \notin {"stored", "removed"}
      BY RestAssumption
    <2>3. /\ IsFiniteSet(EffectOf("stored")') /\ IsFiniteSet(EffectOf("removed")')
          /\ memories' = Cardinality(EffectOf("stored")') - Cardinality(EffectOf("removed")')
      <3>1. CASE result = "stored"
        <4>1. EffectOf("stored")' = EffectOf("stored") \cup {r} /\ r \notin EffectOf("stored")
          BY <1>5, <2>2, <3>1 DEF EffectOf
        <4>2. EffectOf("removed")' = EffectOf("removed")
          BY <1>5, <2>2, <3>1 DEF EffectOf
        <4>3. IsFiniteSet(EffectOf("stored")')
              /\ Cardinality(EffectOf("stored")') = Cardinality(EffectOf("stored")) + 1
          BY <2>1, <4>1, FS_AddElement
        <4> QED BY <1>2, <1>3, <1>4, <2>1, <3>1, <4>2, <4>3
      <3>2. CASE result = "removed"
        <4>1. EffectOf("removed")' = EffectOf("removed") \cup {r} /\ r \notin EffectOf("removed")
          BY <1>5, <2>2, <3>2 DEF EffectOf
        <4>2. EffectOf("stored")' = EffectOf("stored")
          BY <1>5, <2>2, <3>2 DEF EffectOf
        <4>3. IsFiniteSet(EffectOf("removed")')
              /\ Cardinality(EffectOf("removed")') = Cardinality(EffectOf("removed")) + 1
          BY <2>1, <4>1, FS_AddElement
        <4> QED BY <1>2, <1>3, <1>4, <2>1, <3>2, <4>2, <4>3
      <3> QED BY <1>4, <3>1, <3>2
    <2> QED BY <1>8, <2>3 DEF IInv, Counts
  <1> QED BY <1>9, <1>10, <1>11, <1>12, <1>13, <1>14 DEF IInv

LEMMA WrittenInv ==
    ASSUME IInv, NEW r \in Client, mode \in {"rest", "draining"},
           UNCHANGED <<startVars, requests>>, Written(r) \/ WrittenDetached(r)
    PROVE  IInv'
  <1>1. Publish(r) /\ UNCHANGED <<window, counted>>
    BY DEF Written, WrittenDetached, rate
  <1>2. CASE Written(r)
    <2>1. /\ phase[r] = "writing" /\ phase' = [phase EXCEPT ![r] = "answered"]
          /\ status' = [status EXCEPT ![r] = 200]
          /\ permits' = IF Holding(r) THEN permits + 1 ELSE permits
      BY <1>2 DEF Written, Respond, End
    <2>2. permits' = IF phase[r] = "writing" THEN permits + 1 ELSE permits
      BY <2>1 DEF Holding
    <2>3. EndsWell(r, 200) /\ 200 \in Codes \cup {None}
      BY <1>1, <2>1, <2>2 DEF EndsWell, Codes
    <2> QED BY <2>3, PublishInv
  <1>3. CASE WrittenDetached(r)
    <2>1. /\ phase[r] = "detached" /\ phase' = [phase EXCEPT ![r] = "answered"]
          /\ UNCHANGED <<status, permits>>
      BY <1>3 DEF WrittenDetached
    <2>2. PICK s \in {None, 503} : s = status[r]
      BY <2>1 DEF IInv, Ledger
    <2>3. status' = [status EXCEPT ![r] = s] /\ s \in Codes \cup {None}
      BY <2>1, <2>2 DEF IInv, Types, Codes
    <2>4. EndsWell(r, s)
      BY <1>1, <2>1, <2>2, <2>3 DEF EndsWell
    <2> QED BY <2>3, <2>4, PublishInv
  <1> QED BY <1>2, <1>3

LEMMA WriteFailsInv ==
    ASSUME IInv, NEW r \in Client, mode \in {"rest", "draining"},
           UNCHANGED <<startVars, requests>>, WriteFails(r)
    PROVE  IInv'
  <1>1. /\ phase[r] \in {"writing", "detached"} /\ UNCHANGED <<effect, memories, rate>>
        /\ SaveFailed(r)
    BY DEF WriteFails
  <1>2. IsFiniteSet(counted') /\ Cardinality(counted') <= window' /\ window' \in 0 .. MaxPerMinute
    BY <1>1, SameRate
  <1>3. Admitted(r)
    BY <1>1 DEF IInv, Screened, Inside
  <1>4. CASE phase[r] = "writing"
    <2>1. Respond(r, 500)
      BY <1>1, <1>4 DEF SaveFailed
    <2> QED BY <1>1, <1>2, <1>3, <1>4, <2>1, RespondInv DEF Codes
  <1>5. CASE phase[r] = "detached"
    <2>1. /\ phase' = [phase EXCEPT ![r] = "answered"]
          /\ UNCHANGED <<status, permits>>
      BY <1>1, <1>5 DEF SaveFailed
    <2>2. PICK s \in {None, 503} : s = status[r]
      BY <1>5 DEF IInv, Ledger
    <2>3. status' = [status EXCEPT ![r] = s] /\ s \in Codes \cup {None}
      BY <2>1, <2>2 DEF IInv, Types, Codes
    <2>4. \A c \in Client \ {r} : phase[c] \in {"writing", "detached"} => guard' = guard
      BY <1>1 DEF IInv, Writers
    <2>5. /\ ~Holding(r) /\ "answered" \in Phases /\ "answered" \notin HoldingPhases
          /\ "answered" \notin Inside /\ "answered" \notin Mutating
      BY <1>5 DEF Holding, HoldingPhases, Phases, Inside, Mutating
    <2>6. s \notin {200, 400, 409, 413, 415, 422, 500} /\ s # 200
      BY RestAssumption DEF Codes
    <2>7. Move(r, "answered", s)
      <3>1. UNCHANGED <<startVars, requests, memories, effect>> /\ phase[r] # "answered"
        BY <1>1, <1>5
      <3>2. /\ (Holding(r) /\ "answered" \notin HoldingPhases) => permits' = permits + 1
            /\ (~Holding(r) /\ "answered" \in HoldingPhases) => permits > 0 /\ permits' = permits - 1
            /\ (Holding(r) <=> "answered" \in HoldingPhases) => permits' = permits
        BY <2>1, <2>5
      <3>3. /\ ("answered" \in Inside \/ s \in {200, 400, 409, 413, 415, 422, 500}) => Admitted(r)
            /\ s = 200 => Op(r) # "store"
        BY <1>3, <2>6
      <3> QED BY ONLY mode \in {"rest", "draining"}, <1>2, <2>1, <2>3, <2>4, <2>5, <3>1, <3>2, <3>3 DEF Move
    <2> QED BY <2>3, <2>5, <2>7, MoveInv
  <1> QED BY <1>1, <1>4, <1>5

-----------------------------------------------------------------------------
(* The steps that serve no REST client: what they leave alone keeps the      *)
(* invariant, whatever they do to the mode and to an MCP server's memories.  *)
LEMMA ElsewhereInv ==
    ASSUME IInv, UNCHANGED <<phase, status, effect, permits, window, counted, guard, requests, env>>,
           \/ memories' = memories
           \/ mode = "mcp" /\ memories' \in 0 .. MaxMemories,
           ModeOK', mode = "mcp" => mode' = "mcp"
    PROVE  IInv'
  <1>1. Types' /\ UNCHANGED <<phase, status, effect, permits, window, counted, guard, requests, env>>
    BY DEF IInv, Types
  <1>2. \A r \in Client : (Op(r)' = Op(r)) /\ (Admitted(r)' <=> Admitted(r)) /\ (Holding(r)' <=> Holding(r))
    BY <1>1 DEF Op, Admitted, Holding
  <1>3. Screened' /\ Ledger'
    BY <1>1, <1>2 DEF IInv, Screened, Ledger, Promised
  <1>4. Writers'
    <2>1. CASE memories' = memories
      BY <1>1, <1>2, <2>1 DEF IInv, Writers
    <2>2. CASE mode = "mcp"
      <3>1. \A r \in Client : phase[r] = "new"
        BY <2>2 DEF IInv, ModeOK
      <3> QED BY <1>1, <3>1 DEF Writers, Mutating
    <2> QED BY <2>1, <2>2
  <1>5. Holders' = Holders /\ EffectOf("stored")' = EffectOf("stored")
        /\ EffectOf("removed")' = EffectOf("removed")
    BY <1>1, <1>2 DEF Holders, EffectOf
  <1>6. Counts'
    BY <1>1, <1>5 DEF IInv, Counts
  <1> QED BY <1>1, <1>3, <1>4, <1>6 DEF IInv

LEMMA MinutePassesInv ==
    ASSUME IInv, UNCHANGED <<startVars, requests>>, MinutePasses
    PROVE  IInv'
  <1>1. UNCHANGED <<phase, status, effect, permits, window, counted, guard, requests, memories>>
    BY DEF MinutePasses
  <1>2. UNCHANGED <<mode, env, config>>
    BY DEF startVars
  <1>3. ModeOK'
    BY <1>1, <1>2 DEF IInv, ModeOK, MutationsEnabled
  <1> QED BY <1>1, <1>2, <1>3, ElsewhereInv

LEMMA SignalInv ==
    ASSUME IInv, ShutdownSignal \/ Drained
    PROVE  IInv'
  <1>1. UNCHANGED <<phase, status, effect, permits, window, counted, guard, requests, memories, env, config>>
    BY DEF ShutdownSignal, Drained, restVars, restState
  <1>2. mode \in {"rest", "draining"} /\ mode' \in {"draining", "stopped"}
    BY DEF ShutdownSignal, Drained
  <1>3. ModeOK'
    BY <1>1, <1>2, StartupAssumption DEF IInv, ModeOK, MutationsEnabled, Modes
  <1> QED BY <1>1, <1>2, <1>3, ElsewhereInv

(* What a tool call leaves: more than nothing only where mutations are on.   *)
LEMMA HandledLeaves ==
    ASSUME memories \in 0 .. MaxMemories, NEW m, NEW works \in BOOLEAN
    PROVE  /\ Handled(m, works).after \in 0 .. MaxMemories
           /\ Handled(m, works).after # memories => MutationsEnabled
  <1>1. \A t \in Tools : ToolOp(t) \in {"store", "forget", "read"}
    BY DEF ToolOp
  <1>2. \A t \in ReadTools : ToolOp(t) = "read"
    BY DEF ToolOp, ReadTools
  <1>3. \A t \in Tools : /\ Outcome(ToolOp(t)).after \in 0 .. MaxMemories
                         /\ t \in ReadTools => Outcome(ToolOp(t)).after = memories
    BY <1>1, <1>2, Outcomes, StartupAssumption
  <1>4. ASSUME NEW t \in Tools, NEW args
        PROVE  /\ ToolCall(t, args, works).after \in 0 .. MaxMemories
               /\ ToolCall(t, args, works).after # memories => MutationsEnabled
    <2>1. CASE t \notin ReadTools /\ ~MutationsEnabled
      <3>1. ToolCall(t, args, works).after = memories
        BY <2>1 DEF ToolCall
      <3> QED BY <3>1
    <2>2. CASE t \in ReadTools \/ MutationsEnabled
      <3>1. ToolCall(t, args, works).after \in {memories, Outcome(ToolOp(t)).after}
        BY <2>2 DEF ToolCall
      <3> QED BY <1>3, <2>2, <3>1
    <2> QED BY <2>1, <2>2
  <1>5. \/ Handled(m, works).after = memories
        \/ m.tool \in Tools /\ Handled(m, works).after = ToolCall(m.tool, m.args, works).after
    BY DEF Handled
  <1> QED BY <1>4, <1>5

LEMMA McpInv ==
    ASSUME IInv, OverMcp(McpNext)
    PROVE  IInv'
  <1>1. /\ mode = "mcp" /\ McpNext
        /\ UNCHANGED <<mode, env, config, requests, phase, status, effect, permits, window, counted, guard>>
    BY DEF OverMcp, startVars, restVars, restState
  <1>2. memories \in 0 .. MaxMemories
    BY DEF IInv, Types
  <1>3. \/ memories' = memories
        \/ memories' \in 0 .. MaxMemories /\ MutationsEnabled
    <2>1. ASSUME NEW n \in 1 .. Chunk, Fill(n)
          PROVE  memories' = memories
      BY <2>1 DEF Fill
    <2>2. EndOfInput => memories' = memories
      BY DEF EndOfInput
    <2>3. ASSUME NEW works \in BOOLEAN, NEW written \in BOOLEAN, Process(works, written)
          PROVE  memories' = memories \/ (memories' \in 0 .. MaxMemories /\ MutationsEnabled)
      <3>1. PICK m : m = MessageOf(message.bytes)
        OBVIOUS
      <3>2. memories' = memories \/ memories' = Handled(m, works).after
        BY <2>3, <3>1 DEF Process
      <3>3. PICK after : after = Handled(m, works).after
        OBVIOUS
      <3>4. after \in 0 .. MaxMemories /\ (after # memories => MutationsEnabled)
        BY <1>2, <2>3, <3>3, HandledLeaves
      <3> QED BY <3>2, <3>3, <3>4
    <2> QED BY <1>1, <2>1, <2>2, <2>3 DEF McpNext
  <1>4. ModeOK'
    BY <1>1, <1>3 DEF IInv, ModeOK, MutationsEnabled
  <1> QED BY <1>1, <1>3, <1>4, ElsewhereInv

-----------------------------------------------------------------------------
LEMMA BeginInv ==
    ASSUME IInv, Begin
    PROVE  IInv'
  <1>1. UNCHANGED <<phase, status, effect, permits, window, counted, guard, memories>>
    BY DEF Begin, Start, restState
  <1>2. PICK m \in {"rest", "mcp"}, e \in Environments :
           Start(m, e) /\ (m = "rest" => requests' \in Mixes)
    BY DEF Begin
  <1>3. /\ mode = None /\ env' = e /\ config' = FromEnv(e)
        /\ mode' = "refused" \/ (mode' = m /\ (m # "mcp" => RestSecure(FromEnv(e))))
    BY <1>2 DEF Start
  <1>4. \A r \in Client : phase[r] = "new" /\ effect[r] = None /\ status[r] = None
    BY <1>3 DEF IInv, ModeOK, Ledger
  <1>5. memories = 0
    <2>1. EffectOf("stored") = {} /\ EffectOf("removed") = {}
      BY <1>4, RestAssumption DEF EffectOf
    <2> QED BY <1>3, <2>1, FS_EmptySet, StartupAssumption DEF IInv, Counts, Modes
  <1>6. Types' /\ Holders' = Holders /\ EffectOf("stored")' = EffectOf("stored")
        /\ EffectOf("removed")' = EffectOf("removed")
    BY <1>1 DEF IInv, Types, Holders, Holding, EffectOf
  <1>7. ModeOK'
    <2>1. config' = FromEnv(env')
      BY <1>3
    <2>2. mode' \in {"rest", "draining", "stopped"} => RestSecure(config') /\ requests' \in Mixes
      BY <1>2, <1>3
    <2> QED BY <1>1, <1>4, <1>5, <2>1, <2>2 DEF ModeOK
  <1>8. Screened' /\ Ledger' /\ Writers'
    <2>1. None \notin {200, 400, 401, 403, 409, 413, 415, 422, 429, 500}
      BY RestAssumption DEF Codes
    <2>2. \A r \in Client : phase'[r] = "new" /\ effect'[r] = None /\ status'[r] = None
      BY <1>1, <1>4
    <2>3. Screened'
      BY <2>1, <2>2 DEF Screened, Inside
    <2>4. Ledger'
      BY <2>1, <2>2 DEF Ledger, Promised
    <2>5. Writers'
      BY <2>2 DEF Writers, Mutating
    <2> QED BY <2>3, <2>4, <2>5
  <1>9. Counts'
    BY <1>1, <1>3, <1>6, StartupAssumption DEF IInv, Counts, Modes
  <1> QED BY <1>6, <1>7, <1>8, <1>9 DEF IInv

LEMMA InitInv == Init => IInv
  <1> SUFFICES ASSUME Init PROVE IInv
    OBVIOUS
  <1>1. /\ mode = None /\ memories = 0 /\ permits = MaxConcurrent /\ window = 0 /\ counted = {}
        /\ phase = [r \in Client |-> "new"] /\ status = [r \in Client |-> None]
        /\ effect = [r \in Client |-> None]
    BY DEF Init, StartInit, RestInit
  <1>2. \A r \in Client : phase[r] = "new" /\ effect[r] = None /\ status[r] = None
    BY <1>1
  <1>3. None \notin {200, 400, 401, 403, 409, 413, 415, 422, 429, 500}
    BY RestAssumption DEF Codes
  <1>4. Types
    BY <1>1, StartupAssumption, RestAssumption DEF Types, Phases
  <1>5. ModeOK
    BY <1>1, <1>2, StartupAssumption DEF ModeOK, Modes
  <1>6. Screened /\ Ledger /\ Writers
    BY <1>2, <1>3 DEF Screened, Ledger, Promised, Writers, Inside, Mutating
  <1>7. Holders = {} /\ EffectOf("stored") = {} /\ EffectOf("removed") = {}
    BY <1>2, RestAssumption DEF Holders, Holding, EffectOf
  <1>8. Counts
    <2>1. IsFiniteSet({}) /\ Cardinality({}) = 0
      BY FS_EmptySet
    <2>2. MaxConcurrent + 0 = MaxConcurrent /\ 0 - 0 = 0
      BY RestAssumption
    <2> QED BY <1>1, <1>7, <2>1, <2>2 DEF Counts
  <1> QED BY <1>4, <1>5, <1>6, <1>8 DEF IInv

LEMMA StepInv == IInv /\ [Next]_vars => IInv'
  <1> SUFFICES ASSUME IInv, [Next]_vars PROVE IInv'
    OBVIOUS
  <1>1. CASE Begin
    BY <1>1, BeginInv
  <1>2. CASE ShutdownSignal \/ Drained
    BY <1>2, SignalInv
  <1>3. CASE OverRest(\E r \in Client : Arrive(r))
    BY <1>3, ArriveInv DEF OverRest
  <1>4. CASE OverRest(RestNext)
    <2>1. mode \in {"rest", "draining"} /\ UNCHANGED <<startVars, requests>>
      BY <1>4 DEF OverRest
    <2>2. CASE MinutePasses
      BY <2>1, <2>2, MinutePassesInv
    <2>3. ASSUME NEW r \in Client,
                 \/ Account(r) \/ Acquire(r) \/ Screen(r) \/ ReadBody(r)
                 \/ TakeLock(r) \/ Embedded(r) \/ EmbeddingFails(r) \/ Stage(r)
                 \/ Written(r) \/ WrittenDetached(r) \/ WriteFails(r)
                 \/ Deadline(r) \/ Leave(r)
          PROVE  IInv'
      <3>2. CASE Account(r)
        BY <2>1, <3>2, AccountInv
      <3>3. CASE Acquire(r)
        BY <2>1, <3>3, AcquireInv
      <3>4. CASE Screen(r)
        BY <2>1, <3>4, ScreenInv
      <3>5. CASE ReadBody(r)
        BY <2>1, <3>5, ReadBodyInv
      <3>6. CASE TakeLock(r)
        BY <2>1, <3>6, TakeLockInv
      <3>7. CASE Embedded(r)
        BY <2>1, <3>7, EmbeddedInv
      <3>8. CASE EmbeddingFails(r)
        BY <2>1, <3>8, EmbeddingFailsInv
      <3>9. CASE Stage(r)
        BY <2>1, <3>9, StageInv
      <3>10. CASE Written(r) \/ WrittenDetached(r)
        BY <2>1, <3>10, WrittenInv
      <3>11. CASE WriteFails(r)
        BY <2>1, <3>11, WriteFailsInv
      <3>12. CASE Deadline(r) \/ Leave(r)
        BY <2>1, <3>12, AbandonInv DEF Deadline, Leave
      <3> QED BY <2>3, <3>2, <3>3, <3>4, <3>5, <3>6, <3>7, <3>8, <3>9, <3>10, <3>11, <3>12
    <2> QED BY <1>4, <2>2, <2>3 DEF OverRest, RestNext
  <1>5. CASE OverMcp(McpNext)
    BY <1>5, McpInv
  <1>6. CASE UNCHANGED vars
    <2>1. UNCHANGED <<phase, status, effect, permits, window, counted, guard, requests,
                      memories, mode, env, config>>
      BY <1>6 DEF vars, startVars, restVars, restState
    <2>2. ModeOK'
      BY <2>1 DEF IInv, ModeOK, MutationsEnabled
    <2> QED BY <2>1, <2>2, ElsewhereInv
  <1> QED BY <1>1, <1>2, <1>3, <1>4, <1>5, <1>6 DEF Next

-----------------------------------------------------------------------------
(* Whatever the environment, the clients and what they send, the inductive   *)
(* invariant holds in every state of the server (main.rs, api/routes.rs,     *)
(* api/handlers.rs, mcp/server.rs).                                          *)
THEOREM Invariance == Spec => []IInv
  BY InitInv, StepInv, PTL DEF Spec

(* No request reaches a handler unscreened, no MCP client changes memories   *)
(* the operator did not open, and never more requests are inside than the    *)
(* semaphore and the rate window admit (routes.rs require_auth,              *)
(* acquire_request_slot).                                                    *)
THEOREM LetIn == Spec => []OnlyAdmitted
  <1>1. IInv => OnlyAdmitted
    <2> SUFFICES ASSUME IInv PROVE OnlyAdmitted
      OBVIOUS
    <2>1. \A r \in Client :
             (effect[r] # None \/ status[r] \in {200, 400, 409, 413, 415, 422, 500}) => Admitted(r)
      BY DEF IInv, Screened
    <2>2. mode = "mcp" /\ memories > 0 => env.mutations = "true"
      <3>1. mode = "mcp" => config = FromEnv(env)
        BY StartupAssumption DEF IInv, ModeOK, Modes
      <3>2. config = FromEnv(env) => config.mutations = env.mutations
        BY DEF FromEnv, Read
      <3> QED BY <3>1, <3>2 DEF IInv, ModeOK, MutationsEnabled
    <2>3. Cardinality(Holders) <= MaxConcurrent
      BY FS_CardinalityType, RestAssumption DEF IInv, Types, Counts
    <2>4. Cardinality(counted) <= MaxPerMinute
      BY FS_CardinalityType, RestAssumption DEF IInv, Types, Counts
    <2> QED BY <2>1, <2>2, <2>3, <2>4 DEF OnlyAdmitted, Holders
  <1> QED BY <1>1, Invariance, PTL

(* An answer says what became of the memories, and only requests that wrote  *)
(* changed them: their number is what was stored less what was removed       *)
(* (handlers.rs, state.rs store and forget).                                 *)
THEOREM Told == Spec => []StatusIsEffect
  <1>1. IInv => StatusIsEffect
    BY DEF IInv, Ledger, Counts, EffectOf, StatusIsEffect
  <1> QED BY <1>1, Invariance, PTL

-----------------------------------------------------------------------------
(* A set of naturals has a least element. *)
LEMMA Least ==
    ASSUME NEW T \in SUBSET Nat, T # {}
    PROVE  \E m \in T : \A k \in T : m <= k
  <1>1. T \subseteq Nat
    OBVIOUS
  <1>2. PICK m \in T : \A k \in T : ~ (<<k, m>> \in OpToRel(<, Nat))
    BY <1>1, WFMin, NatLessThanWellFounded
  <1>3. \A k \in T : ~(k < m)
    BY <1>2 DEF OpToRel
  <1> QED BY <1>3

(* From 0 to n a step at a time. *)
LEMMA Climb ==
    ASSUME NEW n \in Nat, NEW T, 0 \in T, \A k \in 1 .. n : k - 1 \in T => k \in T
    PROVE  \A k \in 0 .. n : k \in T
  <1> DEFINE Out == {k \in 0 .. n : k \notin T}
  <1> SUFFICES ASSUME Out # {} PROVE FALSE
    OBVIOUS
  <1>1. PICK k \in Out : \A i \in Out : k <= i
    <2>1. Out \in SUBSET Nat
      OBVIOUS
    <2> QED BY <2>1, Least
  <1>2. k \in 1 .. n /\ k \notin T
    BY <1>1
  <1>3. k - 1 \in T
    <2> SUFFICES ASSUME k - 1 \notin T PROVE FALSE
      OBVIOUS
    <2>1. k - 1 \in Out
      BY <1>2
    <2> QED BY <1>1, <1>2, <2>1
  <1> QED BY <1>2, <1>3

(* f[k] is the first k pieces of p, one after the other. *)
Joins(f, p, n) ==
    /\ f = [k \in 0 .. n |-> f[k]]
    /\ \A k \in 0 .. n : f[k] = IF k = 0 THEN <<>> ELSE f[k - 1] \o p[k]

(* Pieces can be joined.                                                     *)
LEMMA JoinsExist ==
    ASSUME NEW p, NEW n \in Nat
    PROVE  \E f : Joins(f, p, n)
  <1> DEFINE T == {k \in Nat : \E f : Joins(f, p, k)}
  <1>1. 0 \in T
    <2>1. PICK f : f = [k \in 0 .. 0 |-> <<>>]
      OBVIOUS
    <2>2. f = [k \in 0 .. 0 |-> f[k]] /\ \A k \in 0 .. 0 : k = 0 /\ f[k] = <<>>
      BY <2>1
    <2>3. Joins(f, p, 0)
      BY <2>2 DEF Joins
    <2> QED BY <2>3
  <1>2. ASSUME NEW m \in 1 .. n, m - 1 \in T PROVE m \in T
    <2>1. PICK f : Joins(f, p, m - 1)
      BY <1>2
    <2>2. \A k \in 0 .. m - 1 : f[k] = IF k = 0 THEN <<>> ELSE f[k - 1] \o p[k]
      BY <2>1 DEF Joins
    <2>3. PICK g : g = [k \in 0 .. m |-> IF k <= m - 1 THEN f[k] ELSE f[m - 1] \o p[m]]
      OBVIOUS
    <2>4. g = [k \in 0 .. m |-> g[k]]
      BY <2>3
    <2>5. \A k \in 0 .. m : g[k] = IF k <= m - 1 THEN f[k] ELSE f[m - 1] \o p[m]
      BY <2>3
    <2>6. ASSUME NEW k \in 0 .. m PROVE g[k] = IF k = 0 THEN <<>> ELSE g[k - 1] \o p[k]
      <3>1. CASE k <= m - 1
        <4>1. k \in 0 .. m - 1 /\ g[k] = f[k]
          BY <2>5, <3>1
        <4>2. k # 0 => k - 1 \in 0 .. m /\ k - 1 <= m - 1
          BY <4>1
        <4>3. k # 0 => g[k - 1] = f[k - 1]
          BY <2>5, <4>2
        <4> QED BY <2>2, <4>1, <4>3
      <3>2. CASE ~(k <= m - 1)
        <4>1. k = m /\ k # 0 /\ m - 1 \in 0 .. m /\ m - 1 <= m - 1
          BY <3>2
        <4>2. g[k] = f[m - 1] \o p[m] /\ g[m - 1] = f[m - 1]
          BY <2>5, <3>2, <4>1
        <4> QED BY <4>1, <4>2
      <3> QED BY <3>1, <3>2
    <2>7. Joins(g, p, m)
      BY <2>4, <2>6 DEF Joins
    <2> QED BY <2>7
  <1> HIDE DEF T
  <1>3. n \in T
    <2>1. \A k \in 1 .. n : k - 1 \in T => k \in T
      BY <1>2
    <2>2. \A k \in 0 .. n : k \in T
      BY <1>1, <2>1, Climb
    <2> QED BY <2>2
  <1> QED BY <1>3 DEF T

(* What is joined of the same pieces is the same. *)
LEMMA JoinsAgree ==
    ASSUME NEW p, NEW n \in Nat, NEW f, Joins(f, p, n),
           NEW r, NEW m \in 0 .. n, NEW g, Joins(g, r, m),
           \A k \in 1 .. m : r[k] = p[k]
    PROVE  \A k \in 0 .. m : g[k] = f[k]
  <1> DEFINE T == {k \in 0 .. m : g[k] = f[k]}
  <1>1. 0 \in T
    <2>1. 0 \in 0 .. m /\ 0 \in 0 .. n
      OBVIOUS
    <2>2. g[0] = <<>> /\ f[0] = <<>>
      BY <2>1 DEF Joins
    <2> QED BY <2>1, <2>2
  <1>2. ASSUME NEW k \in 1 .. m, k - 1 \in T PROVE k \in T
    <2>1. k \in 0 .. m /\ k \in 0 .. n /\ k # 0
      OBVIOUS
    <2>2. g[k] = g[k - 1] \o r[k] /\ f[k] = f[k - 1] \o p[k]
      BY <2>1 DEF Joins
    <2> QED BY <1>2, <2>1, <2>2
  <1>3. \A k \in 0 .. m : k \in T
    <2> HIDE DEF T
    <2>1. \A k \in 1 .. m : k - 1 \in T => k \in T
      BY <1>2
    <2> QED BY <1>1, <2>1, Climb
  <1> QED BY <1>3

-----------------------------------------------------------------------------
(* The bytes of the first n lines, and what is due to them. *)
Pieces(lines) == [k \in 1 .. Len(lines) |-> LineBytes(k, lines[k])]

Upto(lines, n) == (CHOOSE f : Joins(f, Pieces(lines), Len(lines)))[n]

(* f[n] is the bytes of the first n lines.                                   *)
Sums(f, lines, N) ==
    /\ Joins(f, Pieces(lines), N) /\ Bytes(lines) = f[N]
    /\ \A n \in 0 .. N : Upto(lines, n) = f[n]

(* So the bytes of an input are those of its lines, one after the other.     *)
LEMMA PiecesJoin ==
    ASSUME NEW lines, NEW N, N = Len(lines), N \in Nat
    PROVE  \E f : Sums(f, lines, N)
  <1>1. PICK e : Joins(e, Pieces(lines), N)
    BY JoinsExist
  <1>2. PICK u : u = (CHOOSE f : Joins(f, Pieces(lines), Len(lines)))
    OBVIOUS
  <1>3. Joins(u, Pieces(lines), N)
    BY <1>1, <1>2
  <1> DEFINE F(f) == f = [n \in 0 .. Len(lines) |->
                            IF n = 0 THEN <<>> ELSE f[n - 1] \o LineBytes(n, lines[n])]
  <1>4. ASSUME NEW f PROVE F(f) <=> Joins(f, Pieces(lines), N)
    <2>1. \A n \in 0 .. N : n # 0 => n \in 1 .. N /\ Pieces(lines)[n] = LineBytes(n, lines[n])
      BY DEF Pieces
    <2>2. ASSUME F(f) PROVE Joins(f, Pieces(lines), N)
      <3>1. /\ f = [n \in 0 .. N |-> f[n]]
            /\ \A n \in 0 .. N : f[n] = IF n = 0 THEN <<>> ELSE f[n - 1] \o LineBytes(n, lines[n])
        BY <2>2
      <3> HIDE DEF F
      <3> QED BY <2>1, <3>1 DEF Joins
    <2>3. ASSUME Joins(f, Pieces(lines), N) PROVE F(f)
      <3>1. /\ f = [n \in 0 .. N |-> f[n]]
            /\ \A n \in 0 .. N : f[n] = IF n = 0 THEN <<>> ELSE f[n - 1] \o Pieces(lines)[n]
        BY <2>3 DEF Joins
      <3>2. \A n \in 0 .. N : f[n] = IF n = 0 THEN <<>> ELSE f[n - 1] \o LineBytes(n, lines[n])
        BY <2>1, <3>1
      <3> QED BY <3>1, <3>2
    <2> QED BY <2>2, <2>3
  <1>5. Bytes(lines) = (CHOOSE f : F(f))[Len(lines)]
    BY DEF Bytes
  <1> HIDE DEF F
  <1>6. PICK b : b = (CHOOSE f : F(f))
    OBVIOUS
  <1>7. F(b)
    BY <1>1, <1>4, <1>6
  <1>8. Joins(b, Pieces(lines), N) /\ Bytes(lines) = b[N]
    BY <1>4, <1>5, <1>6, <1>7
  <1>9. \A n \in 0 .. N : b[n] = u[n]
    <2>1. N \in 0 .. N
      OBVIOUS
    <2>2. PICK p : p = Pieces(lines)
      OBVIOUS
    <2>3. Joins(b, p, N) /\ Joins(u, p, N) /\ \A k \in 1 .. N : p[k] = p[k]
      BY <1>3, <1>8, <2>2
    <2>4. \A n \in 0 .. N : u[n] = b[n]
      BY <2>1, <2>3, JoinsAgree
    <2> QED BY <2>4
  <1>10. \A n \in 0 .. N : Upto(lines, n) = u[n]
    BY <1>2 DEF Upto
  <1>11. \A n \in 0 .. N : Upto(lines, n) = b[n]
    BY <1>9, <1>10
  <1>12. Sums(b, lines, N)
    BY <1>8, <1>11 DEF Sums
  <1> QED BY <1>12

(* The bytes of one line more.                                               *)
LEMMA UptoFacts ==
    ASSUME NEW lines, NEW N, N = Len(lines), N \in Nat
    PROVE  /\ Upto(lines, 0) = <<>> /\ Upto(lines, N) = Bytes(lines)
           /\ \A n \in 1 .. N : Upto(lines, n) = Upto(lines, n - 1) \o LineBytes(n, lines[n])
  <1>5. PICK f : Sums(f, lines, N)
    BY PiecesJoin
  <1>1. /\ Joins(f, Pieces(lines), N) /\ Bytes(lines) = f[N]
        /\ \A n \in 0 .. N : Upto(lines, n) = f[n]
    BY <1>5 DEF Sums
  <1>2. 0 \in 0 .. N /\ N \in 0 .. N
    OBVIOUS
  <1>3. f[0] = <<>>
    BY <1>1, <1>2 DEF Joins
  <1>4. ASSUME NEW n \in 1 .. N
        PROVE  Upto(lines, n) = Upto(lines, n - 1) \o LineBytes(n, lines[n])
    <2>1. n \in 0 .. N /\ n - 1 \in 0 .. N /\ n # 0
      OBVIOUS
    <2>2. f[n] = f[n - 1] \o Pieces(lines)[n]
      BY <1>1, <2>1 DEF Joins
    <2>3. Pieces(lines)[n] = LineBytes(n, lines[n])
      BY DEF Pieces
    <2> QED BY <1>1, <2>1, <2>2, <2>3
  <1> QED BY <1>1, <1>2, <1>3, <1>4

(* The bytes of a few lines are those of the input up to there. *)
LEMMA BytesOfSome ==
    ASSUME NEW lines, NEW N, N = Len(lines), N \in Nat, NEW n \in 0 .. N,
           NEW some, Len(some) = n, \A k \in 1 .. n : some[k] = lines[k]
    PROVE  Bytes(some) = Upto(lines, n)
  <1>1. n \in Nat /\ n \in 0 .. n
    OBVIOUS
  <1>2. PICK g : Joins(g, Pieces(some), n) /\ Bytes(some) = g[n]
    <2>1. PICK g : Sums(g, some, n)
      BY <1>1, PiecesJoin
    <2>2. Joins(g, Pieces(some), n) /\ Bytes(some) = g[n]
      BY <2>1 DEF Sums
    <2> QED BY <2>2
  <1>3. PICK f : /\ Joins(f, Pieces(lines), N)
                 /\ \A k \in 0 .. N : Upto(lines, k) = f[k]
    <2>1. PICK f : Sums(f, lines, N)
      BY PiecesJoin
    <2>2. Joins(f, Pieces(lines), N) /\ \A k \in 0 .. N : Upto(lines, k) = f[k]
      BY <2>1 DEF Sums
    <2> QED BY <2>2
  <1>4. \A k \in 1 .. n : Pieces(some)[k] = Pieces(lines)[k]
    <2>1. \A k \in 1 .. n : k \in 1 .. Len(lines)
      OBVIOUS
    <2> QED BY <2>1 DEF Pieces
  <1>5. \A k \in 0 .. n : g[k] = f[k]
    <2>1. PICK p, r : p = Pieces(lines) /\ r = Pieces(some)
      OBVIOUS
    <2>2. Joins(f, p, N) /\ Joins(g, r, n) /\ \A k \in 1 .. n : r[k] = p[k]
      BY <1>2, <1>3, <1>4, <2>1
    <2> QED BY <2>2, JoinsAgree
  <1> QED BY <1>1, <1>2, <1>3, <1>5

(* In the words of RepliesExact.                                             *)
LEMMA BytesOfFirst ==
    ASSUME NEW S, NEW lines \in Seq(S), NEW n \in 0 .. Len(lines)
    PROVE  Bytes(SubSeq(lines, 1, n)) = Upto(lines, n)
  <1>1. PICK some : some = SubSeq(lines, 1, n)
    OBVIOUS
  <1>2. Len(lines) \in Nat /\ n \in Int /\ 1 \in Int /\ n \in Nat
    OBVIOUS
  <1>3. Len(some) = n /\ \A k \in 1 .. n : some[k] = lines[k]
    <2>1. \A i \in 1 .. n : lines[i] \in S
      OBVIOUS
    <2>2. /\ Len(some) = IF 1 <= n THEN n - 1 + 1 ELSE 0
          /\ \A k \in 1 .. n - 1 + 1 : some[k] = lines[1 + k - 1]
      BY <1>1, <1>2, <2>1, SubSeqProperties
    <2>3. n - 1 + 1 = n /\ \A k \in 1 .. n : 1 + k - 1 = k
      BY <1>2
    <2>4. ~(1 <= n) => n = 0
      BY <1>2
    <2> QED BY <2>2, <2>3, <2>4
  <1>4. PICK N : N = Len(lines)
    OBVIOUS
  <1>5. N \in Nat /\ n \in 0 .. N
    BY <1>2, <1>4
  <1>6. Bytes(some) = Upto(lines, n)
    BY ONLY <1>3, <1>4, <1>5, BytesOfSome
  <1> QED BY <1>1, <1>6

-----------------------------------------------------------------------------
Byte == Int \X Int

(* The bytes of a line before its newline, and those of its message.         *)
Body(line) == line.length + (IF line.cr THEN 1 ELSE 0)

Said(i, line) == [k \in 1 .. line.length |-> <<i, k>>]

(* A line has a length, and is ended or not.                                 *)
LineType(line) ==
    line.length \in Nat /\ line.cr \in BOOLEAN /\ line.newline \in BOOLEAN

(* The bytes of a message are its own.                                       *)
LEMMA SaidFacts ==
    ASSUME NEW i \in Int, NEW line, LineType(line)
    PROVE  /\ Said(i, line) \in Seq(Byte) /\ Len(Said(i, line)) = line.length
           /\ \A k \in 1 .. line.length : Said(i, line)[k] = <<i, k>>
  <1> DEFINE L == line.length
             s == Said(i, line)
  <1>1. L \in Nat
    BY DEF LineType
  <1>2. s = [k \in 1 .. L |-> <<i, k>>]
    BY DEF Said
  <1>3. \A k \in 1 .. L : s[k] = <<i, k>>
    BY <1>2
  <1>4. \A k \in 1 .. L : <<i, k>> \in Byte
    BY <1>1 DEF Byte
  <1>5. s \in [1 .. L -> Byte]
    BY <1>2, <1>4
  <1> HIDE DEF L, s
  <1>6. s \in Seq(Byte) /\ Len(s) = L
    BY <1>1, <1>5
  <1> QED BY <1>3, <1>6 DEF L, s

(* What the bytes of a line are, and that only its last is a newline.        *)
LEMMA LineFacts ==
    ASSUME NEW i \in Int, NEW line, LineType(line)
    PROVE  /\ Body(line) \in Nat
           /\ LineBytes(i, line) \in Seq(Byte)
           /\ Len(LineBytes(i, line)) = Body(line) + (IF line.newline THEN 1 ELSE 0)
           /\ \A k \in 1 .. line.length : LineBytes(i, line)[k] = <<i, k>>
           /\ line.cr => LineBytes(i, line)[Body(line)] = <<i, CarriageReturn>>
           /\ line.newline => LineBytes(i, line)[Body(line) + 1] = <<i, Newline>>
           /\ \A k \in 1 .. Body(line) : LineBytes(i, line)[k][2] # Newline
  <1>1. PICK L \in Nat : L = line.length
    BY DEF LineType
  <1>2. PICK s : s = Said(i, line)
    OBVIOUS
  <1>3. PICK c : c = IF line.cr THEN << <<i, CarriageReturn>> >> ELSE <<>>
    OBVIOUS
  <1>4. PICK n : n = IF line.newline THEN << <<i, Newline>> >> ELSE <<>>
    OBVIOUS
  <1>5. LineBytes(i, line) = (s \o c) \o n
    BY <1>2, <1>3, <1>4 DEF LineBytes, Said
  <1>6. s \in Seq(Byte) /\ Len(s) = L /\ \A k \in 1 .. L : s[k] = <<i, k>>
    BY <1>1, <1>2, SaidFacts
  <1>7. <<i, CarriageReturn>> \in Byte /\ <<i, Newline>> \in Byte
    BY DEF CarriageReturn, Newline, Byte
  <1> HIDE DEF Byte
  <1>8. /\ c \in Seq(Byte) /\ Len(c) = (IF line.cr THEN 1 ELSE 0)
        /\ line.cr => c[1] = <<i, CarriageReturn>>
    BY <1>3, <1>7
  <1>9. /\ n \in Seq(Byte) /\ Len(n) = (IF line.newline THEN 1 ELSE 0)
        /\ line.newline => n[1] = <<i, Newline>>
    BY <1>4, <1>7
  <1>10. PICK a : a = s \o c
    OBVIOUS
  <1>11. PICK b : b = Body(line)
    OBVIOUS
  <1>12. b = L + Len(c) /\ b \in Nat
    BY <1>1, <1>8, <1>11 DEF Body
  <1>13. /\ a \in Seq(Byte) /\ Len(a) = b
         /\ \A k \in 1 .. L : a[k] = <<i, k>>
         /\ line.cr => b = L + 1 /\ a[b] = <<i, CarriageReturn>>
         /\ ~line.cr => b = L
    <2>1. a \in Seq(Byte) /\ Len(a) = L + Len(c)
          /\ \A k \in 1 .. L + Len(c) : a[k] = IF k <= L THEN s[k] ELSE c[k - L]
      BY <1>6, <1>8, <1>10, ConcatProperties
    <2>2. \A k \in 1 .. L : k \in 1 .. L + Len(c) /\ k <= L
      BY <1>8
    <2>3. line.cr => b = L + 1 /\ L + 1 \in 1 .. L + Len(c) /\ ~(L + 1 <= L) /\ L + 1 - L = 1
      BY <1>8, <1>12
    <2>4. ~line.cr => b = L
      BY <1>8, <1>12
    <2>5. \A k \in 1 .. L : a[k] = s[k]
      BY <2>1, <2>2
    <2>6. ASSUME line.cr PROVE a[b] = c[1]
      <3>1. a[L + 1] = c[L + 1 - L]
        BY <2>1, <2>3, <2>6
      <3> QED BY <2>3, <2>6, <3>1
    <2>7. \A k \in 1 .. L : a[k] = <<i, k>>
      BY <1>6, <2>5
    <2>8. Len(a) = b
      BY <1>12, <2>1
    <2>9. line.cr => a[b] = <<i, CarriageReturn>>
      BY <1>8, <2>6
    <2> QED BY <2>1, <2>3, <2>4, <2>7, <2>8, <2>9
  <1>14. PICK w : w = a \o n
    OBVIOUS
  <1>15. /\ w \in Seq(Byte) /\ Len(w) = b + Len(n)
         /\ \A k \in 1 .. b : w[k] = a[k]
         /\ line.newline => w[b + 1] = <<i, Newline>>
    <2>1. w \in Seq(Byte) /\ Len(w) = b + Len(n)
          /\ \A k \in 1 .. b + Len(n) : w[k] = IF k <= b THEN a[k] ELSE n[k - b]
      BY <1>9, <1>13, <1>14, ConcatProperties
    <2>2. \A k \in 1 .. b : k \in 1 .. b + Len(n) /\ k <= b
      BY <1>9, <1>12
    <2>3. line.newline => b + 1 \in 1 .. b + Len(n) /\ ~(b + 1 <= b) /\ b + 1 - b = 1
      BY <1>9, <1>12
    <2>4. \A k \in 1 .. b : w[k] = a[k]
      BY <2>1, <2>2
    <2>5. ASSUME line.newline PROVE w[b + 1] = n[1]
      <3>1. PICK k : k = b + 1
        OBVIOUS
      <3>2. k \in 1 .. b + Len(n) /\ ~(k <= b) /\ k - b = 1
        BY <1>9, <1>12, <2>3, <2>5, <3>1
      <3>3. w[k] = n[k - b]
        BY <2>1, <3>2
      <3> QED BY <3>1, <3>2, <3>3
    <2>6. line.newline => w[b + 1] = <<i, Newline>>
      BY <1>9, <2>5
    <2> QED BY <2>1, <2>4, <2>6
  <1>16. \A k \in 1 .. L : k \in 1 .. b
    BY <1>12, <1>8
  <1>17. ASSUME NEW k \in 1 .. b PROVE w[k][2] # Newline
    <2>1. k \in 1 .. L \/ (line.cr /\ k = b)
      BY <1>12, <1>13
    <2>2. CASE k \in 1 .. L
      <3>1. w[k] = <<i, k>>
        BY <1>13, <1>15, <2>2
      <3>2. k # Newline
        BY <1>1, <2>2 DEF Newline
      <3> QED BY <3>1, <3>2
    <2>3. CASE line.cr /\ k = b
      <3>1. w[k] = <<i, CarriageReturn>>
        BY <1>13, <1>15, <2>3
      <3>2. CarriageReturn # Newline
        BY DEF CarriageReturn, Newline
      <3> QED BY <3>1, <3>2
    <2> QED BY <2>1, <2>2, <2>3
  <1>18. line.cr => b \in 1 .. b
    BY <1>12, <1>13
  <1>19. LineBytes(i, line) = w
    BY <1>5, <1>10, <1>14
  <1> QED BY <1>1, <1>9, <1>11, <1>12, <1>13, <1>15, <1>16, <1>17, <1>18, <1>19

(* A frame of the bytes of a line is its message. *)
LEMMA FrameFacts ==
    ASSUME NEW i \in Int, NEW line, LineType(line), NEW b \in Seq(Byte),
           Len(b) = Body(line), \A k \in 1 .. Body(line) : b[k] = LineBytes(i, line)[k]
    PROVE  /\ FrameOf(b) = Said(i, line) /\ FrameOf(Said(i, line)) = Said(i, line)
  <1>1. PICK L \in Nat : L = line.length
    BY DEF LineType
  <1>2. PICK s : s = Said(i, line)
    OBVIOUS
  <1>3. s \in Seq(Byte) /\ Len(s) = L /\ \A k \in 1 .. L : s[k] = <<i, k>>
    BY <1>1, <1>2, SaidFacts
  <1> HIDE DEF Byte
  <1>4. FrameOf(s) = s
    <2>1. CASE L = 0
      BY <1>3, <2>1 DEF FrameOf
    <2>2. CASE L # 0
      <3>1. L \in 1 .. L
        BY <2>2
      <3>2. s[Len(s)] = <<i, L>>
        BY <1>3, <3>1
      <3>3. s[Len(s)][2] = L /\ L # CarriageReturn
        BY <2>2, <3>2 DEF CarriageReturn
      <3> QED BY <3>3 DEF FrameOf
    <2> QED BY <2>1, <2>2
  <1>5. \A k \in 1 .. L : LineBytes(i, line)[k] = <<i, k>>
    BY <1>1, LineFacts
  <1>6. CASE line.cr
    <2>1. Body(line) = L + 1 /\ L + 1 \in 1 .. Body(line) /\ L + 1 - 1 = L
      BY <1>1, <1>6 DEF Body
    <2>2. b[L + 1] = <<i, CarriageReturn>>
      <3>1. LineBytes(i, line)[Body(line)] = <<i, CarriageReturn>>
        BY <1>6, LineFacts
      <3> QED BY <2>1, <3>1
    <2>3. Len(b) = L + 1 /\ b # <<>>
      BY <2>1
    <2>4. FrameOf(b) = SubSeq(b, 1, L)
      BY <2>1, <2>2, <2>3 DEF FrameOf
    <2>5. PICK t : t = SubSeq(b, 1, L)
      OBVIOUS
    <2>6. \A k \in 1 .. L : k \in 1 .. Body(line) /\ k \in 1 .. Len(b) /\ b[k] \in Byte
      BY <2>1, <2>3
    <2>7. t \in Seq(Byte) /\ Len(t) = L /\ \A k \in 1 .. L : t[k] = b[k]
      <3>1. 1 \in Int /\ L \in Int /\ \A k \in 1 .. L : b[k] \in Byte
        BY <2>6
      <3>2. /\ t \in Seq(Byte) /\ Len(t) = (IF 1 <= L THEN L - 1 + 1 ELSE 0)
            /\ \A k \in 1 .. L - 1 + 1 : t[k] = b[1 + k - 1]
        BY <2>5, <3>1, SubSeqProperties
      <3>3. L - 1 + 1 = L /\ \A k \in 1 .. L : 1 + k - 1 = k
        OBVIOUS
      <3>4. ~(1 <= L) => L = 0
        OBVIOUS
      <3> QED BY <3>2, <3>3, <3>4
    <2>8. \A k \in 1 .. L : t[k] = s[k]
      BY <1>3, <1>5, <2>6, <2>7
    <2>9. t = s
      BY <1>3, <2>7, <2>8, SeqEqual
    <2> QED BY <1>2, <1>4, <2>4, <2>5, <2>9
  <1>7. CASE ~line.cr
    <2>1. Body(line) = L
      BY <1>1, <1>7 DEF Body
    <2>2. \A k \in 1 .. L : b[k] = s[k]
      BY <1>3, <1>5, <2>1
    <2>3. b = s
      BY <1>3, <2>1, <2>2, SeqEqual
    <2> QED BY <1>2, <1>4, <2>3
  <1> QED BY <1>6, <1>7

(* The input is lines, and only its last may lack a newline.                 *)
Lined(lines, N) ==
    /\ N = Len(lines) /\ N \in Nat
    /\ \A i \in 1 .. N : LineType(lines[i]) /\ (i < N => lines[i].newline)

(* Where line n ends.                                                        *)
EndOf(lines, n) == Len(Upto(lines, n))

(* What a client sends is lines.                                             *)
LEMMA InputsLined ==
    ASSUME NEW lines \in Inputs
    PROVE  /\ Lined(lines, Len(lines)) /\ lines \in Seq({lines[i] : i \in DOMAIN lines})
           /\ \A i \in 1 .. Len(lines) :
                 lines[i].message.syntax \in {"blank", "invalid", "array", "object"}
  <1>1. /\ lines \in Seq({lines[i] : i \in DOMAIN lines})
        /\ \A i \in 1 .. Len(lines) :
              /\ lines[i].length \in Nat /\ lines[i].cr \in BOOLEAN
              /\ lines[i].newline \in BOOLEAN /\ (i < Len(lines) => lines[i].newline)
              /\ lines[i].message.syntax \in {"blank", "invalid", "array", "object"}
    BY McpAssumption
  <1>2. PICK S : S = {lines[i] : i \in DOMAIN lines}
    OBVIOUS
  <1>3. Len(lines) \in Nat
    <2>1. lines \in Seq(S)
      BY <1>1, <1>2
    <2> QED BY <2>1
  <1>4. Lined(lines, Len(lines))
    BY <1>1, <1>3 DEF Lined, LineType
  <1> QED BY <1>1, <1>4

(* One line more leaves the bytes before it, and adds its own.               *)
LEMMA UptoGrows ==
    ASSUME NEW lines, NEW N, Lined(lines, N), NEW n \in 1 .. N,
           Upto(lines, n - 1) \in Seq(Byte)
    PROVE  /\ Upto(lines, n) \in Seq(Byte)
           /\ EndOf(lines, n) = EndOf(lines, n - 1) + Len(LineBytes(n, lines[n]))
           /\ \A k \in 1 .. EndOf(lines, n - 1) : Upto(lines, n)[k] = Upto(lines, n - 1)[k]
           /\ \A k \in 1 .. Len(LineBytes(n, lines[n])) :
                 Upto(lines, n)[EndOf(lines, n - 1) + k] = LineBytes(n, lines[n])[k]
  <1>1. PICK u, v, w : u = Upto(lines, n - 1) /\ v = Upto(lines, n) /\ w = LineBytes(n, lines[n])
    OBVIOUS
  <1>2. N = Len(lines) /\ N \in Nat /\ LineType(lines[n]) /\ n \in Int
    BY DEF Lined
  <1>3. v = u \o w
    BY <1>1, <1>2, UptoFacts
  <1>4. u \in Seq(Byte) /\ w \in Seq(Byte)
    BY <1>1, <1>2, LineFacts
  <1> HIDE DEF Byte
  <1>5. PICK e \in Nat, d \in Nat : e = Len(u) /\ d = Len(w)
    BY <1>4
  <1>6. /\ v \in Seq(Byte) /\ Len(v) = e + d
        /\ \A k \in 1 .. e + d : v[k] = IF k <= e THEN u[k] ELSE w[k - e]
    BY <1>3, <1>4, <1>5, ConcatProperties
  <1>7. \A k \in 1 .. e : v[k] = u[k]
    BY <1>6
  <1>8. ASSUME NEW k \in 1 .. d PROVE v[e + k] = w[k]
    <2>1. PICK j : j = e + k
      OBVIOUS
    <2>2. j \in 1 .. e + d /\ ~(j <= e) /\ j - e = k
      BY <2>1
    <2> QED BY <1>6, <2>1, <2>2
  <1> QED BY <1>1, <1>5, <1>6, <1>7, <1>8 DEF EndOf

(* Any number of lines is a sequence of bytes.                               *)
LEMMA UptoSeq ==
    ASSUME NEW lines, NEW N, Lined(lines, N)
    PROVE  \A n \in 0 .. N : Upto(lines, n) \in Seq(Byte) /\ EndOf(lines, n) \in Nat
  <1> DEFINE T == {n \in Nat : Upto(lines, n) \in Seq(Byte)}
  <1>1. N = Len(lines) /\ N \in Nat
    BY DEF Lined
  <1>2. 0 \in T
    <2>1. Upto(lines, 0) = <<>>
      BY <1>1, UptoFacts
    <2>2. <<>> \in Seq(Byte)
      OBVIOUS
    <2>3. Upto(lines, 0) \in Seq(Byte)
      BY <2>1, <2>2
    <2> QED BY <2>3
  <1>3. \A n \in 1 .. N : n - 1 \in T => n \in T
    BY <1>1, UptoGrows
  <1>4. ASSUME NEW n \in T PROVE EndOf(lines, n) \in Nat
    <2>1. PICK u : u = Upto(lines, n)
      OBVIOUS
    <2>2. u \in Seq(Byte)
      BY <2>1
    <2>3. Len(u) \in Nat
      BY <2>2
    <2> QED BY <2>1, <2>3 DEF EndOf
  <1>5. \A n \in T : Upto(lines, n) \in Seq(Byte)
    OBVIOUS
  <1> HIDE DEF T
  <1>6. \A n \in 0 .. N : n \in T
    BY <1>1, <1>2, <1>3, Climb
  <1> QED BY <1>4, <1>5, <1>6

(* What the first lines are, the first of more lines are. *)
LEMMA UptoExtends ==
    ASSUME NEW lines, NEW N, Lined(lines, N), NEW n \in 0 .. N
    PROVE  \A m \in n .. N :
              /\ EndOf(lines, n) <= EndOf(lines, m)
              /\ \A k \in 1 .. EndOf(lines, n) : Upto(lines, m)[k] = Upto(lines, n)[k]
  <1> DEFINE P(m) == /\ EndOf(lines, n) <= EndOf(lines, m)
                     /\ \A k \in 1 .. EndOf(lines, n) : Upto(lines, m)[k] = Upto(lines, n)[k]
             T == {m \in Nat : m >= n => P(m)}
  <1>1. N \in Nat /\ n \in Nat
    BY DEF Lined
  <1>2. \A m \in 0 .. N : Upto(lines, m) \in Seq(Byte) /\ EndOf(lines, m) \in Nat
    BY UptoSeq
  <1>3. P(n)
    BY <1>1, <1>2
  <1>4. ASSUME NEW m \in 1 .. N, m - 1 >= n => P(m - 1), m >= n PROVE P(m)
    <2>1. CASE m = n
      BY <1>3, <2>1
    <2>2. CASE m # n
      <3>1. m - 1 >= n /\ m - 1 \in 0 .. N
        BY <1>1, <1>4, <2>2
      <3>2. P(m - 1)
        BY <1>4, <3>1
      <3>3. PICK a \in Nat, b \in Nat, e \in Nat :
               a = EndOf(lines, m - 1) /\ b = EndOf(lines, n) /\ e = EndOf(lines, m)
        <4>1. m \in 0 .. N
          BY <1>1
        <4>2. EndOf(lines, m - 1) \in Nat /\ EndOf(lines, n) \in Nat /\ EndOf(lines, m) \in Nat
          BY <1>2, <3>1, <4>1
        <4> QED BY <4>2
      <3>4. PICK d : d = Len(LineBytes(m, lines[m]))
        OBVIOUS
      <3>5. e = a + d /\ \A k \in 1 .. a : Upto(lines, m)[k] = Upto(lines, m - 1)[k]
        BY <1>2, <3>1, <3>3, <3>4, UptoGrows
      <3>6. d \in Nat
        <4>1. LineType(lines[m]) /\ m \in Int
          BY DEF Lined
        <4>2. LineBytes(m, lines[m]) \in Seq(Byte)
          BY <4>1, LineFacts
        <4>3. PICK w : w = LineBytes(m, lines[m])
          OBVIOUS
        <4> QED BY <3>4, <4>2, <4>3
      <3>7. b <= a /\ \A k \in 1 .. b : Upto(lines, m - 1)[k] = Upto(lines, n)[k]
        BY <3>2, <3>3
      <3>8. b <= e /\ \A k \in 1 .. b : k \in 1 .. a
        BY <3>5, <3>6, <3>7
      <3>9. \A k \in 1 .. b : Upto(lines, m)[k] = Upto(lines, n)[k]
        BY <3>5, <3>7, <3>8
      <3> QED BY <3>3, <3>8, <3>9
    <2> QED BY <2>1, <2>2
  <1>5. 0 \in T
    <2>1. 0 >= n => n = 0
      BY <1>1
    <2> QED BY <1>3, <2>1
  <1>6. \A m \in 1 .. N : m - 1 \in T => m \in T
    <2> TAKE m \in 1 .. N
    <2> HIDE DEF P
    <2>1. m \in Nat /\ (m - 1 \in T => (m - 1 >= n => P(m - 1)))
      OBVIOUS
    <2>2. (m - 1 >= n => P(m - 1)) /\ m >= n => P(m)
      BY <1>4
    <2> QED BY <2>1, <2>2
  <1>7. \A m \in 0 .. N : m \in T
    <2> HIDE DEF T
    <2> QED BY <1>1, <1>5, <1>6, Climb
  <1>8. \A m \in n .. N : P(m)
    <2> HIDE DEF P
    <2> TAKE m \in n .. N
    <2>1. m \in 0 .. N /\ m >= n
      BY <1>1
    <2> QED BY <1>7, <2>1
  <1> QED BY <1>8

(* Where line n lies in the input. *)
Lies(b, e, i, line) ==
    /\ \A k \in 1 .. Body(line) : b[e + k] = LineBytes(i, line)[k] /\ b[e + k][2] # Newline
    /\ line.newline => b[e + Body(line) + 1][2] = Newline

(* Each line lies where those before it end.                                 *)
LEMMA LineLies ==
    ASSUME NEW lines, NEW N, Lined(lines, N), NEW n \in 1 .. N
    PROVE  /\ Bytes(lines) \in Seq(Byte) /\ Body(lines[n]) \in Nat
           /\ EndOf(lines, n - 1) \in Nat
           /\ EndOf(lines, n) = EndOf(lines, n - 1) + Body(lines[n]) + (IF lines[n].newline THEN 1 ELSE 0)
           /\ EndOf(lines, n) <= Len(Bytes(lines)) /\ EndOf(lines, N) = Len(Bytes(lines))
           /\ Lies(Bytes(lines), EndOf(lines, n - 1), n, lines[n])
  <1>1. N = Len(lines) /\ N \in Nat /\ LineType(lines[n]) /\ n \in Int /\ n \in 0 .. N /\ n - 1 \in 0 .. N
        /\ N \in 0 .. N /\ N \in n .. N
    BY DEF Lined
  <1>2. \A m \in 0 .. N : Upto(lines, m) \in Seq(Byte) /\ EndOf(lines, m) \in Nat
    BY UptoSeq
  <1>3. PICK b : b = Bytes(lines)
    OBVIOUS
  <1>4. b = Upto(lines, N) /\ b \in Seq(Byte) /\ Len(b) = EndOf(lines, N)
    BY <1>1, <1>2, <1>3, UptoFacts DEF EndOf
  <1>5. PICK e \in Nat, f \in Nat : e = EndOf(lines, n - 1) /\ f = EndOf(lines, n)
    BY <1>1, <1>2
  <1>6. PICK w : w = LineBytes(n, lines[n])
    OBVIOUS
  <1>7. PICK line : line = lines[n]
    OBVIOUS
  <1>8. f <= Len(b) /\ \A k \in 1 .. f : b[k] = Upto(lines, n)[k]
    <2>1. f = EndOf(lines, n) /\ N \in n .. N /\ Len(b) = EndOf(lines, N)
      BY <1>1, <1>4, <1>5
    <2>2. /\ EndOf(lines, n) <= EndOf(lines, N)
          /\ \A k \in 1 .. EndOf(lines, n) : Upto(lines, N)[k] = Upto(lines, n)[k]
      BY <1>1, UptoExtends
    <2> QED BY <1>4, <2>1, <2>2
  <1>9. f = e + Len(w) /\ \A k \in 1 .. Len(w) : Upto(lines, n)[e + k] = w[k]
    <2>1. Upto(lines, n - 1) \in Seq(Byte)
      BY <1>1, <1>2
    <2>2. /\ EndOf(lines, n) = EndOf(lines, n - 1) + Len(LineBytes(n, lines[n]))
          /\ \A k \in 1 .. Len(LineBytes(n, lines[n])) :
                Upto(lines, n)[EndOf(lines, n - 1) + k] = LineBytes(n, lines[n])[k]
      BY <2>1, UptoGrows
    <2> QED BY <1>5, <1>6, <2>2
  <1>10. PICK c : c = Body(line)
    OBVIOUS
  <1>11. /\ c \in Nat /\ Len(w) = c + (IF line.newline THEN 1 ELSE 0)
         /\ line.newline => w[c + 1] = <<n, Newline>>
         /\ \A k \in 1 .. c : w[k][2] # Newline
    BY <1>1, <1>6, <1>7, <1>10, LineFacts
  <1>12. Len(w) \in Nat
    BY <1>11
  <1>13. ASSUME NEW k \in 1 .. Len(w) PROVE b[e + k] = w[k]
    <2>1. e + k \in 1 .. f
      BY <1>9, <1>12
    <2> QED BY <1>8, <1>9, <2>1
  <1>14. \A k \in 1 .. c : k \in 1 .. Len(w)
    BY <1>11
  <1>15. \A k \in 1 .. c : b[e + k] = w[k] /\ b[e + k][2] # Newline
    BY <1>11, <1>13, <1>14
  <1>16. ASSUME line.newline PROVE b[e + c + 1][2] = Newline
    <2>1. c + 1 \in 1 .. Len(w) /\ e + (c + 1) = e + c + 1
      BY <1>11, <1>16
    <2>2. b[e + c + 1] = <<n, Newline>>
      BY <1>11, <1>13, <1>16, <2>1
    <2> QED BY <2>2
  <1>17. Lies(b, e, n, line)
    BY <1>6, <1>7, <1>10, <1>15, <1>16 DEF Lies
  <1>18. f = e + c + (IF line.newline THEN 1 ELSE 0)
    BY <1>9, <1>11
  <1> QED BY <1>3, <1>4, <1>5, <1>7, <1>8, <1>10, <1>11, <1>17, <1>18

-----------------------------------------------------------------------------
(* What one read takes. *)
Avail(b, a, c) == SubSeq(SubSeq(b, a + 1, Len(b)), 1, c)

Ends(v, c) == {k \in 1 .. c : v[k][2] = Newline}

Taken(v, c) ==
    IF Ends(v, c) # {}
    THEN SubSeq(v, 1, (CHOOSE k \in Ends(v, c) : \A j \in Ends(v, c) : k <= j) - 1)
    ELSE v

(* The part of a sequence from m to n.                                       *)
LEMMA SubSeqFacts ==
    ASSUME NEW S, NEW s \in Seq(S), NEW m \in 1 .. Len(s) + 1, NEW n \in m - 1 .. Len(s)
    PROVE  /\ SubSeq(s, m, n) \in Seq(S) /\ Len(SubSeq(s, m, n)) = n - m + 1
           /\ \A k \in 1 .. n - m + 1 : SubSeq(s, m, n)[k] = s[m + k - 1]
  <1>1. PICK t : t = SubSeq(s, m, n)
    OBVIOUS
  <1>2. Len(s) \in Nat /\ m \in Int /\ n \in Int
    OBVIOUS
  <1>3. \A i \in m .. n : s[i] \in S
    <2>1. \A i \in m .. n : i \in 1 .. Len(s)
      BY <1>2
    <2> QED BY <2>1
  <1>4. /\ t \in Seq(S) /\ Len(t) = IF m <= n THEN n - m + 1 ELSE 0
        /\ \A k \in 1 .. n - m + 1 : t[k] = s[m + k - 1]
    BY <1>1, <1>2, <1>3, SubSeqProperties
  <1>5. ~(m <= n) => n - m + 1 = 0
    BY <1>2
  <1> QED BY <1>1, <1>4, <1>5

(* A read of c bytes, r before the newline: without reaching it, it takes c, *)
(* and else r, and the newline.                                              *)
LEMMA Takes ==
    ASSUME NEW b \in Seq(Byte), NEW a \in 0 .. Len(b), NEW c \in 1 .. Len(b) - a, NEW r \in Nat,
           \A k \in 1 .. c : k <= r => b[a + k][2] # Newline,
           c > r => b[a + r + 1][2] = Newline
    PROVE  \E v, t : /\ v = Avail(b, a, c) /\ t = Taken(v, c) /\ t \in Seq(Byte)
                     /\ \A k \in 1 .. Len(t) : t[k] = b[a + k]
                     /\ c <= r => Ends(v, c) = {} /\ Len(t) = c
                     /\ c > r => Ends(v, c) # {} /\ Len(t) = r
  <1> HIDE DEF Byte
  <1>1. PICK n \in Nat : n = Len(b)
    OBVIOUS
  <1>2. PICK rest : rest = SubSeq(b, a + 1, Len(b))
    OBVIOUS
  <1>3. /\ rest \in Seq(Byte) /\ Len(rest) = n - a
        /\ \A k \in 1 .. n - a : rest[k] = b[a + k]
    <2>1. a + 1 \in 1 .. Len(b) + 1 /\ Len(b) \in a + 1 - 1 .. Len(b)
      BY <1>1
    <2>2. /\ rest \in Seq(Byte) /\ Len(rest) = n - (a + 1) + 1
          /\ \A k \in 1 .. n - (a + 1) + 1 : rest[k] = b[a + 1 + k - 1]
      BY <1>1, <1>2, <2>1, SubSeqFacts
    <2>3. n - (a + 1) + 1 = n - a /\ \A k \in 1 .. n - a : a + 1 + k - 1 = a + k
      BY <1>1
    <2> QED BY <2>2, <2>3
  <1>4. PICK v : v = SubSeq(rest, 1, c)
    OBVIOUS
  <1>5. /\ v \in Seq(Byte) /\ Len(v) = c /\ \A k \in 1 .. c : v[k] = b[a + k]
    <2>1. 1 \in 1 .. Len(rest) + 1 /\ c \in 1 - 1 .. Len(rest)
      BY <1>1, <1>3
    <2>2. /\ v \in Seq(Byte) /\ Len(v) = c - 1 + 1
          /\ \A k \in 1 .. c - 1 + 1 : v[k] = rest[1 + k - 1]
      BY <1>3, <1>4, <2>1, SubSeqFacts
    <2>3. c - 1 + 1 = c /\ \A k \in 1 .. c : 1 + k - 1 = k /\ k \in 1 .. n - a
      BY <1>1
    <2> QED BY <1>3, <2>2, <2>3
  <1>6. v = Avail(b, a, c)
    BY <1>2, <1>4 DEF Avail
  <1>7. PICK t : t = Taken(v, c)
    OBVIOUS
  <1>8. \A k \in 1 .. c : k \in Ends(v, c) <=> b[a + k][2] = Newline
    BY <1>5 DEF Ends
  <1>9. CASE c <= r
    <2>1. \A k \in 1 .. c : k <= r
      BY <1>1, <1>9
    <2>2. Ends(v, c) = {}
      BY <1>8, <2>1 DEF Ends
    <2>3. t = v
      BY <1>7, <2>2 DEF Taken
    <2>4. ~(c > r)
      BY <1>1, <1>9
    <2> QED BY <1>5, <1>6, <1>7, <2>2, <2>3, <2>4
  <1>10. CASE c > r
    <2>1. r + 1 \in 1 .. c /\ a + (r + 1) = a + r + 1
      BY <1>1, <1>10
    <2>2. r + 1 \in Ends(v, c)
      BY <1>8, <1>10, <2>1
    <2>3. \A j \in Ends(v, c) : r + 1 <= j
      <3> TAKE j \in Ends(v, c)
      <3>1. j \in 1 .. c
        BY DEF Ends
      <3>2. ~(j <= r)
        BY <1>8, <3>1
      <3> QED BY <3>1, <3>2
    <2>4. PICK e : e = CHOOSE k \in Ends(v, c) : \A j \in Ends(v, c) : k <= j
      OBVIOUS
    <2>5. e \in Ends(v, c) /\ \A j \in Ends(v, c) : e <= j
      BY <2>2, <2>3, <2>4
    <2>6. e = r + 1
      <3>1. e \in 1 .. c
        BY <2>5 DEF Ends
      <3>2. e <= r + 1 /\ r + 1 <= e
        BY <2>2, <2>3, <2>5
      <3> QED BY <3>1, <3>2
    <2>7. t = SubSeq(v, 1, r)
      <3>1. e - 1 = r
        BY <2>6
      <3> QED BY <1>7, <2>2, <2>4, <3>1 DEF Taken
    <2>8. /\ t \in Seq(Byte) /\ Len(t) = r /\ \A k \in 1 .. r : t[k] = v[k]
      <3>1. 1 \in 1 .. Len(v) + 1 /\ r \in 1 - 1 .. Len(v)
        BY <1>1, <1>5, <1>10
      <3>2. /\ t \in Seq(Byte) /\ Len(t) = r - 1 + 1
            /\ \A k \in 1 .. r - 1 + 1 : t[k] = v[1 + k - 1]
        BY <1>5, <2>7, <3>1, SubSeqFacts
      <3>3. r - 1 + 1 = r /\ \A k \in 1 .. r : 1 + k - 1 = k
        OBVIOUS
      <3> QED BY <3>2, <3>3
    <2>9. \A k \in 1 .. r : k \in 1 .. c
      BY <1>1, <1>10
    <2>10. \A k \in 1 .. r : t[k] = b[a + k]
      BY <1>5, <2>8, <2>9
    <2>11. ~(c <= r)
      BY <1>1, <1>10
    <2> QED BY <1>6, <1>7, <2>2, <2>8, <2>10, <2>11
  <1> QED BY <1>1, <1>9, <1>10

(* A frame that holds m bytes of the input after e, and what a read adds.    *)
Holds(f, m, e, b) == f \in Seq(Byte) /\ Len(f) = m /\ \A k \in 1 .. m : f[k] = b[e + k]

(* The frame goes on holding what was read.                                  *)
LEMMA HoldsMore ==
    ASSUME NEW f, NEW m \in Nat, NEW e \in Nat, NEW b, Holds(f, m, e, b),
           NEW t \in Seq(Byte), \A k \in 1 .. Len(t) : t[k] = b[e + m + k]
    PROVE  Holds(f \o t, m + Len(t), e, b)
  <1> HIDE DEF Byte
  <1>1. f \in Seq(Byte) /\ Len(f) = m /\ \A k \in 1 .. m : f[k] = b[e + k]
    BY DEF Holds
  <1>2. PICK d \in Nat : d = Len(t)
    OBVIOUS
  <1>3. PICK g : g = f \o t
    OBVIOUS
  <1>4. /\ g \in Seq(Byte) /\ Len(g) = m + d
        /\ \A k \in 1 .. m + d : g[k] = IF k <= m THEN f[k] ELSE t[k - m]
    BY <1>1, <1>2, <1>3, ConcatProperties
  <1>5. ASSUME NEW k \in 1 .. m + d PROVE g[k] = b[e + k]
    <2>1. CASE k <= m
      BY <1>1, <1>4, <2>1
    <2>2. CASE ~(k <= m)
      <3>1. PICK j : j = k - m
        OBVIOUS
      <3>2. j \in 1 .. d /\ e + m + j = e + k
        BY <2>2, <3>1
      <3>3. g[k] = t[j] /\ t[j] = b[e + m + j]
        BY <1>2, <1>4, <2>2, <3>1, <3>2
      <3> QED BY <3>2, <3>3
    <2> QED BY <2>1, <2>2
  <1> QED BY <1>2, <1>3, <1>4, <1>5 DEF Holds

-----------------------------------------------------------------------------
(* What is due to a line, whatever the state of the server. *)
ErrorOf(m) ==
    CASE m.method = "tools/call" /\ m.tool \notin Tools -> -32602
      [] m.method \notin {"initialize", "ping", "tools/list", "tools/call"} -> -32601
      [] OTHER -> 0

(* A reply to what has no id.                                                *)
Null(error) == << [id |-> "null", error |-> error] >>

Due(line) ==
    LET m == line.message
    IN  CASE Body(line) > FrameLimit -> Null(-32600)
          [] OTHER ->
             IF line.length = 0 \/ m.syntax = "blank" THEN <<>>
             ELSE CASE m.syntax = "invalid" -> Null(-32700)
                    [] m.syntax = "array" \/ (m.syntax = "object" /\ Malformed(m)) -> Null(-32600)
                    [] m.syntax = "object" /\ ~Malformed(m) ->
                         IF IsNotification(m) THEN <<>>
                         ELSE << [id |-> m.id, error |-> ErrorOf(m)] >>

(* Whatever the memories and the settings, a request has the same error.     *)
LEMMA HandledError ==
    ASSUME NEW m, NEW works
    PROVE  Handled(m, works).error = ErrorOf(m)
  <1>1. ASSUME NEW t, NEW args PROVE ToolCall(t, args, works).error = 0
    <2>1. CASE t \notin ReadTools /\ ~MutationsEnabled
      BY <2>1 DEF ToolCall
    <2>2. CASE t \in ReadTools \/ MutationsEnabled
      BY <2>2 DEF ToolCall
    <2> QED BY <2>1, <2>2
  <1>2. CASE m.method = "tools/call"
    <2>1. CASE m.tool \notin Tools
      <3>1. Handled(m, works) = [error |-> -32602, result |-> {}, after |-> memories]
        BY <1>2, <2>1 DEF Handled
      <3>2. ErrorOf(m) = -32602
        BY <1>2, <2>1 DEF ErrorOf
      <3> QED BY <3>1, <3>2
    <2>2. CASE m.tool \in Tools
      <3>1. Handled(m, works) = ToolCall(m.tool, m.args, works)
        BY <1>2, <2>2 DEF Handled
      <3>2. ErrorOf(m) = 0
        BY <1>2, <2>2 DEF ErrorOf
      <3> QED BY <1>1, <3>1, <3>2
    <2> QED BY <2>1, <2>2
  <1>3. CASE m.method \in {"initialize", "ping", "tools/list"}
    <2>1. Handled(m, works).error = 0
      BY <1>3 DEF Handled
    <2>2. ErrorOf(m) = 0
      BY <1>3 DEF ErrorOf
    <2> QED BY <2>1, <2>2
  <1>4. CASE m.method \notin {"initialize", "ping", "tools/list", "tools/call"}
    <2>1. Handled(m, works) = [error |-> -32601, result |-> {}, after |-> memories]
      BY <1>4 DEF Handled
    <2>2. ErrorOf(m) = -32601
      BY <1>4 DEF ErrorOf
    <2> QED BY <2>1, <2>2
  <1> QED BY <1>2, <1>3, <1>4

(* What RepliesExact expects of a line is what is due to it.                 *)
LEMMA DueIsExpected ==
    ASSUME NEW line
    PROVE  Expected(line) = Due(line)
  <1>1. PICK m : m = line.message
    OBVIOUS
  <1>2. Handled(m, TRUE).error = ErrorOf(m)
    BY HandledError
  <1> QED BY <1>1, <1>2 DEF Expected, Due, Null, Body

(* What is due to the first n lines. *)
Dues(lines) == [k \in 1 .. Len(lines) |-> Due(lines[k])]

Owed(lines, n) == (CHOOSE f : Joins(f, Dues(lines), Len(lines)))[n]

(* f[n] is what is due to the first n lines.                                 *)
Adds(f, lines, N) == Joins(f, Dues(lines), N) /\ \A n \in 0 .. N : Owed(lines, n) = f[n]

(* One line more.                                                            *)
LEMMA OwedFacts ==
    ASSUME NEW lines, NEW N, N = Len(lines), N \in Nat
    PROVE  /\ Owed(lines, 0) = <<>>
           /\ \A n \in 1 .. N : Owed(lines, n) = Owed(lines, n - 1) \o Due(lines[n])
           /\ \E f : Adds(f, lines, N)
  <1>1. PICK e : Joins(e, Dues(lines), N)
    BY JoinsExist
  <1>2. PICK u : u = (CHOOSE f : Joins(f, Dues(lines), Len(lines)))
    OBVIOUS
  <1>3. Joins(u, Dues(lines), N)
    BY <1>1, <1>2
  <1>4. \A n \in 0 .. N : Owed(lines, n) = u[n]
    BY <1>2 DEF Owed
  <1>5. 0 \in 0 .. N
    OBVIOUS
  <1>6. u[0] = <<>>
    BY <1>3, <1>5 DEF Joins
  <1>7. ASSUME NEW n \in 1 .. N PROVE Owed(lines, n) = Owed(lines, n - 1) \o Due(lines[n])
    <2>1. n \in 0 .. N /\ n - 1 \in 0 .. N /\ n # 0
      OBVIOUS
    <2>2. u[n] = u[n - 1] \o Dues(lines)[n]
      BY <1>3, <2>1 DEF Joins
    <2>3. Dues(lines)[n] = Due(lines[n])
      BY DEF Dues
    <2> QED BY <1>4, <2>1, <2>2, <2>3
  <1>8. Adds(u, lines, N)
    BY <1>3, <1>4 DEF Adds
  <1> QED BY <1>4, <1>5, <1>6, <1>7, <1>8

(* In the words of RepliesExact.                                             *)
LEMMA OwedIsExpected ==
    ASSUME NEW N, N = Len(input), N \in Nat, NEW n \in 0 .. N
    PROVE  ExpectedOf(n) = Owed(input, n)
  <1>1. PICK lines : lines = input
    OBVIOUS
  <1>2. PICK p : p = Dues(lines)
    OBVIOUS
  <1>3. n \in Nat /\ n \in 0 .. n
    OBVIOUS
  <1>4. \A i \in 1 .. n : p[i] = Expected(lines[i])
    <2> TAKE i \in 1 .. n
    <2>1. i \in 1 .. Len(lines)
      BY <1>1
    <2>2. p[i] = Due(lines[i])
      BY <1>2, <2>1 DEF Dues
    <2>3. PICK line : line = lines[i]
      OBVIOUS
    <2>4. Expected(line) = Due(line)
      BY DueIsExpected
    <2> QED BY <2>2, <2>3, <2>4
  <1> DEFINE F(f) == f = [i \in 0 .. n |->
                            IF i = 0 THEN <<>> ELSE f[i - 1] \o Expected(lines[i])]
  <1>5. ASSUME NEW f PROVE F(f) <=> Joins(f, p, n)
    <2>1. \A i \in 0 .. n : i # 0 => i \in 1 .. n
      OBVIOUS
    <2>2. ASSUME F(f) PROVE Joins(f, p, n)
      <3>1. /\ f = [i \in 0 .. n |-> f[i]]
            /\ \A i \in 0 .. n : f[i] = IF i = 0 THEN <<>> ELSE f[i - 1] \o Expected(lines[i])
        BY <2>2
      <3> HIDE DEF F
      <3> QED BY <1>4, <2>1, <3>1 DEF Joins
    <2>3. ASSUME Joins(f, p, n) PROVE F(f)
      <3>1. /\ f = [i \in 0 .. n |-> f[i]]
            /\ \A i \in 0 .. n : f[i] = IF i = 0 THEN <<>> ELSE f[i - 1] \o p[i]
        BY <2>3 DEF Joins
      <3>2. \A i \in 0 .. n : f[i] = IF i = 0 THEN <<>> ELSE f[i - 1] \o Expected(lines[i])
        BY <1>4, <2>1, <3>1
      <3> QED BY <3>1, <3>2
    <2> QED BY <2>2, <2>3
  <1>6. ExpectedOf(n) = (CHOOSE f : F(f))[n]
    BY <1>1 DEF ExpectedOf
  <1> HIDE DEF F
  <1>7. PICK e : Joins(e, p, n)
    BY <1>3, JoinsExist
  <1>8. PICK g : g = (CHOOSE f : F(f))
    OBVIOUS
  <1>9. Joins(g, p, n)
    BY <1>5, <1>7, <1>8
  <1>10. PICK f : Joins(f, p, N) /\ \A k \in 0 .. N : Owed(lines, k) = f[k]
    <2>1. N = Len(lines)
      BY <1>1
    <2>2. PICK f : Adds(f, lines, N)
      BY <2>1, OwedFacts
    <2>3. Joins(f, p, N) /\ \A k \in 0 .. N : Owed(lines, k) = f[k]
      BY <1>2, <2>2 DEF Adds
    <2> QED BY <2>3
  <1>11. \A k \in 0 .. n : g[k] = f[k]
    <2>1. \A k \in 1 .. n : p[k] = p[k]
      OBVIOUS
    <2> QED BY <1>9, <1>10, <2>1, JoinsAgree
  <1> QED BY <1>1, <1>3, <1>6, <1>8, <1>10, <1>11

-----------------------------------------------------------------------------
(* What run_mcp_stdio answers to a message, and what of it counts.           *)
Answer(long, m, works) ==
    CASE long -> Reply("null", -32600, {})
      [] ~long /\ m.syntax = "blank"   -> NoReply
      [] ~long /\ m.syntax = "invalid" -> Reply("null", -32700, {})
      [] OTHER ->
           CASE Malformed(m) -> Reply("null", -32600, {})
             [] ~Malformed(m) /\ IsNotification(m) -> NoReply
             [] OTHER -> Reply(m.id, Handled(m, works).error, Handled(m, works).result)

(* The id and error of a reply, and of each reply.                           *)
HeadOf(r) == [id |-> r.id, error |-> r.error]

Heads(q) == [k \in DOMAIN q |-> HeadOf(q[k])]

(* Heads of replies are a sequence.                                          *)
LEMMA HeadsSeq ==
    ASSUME NEW S, NEW q \in Seq(S)
    PROVE  \E T : Heads(q) \in Seq(T)
  <1>1. PICK k \in Nat : k = Len(q)
    OBVIOUS
  <1>2. PICK T : T = {HeadOf(q[j]) : j \in 1 .. k}
    OBVIOUS
  <1>3. DOMAIN q = 1 .. k
    BY <1>1
  <1>4. Heads(q) = [j \in 1 .. k |-> HeadOf(q[j])]
    BY <1>3 DEF Heads
  <1>5. Heads(q) \in [1 .. k -> T]
    BY <1>2, <1>4
  <1>6. Heads(q) \in Seq(T)
    BY <1>5
  <1> QED BY <1>6

(* One reply more is one head more.                                          *)
LEMMA HeadsAppend ==
    ASSUME NEW S, NEW q \in Seq(S), NEW r
    PROVE  Heads(q \o <<r>>) = Heads(q) \o << HeadOf(r) >>
  <1>1. PICK n \in Nat : n = Len(q)
    OBVIOUS
  <1>2. PICK T : T = S \cup {r}
    OBVIOUS
  <1>3. q \in Seq(T) /\ <<r>> \in Seq(T) /\ Len(<<r>>) = 1 /\ <<r>>[1] = r
    BY <1>2
  <1>4. PICK p : p = q \o <<r>>
    OBVIOUS
  <1>5. /\ p \in Seq(T) /\ Len(p) = n + 1
        /\ \A k \in 1 .. n + 1 : p[k] = IF k <= n THEN q[k] ELSE <<r>>[k - n]
    BY <1>1, <1>3, <1>4, ConcatProperties
  <1>6. (\A k \in 1 .. n : p[k] = q[k]) /\ p[n + 1] = r
    <2>1. n + 1 \in 1 .. n + 1 /\ ~(n + 1 <= n) /\ n + 1 - n = 1
      OBVIOUS
    <2>2. p[n + 1] = <<r>>[n + 1 - n]
      BY <1>5, <2>1
    <2>3. \A k \in 1 .. n : k \in 1 .. n + 1 /\ k <= n
      OBVIOUS
    <2> QED BY <1>3, <1>5, <2>1, <2>2, <2>3
  <1>7. PICK H : H = {HeadOf(p[k]) : k \in 1 .. n + 1}
    OBVIOUS
  <1>8. PICK g, h, e : g = Heads(p) /\ h = Heads(q) /\ e = HeadOf(r)
    OBVIOUS
  <1>9. DOMAIN p = 1 .. n + 1 /\ DOMAIN q = 1 .. n
    BY <1>1, <1>5
  <1>10. g \in Seq(H) /\ Len(g) = n + 1 /\ \A k \in 1 .. n + 1 : g[k] = HeadOf(p[k])
    <2>1. g = [k \in 1 .. n + 1 |-> HeadOf(p[k])]
      BY <1>8, <1>9 DEF Heads
    <2>2. g \in [1 .. n + 1 -> H]
      BY <1>7, <2>1
    <2> QED BY <2>1, <2>2
  <1>11. h \in Seq(H) /\ Len(h) = n /\ \A k \in 1 .. n : h[k] = HeadOf(p[k])
    <2>1. h = [k \in 1 .. n |-> HeadOf(p[k])]
      BY <1>6, <1>8, <1>9 DEF Heads
    <2>2. h \in [1 .. n -> H]
      BY <1>7, <2>1
    <2> QED BY <2>1, <2>2
  <1>12. <<e>> \in Seq(H) /\ Len(<<e>>) = 1 /\ <<e>>[1] = e /\ e = HeadOf(p[n + 1])
    <2>1. e = HeadOf(p[n + 1])
      BY <1>6, <1>8
    <2>2. e \in H
      BY <1>7, <2>1
    <2> QED BY <2>1, <2>2
  <1>13. PICK d : d = h \o <<e>>
    OBVIOUS
  <1>14. /\ d \in Seq(H) /\ Len(d) = n + 1
         /\ \A k \in 1 .. n + 1 : d[k] = IF k <= n THEN h[k] ELSE <<e>>[k - n]
    BY <1>11, <1>12, <1>13, ConcatProperties
  <1>15. ASSUME NEW k \in 1 .. n + 1 PROVE d[k] = g[k]
    <2>1. CASE k <= n
      BY <1>10, <1>11, <1>14, <2>1
    <2>2. CASE ~(k <= n)
      <3>1. k = n + 1 /\ k - n = 1
        BY <2>2
      <3>2. d[k] = <<e>>[1]
        BY <1>14, <2>2, <3>1
      <3> QED BY <1>10, <1>12, <3>1, <3>2
    <2> QED BY <2>1, <2>2
  <1>16. d = g
    BY <1>10, <1>14, <1>15, SeqEqual
  <1> QED BY <1>4, <1>8, <1>13, <1>16

(* The answer to a line is what is due to it. *)
LEMMA AnswerIsDue ==
    ASSUME NEW line, line.length \in Nat,
           line.message.syntax \in {"blank", "invalid", "array", "object"},
           NEW m, m = IF line.length = 0 THEN [syntax |-> "blank"] ELSE line.message,
           NEW long \in BOOLEAN, long <=> Body(line) > FrameLimit, NEW works
    PROVE  \/ Answer(long, m, works) = <<>> /\ Due(line) = <<>>
           \/ \E r : Answer(long, m, works) = <<r>> /\ Due(line) = << HeadOf(r) >>
  <1>1. \A id, error, result : \E r : Reply(id, error, result) = <<r>>
                                       /\ HeadOf(r) = [id |-> id, error |-> error]
    <2> TAKE id, error, result
    <2>1. PICK r : r = [id |-> id, error |-> error, result |-> result]
      OBVIOUS
    <2>2. HeadOf(r) = [id |-> id, error |-> error]
      BY <2>1 DEF HeadOf
    <2> QED BY <2>1, <2>2 DEF Reply
  <1>2. ASSUME NEW error, Answer(long, m, works) = Reply("null", error, {}), Due(line) = Null(error)
        PROVE  \E r : Answer(long, m, works) = <<r>> /\ Due(line) = << HeadOf(r) >>
    BY <1>1, <1>2 DEF Null
  <1>3. CASE long
    <2>1. Answer(long, m, works) = Reply("null", -32600, {})
      BY <1>3 DEF Answer
    <2>2. Due(line) = Null(-32600)
      BY <1>3 DEF Due
    <2> QED BY <1>2, <2>1, <2>2
  <1>4. CASE ~long /\ line.length = 0
    <2>1. m.syntax = "blank"
      BY <1>4
    <2>2. Answer(long, m, works) = <<>>
      BY <1>4, <2>1 DEF Answer, NoReply
    <2>3. Due(line) = <<>>
      BY <1>4 DEF Due
    <2> QED BY <2>2, <2>3
  <1>5. CASE ~long /\ line.length # 0
    <2>1. m = line.message
      BY <1>5
    <2>2. CASE m.syntax = "blank"
      <3>1. Answer(long, m, works) = <<>>
        BY <1>5, <2>2 DEF Answer, NoReply
      <3>2. Due(line) = <<>>
        BY <1>5, <2>1, <2>2 DEF Due
      <3> QED BY <3>1, <3>2
    <2>3. CASE m.syntax = "invalid"
      <3>1. Answer(long, m, works) = Reply("null", -32700, {})
        BY <1>5, <2>3 DEF Answer
      <3>2. Due(line) = Null(-32700)
        BY <1>5, <2>1, <2>3 DEF Due
      <3> QED BY <1>2, <3>1, <3>2
    <2>4. CASE m.syntax = "array"
      <3>1. Malformed(m)
        BY <2>4 DEF Malformed
      <3>2. Answer(long, m, works) = Reply("null", -32600, {})
        BY <1>5, <2>4, <3>1 DEF Answer
      <3>3. Due(line) = Null(-32600)
        BY <1>5, <2>1, <2>4 DEF Due
      <3> QED BY <1>2, <3>2, <3>3
    <2>5. CASE m.syntax = "object"
      <3>1. CASE Malformed(m)
        <4>1. Answer(long, m, works) = Reply("null", -32600, {})
          BY <1>5, <2>5, <3>1 DEF Answer
        <4>2. Due(line) = Null(-32600)
          BY <1>5, <2>1, <2>5, <3>1 DEF Due
        <4> QED BY <1>2, <4>1, <4>2
      <3>2. CASE ~Malformed(m) /\ IsNotification(m)
        <4>1. Answer(long, m, works) = <<>>
          BY <1>5, <2>5, <3>2 DEF Answer, NoReply
        <4>2. Due(line) = <<>>
          BY <1>5, <2>1, <2>5, <3>2 DEF Due
        <4> QED BY <4>1, <4>2
      <3>3. CASE ~Malformed(m) /\ ~IsNotification(m)
        <4>1. PICK h : h = Handled(m, works)
          OBVIOUS
        <4>2. Answer(long, m, works) = Reply(m.id, h.error, h.result)
          BY <1>5, <2>5, <3>3, <4>1 DEF Answer
        <4>3. Due(line) = << [id |-> m.id, error |-> ErrorOf(m)] >>
          BY <1>5, <2>1, <2>5, <3>3 DEF Due
        <4>4. h.error = ErrorOf(m)
          BY <4>1, HandledError
        <4>5. PICK r : Reply(m.id, h.error, h.result) = <<r>>
                       /\ HeadOf(r) = [id |-> m.id, error |-> h.error]
          BY <1>1
        <4> QED BY <4>2, <4>3, <4>4, <4>5
      <3> QED BY <3>1, <3>2, <3>3
    <2> QED BY <2>1, <2>2, <2>3, <2>4, <2>5
  <1> QED BY <1>3, <1>4, <1>5

-----------------------------------------------------------------------------
(* The transport before it reads.                                            *)
McpFresh ==
    /\ at = 0 /\ frame = <<>> /\ tooLarge = FALSE
    /\ message = None /\ replies = <<>> /\ running = TRUE

(* n lines are read and m bytes of the next: the frame holds them, unless    *)
(* they are too many.                                                        *)
Midway(n, m) ==
    /\ at = EndOf(input, n) + m
    /\ tooLarge <=> m > FrameLimit
    /\ tooLarge => frame = <<>>
    /\ ~tooLarge => Holds(frame, m, EndOf(input, n), Bytes(input))
    /\ n = Len(input) => m = 0
    /\ n # Len(input) => m <= Body(input[n + 1])

(* The line after the n-th is in the message, or was too long.               *)
Framed(n) ==
    /\ n # Len(input) /\ at = EndOf(input, n + 1)
    /\ frame = <<>> /\ ~tooLarge
    /\ message.large <=> Body(input[n + 1]) > FrameLimit
    /\ ~message.large => FrameOf(message.bytes) = Said(n + 1, input[n + 1])

(* Of n lines, each has its answer. *)
ReaderAt(n) ==
    /\ n \in 0 .. Len(input) /\ Heads(replies) = Owed(input, n)
    /\ message = None => \E m \in Nat : Midway(n, m)
    /\ message # None => Framed(n)

(* The transport has its place in the input, as long as it runs, and has     *)
(* answered every line before it.                                            *)
ReaderOK ==
    /\ mode = None => McpFresh
    /\ mode = "mcp" =>
          /\ input \in Inputs /\ tooLarge \in BOOLEAN /\ running \in BOOLEAN
          /\ running => (\E S : replies \in Seq(S)) /\ \E n : ReaderAt(n)

(* The line being read, and where it lies. *)
LEMMA NextLine ==
    ASSUME input \in Inputs, NEW n \in 0 .. Len(input), n # Len(input)
    PROVE  \E i, line, b, e, c, nl :
              /\ i = n + 1 /\ i \in 1 .. Len(input) /\ line = input[i] /\ b = Bytes(input)
              /\ e = EndOf(input, n) /\ c = Body(line) /\ LineType(line)
              /\ b \in Seq(Byte) /\ e \in Nat /\ c \in Nat
              /\ nl = (IF line.newline THEN 1 ELSE 0) /\ EndOf(input, i) = e + c + nl
              /\ EndOf(input, i) <= Len(b) /\ Lies(b, e, i, line)
              /\ ~line.newline => e + c = Len(b)
              /\ line.message.syntax \in {"blank", "invalid", "array", "object"}
  <1>1. PICK N : N = Len(input)
    OBVIOUS
  <1>2. Lined(input, N) /\ N \in Nat
    BY <1>1, InputsLined DEF Lined
  <1>3. PICK i : i = n + 1
    OBVIOUS
  <1>4. i \in 1 .. N /\ i - 1 = n
    BY <1>1, <1>2, <1>3
  <1>5. PICK line : line = input[i]
    OBVIOUS
  <1>6. LineType(line) /\ (~line.newline => i = N)
    <2>1. LineType(line) /\ (i < N => line.newline)
      BY <1>2, <1>4, <1>5 DEF Lined
    <2> QED BY <1>2, <1>4, <2>1
  <1>7. line.message.syntax \in {"blank", "invalid", "array", "object"}
    BY <1>1, <1>4, <1>5, InputsLined
  <1>8. PICK b, e, c, nl : b = Bytes(input) /\ e = EndOf(input, n) /\ c = Body(line)
                           /\ nl = (IF line.newline THEN 1 ELSE 0)
    OBVIOUS
  <1>9. /\ b \in Seq(Byte) /\ c \in Nat /\ e \in Nat
        /\ EndOf(input, i) = e + c + nl
        /\ EndOf(input, i) <= Len(b) /\ EndOf(input, N) = Len(b)
        /\ Lies(b, e, i, line)
    BY <1>2, <1>4, <1>5, <1>8, LineLies
  <1>10. ~line.newline => e + c = Len(b)
    BY <1>6, <1>8, <1>9
  <1> QED BY <1>1, <1>3, <1>4, <1>5, <1>6, <1>7, <1>8, <1>9, <1>10

(* A frame of all its bytes is what the line says. *)
LEMMA HeldIsSaid ==
    ASSUME NEW i \in Int, NEW line, LineType(line), NEW b, NEW e \in Nat, Lies(b, e, i, line),
           NEW f, Holds(f, Body(line), e, b)
    PROVE  /\ f \in Seq(Byte) /\ FrameOf(f) \in Seq(Byte) /\ FrameOf(f) = Said(i, line)
           /\ FrameOf(FrameOf(f)) = Said(i, line)
  <1>1. f \in Seq(Byte) /\ Len(f) = Body(line) /\ \A k \in 1 .. Body(line) : f[k] = b[e + k]
    BY DEF Holds
  <1>2. \A k \in 1 .. Body(line) : f[k] = LineBytes(i, line)[k]
    BY <1>1 DEF Lies
  <1>3. FrameOf(f) = Said(i, line) /\ FrameOf(Said(i, line)) = Said(i, line)
    BY <1>1, <1>2, FrameFacts
  <1>4. Said(i, line) \in Seq(Byte)
    BY SaidFacts
  <1> QED BY <1>1, <1>3, <1>4

(* What read_frame returned is no None. *)
LEMMA FrameIsSome ==
    ASSUME NEW large \in BOOLEAN, NEW bytes \in Seq(Byte)
    PROVE  /\ [large |-> large, bytes |-> bytes] # None
           /\ [large |-> large, bytes |-> bytes].large = large
           /\ [large |-> large, bytes |-> bytes].bytes = bytes
  <1>1. [large |-> large, bytes |-> bytes] \in [large : BOOLEAN, bytes : Seq(Int \X Int)]
    BY DEF Byte
  <1>2. None \notin [large : BOOLEAN, bytes : Seq(Int \X Int)]
    BY McpAssumption
  <1> QED BY <1>1, <1>2

(* A read leaves the line that is being read what it is.                     *)
LEMMA FillReads ==
    ASSUME input \in Inputs, tooLarge \in BOOLEAN, message = None, NEW n, ReaderAt(n),
           NEW c \in 1 .. Chunk, Fill(c)
    PROVE  ReaderAt(n)' /\ tooLarge' \in BOOLEAN
  <1> HIDE DEF Byte
  <1>1. PICK N : N = Len(input)
    OBVIOUS
  <1>2. N \in Nat /\ Lined(input, N)
    BY <1>1, InputsLined DEF Lined
  <1>3. n \in 0 .. N
    BY <1>1 DEF ReaderAt
  <1>4. PICK m \in Nat : Midway(n, m)
    BY DEF ReaderAt
  <1>5. PICK b : b = Bytes(input)
    OBVIOUS
  <1>6. PICK v : v = Avail(b, at, c)
    OBVIOUS
  <1>7. PICK t : t = Taken(v, c)
    OBVIOUS
  <1>8. PICK long \in BOOLEAN : long <=> (tooLarge \/ Len(frame) + Len(t) > FrameLimit)
    OBVIOUS
  <1>9. PICK whole : whole = IF long THEN <<>> ELSE frame \o t
    OBVIOUS
  <1>10. /\ c \in 1 .. Len(SubSeq(b, at + 1, Len(b)))
         /\ UNCHANGED <<input, replies>>
         /\ at' = at + Len(t) + (IF Ends(v, c) # {} THEN 1 ELSE 0)
         /\ Ends(v, c) # {} => /\ message' = [large |-> long, bytes |-> FrameOf(whole)]
                               /\ frame' = <<>> /\ tooLarge' = FALSE
         /\ Ends(v, c) = {} => frame' = whole /\ tooLarge' = long /\ message' = message
    <2>1. c \in 1 .. Len(SubSeq(b, at + 1, Len(b))) /\ UNCHANGED <<input, replies>>
      BY <1>5 DEF Fill
    <2>2. at' = at + Len(t) + (IF Ends(v, c) # {} THEN 1 ELSE 0)
      <3>1. v = Avail(Bytes(input), at, c) /\ t = Taken(Avail(Bytes(input), at, c), c)
        BY <1>5, <1>6, <1>7
      <3>2. at' = at + Len(Taken(Avail(Bytes(input), at, c), c))
                     + (IF Ends(Avail(Bytes(input), at, c), c) # {} THEN 1 ELSE 0)
        BY ZenonT(30) DEF Fill, Avail, Taken, Ends
      <3> QED BY <3>1, <3>2, ZenonT(30)
    <2>3. ASSUME Ends(v, c) # {}
          PROVE  /\ message' = [large |-> long, bytes |-> FrameOf(whole)]
                 /\ frame' = <<>> /\ tooLarge' = FALSE
      BY <1>5, <1>6, <1>7, <1>8, <1>9, <2>3 DEF Fill, Avail, Taken, Ends, TooLargeNow
    <2>4. ASSUME Ends(v, c) = {}
          PROVE  frame' = whole /\ tooLarge' = long /\ message' = message
      BY <1>5, <1>6, <1>7, <1>8, <1>9, <2>4 DEF Fill, Avail, Taken, Ends, TooLargeNow
    <2> QED BY <2>1, <2>2, <2>3, <2>4
  <1>11. n # N
    <2> SUFFICES ASSUME n = N PROVE FALSE
      OBVIOUS
    <2>1. b \in Seq(Byte) /\ at = Len(b)
      <3>1. m = 0 /\ at = EndOf(input, N) + m
        BY <1>1, <1>4 DEF Midway
      <3>2. N \in 0 .. N
        BY <1>2
      <3>3. Upto(input, N) \in Seq(Byte) /\ EndOf(input, N) \in Nat
        BY <1>2, <3>2, UptoSeq
      <3>4. Upto(input, N) = b
        BY <1>1, <1>2, <1>5, UptoFacts
      <3> QED BY <3>1, <3>3, <3>4 DEF EndOf
    <2>2. at \in Nat
      BY <2>1
    <2>3. at + 1 \in 1 .. Len(b) + 1 /\ Len(b) \in at + 1 - 1 .. Len(b)
      BY <2>1, <2>2
    <2>4. Len(SubSeq(b, at + 1, Len(b))) = Len(b) - (at + 1) + 1
      BY <2>1, <2>3, SubSeqFacts
    <2>5. Len(b) - (at + 1) + 1 = 0
      BY <2>1, <2>2
    <2>6. c \in 1 .. 0
      BY <1>10, <2>4, <2>5
    <2> QED BY <2>6
  <1>12. PICK i, line, e, d, nl :
              /\ i = n + 1 /\ i \in 1 .. N /\ line = input[i]
              /\ e = EndOf(input, n) /\ d = Body(line) /\ LineType(line)
              /\ b \in Seq(Byte) /\ e \in Nat /\ d \in Nat
              /\ nl = (IF line.newline THEN 1 ELSE 0) /\ EndOf(input, i) = e + d + nl
              /\ EndOf(input, i) <= Len(b) /\ Lies(b, e, i, line)
              /\ ~line.newline => e + d = Len(b)
    BY <1>1, <1>3, <1>5, <1>11, NextLine
  <1>13. /\ at = e + m /\ m <= d /\ (tooLarge <=> m > FrameLimit)
         /\ tooLarge => frame = <<>>
         /\ ~tooLarge => Holds(frame, m, e, b)
    BY <1>1, <1>4, <1>5, <1>11, <1>12 DEF Midway
  <1>14. PICK r \in Nat : r = d - m
    BY <1>12, <1>13
  <1>15. at \in 0 .. Len(b) /\ c \in 1 .. Len(b) - at /\ Len(b) \in Nat /\ c \in Nat
    <2>1. Len(b) \in Nat
      BY <1>12
    <2>2. nl \in 0 .. 1
      BY <1>12
    <2>3. at \in 0 .. Len(b)
      <3>1. e \in Nat /\ d \in Nat /\ at = e + m /\ m <= d /\ e + d + nl <= Len(b)
        BY <1>12, <1>13
      <3>2. PICK z : z = Len(b)
        OBVIOUS
      <3>3. e + m <= z /\ e + m >= 0
        BY <2>1, <2>2, <3>1, <3>2
      <3> QED BY <3>1, <3>2, <3>3
    <2>4. at + 1 \in 1 .. Len(b) + 1 /\ Len(b) \in at + 1 - 1 .. Len(b)
      BY <2>1, <2>3
    <2>5. Len(SubSeq(b, at + 1, Len(b))) = Len(b) - (at + 1) + 1
      BY <1>12, <2>4, SubSeqFacts
    <2>6. Len(b) - (at + 1) + 1 = Len(b) - at
      BY <2>1, <2>3
    <2>7. c \in 1 .. Len(b) - at
      BY <1>10, <2>5, <2>6
    <2>8. Len(b) - at \in Nat
      BY <2>1, <2>3
    <2>9. c \in Nat
      BY <2>7, <2>8
    <2> QED BY <2>1, <2>3, <2>7, <2>9
  <1>16. /\ \A k \in 1 .. c : k <= r => b[at + k][2] # Newline
         /\ c > r => b[at + r + 1][2] = Newline /\ line.newline
    <2>1. ASSUME NEW k \in 1 .. c, k <= r PROVE b[at + k][2] # Newline
      <3>1. m + k \in 1 .. d /\ e + (m + k) = at + k
        <4>1. k \in Nat /\ k >= 1
          BY <1>15
        <4>2. m + k <= d
          BY <1>12, <1>14, <2>1, <4>1
        <4>3. m + k \in Nat /\ m + k >= 1
          BY <4>1
        <4>4. m + k \in 1 .. d
          BY <1>12, <4>2, <4>3
        <4>5. e + (m + k) = at + k
          BY <1>12, <1>13, <4>1
        <4> QED BY <4>4, <4>5
      <3>2. b[e + (m + k)][2] # Newline
        BY <1>12, <3>1 DEF Lies
      <3> QED BY <3>1, <3>2
    <2>2. ASSUME c > r PROVE b[at + r + 1][2] = Newline /\ line.newline
      <3>1. line.newline
        <4> SUFFICES ASSUME ~line.newline PROVE FALSE
          BY <1>12 DEF LineType
        <4>1. e + d = Len(b)
          BY <1>12
        <4>2. c <= Len(b) - at
          BY <1>15
        <4>3. Len(b) - at = r
          <5>1. e \in Nat /\ d \in Nat /\ Len(b) = e + d /\ at = e + m /\ r = d - m
            BY <1>12, <1>13, <1>14, <4>1
          <5>2. e + d - (e + m) = d - m
            BY <5>1
          <5> QED BY <5>1, <5>2
        <4> QED BY <1>15, <2>2, <4>2, <4>3
      <3>2. at + r + 1 = e + d + 1
        BY <1>12, <1>13, <1>14
      <3>3. b[e + d + 1][2] = Newline
        BY <1>12, <3>1 DEF Lies
      <3> QED BY <3>1, <3>2, <3>3
    <2> QED BY <2>1, <2>2
  <1>17. /\ t \in Seq(Byte)
         /\ \A k \in 1 .. Len(t) : t[k] = b[at + k]
         /\ c <= r => Ends(v, c) = {} /\ Len(t) = c
         /\ c > r => Ends(v, c) # {} /\ Len(t) = r
    <2>1. PICK a : a = at
      OBVIOUS
    <2>2. /\ b \in Seq(Byte) /\ a \in 0 .. Len(b) /\ c \in 1 .. Len(b) - a
          /\ \A k \in 1 .. c : k <= r => b[a + k][2] # Newline
          /\ c > r => b[a + r + 1][2] = Newline
      BY <1>12, <1>15, <1>16, <2>1
    <2>3. PICK x, y : /\ x = Avail(b, a, c) /\ y = Taken(x, c) /\ y \in Seq(Byte)
                      /\ \A k \in 1 .. Len(y) : y[k] = b[a + k]
                      /\ c <= r => Ends(x, c) = {} /\ Len(y) = c
                      /\ c > r => Ends(x, c) # {} /\ Len(y) = r
      BY <2>2, Takes
    <2>4. x = v /\ y = t
      BY <1>6, <1>7, <2>1, <2>3
    <2> QED BY <2>1, <2>3, <2>4
  <1>18. PICK l \in Nat : l = Len(t)
    BY <1>17
  <1>19. long <=> m + l > FrameLimit
    <2>1. CASE tooLarge
      <3>1. m > FrameLimit
        BY <1>13, <2>1
      <3>2. m + l > FrameLimit
        BY <3>1, McpAssumption
      <3> QED BY <1>8, <2>1, <3>2
    <2>2. CASE ~tooLarge
      <3>1. Len(frame) = m
        BY <1>13, <2>2 DEF Holds
      <3> QED BY <1>8, <1>18, <2>2, <3>1
    <2> QED BY <2>1, <2>2
  <1>20. ASSUME ~long PROVE Holds(whole, m + l, e, b)
    <2>1. ~tooLarge
      BY <1>8, <1>20
    <2>2. PICK f : f = frame
      OBVIOUS
    <2>3. Holds(f, m, e, b)
      BY <1>13, <2>1, <2>2
    <2>4. \A k \in 1 .. Len(t) : t[k] = b[e + m + k]
      BY <1>13, <1>17
    <2>5. Holds(f \o t, m + Len(t), e, b)
      BY <1>12, <1>17, <2>3, <2>4, HoldsMore
    <2> QED BY <1>9, <1>18, <1>20, <2>2, <2>5
  <1>21. Len(input') = N /\ EndOf(input', n) = e /\ Bytes(input') = b /\ input'[n + 1] = line
         /\ EndOf(input', n + 1) = e + d + nl /\ Heads(replies') = Owed(input', n)
         /\ n \in 0 .. Len(input')
    BY <1>1, <1>3, <1>5, <1>10, <1>12 DEF ReaderAt
  <1>22. CASE c <= r
    <2>1. /\ Ends(v, c) = {} /\ l = c /\ m + l \in Nat /\ m + l <= d
          /\ at' = e + (m + l)
      <3>1. Ends(v, c) = {} /\ l = c
        BY <1>17, <1>18, <1>22
      <3>2. m + l \in Nat
        OBVIOUS
      <3>3. m + l <= d
        BY <1>12, <1>14, <1>15, <1>22, <3>1
      <3>4. at' = at + l + 0
        BY <1>10, <1>18, <3>1
      <3>5. at' = e + (m + l)
        BY <1>12, <1>13, <3>4
      <3> QED BY <3>1, <3>2, <3>3, <3>5
    <2>2. frame' = whole /\ tooLarge' = long /\ message' = None
      BY <1>10, <2>1
    <2>3. Midway(n, m + l)'
      <3>1. tooLarge' <=> m + l > FrameLimit
        BY <1>19, <2>2
      <3>2. tooLarge' => frame' = <<>>
        BY <1>9, <2>2
      <3>3. ~tooLarge' => Holds(frame', m + l, e, b)
        BY <1>20, <2>2
      <3> QED BY <1>11, <1>12, <1>21, <2>1, <3>1, <3>2, <3>3 DEF Midway
    <2> QED BY <1>21, <2>1, <2>2, <2>3 DEF ReaderAt
  <1>23. CASE c > r
    <2>1. /\ Ends(v, c) # {} /\ l = r /\ m + l = d
      BY <1>12, <1>13, <1>14, <1>17, <1>18, <1>23
    <2>2. nl = 1
      BY <1>12, <1>16, <1>23
    <2>3. at' = e + d + nl
      BY <1>10, <1>12, <1>13, <1>18, <2>1, <2>2
    <2>4. PICK bytes : bytes = FrameOf(whole)
      OBVIOUS
    <2>5. message' = [large |-> long, bytes |-> bytes] /\ frame' = <<>> /\ tooLarge' = FALSE
      BY <1>10, <2>1, <2>4
    <2>6. bytes \in Seq(Byte) /\ (~long => FrameOf(bytes) = Said(i, line))
      <3>1. CASE long
        <4>1. whole = <<>>
          BY <1>9, <3>1
        <4>2. FrameOf(<<>>) = <<>>
          BY DEF FrameOf
        <4>3. <<>> \in Seq(Byte)
          OBVIOUS
        <4> QED BY <2>4, <3>1, <4>1, <4>2, <4>3
      <3>2. CASE ~long
        <4>1. Holds(whole, Body(line), e, b)
          BY <1>12, <1>20, <2>1, <3>2
        <4>2. i \in Int
          BY <1>12
        <4>3. FrameOf(whole) \in Seq(Byte) /\ FrameOf(FrameOf(whole)) = Said(i, line)
          <5>1. LineType(line) /\ e \in Nat /\ Lies(b, e, i, line)
            BY <1>12
          <5> QED BY <4>1, <4>2, <5>1, HeldIsSaid
        <4> QED BY <2>4, <4>3
      <3> QED BY <3>1, <3>2
    <2>7. message' # None /\ message'.large = long /\ message'.bytes = bytes
      BY <2>5, <2>6, FrameIsSome
    <2>8. Framed(n)'
      <3>1. message'.large <=> d > FrameLimit
        BY <1>19, <2>1, <2>7
      <3>2. ~message'.large => FrameOf(message'.bytes) = Said(n + 1, line)
        BY <1>12, <2>6, <2>7
      <3>3. n # Len(input') /\ at' = EndOf(input', n + 1)
        BY <1>11, <1>21, <2>3
      <3>4. frame' = <<>> /\ ~tooLarge'
        BY <2>5
      <3>5. message'.large <=> Body(input'[n + 1]) > FrameLimit
        BY <1>12, <1>21, <3>1
      <3>6. ~message'.large => FrameOf(message'.bytes) = Said(n + 1, input'[n + 1])
        BY <1>21, <3>2
      <3> QED BY <3>3, <3>4, <3>5, <3>6 DEF Framed
    <2> QED BY <1>21, <2>5, <2>7, <2>8 DEF ReaderAt
  <1>24. c <= r \/ c > r
    BY <1>15
  <1> QED BY <1>22, <1>23, <1>24

(* So does the end of the input, which ends the last line.                   *)
LEMMA EndReads ==
    ASSUME input \in Inputs, tooLarge \in BOOLEAN, running, message = None, NEW n, ReaderAt(n),
           EndOfInput
    PROVE  /\ tooLarge' \in BOOLEAN /\ running' \in BOOLEAN
           /\ running' => ReaderAt(n)'
  <1> HIDE DEF Byte
  <1>1. PICK N : N = Len(input)
    OBVIOUS
  <1>2. N \in Nat /\ Lined(input, N)
    BY <1>1, InputsLined DEF Lined
  <1>3. n \in 0 .. N
    BY <1>1 DEF ReaderAt
  <1>4. PICK m \in Nat : Midway(n, m)
    BY DEF ReaderAt
  <1>5. PICK b : b = Bytes(input)
    OBVIOUS
  <1>6. /\ at = Len(b) /\ UNCHANGED <<input, at, replies>> /\ frame' = <<>> /\ tooLarge' = FALSE
        /\ frame = <<>> /\ ~tooLarge => running' = FALSE
        /\ ~(frame = <<>> /\ ~tooLarge) =>
              message' = [large |-> tooLarge, bytes |-> frame] /\ running' = running
    BY <1>5 DEF EndOfInput
  <1>7. CASE frame = <<>> /\ ~tooLarge
    BY <1>6, <1>7
  <1>8. CASE ~(frame = <<>> /\ ~tooLarge)
    <2>1. n # N
      <3> SUFFICES ASSUME n = N PROVE FALSE
        OBVIOUS
      <3>1. m = 0 /\ (tooLarge <=> m > FrameLimit)
            /\ (~tooLarge => Holds(frame, m, EndOf(input, n), b))
        BY <1>1, <1>4, <1>5 DEF Midway
      <3>2. ~tooLarge
        BY <3>1, McpAssumption
      <3>3. frame \in Seq(Byte) /\ Len(frame) = 0
        BY <3>1, <3>2 DEF Holds
      <3>4. frame = <<>>
        BY <3>3
      <3> QED BY <1>8, <3>2, <3>4
    <2>2. PICK i, line, e, d, nl :
              /\ i = n + 1 /\ i \in 1 .. N /\ line = input[i]
              /\ e = EndOf(input, n) /\ d = Body(line) /\ LineType(line)
              /\ b \in Seq(Byte) /\ e \in Nat /\ d \in Nat
              /\ nl = (IF line.newline THEN 1 ELSE 0) /\ EndOf(input, i) = e + d + nl
              /\ EndOf(input, i) <= Len(b) /\ Lies(b, e, i, line)
      BY <1>1, <1>3, <1>5, <2>1, NextLine
    <2>3. /\ at = e + m /\ m <= d /\ (tooLarge <=> m > FrameLimit)
          /\ ~tooLarge => Holds(frame, m, e, b)
      BY <1>1, <1>4, <1>5, <2>1, <2>2 DEF Midway
    <2>4. m = d /\ nl = 0
      <3>1. nl \in 0 .. 1
        BY <2>2
      <3>2. e + d + nl <= e + m
        BY <1>6, <2>2, <2>3
      <3> QED BY <2>2, <2>3, <3>1, <3>2
    <2>5. /\ Len(input') = N /\ EndOf(input', n + 1) = e + d /\ input'[n + 1] = line
          /\ Heads(replies') = Owed(input', n) /\ n \in 0 .. Len(input')
      <3>1. Heads(replies) = Owed(input, n) /\ input' = input /\ replies' = replies
        BY <1>6 DEF ReaderAt
      <3>2. EndOf(input, n + 1) = e + d
        BY <2>2, <2>4
      <3> QED BY <1>1, <1>3, <2>2, <3>1, <3>2
    <2>6. message' = [large |-> tooLarge, bytes |-> frame] /\ running' = TRUE
      BY <1>6, <1>8
    <2>7. frame \in Seq(Byte) /\ (~tooLarge => FrameOf(frame) = Said(i, line))
      <3>1. CASE tooLarge
        <4>1. frame = <<>>
          BY <1>4, <3>1 DEF Midway
        <4>2. <<>> \in Seq(Byte)
          OBVIOUS
        <4> QED BY <3>1, <4>1, <4>2
      <3>2. CASE ~tooLarge
        <4>1. PICK f : f = frame
          OBVIOUS
        <4>2. Holds(f, Body(line), e, b)
          BY <2>2, <2>3, <2>4, <3>2, <4>1
        <4>3. i \in Int /\ LineType(line) /\ e \in Nat /\ Lies(b, e, i, line)
          BY <2>2
        <4>4. f \in Seq(Byte) /\ FrameOf(f) = Said(i, line)
          BY <4>2, <4>3, HeldIsSaid
        <4> QED BY <4>1, <4>4
      <3> QED BY <3>1, <3>2
    <2>8. message' # None /\ message'.large = tooLarge /\ message'.bytes = frame
      BY <2>6, <2>7, FrameIsSome
    <2>9. Framed(n)'
      <3>1. n # Len(input') /\ at' = EndOf(input', n + 1)
        <4>1. at' = e + d
          BY <1>6, <2>3, <2>4
        <4> QED BY <2>1, <2>5, <4>1
      <3>2. frame' = <<>> /\ ~tooLarge'
        BY <1>6
      <3>3. message'.large <=> Body(input'[n + 1]) > FrameLimit
        <4>1. message'.large <=> d > FrameLimit
          BY <2>3, <2>4, <2>8
        <4> QED BY <2>2, <2>5, <4>1
      <3>4. ~message'.large => FrameOf(message'.bytes) = Said(n + 1, input'[n + 1])
        BY <2>2, <2>5, <2>7, <2>8
      <3> QED BY <3>1, <3>2, <3>3, <3>4 DEF Framed
    <2>10. ReaderAt(n)'
      BY <2>5, <2>8, <2>9 DEF ReaderAt
    <2> QED BY <1>6, <2>6, <2>10
  <1> QED BY <1>7, <1>8

(* What a line's frame says is what the line's message says. *)
LEMMA SaidIsMessage ==
    ASSUME NEW bytes, NEW i \in Int, NEW line, line = input[i], line.length \in Nat,
           FrameOf(bytes) = Said(i, line)
    PROVE  MessageOf(bytes) = IF line.length = 0 THEN [syntax |-> "blank"] ELSE line.message
  <1>1. PICK L \in Nat : L = line.length
    OBVIOUS
  <1>2. PICK s : s = Said(i, line)
    OBVIOUS
  <1>3. s = [k \in 1 .. L |-> <<i, k>>]
    BY <1>1, <1>2 DEF Said
  <1>4. CASE L = 0
    <2>1. s = <<>>
      BY <1>3, <1>4
    <2> QED BY <1>1, <1>2, <1>4, <2>1 DEF MessageOf
  <1>5. CASE L # 0
    <2>1. 1 \in 1 .. L
      BY <1>5
    <2>2. s[1] = <<i, 1>>
      BY <1>3, <2>1
    <2>3. s # <<>>
      <3>1. DOMAIN s = 1 .. L
        BY <1>3
      <3>2. DOMAIN <<>> = {}
        OBVIOUS
      <3> QED BY <2>1, <3>1, <3>2
    <2>4. s[1][1] = i
      BY <2>2
    <2>5. MessageOf(bytes) = line.message
      BY <1>1, <1>2, <1>3, <2>3, <2>4 DEF MessageOf
    <2> QED BY <1>1, <1>5, <2>5
  <1> QED BY <1>4, <1>5

(* A message that is answered is one line more.                              *)
LEMMA ProcessAnswers ==
    ASSUME input \in Inputs, tooLarge \in BOOLEAN, NEW S, replies \in Seq(S),
           NEW n, ReaderAt(n), NEW works \in BOOLEAN, NEW written \in BOOLEAN,
           Process(works, written)
    PROVE  /\ running' \in BOOLEAN
           /\ running' => (\E T : replies' \in Seq(T)) /\ ReaderAt(n + 1)'
  <1>1. PICK N : N = Len(input)
    OBVIOUS
  <1>2. N \in Nat /\ Lined(input, N)
    BY <1>1, InputsLined DEF Lined
  <1>3. message # None /\ n \in 0 .. N /\ Framed(n) /\ n # N
    BY <1>1 DEF ReaderAt, Framed, Process
  <1>4. PICK i, line :
              /\ i = n + 1 /\ i \in 1 .. N /\ line = input[i] /\ LineType(line)
              /\ line.message.syntax \in {"blank", "invalid", "array", "object"}
    BY <1>1, <1>3, NextLine
  <1>5. PICK m : m = MessageOf(message.bytes)
    OBVIOUS
  <1>6. PICK long \in BOOLEAN : long <=> message.large
    OBVIOUS
  <1>7. PICK answer : answer = Answer(long, m, works)
    OBVIOUS
  <1>8. /\ replies' = IF written THEN replies \o answer ELSE replies
        /\ running' = (written \/ answer = <<>>)
        /\ message' = None /\ UNCHANGED <<input, at, frame, tooLarge>>
    BY <1>5, <1>6, <1>7 DEF Process, Answer
  <1>9. long <=> Body(line) > FrameLimit
    BY <1>4, <1>6, <1>3 DEF Framed
  <1>10. line.length \in Nat
    BY <1>4 DEF LineType
  <1>11. PICK w : w = IF line.length = 0 THEN [syntax |-> "blank"] ELSE line.message
    OBVIOUS
  <1>12. ~long => m = w
    <2> SUFFICES ASSUME ~long PROVE m = w
      OBVIOUS
    <2>1. PICK bytes : bytes = message.bytes
      OBVIOUS
    <2>2. FrameOf(bytes) = Said(i, line) /\ i \in Int /\ line = input[i]
      BY <1>3, <1>4, <1>6, <2>1 DEF Framed
    <2>3. MessageOf(bytes) = IF line.length = 0 THEN [syntax |-> "blank"] ELSE line.message
      BY <1>10, <2>2, SaidIsMessage
    <2> QED BY <1>5, <1>11, <2>1, <2>3
  <1>13. answer = Answer(long, w, works)
    <2>1. CASE long
      BY <1>7, <2>1 DEF Answer
    <2>2. CASE ~long
      BY <1>7, <1>12, <2>2
    <2> QED BY <2>1, <2>2
  <1>14. \/ answer = <<>> /\ Due(line) = <<>>
         \/ \E r : answer = <<r>> /\ Due(line) = << HeadOf(r) >>
    BY <1>4, <1>9, <1>10, <1>11, <1>13, AnswerIsDue
  <1>15. PICK q : q = replies
    OBVIOUS
  <1>16. Owed(input, n + 1) = Owed(input, n) \o Due(line) /\ Heads(q) = Owed(input, n)
    <2>1. Owed(input, i) = Owed(input, i - 1) \o Due(input[i]) /\ i - 1 = n
      <3>1. PICK all : all = input
        OBVIOUS
      <3>2. N = Len(all)
        BY <1>1, <3>1
      <3>3. \A j \in 1 .. N : Owed(all, j) = Owed(all, j - 1) \o Due(all[j])
        BY <1>2, <3>2, OwedFacts
      <3>4. i - 1 = n
        BY <1>2, <1>3, <1>4
      <3> QED BY <1>4, <3>1, <3>3, <3>4
    <2> QED BY <1>4, <1>15, <2>1 DEF ReaderAt
  <1>17. ASSUME NEW T, NEW h \in Seq(T) PROVE h \o <<>> = h
    OBVIOUS
  <1>18. \E T : Heads(q) \in Seq(T)
    BY <1>15, HeadsSeq
  <1>19. ASSUME running'
         PROVE  (\E T : replies' \in Seq(T)) /\ Heads(replies') = Owed(input, n + 1)
    <2>1. CASE answer = <<>> /\ Due(line) = <<>>
      <3>1. q \o <<>> = q
        BY <1>15, <1>17
      <3>2. replies' = q
        BY <1>8, <1>15, <2>1, <3>1
      <3>3. Owed(input, n + 1) = Heads(q)
        BY <1>16, <1>17, <1>18, <2>1
      <3> QED BY <1>15, <3>2, <3>3
    <2>2. ASSUME NEW r, answer = <<r>>, Due(line) = << HeadOf(r) >>
          PROVE  (\E T : replies' \in Seq(T)) /\ Heads(replies') = Owed(input, n + 1)
      <3>1. written
        BY <1>8, <1>19, <2>2
      <3>2. replies' = q \o <<r>>
        BY <1>8, <1>15, <2>2, <3>1
      <3>3. Heads(q \o <<r>>) = Heads(q) \o << HeadOf(r) >>
        BY <1>15, HeadsAppend
      <3>4. PICK T : T = S \cup {r}
        OBVIOUS
      <3>5. q \in Seq(T) /\ <<r>> \in Seq(T)
        BY <1>15, <3>4
      <3>6. q \o <<r>> \in Seq(T)
        BY <3>5
      <3> QED BY <1>16, <2>2, <3>2, <3>3, <3>6
    <2> QED BY <1>14, <2>1, <2>2
  <1>20. ASSUME running' PROVE ReaderAt(n + 1)'
    <2>1. n + 1 \in 0 .. Len(input') /\ Heads(replies') = Owed(input', n + 1) /\ message' = None
      BY <1>1, <1>2, <1>3, <1>8, <1>19, <1>20
    <2>2. Midway(n + 1, 0)'
      <3>1. at' = EndOf(input', n + 1) + 0
        <4>1. at = EndOf(input, n + 1)
          BY <1>3 DEF Framed
        <4>2. EndOf(input, n + 1) \in Nat
          <5>1. n + 1 \in 0 .. N
            BY <1>2, <1>3
          <5> QED BY <1>2, <5>1, UptoSeq
        <4> QED BY <1>8, <4>1, <4>2
      <3>2. frame' = <<>> /\ ~tooLarge'
        BY <1>3, <1>8 DEF Framed
      <3>3. ~(0 > FrameLimit)
        BY McpAssumption
      <3>4. Holds(<<>>, 0, EndOf(input', n + 1), Bytes(input'))
        BY DEF Holds
      <3>5. n + 1 # Len(input') => 0 <= Body(input'[n + 1 + 1])
        <4> SUFFICES ASSUME n + 1 # N PROVE 0 <= Body(input[n + 1 + 1])
          BY <1>1, <1>8
        <4>1. n + 1 + 1 \in 1 .. N
          BY <1>2, <1>3
        <4>2. Body(input[n + 1 + 1]) \in Nat
          BY <1>2, <4>1, LineLies
        <4> QED BY <4>2
      <3> QED BY <3>1, <3>2, <3>3, <3>4, <3>5 DEF Midway
    <2> QED BY <2>1, <2>2 DEF ReaderAt
  <1>21. running' \in BOOLEAN
    BY <1>8
  <1> QED BY <1>19, <1>20, <1>21

(* No step of the transport loses its place.                                 *)
LEMMA McpReads ==
    ASSUME ReaderOK, mode = "mcp", mode' = mode, McpNext
    PROVE  ReaderOK'
  <1>1. mode' = "mcp" /\ mode' # None
    BY StartupAssumption DEF Modes
  <1>2. input \in Inputs /\ tooLarge \in BOOLEAN /\ running \in BOOLEAN
    BY DEF ReaderOK
  <1>3. running /\ input' = input
    <2>1. ASSUME NEW c \in 1 .. Chunk, Fill(c) PROVE running /\ input' = input
      BY <2>1 DEF Fill, Reading
    <2>2. ASSUME EndOfInput PROVE running /\ input' = input
      BY <2>2 DEF EndOfInput, Reading
    <2>3. ASSUME NEW works \in BOOLEAN, NEW written \in BOOLEAN, Process(works, written)
          PROVE  running /\ input' = input
      BY <2>3 DEF Process
    <2> QED BY <2>1, <2>2, <2>3 DEF McpNext
  <1>4. PICK S : replies \in Seq(S)
    BY <1>3 DEF ReaderOK
  <1>5. PICK n : ReaderAt(n)
    BY <1>3 DEF ReaderOK
  <1> SUFFICES /\ tooLarge' \in BOOLEAN /\ running' \in BOOLEAN
               /\ running' => (\E T : replies' \in Seq(T)) /\ \E k : ReaderAt(k)'
    BY <1>1, <1>2, <1>3 DEF ReaderOK
  <1>6. ASSUME NEW c \in 1 .. Chunk, Fill(c)
        PROVE  /\ tooLarge' \in BOOLEAN /\ running' \in BOOLEAN
               /\ running' => (\E T : replies' \in Seq(T)) /\ \E k : ReaderAt(k)'
    <2>1. message = None /\ replies' = replies /\ running' = running
      BY <1>6 DEF Fill, Reading
    <2>2. ReaderAt(n)' /\ tooLarge' \in BOOLEAN
      BY <1>2, <1>5, <1>6, <2>1, FillReads
    <2> QED BY <1>2, <1>4, <2>1, <2>2
  <1>7. ASSUME EndOfInput
        PROVE  /\ tooLarge' \in BOOLEAN /\ running' \in BOOLEAN
               /\ running' => (\E T : replies' \in Seq(T)) /\ \E k : ReaderAt(k)'
    <2>1. message = None /\ replies' = replies
      BY <1>7 DEF EndOfInput, Reading
    <2>2. /\ tooLarge' \in BOOLEAN /\ running' \in BOOLEAN
          /\ running' => ReaderAt(n)'
      BY <1>2, <1>3, <1>5, <1>7, <2>1, EndReads
    <2> QED BY <1>4, <2>1, <2>2
  <1>8. ASSUME NEW works \in BOOLEAN, NEW written \in BOOLEAN, Process(works, written)
        PROVE  /\ tooLarge' \in BOOLEAN /\ running' \in BOOLEAN
               /\ running' => (\E T : replies' \in Seq(T)) /\ \E k : ReaderAt(k)'
    <2>1. tooLarge' = tooLarge
      BY <1>8 DEF Process
    <2>2. /\ running' \in BOOLEAN
          /\ running' => (\E T : replies' \in Seq(T)) /\ ReaderAt(n + 1)'
      BY <1>2, <1>4, <1>5, <1>8, ProcessAnswers
    <2> QED BY <1>2, <2>1, <2>2
  <1> QED BY <1>6, <1>7, <1>8 DEF McpNext

(* Nor does any other step.                                                  *)
LEMMA ReaderStays ==
    ASSUME ReaderOK,
           mode' = "mcp" => mode = "mcp" /\ UNCHANGED mcpVars,
           mode' = None => mode = None /\ UNCHANGED mcpVars
    PROVE  ReaderOK'
  <1>1. CASE mode' = "mcp"
    <2>1. UNCHANGED <<input, at, frame, tooLarge, message, replies, running>> /\ mode = "mcp"
          /\ mode' # None
      BY <1>1, StartupAssumption DEF mcpVars, mcpState, Modes
    <2>2. \A n : ReaderAt(n)' <=> ReaderAt(n)
      BY <2>1 DEF ReaderAt, Midway, Framed
    <2> QED BY <2>1, <2>2 DEF ReaderOK
  <1>2. CASE mode' = None
    <2>1. UNCHANGED <<input, at, frame, tooLarge, message, replies, running>> /\ mode = None
          /\ mode' # "mcp"
      BY <1>2, StartupAssumption DEF mcpVars, mcpState, Modes
    <2> QED BY <2>1 DEF ReaderOK, McpFresh
  <1> QED BY <1>1, <1>2 DEF ReaderOK

(* A server that starts has read no line.                                    *)
LEMMA FreshReads ==
    ASSUME McpFresh', input' \in Inputs
    PROVE  (\E S : replies' \in Seq(S)) /\ ReaderAt(0)'
  <1>1. PICK lines \in Inputs : lines = input'
    OBVIOUS
  <1>2. PICK N : N = Len(lines)
    OBVIOUS
  <1>3. N \in Nat /\ Lined(lines, N)
    BY <1>2, InputsLined DEF Lined
  <1>4. /\ replies' = <<>> /\ at' = 0 /\ frame' = <<>> /\ tooLarge' = FALSE /\ message' = None
    BY DEF McpFresh
  <1>5. replies' \in Seq({})
    BY <1>4
  <1>6. Owed(lines, 0) = <<>> /\ Upto(lines, 0) = <<>>
    BY <1>2, <1>3, OwedFacts, UptoFacts
  <1>7. Heads(<<>>) = <<>>
    BY DEF Heads
  <1>8. EndOf(lines, 0) = 0
    BY <1>6 DEF EndOf
  <1>9. Holds(<<>>, 0, EndOf(lines, 0), Bytes(lines))
    BY DEF Holds
  <1>10. 0 # N => 0 <= Body(lines[0 + 1])
    <2> SUFFICES ASSUME N # 0 PROVE 0 <= Body(lines[0 + 1])
      OBVIOUS
    <2>1. PICK i : i = 0 + 1
      OBVIOUS
    <2>2. i \in 1 .. N
      BY <1>3, <2>1
    <2>3. Body(lines[i]) \in Nat
      BY <1>3, <2>2, LineLies
    <2> QED BY <2>1, <2>3
  <1>11. Midway(0, 0)'
    <2>1. ~(0 > FrameLimit)
      BY McpAssumption
    <2> QED BY <1>1, <1>2, <1>4, <1>8, <1>9, <1>10, <2>1 DEF Midway
  <1>12. ReaderAt(0)'
    <2>1. 0 \in 0 .. Len(input') /\ Heads(replies') = Owed(input', 0)
      BY <1>1, <1>2, <1>3, <1>4, <1>6, <1>7
    <2> QED BY <1>4, <1>11, <2>1 DEF ReaderAt
  <1> QED BY <1>5, <1>12

(* The place before the first step.                                          *)
LEMMA ReaderInit == Init => ReaderOK
  <1> SUFFICES ASSUME Init PROVE ReaderOK
    OBVIOUS
  <1>1. mode = None /\ McpFresh
    BY DEF Init, StartInit, McpInit, McpFresh
  <1>2. mode # "mcp"
    BY <1>1, StartupAssumption DEF Modes
  <1> QED BY <1>1, <1>2 DEF ReaderOK

(* The place after every step.                                               *)
LEMMA ReaderStep == ReaderOK /\ [Next]_vars => ReaderOK'
  <1> SUFFICES ASSUME ReaderOK, [Next]_vars PROVE ReaderOK'
    OBVIOUS
  <1>1. None \notin {"rest", "mcp", "draining", "stopped", "refused"}
    BY StartupAssumption DEF Modes
  <1>2. CASE Begin
    <2>1. PICK e \in Environments, m \in {"rest", "mcp"} :
             Start(m, e) /\ UNCHANGED mcpState /\ (m = "mcp" => input' \in Inputs)
      BY <1>2 DEF Begin
    <2>2. mode = None /\ mode' \in {m, "refused"}
      BY <2>1 DEF Start
    <2>3. McpFresh'
      <3>1. McpFresh
        BY <2>2 DEF ReaderOK
      <3> QED BY <2>1, <3>1 DEF McpFresh, mcpState
    <2>4. CASE mode' = "mcp"
      <3>1. input' \in Inputs
        BY <2>1, <2>2, <2>4
      <3>2. (\E S : replies' \in Seq(S)) /\ ReaderAt(0)'
        BY <2>3, <3>1, FreshReads
      <3> QED BY <1>1, <2>3, <2>4, <3>1, <3>2 DEF ReaderOK, McpFresh
    <2>5. CASE mode' # "mcp"
      <3>1. mode' # None
        BY <1>1, <2>2
      <3> QED BY <2>5, <3>1 DEF ReaderOK
    <2> QED BY <2>4, <2>5
  <1>3. CASE ShutdownSignal \/ Drained
    <2>1. mode \in {"rest", "draining"} /\ mode' \in {"draining", "stopped"}
      BY <1>3 DEF ShutdownSignal, Drained
    <2> QED BY <1>1, <2>1, ReaderStays
  <1>4. CASE OverRest(\E r \in Client : Arrive(r)) \/ OverRest(RestNext)
    <2>1. mode \in {"rest", "draining"} /\ mode' = mode
      BY <1>4 DEF OverRest, startVars
    <2> QED BY <1>1, <2>1, ReaderStays
  <1>5. CASE OverMcp(McpNext)
    <2>1. mode = "mcp" /\ McpNext /\ mode' = mode
      BY <1>5 DEF OverMcp, startVars
    <2> QED BY <2>1, McpReads
  <1>6. CASE UNCHANGED vars
    <2>1. mode' = mode /\ UNCHANGED mcpVars
      BY <1>6 DEF vars, startVars
    <2> QED BY <2>1, ReaderStays
  <1> QED BY <1>2, <1>3, <1>4, <1>5, <1>6 DEF Next

(* The lines whose bytes are all read: as many as are answered, or one more  *)
(* of no bytes, to which nothing is due.                                     *)
LEMMA WholeLines ==
    ASSUME NEW lines \in Inputs, NEW n \in 0 .. Len(lines),
           NEW T, Owed(lines, n) \in Seq(T), NEW W,
           W = {k \in 0 .. Len(lines) : Len(Bytes(SubSeq(lines, 1, k))) <= EndOf(lines, n)}
    PROVE  \A c : c = (CHOOSE k \in W : \A j \in W : j <= k) =>
                      c \in 0 .. Len(lines) /\ Owed(lines, c) = Owed(lines, n)
  <1>1. PICK N : N = Len(lines)
    OBVIOUS
  <1>2. N \in Nat /\ Lined(lines, N) /\ N = Len(lines)
    BY <1>1, InputsLined DEF Lined
  <1>3. \A k \in 0 .. N : EndOf(lines, k) \in Nat
    BY <1>2, UptoSeq
  <1>4. W = {k \in 0 .. N : EndOf(lines, k) <= EndOf(lines, n)}
    <2>1. ASSUME NEW k \in 0 .. N PROVE Len(Bytes(SubSeq(lines, 1, k))) = EndOf(lines, k)
      <3>1. PICK S : S = {lines[i] : i \in DOMAIN lines}
        OBVIOUS
      <3>2. lines \in Seq(S)
        BY <3>1, InputsLined
      <3>3. Bytes(SubSeq(lines, 1, k)) = Upto(lines, k)
        BY <1>1, <3>2, BytesOfFirst
      <3> QED BY <3>3 DEF EndOf
    <2> QED BY <1>1, <2>1
  <1>5. n \in 0 .. N /\ n \in W
    BY <1>1, <1>3, <1>4
  <1>6. ASSUME NEW k \in W, k > n
        PROVE  k = n + 1 /\ k = N /\ Owed(lines, n + 1) = Owed(lines, n)
    <2>1. k \in 0 .. N /\ EndOf(lines, k) <= EndOf(lines, n) /\ n + 1 \in 1 .. N /\ n + 1 \in 0 .. N
          /\ k \in n + 1 .. N /\ n + 1 - 1 = n
      BY <1>2, <1>4, <1>5, <1>6
    <2>2. EndOf(lines, n + 1) <= EndOf(lines, k)
      BY <1>2, <2>1, UptoExtends
    <2>3. PICK line, c, nl : line = lines[n + 1] /\ c = Body(line) /\ nl = (IF line.newline THEN 1 ELSE 0)
      OBVIOUS
    <2>4. PICK e, f, g : e = EndOf(lines, n) /\ f = EndOf(lines, n + 1) /\ g = EndOf(lines, k)
      OBVIOUS
    <2>5. c \in Nat /\ nl \in 0 .. 1 /\ f = e + c + nl
      <3>1. /\ Body(lines[n + 1]) \in Nat
            /\ EndOf(lines, n + 1) = EndOf(lines, n + 1 - 1) + Body(lines[n + 1])
                                  + (IF lines[n + 1].newline THEN 1 ELSE 0)
        <4>1. PICK i : i = n + 1
          OBVIOUS
        <4>2. i \in 1 .. N
          BY <2>1, <4>1
        <4>3. /\ Body(lines[i]) \in Nat
              /\ EndOf(lines, i) = EndOf(lines, i - 1) + Body(lines[i])
                                  + (IF lines[i].newline THEN 1 ELSE 0)
          BY <1>2, <4>2, LineLies
        <4> QED BY <4>1, <4>3
      <3> QED BY <2>1, <2>3, <2>4, <3>1
    <2>6. e \in Nat /\ f \in Nat /\ g \in Nat /\ f <= g /\ g <= e
      BY <1>3, <1>5, <2>1, <2>2, <2>4
    <2>7. c = 0 /\ nl = 0
      BY <2>5, <2>6
    <2>8. LineType(line) /\ (n + 1 < N => line.newline)
      BY <1>2, <2>1, <2>3 DEF Lined
    <2>9. n + 1 = N
      BY <1>2, <2>1, <2>3, <2>7, <2>8
    <2>10. k = N
      BY <1>2, <2>1, <2>9
    <2>11. Due(line) = <<>>
      <3>1. line.length = 0
        BY <2>3, <2>7, <2>8 DEF Body, LineType
      <3>2. ~(Body(line) > FrameLimit)
        BY <2>3, <2>7, McpAssumption
      <3> QED BY <3>1, <3>2 DEF Due
    <2>12. Owed(lines, n + 1) = Owed(lines, n) \o <<>>
      <3>1. \A j \in 1 .. N : Owed(lines, j) = Owed(lines, j - 1) \o Due(lines[j])
        BY <1>2, OwedFacts
      <3>2. Owed(lines, n + 1) = Owed(lines, n + 1 - 1) \o Due(lines[n + 1])
        BY <2>1, <3>1
      <3> QED BY <2>1, <2>3, <2>11, <3>2
    <2>13. ASSUME NEW h \in Seq(T) PROVE h \o <<>> = h
      OBVIOUS
    <2>14. Owed(lines, n) \o <<>> = Owed(lines, n)
      BY <2>13
    <2> QED BY <2>9, <2>10, <2>12, <2>14
  <1>7. \E k \in W : \A j \in W : j <= k
    <2>1. CASE \E k \in W : k > n
      <3>1. PICK k \in W : k > n
        BY <2>1
      <3>2. k = N
        BY <1>6, <3>1
      <3>3. \A j \in W : j <= N
        BY <1>2, <1>4
      <3> QED BY <3>2, <3>3
    <2>2. CASE ~\E k \in W : k > n
      <3>1. \A j \in W : j \in Int /\ n \in Int
        BY <1>4, <1>5
      <3>2. \A j \in W : j <= n
        BY <2>2, <3>1
      <3> QED BY <1>5, <3>2
    <2> QED BY <2>1, <2>2
  <1>8. PICK k : k = CHOOSE i \in W : \A j \in W : j <= i
    OBVIOUS
  <1>9. k \in W /\ \A j \in W : j <= k
    BY <1>7, <1>8
  <1>10. CASE k > n
    BY <1>1, <1>4, <1>6, <1>8, <1>9, <1>10
  <1>11. CASE ~(k > n)
    <2>1. n <= k /\ k \in Int /\ n \in Int
      BY <1>4, <1>5, <1>9
    <2>2. k = n
      BY <1>11, <2>1
    <2> QED BY <1>1, <1>5, <1>8, <2>2
  <1> QED BY <1>10, <1>11

(* Whatever a client sends, wherever reads cut its bytes, whatever tools do  *)
(* and however long a line is: each line has its own answer, in order, or    *)
(* none (mcp/server.rs read_frame, run_mcp_stdio, process_message).          *)
THEOREM AnsweredInOrder == Spec => []RepliesExact
  <1>1. ReaderOK => RepliesExact
    <2> SUFFICES ASSUME ReaderOK, mode = "mcp", Reading, frame = <<>>, ~tooLarge,
                        NEW whole,
                        whole = {n \in 0 .. Len(input) : Len(Bytes(SubSeq(input, 1, n))) <= at}
                 PROVE  Heads(replies) = ExpectedOf(CHOOSE n \in whole : \A k \in whole : k <= n)
      BY DEF RepliesExact, Heads, HeadOf
    <2>1. input \in Inputs /\ message = None /\ running
      BY DEF ReaderOK, Reading
    <2>2. PICK S : replies \in Seq(S)
      BY <2>1 DEF ReaderOK
    <2>3. PICK n : ReaderAt(n)
      BY <2>1 DEF ReaderOK
    <2>4. PICK N : N = Len(input)
      OBVIOUS
    <2>5. N \in Nat /\ Lined(input, N) /\ n \in 0 .. N
      BY <2>1, <2>3, <2>4, InputsLined DEF Lined, ReaderAt
    <2>6. PICK m \in Nat : Midway(n, m)
      BY <2>1, <2>3 DEF ReaderAt
    <2>7. at = EndOf(input, n)
      <3>1. Holds(frame, m, EndOf(input, n), Bytes(input)) /\ at = EndOf(input, n) + m
        BY <2>6 DEF Midway
      <3>2. m = Len(frame) /\ Len(<<>>) = 0
        BY <3>1 DEF Holds
      <3>3. m = 0
        BY <3>2
      <3>4. EndOf(input, n) \in Nat
        BY <2>5, UptoSeq
      <3> QED BY <3>1, <3>3, <3>4
    <2>8. PICK lines : lines = input
      OBVIOUS
    <2>9. Heads(replies) = Owed(lines, n)
      BY <2>3, <2>8 DEF ReaderAt
    <2>10. PICK T : Owed(lines, n) \in Seq(T)
      BY <2>2, <2>9, HeadsSeq
    <2>11. whole = {k \in 0 .. Len(lines) : Len(Bytes(SubSeq(lines, 1, k))) <= EndOf(lines, n)}
      BY <2>7, <2>8
    <2>12. PICK c : c = CHOOSE k \in whole : \A j \in whole : j <= k
      OBVIOUS
    <2>13. Owed(lines, c) = Owed(lines, n) /\ c \in 0 .. N
      BY <2>1, <2>4, <2>5, <2>8, <2>10, <2>11, <2>12, WholeLines
    <2>14. ExpectedOf(c) = Owed(lines, c)
      BY <2>4, <2>5, <2>8, <2>13, OwedIsExpected
    <2> QED BY <2>9, <2>12, <2>13, <2>14
  <1> QED BY <1>1, ReaderInit, ReaderStep, PTL DEF Spec
=============================================================================
