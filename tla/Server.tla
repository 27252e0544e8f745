------------------------------- MODULE Server -------------------------------
(***************************************************************************)
(* rai-server (main.rs): it starts in one of its two modes, or not at all, *)
(* and serves REST clients or one MCP client over the same memories.       *)
(***************************************************************************)
EXTENDS Rest, Mcp

vars == <<startVars, memories, restVars, mcpVars>>

Serving(r) == phase[r] \notin {"new", "answered"}

-----------------------------------------------------------------------------
Init == StartInit /\ RestInit /\ McpInit

Begin ==
    /\ \/ \E e \in Environments : Start("rest", e) /\ requests' \in Mixes /\ UNCHANGED input
       \/ \E e \in Environments : Start("mcp", e) /\ input' \in Inputs /\ UNCHANGED requests
    /\ UNCHANGED <<restState, mcpState>>

(* Ctrl-C: no request arrives any more, the others finish, and so do writes  *)
(* of blocking threads (the runtime waits for them).                         *)
ShutdownSignal ==
    /\ mode = "rest" /\ mode' = "draining"
    /\ UNCHANGED <<env, config, memories, restVars, mcpVars>>

Drained ==
    /\ mode = "draining" /\ \A r \in Client : ~Serving(r)
    /\ mode' = "stopped"
    /\ UNCHANGED <<env, config, memories, restVars, mcpVars>>

OverRest(A) == mode \in {"rest", "draining"} /\ A /\ UNCHANGED <<startVars, requests, mcpVars>>

OverMcp(A) == mode = "mcp" /\ A /\ UNCHANGED <<startVars, restVars>>

Next ==
    \/ Begin \/ ShutdownSignal \/ Drained
    \/ mode = "rest" /\ OverRest(\E r \in Client : Arrive(r))
    \/ OverRest(RestNext)
    \/ OverMcp(McpNext)

(* The timer of every request fires, a blocking thread ends, an await-free   *)
(* piece of a handler runs on.  The provider owes nothing.                   *)
Fairness ==
    /\ WF_vars(Drained)
    /\ \A r \in Client :
         /\ WF_vars(OverRest(Deadline(r)))
         /\ WF_vars(OverRest(WrittenDetached(r) \/ WriteFails(r)))
         /\ WF_vars(OverRest(Written(r)))

Spec == Init /\ [][Next]_vars /\ Fairness

-----------------------------------------------------------------------------
(* What the operator set decides, not what the program made of it: a request *)
(* that reached a handler came over loopback, from no foreign page, with the *)
(* token the environment names; an MCP client changes the memories only if   *)
(* the environment says so; and no more requests are inside than the permits *)
(* and the window admit (config.rs from_env, routes.rs require_auth).        *)
Admitted(r) ==
    LET q == requests[r]
    IN  /\ env.host \in {"unset", "loopback"}
        /\ q.host \in {"loopback", "loopback:port"} /\ q.origin \in {"none", "own"}
        /\ env.token # "unset" => q.token = "right"

OnlyAdmitted ==
    /\ \A r \in Client :
         (effect[r] # None \/ status[r] \in {200, 400, 409, 413, 415, 422, 500}) => Admitted(r)
    /\ mode = "mcp" /\ memories > 0 => env.mutations = "true"
    /\ Cardinality({r \in Client : Holding(r)}) <= MaxConcurrent
    /\ Cardinality(counted) <= MaxPerMinute

(* A client is told what became of its request: a store succeeds only after  *)
(* it was published, and a refusal means that nothing changed; a 503, or     *)
(* leaving, leaves it open, and so does the 200 of a forget, whose text may  *)
(* not have been there.  Nothing else changes the memories of a REST server. *)
Promised(r) ==
    /\ status[r] = 200 /\ Op(r) = "store" => effect[r] = "stored"
    /\ status[r] \in {400, 401, 403, 409, 413, 415, 422, 429, 500} => effect[r] = None

StatusIsEffect ==
    /\ \A r \in Client : Promised(r)
    /\ mode # "mcp" =>
         memories = Cardinality({r \in Client : effect[r] = "stored"})
                  - Cardinality({r \in Client : effect[r] = "removed"})

(* However the provider behaves, every request ends, its permit, the lock    *)
(* and the guard come back, and a server that was asked to stop stops.       *)
PermitsComeBack ==
    /\ \A r \in Client : Serving(r) ~> ~Serving(r)
    /\ <>[](permits = MaxConcurrent /\ lock = None /\ guard = None)
    /\ mode = "draining" ~> mode = "stopped"

(* However its bytes arrive, each line gets its own answer, in order: none   *)
(* to blank lines and notifications, an error with a null id to what is too  *)
(* long, no JSON or no request, and otherwise one with its id (mcp/server.rs *)
(* read_frame, process_message).                                             *)
Expected(line) ==
    LET m == line.message
    IN  CASE line.length + (IF line.cr THEN 1 ELSE 0) > FrameLimit -> <<[id |-> "null", error |-> -32600]>>
          [] OTHER ->
             IF line.length = 0 \/ m.syntax = "blank" THEN <<>>
             ELSE CASE m.syntax = "invalid" -> <<[id |-> "null", error |-> -32700]>>
                    [] m.syntax = "array" \/ (m.syntax = "object" /\ Malformed(m)) ->
                         <<[id |-> "null", error |-> -32600]>>
                    [] m.syntax = "object" /\ ~Malformed(m) ->
                         IF IsNotification(m) THEN <<>>
                         ELSE <<[id |-> m.id, error |-> Handled(m, TRUE).error]>>

ExpectedOf(n) ==
    LET f[i \in 0 .. n] == IF i = 0 THEN <<>> ELSE f[i - 1] \o Expected(input[i])
    IN  f[n]

RepliesExact ==
    LET given == [k \in DOMAIN replies |-> [id |-> replies[k].id, error |-> replies[k].error]]
        whole == {n \in 0 .. Len(input) : Len(Bytes(SubSeq(input, 1, n))) <= at}
    IN  mode = "mcp" /\ Reading /\ frame = <<>> /\ ~tooLarge =>
            given = ExpectedOf(CHOOSE n \in whole : \A k \in whole : k <= n)
=============================================================================
