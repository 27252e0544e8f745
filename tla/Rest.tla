-------------------------------- MODULE Rest --------------------------------
(***************************************************************************)
(* The REST transport of rai-server (api/routes.rs, api/handlers.rs): the  *)
(* deadline around everything, the rate window, the concurrency permits,   *)
(* the screening of headers, the body, and the handlers over AppState.     *)
(*                                                                         *)
(* A request is what its sender chose: route, Host, Origin, bearer token   *)
(* and body, each of a few kinds.  Its phase is where its future stands.   *)
(***************************************************************************)
EXTENDS Startup

CONSTANTS
    Client,
    Mixes,            \* what they may send: functions from Client to requests
    MaxConcurrent,    \* MAX_CONCURRENT_REQUESTS: 16
    MaxPerMinute,     \* MAX_REQUESTS_PER_MINUTE: 240
    MaxWindows        \* bound: rate windows that elapse

(* What a request may be answered, and the kinds of body it may have. *)
Codes == {200, 400, 401, 403, 409, 413, 415, 422, 429, 500, 503}

Bodies == {"good", "none", "untyped", "malformed", "misshapen", "blank", "large", "huge"}

ASSUME RestAssumption ==
    /\ MaxConcurrent \in Nat /\ MaxPerMinute \in Nat
    /\ \A m \in Mixes, r \in Client : m[r].body \in Bodies
    /\ None \notin Client /\ None \notin Codes /\ None \notin {"stored", "removed"}

VARIABLES
    requests,     \* the request each client sends
    phase,        \* of each client's request
    status,       \* the answer it got, or None
    effect,       \* what its handler did to the memories, or None
    permits,      \* free permits of the semaphore
    window,       \* requests counted in the rate window
    elapsed,      \* its minute is over
    windows,      \* how many have elapsed
    counted,      \* the clients counted in this window
    lock,         \* who has AppState's persistence lock
    guard         \* who has the manager's exclusive guard, its thread included

restState == <<phase, status, effect, permits, window, elapsed, windows, counted, lock, guard>>
restVars == <<requests, restState>>

Op(r) == CASE requests[r].route = "store"  -> "store"
           [] requests[r].route = "forget" -> "forget"
           [] OTHER                        -> "read"

(* Without a data path there is no persistence lock and no other thread.     *)
Durable == config.dataPath = "file"

Holding(r) == phase[r] \in {"holding", "body", "waiting", "embedding", "staging", "writing"}

(* Dropping the future, with an answer or without: the permit comes back and *)
(* the lock is free; the guard stays with a thread that is writing.          *)
End(r, newPhase, code) ==
    /\ phase' = [phase EXCEPT ![r] = newPhase]
    /\ status' = [status EXCEPT ![r] = code]
    /\ permits' = IF Holding(r) THEN permits + 1 ELSE permits
    /\ lock' = IF lock = r THEN None ELSE lock
    /\ guard' = IF guard = r /\ newPhase # "detached" THEN None ELSE guard

Respond(r, code) == End(r, "answered", code)

Continue(r, from, to) == phase[r] = from /\ phase' = [phase EXCEPT ![r] = to]

rate == <<window, elapsed, windows, counted>>


-----------------------------------------------------------------------------
RestInit ==
    /\ requests = [r \in Client |-> None]     \* chosen when the server starts
    /\ phase = [r \in Client |-> "new"]
    /\ status = [r \in Client |-> None]
    /\ effect = [r \in Client |-> None]
    /\ permits = MaxConcurrent
    /\ window = 0 /\ elapsed = FALSE /\ windows = 0 /\ counted = {}
    /\ lock = None /\ guard = None

(* The request arrives, and its deadline begins. *)
Arrive(r) ==
    /\ Continue(r, "new", "arrived")
    /\ UNCHANGED <<status, effect, permits, rate, lock, guard, memories>>

MinutePasses ==
    /\ ~elapsed /\ windows < MaxWindows
    /\ elapsed' = TRUE /\ windows' = windows + 1
    /\ UNCHANGED <<phase, status, effect, permits, window, counted, lock, guard, memories>>

(* acquire_request_slot, under the window's mutex: a window that is over     *)
(* starts anew, a full one refuses.                                          *)
Account(r) ==
    /\ phase[r] = "arrived"
    /\ LET used == IF elapsed THEN 0 ELSE window
       IN  /\ elapsed' = FALSE
           /\ IF used >= MaxPerMinute
              THEN /\ window' = used
                   /\ counted' = IF elapsed THEN {} ELSE counted
                   /\ Respond(r, 429)
              ELSE /\ window' = used + 1
                   /\ counted' = (IF elapsed THEN {} ELSE counted) \cup {r}
                   /\ phase' = [phase EXCEPT ![r] = "counted"]
                   /\ UNCHANGED <<status, permits, lock, guard>>
    /\ UNCHANGED <<windows, effect, memories>>

(* ... and after it try_acquire_owned, which never waits. *)
Acquire(r) ==
    /\ phase[r] = "counted"
    /\ IF permits = 0
       THEN Respond(r, 429)
       ELSE /\ permits' = permits - 1
            /\ phase' = [phase EXCEPT ![r] = "holding"]
            /\ UNCHANGED <<status, lock, guard>>
    /\ UNCHANGED <<effect, rate, memories>>

(* require_auth: Host, Origin, bearer token, in this order. *)
HostAllowed(q) == q.host \in {"loopback", "loopback:port"}
OriginAllowed(q) == q.origin \in {"none", "own"}
Authorized(q) == config.token = "unset" \/ q.token = "right"

Screen(r) ==
    LET q == requests[r]
    IN  /\ phase[r] = "holding"
        /\ CASE ~HostAllowed(q) \/ ~OriginAllowed(q) -> Respond(r, 403)
             [] HostAllowed(q) /\ OriginAllowed(q) /\ ~Authorized(q) -> Respond(r, 401)
             [] OTHER -> /\ phase' = [phase EXCEPT ![r] = "body"]
                         /\ UNCHANGED <<status, permits, lock, guard>>
        /\ UNCHANGED <<effect, rate, memories>>

(* The extractor - a JSON media type, DefaultBodyLimit, JSON, the route's    *)
(* shape - and then validate_text or validate_concepts.                      *)
BodyStatus(q) ==
    CASE q.body = "untyped"                         -> 415
      [] q.body = "huge"                            -> 413
      [] q.body = "misshapen"                       -> 422
      [] q.body \in {"malformed", "blank", "large"} -> 400
      [] q.body \in {"good", "none"}                -> 200

ReadBody(r) ==
    /\ phase[r] = "body"
    /\ IF BodyStatus(requests[r]) # 200
       THEN Respond(r, BodyStatus(requests[r]))
       ELSE /\ phase' = [phase EXCEPT ![r] = IF Op(r) = "read" THEN "embedding" ELSE "waiting"]
            /\ UNCHANGED <<status, permits, lock, guard>>
    /\ UNCHANGED <<effect, rate, memories>>

(* AppState::store and forget: the persistence lock. *)
TakeLock(r) ==
    /\ Continue(r, "waiting", IF Op(r) = "store" THEN "embedding" ELSE "staging")
    /\ Durable => lock = None
    /\ lock' = IF Durable THEN r ELSE lock
    /\ UNCHANGED <<status, effect, permits, rate, guard, memories>>

(* The provider answers, or fails: internal_error.  health and snapshot ask  *)
(* no provider; a read takes the shared guard and answers.                   *)
Embedded(r) ==
    /\ phase[r] = "embedding"
    /\ Op(r) = "read" => guard = None
    /\ IF Op(r) = "read" THEN Respond(r, 200)
       ELSE /\ phase' = [phase EXCEPT ![r] = "staging"]
            /\ UNCHANGED <<status, permits, lock, guard>>
    /\ UNCHANGED <<effect, rate, memories>>

EmbeddingFails(r) ==
    /\ phase[r] = "embedding" /\ requests[r].route \notin {"health", "snapshot"}
    /\ Respond(r, 500)
    /\ UNCHANGED <<effect, rate, memories>>

(* Under the guard: a full store is a conflict, a text that is not there is  *)
(* not an error; otherwise the write goes to a blocking thread.              *)
Stage(r) ==
    /\ phase[r] = "staging" /\ guard = None
    /\ CASE Outcome(Op(r)).result = "full"    -> Respond(r, 409)
         [] Outcome(Op(r)).result = "nothing" -> Respond(r, 200)
         [] OTHER -> /\ phase' = [phase EXCEPT ![r] = "writing"]
                     /\ guard' = r
                     /\ UNCHANGED <<status, permits, lock>>
    /\ UNCHANGED <<effect, rate, memories>>

Publish(r) ==
    /\ guard = r
    /\ memories' = Outcome(Op(r)).after
    /\ effect' = [effect EXCEPT ![r] = Outcome(Op(r)).result]

(* The write ended well, and the client is still there or not. *)
Written(r) ==
    /\ phase[r] = "writing" /\ Publish(r) /\ Respond(r, 200)
    /\ UNCHANGED rate

WrittenDetached(r) ==
    /\ phase[r] = "detached" /\ Publish(r)
    /\ guard' = None
    /\ phase' = [phase EXCEPT ![r] = "answered"]
    /\ UNCHANGED <<status, permits, lock, rate>>

(* Saving failed: only a durable write can.  Nothing was published.          *)
SaveFailed(r) ==
    IF phase[r] = "writing" THEN Respond(r, 500)
    ELSE /\ guard' = None
         /\ phase' = [phase EXCEPT ![r] = "answered"]
         /\ UNCHANGED <<status, permits, lock>>

WriteFailsPublished(r) ==     \* mutant: published before it is saved
    /\ Durable /\ phase[r] \in {"writing", "detached"} /\ Publish(r)
    /\ SaveFailed(r)
    /\ UNCHANGED rate

WriteFails(r) ==
    /\ Durable /\ phase[r] \in {"writing", "detached"} /\ guard = r
    /\ SaveFailed(r)
    /\ UNCHANGED <<effect, rate, memories>>

(* enforce_timeout answers 503; a client that leaves gets no answer.  What   *)
(* the blocking thread does goes on; an ephemeral write has no await in it.  *)
AbandonPhase(r) == IF phase[r] = "writing" THEN "detached" ELSE "answered"

DropTimedOutHandler(r, code) ==    \* mutant: the permit went to the abandoned handler
    /\ phase' = [phase EXCEPT ![r] = AbandonPhase(r)]
    /\ status' = [status EXCEPT ![r] = code]
    /\ lock' = IF lock = r THEN None ELSE lock
    /\ guard' = IF guard = r /\ AbandonPhase(r) # "detached" THEN None ELSE guard
    /\ UNCHANGED permits

DropHandler(r, code) == End(r, AbandonPhase(r), code)

Abandon(r, code) ==
    /\ phase[r] \notin {"new", "answered", "detached"}
    /\ phase[r] = "writing" => Durable
    /\ DropHandler(r, code)
    /\ UNCHANGED <<effect, rate, memories>>

Deadline(r) == Abandon(r, 503)
Leave(r) == Abandon(r, None)

(* All but Arrive, which depends on whether the server still listens.        *)
RestNext ==
    \/ MinutePasses
    \/ \E r \in Client :
         \/ Account(r) \/ Acquire(r) \/ Screen(r) \/ ReadBody(r)
         \/ TakeLock(r) \/ Embedded(r) \/ EmbeddingFails(r) \/ Stage(r)
         \/ Written(r) \/ WrittenDetached(r) \/ WriteFails(r)
         \/ Deadline(r) \/ Leave(r)
=============================================================================
