------------------------------- MODULE Routes -------------------------------
(***************************************************************************)
(* What the loop of `rai serve` answers to a request that leaves the model *)
(* alone: one that is screened off, whose body is refused, or whose route  *)
(* only reads (rai-infer/src/cli/serve.rs).                                *)
(*                                                                         *)
(* A request is the method, path, Host, Origin, media type, HTTP version   *)
(* and body that the code tells apart; options is a chat's, in hundredths  *)
(* where the code has fractions.                                           *)
(***************************************************************************)
EXTENDS Integers

CONSTANT Unset    \* an optional field that is absent

-----------------------------------------------------------------------------
(* screen_headers: before any route.  The port is part of Host and Origin.   *)
HostOwn(q) == q.host \in {"localhost:port", "127.0.0.1:port", "[::1]:port"}

OriginAccepted(q) ==
    q.origin \in {Unset, "http://localhost:port", "http://127.0.0.1:port", "http://[::1]:port"}

ScreenedOff(q) ==
    IF ~HostOwn(q) THEN {403}
    ELSE IF q.method # "POST" THEN {}
    ELSE IF ~OriginAccepted(q) THEN {403}
    ELSE IF ~q.json THEN {415}
    ELSE {}

-----------------------------------------------------------------------------
(* read_request_body, whose reading may fail, and the parser of the route.   *)
BodyRefused(q) ==
    CASE q.body = "cut off" -> {500}
      [] q.body = "huge" -> {413}
      [] q.body \in {"not UTF-8", "not JSON"} -> {400}
      [] OTHER -> {}

BodyPaths == {"/api/chat", "/api/chat/stream", "/api/load", "/api/inspect", "/api/convert"}

(* validate_chat_options: what is set is in range, and an ensemble has at    *)
(* least the two passes pondered_forward asks for.                           *)
Within(value, low, high) == value = Unset \/ (low <= value /\ value <= high)

OptionsValid(o) ==
    /\ Within(o.temperature, 1, 200)
    /\ o.maxTokens # 0
    /\ o.strategy \in {Unset, "none", "cfg", "ensemble", "cfg-ensemble", "adaptive"}
    /\ Within(o.guidance, 0, 400) /\ Within(o.noise, 0, 100) /\ Within(o.entropy, 0, 3200)
    /\ Within(o.ensemble, IF o.strategy \in {"ensemble", "cfg-ensemble"} THEN 2 ELSE 1, 8)

(* parse_chat_request: one message or a thread that ends with the user's.    *)
ChatParses(q) ==
    /\ q.form \in {"message", "thread"}
    /\ OptionsValid(q.options)

(* The chat routes, up to where Serve takes over.                            *)
ChatRefused(q) ==
    IF ~ChatParses(q) THEN {400}
    ELSE IF q.path = "/api/chat/stream" /\ q.version = "1.0" THEN {505}
    ELSE {}

(* handle_inspect: a name that is no path is not fetched.                    *)
Inspected(q) ==
    CASE q.source = "blank"  -> {400}
      [] q.source = "hub id" -> {501}
      [] q.source = "path"   -> {200, 400}

(* handle_models: a directory that cannot be read is part of the answer; not *)
(* knowing the working directory is an error.                                *)
ModelsListed == {200, 500}

(* handle_convert: started, invalid, or one is running already (Jobs). *)
ConversionAsked == {202, 400, 409}

(* handle_job_poll *)
JobPolled == {200, 404}

(* The match over method and path. *)
Dispatched(q) ==
    CASE q.method = "GET" ->
           (CASE q.path \in {"/", "/api/info", "/api/system", "/api/convert"} -> {200}
              [] q.path = "/api/models"    -> ModelsListed
              [] q.path = "/api/convert/1" -> JobPolled
              [] OTHER -> {404})
      [] q.method = "POST" ->
           (CASE q.path \in BodyPaths /\ BodyRefused(q) # {} -> BodyRefused(q)
              [] BodyRefused(q) = {} /\ q.path \in {"/api/chat", "/api/chat/stream"} -> ChatRefused(q)
              [] BodyRefused(q) = {} /\ q.path = "/api/inspect" -> Inspected(q)
              [] BodyRefused(q) = {} /\ q.path = "/api/convert" -> ConversionAsked
              [] BodyRefused(q) = {} /\ q.path = "/api/load" -> {}
              [] OTHER -> {404})
      [] q.method = "OPTIONS" -> {403}
      [] OTHER -> {404}

(* The statuses a request may be answered with; none means that it is a chat *)
(* or a load that Serve follows.                                             *)
Statuses(q) == IF ScreenedOff(q) # {} THEN ScreenedOff(q) ELSE Dispatched(q)
=============================================================================
