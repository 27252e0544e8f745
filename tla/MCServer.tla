------------------------------ MODULE MCServer ------------------------------
(* Three REST clients in a few mixes, or MCP inputs of up to four lines, over *)
(* environments that differ from a common one in one variable each.           *)
EXTENDS Server

Usual == [ port |-> "valid", host |-> "loopback", provider |-> "openai", key |-> "set",
           token |-> "long", mutations |-> "true", dataPath |-> "file", capacity |-> "positive" ]

MCEnvironments ==
    { Usual,
      [Usual EXCEPT !.token = "mangled"],    [Usual EXCEPT !.token = "short"],
      [Usual EXCEPT !.mutations = "other"],
      [Usual EXCEPT !.host = "network"],     [Usual EXCEPT !.host = "blank"],
      [Usual EXCEPT !.port = "zero"],        [Usual EXCEPT !.key = "blank"],
      [Usual EXCEPT !.provider = "other"],   [Usual EXCEPT !.dataPath = "directory"],
      [Usual EXCEPT !.capacity = "excessive"],
      [Usual EXCEPT !.dataPath = "unset", !.token = "unset", !.mutations = "false"] }

Good(route) == [route |-> route, host |-> "loopback:port", origin |-> "none",
                token |-> "right", body |-> "good"]

MCMixes ==
    { << Good("store"), Good("store"), Good("forget") >>,
      << Good("store"), [Good("recall") EXCEPT !.origin = "own"],
         [Good("store") EXCEPT !.token = "wrong"] >>,
      << [Good("health") EXCEPT !.body = "none", !.host = "loopback"],
         [Good("store") EXCEPT !.body = "large"], [Good("store") EXCEPT !.body = "huge"] >>,
      << [Good("store") EXCEPT !.body = "untyped"], [Good("store") EXCEPT !.body = "misshapen"],
         [Good("forget") EXCEPT !.token = "none"] >>,
      << [Good("store") EXCEPT !.host = "other"], [Good("store") EXCEPT !.origin = "foreign"],
         [Good("forget") EXCEPT !.token = "none"] >> }

Call(id, tool, args) ==
    [syntax |-> "object", id |-> id, version |-> "2.0", params |-> "object",
     method |-> "tools/call", tool |-> tool, args |-> args]

Ask(method) == [Call("1", None, "good") EXCEPT !.method = method]

Line(said, size) == [message |-> said, length |-> size, cr |-> FALSE, newline |-> TRUE]

MCInputs ==
    LET store   == Line(Call("1", "rai_store", "good"), 3)
        twice   == [store EXCEPT !.cr = TRUE]
        unended == [Line(Ask("ping"), 2) EXCEPT !.newline = FALSE]
        telling == Line(Call("absent", "rai_store", "good"), 2)
    IN  { << store, Line(Call("null", "rai_forget", "good"), 3), Line(Ask("tools/list"), 1), unended >>,
          << twice, Line([syntax |-> "blank"], 0), Line(Call("2", "rai_recall", "bad"), 2), telling >>,
          << Line(Ask("initialize"), 7), store, [unended EXCEPT !.cr = TRUE] >>,
          << telling, Line([syntax |-> "invalid"], 2), Line([syntax |-> "array"], 1),
             Line(Call("object", "rai_store", "good"), 3) >>,
          << Line([syntax |-> "blank"], 2), Line(Ask("other"), 1),
             Line(Call("3", "none", "good"), 3), Line([Ask("ping") EXCEPT !.params = "scalar"], 2) >>,
          << Line([Ask("ping") EXCEPT !.version = "1.0"], 3), Line(Call("4", "rai_memory_health", "bad"), 2),
             [unended EXCEPT !.length = 5] >> }
=============================================================================
