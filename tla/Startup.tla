------------------------------ MODULE Startup -------------------------------
(***************************************************************************)
(* rai-server up to the moment it serves (main.rs, config.rs), and the     *)
(* state both of its transports share (state.rs): the memories, of one     *)
(* text, as their number.                                                  *)
(*                                                                         *)
(* An environment gives each variable one of a few kinds of value:         *)
(* "unset", "mangled" (not Unicode), or what its reader tells apart.       *)
(***************************************************************************)
EXTENDS Integers, Sequences, FiniteSets

CONSTANTS
    Environments,   \* records of the variables of the environment
    MaxMemories,    \* RAI_CAPACITY, in every environment that is accepted
    None

Modes == {"rest", "mcp", "draining", "stopped", "refused"}

ASSUME StartupAssumption == MaxMemories \in Nat /\ None \notin Modes

VARIABLES
    mode,      \* "rest", "mcp", "draining", "stopped", "refused", or None at first
    env,       \* what the operator set
    config,    \* what the program read of it
    memories   \* how many are stored

startVars == <<mode, env, config>>

-----------------------------------------------------------------------------
(* env_var: a value that is not Unicode is an error, never ignored.          *)
ReadIgnoringMangled(e, name) ==   \* mutant: .ok() in place of the error
    IF e[name] = "mangled" THEN "unset" ELSE e[name]

Read(e, name) == e[name]

(* ServerConfig::from_env and validate, for both modes.                      *)
FromEnv(e) ==
    [ port      |-> Read(e, "port"),     host     |-> Read(e, "host"),
      provider  |-> Read(e, "provider"), key      |-> Read(e, "key"),
      token     |-> Read(e, "token"),    dataPath |-> Read(e, "dataPath"),
      mutations |-> Read(e, "mutations"), capacity |-> Read(e, "capacity") ]

ConfigValid(c) ==
    /\ c.port \in {"unset", "valid"}
    /\ c.host \in {"unset", "loopback", "network"}
    /\ c.provider \in {"unset", "mock", "openai"}
    /\ c.key \in {"unset", "blank", "set"} /\ (c.provider = "openai" => c.key = "set")
    /\ c.token \in {"unset", "long"}
    /\ c.mutations \in {"unset", "true", "false"}
    /\ c.dataPath \in {"unset", "file", "directory"}
    /\ c.capacity \in {"unset", "positive", "excessive"}

(* validate_rest_security: in REST mode only. *)
RestSecure(c) == c.host \in {"unset", "loopback"}

(* load_or_create_manager refuses a directory, and the library a capacity    *)
(* past its own limit.                                                       *)
ManagerCreated(c) == c.dataPath # "directory" /\ c.capacity # "excessive"

MutationsEnabled == config.mutations = "true"

StartInit ==
    /\ mode = None /\ env = None /\ config = None
    /\ memories = 0

(* Whether the files and the listener are to be had is not the environment's *)
(* to say: a snapshot may not load (MemoryStore), its directory not be made, *)
(* the address not be bound.                                                 *)
Start(m, e) ==
    /\ mode = None
    /\ env' = e
    /\ config' = FromEnv(e)
    /\ \E obtained \in BOOLEAN :
          mode' = IF /\ ConfigValid(FromEnv(e))
                     /\ m # "mcp" => RestSecure(FromEnv(e))
                     /\ ManagerCreated(FromEnv(e))
                     /\ obtained \/ (m = "mcp" /\ FromEnv(e).dataPath = "unset")
                  THEN m ELSE "refused"
    /\ UNCHANGED memories

-----------------------------------------------------------------------------
(* What a mutation does to the memories, and what its caller is told.        *)
Outcome(op) ==
    CASE op = "store" /\ memories < MaxMemories -> [result |-> "stored", after |-> memories + 1]
      [] op = "store" /\ memories = MaxMemories -> [result |-> "full", after |-> memories]
      [] op = "forget" /\ memories > 0          -> [result |-> "removed", after |-> memories - 1]
      [] op = "forget" /\ memories = 0          -> [result |-> "nothing", after |-> memories]
      [] op = "read"                            -> [result |-> "read", after |-> memories]
=============================================================================
