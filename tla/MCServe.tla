------------------------------ MODULE MCServe ------------------------------
(* A small instance of Serve.  Two tokens are the halves of one character,   *)
(* and the others spell two stop sequences whose openings overlap.           *)
EXTENDS Serve

CharOf == <<"<", "!", "half", "half">>     \* 3 and 4 are "e" together

(* The tokenizer: half a character decodes to the replacement character.     *)
MCDecoded(r) ==
    LET d[n \in 0 .. Len(r)] ==
          IF n = 0 THEN <<>>
          ELSE IF n > 1 /\ r[n] = 4 /\ r[n - 1] = 3 THEN Append(d[n - 2], "e")
          ELSE IF CharOf[r[n]] = "half" THEN Append(d[n - 1], Unsettled)
          ELSE Append(d[n - 1], CharOf[r[n]])
    IN  d[Len(r)]

MCStops == << <<"<", "!">>, <<"!", "!", "<">> >>

MCModelMax(m) == IF m = "small" THEN 4 ELSE 7
MCPerToken(m) == IF m = "small" THEN 1 ELSE 3

(* One turn; a history too long for the window; a last turn too long; and a  *)
(* message the tokenizer makes nothing of.                                   *)
MCThreads == {
    << <<1, 2>> >>,
    << <<3, 1, 2, 1, 2, 1, 2>>, <<1, 2, 1, 2>>, <<2, 1>> >>,
    << <<1, 2, 1, 2>>, <<1, 1, 2>> >>,
    << <<1, 1, 1, 1, 1, 1, 1>> >>,
    << <<>> >> }

(* One request for each way to end without the model.                        *)
Asked == [ kind |-> "other", method |-> "POST", path |-> "/api/chat", version |-> "1.1",
           host |-> "localhost:port", origin |-> Unset, json |-> TRUE, body |-> "JSON",
           form |-> "message", source |-> "path",
           options |-> [ temperature |-> Unset, maxTokens |-> Unset, strategy |-> "ensemble",
                         guidance |-> Unset, ensemble |-> 2, noise |-> 5, entropy |-> Unset ] ]

Read == [Asked EXCEPT !.method = "GET", !.json = FALSE]

MCOthers ==
    { [Asked EXCEPT !.host = "localhost"], [Asked EXCEPT !.origin = "http://other"],
      [Asked EXCEPT !.json = FALSE], [Asked EXCEPT !.body = "huge"],
      [Asked EXCEPT !.path = "/api/load", !.body = "cut off"],
      [Asked EXCEPT !.body = "not JSON"], [Asked EXCEPT !.form = "both"],
      [Asked EXCEPT !.options.ensemble = 1],
      [Asked EXCEPT !.path = "/api/chat/stream", !.version = "1.0"],
      [Asked EXCEPT !.path = "/api/inspect", !.source = "hub id"],
      [Asked EXCEPT !.path = "/api/inspect", !.origin = "http://localhost:port"],
      [Asked EXCEPT !.path = "/api/convert"], [Asked EXCEPT !.method = "OPTIONS"],
      [Asked EXCEPT !.path = "/"],
      [Read EXCEPT !.path = "/api/models"], [Read EXCEPT !.path = "/api/convert/1"],
      [Read EXCEPT !.path = "/", !.host = "[::1]:port"] }
=============================================================================
