---------------------------- MODULE MCMcpServer ----------------------------
(***************************************************************************)
(* A client that sends up to three lines, good and bad, to McpServer.      *)
(***************************************************************************)
EXTENDS McpServer

Ping == [text |-> "JSON", length |-> 1, version |-> TRUE, method |-> "ping",
         id |-> "number", params |-> "object", call |-> FALSE]

MCLines ==
    {Ping, [Ping EXCEPT !.id = "absent"], [Ping EXCEPT !.id = "null"],
     [Ping EXCEPT !.id = "NaN"], [Ping EXCEPT !.version = FALSE],
     [Ping EXCEPT !.params = "other"], [Ping EXCEPT !.length = MaxLength],
     [Ping EXCEPT !.length = MaxLength + 1],
     [Ping EXCEPT !.text = "blank", !.length = MaxLength + 1],
     [Ping EXCEPT !.method = "tools/call", !.call = TRUE],
     [Ping EXCEPT !.method = "tools/call"],
     [Ping EXCEPT !.method = "notification", !.id = "absent"],
     [Ping EXCEPT !.method = "unknown", !.id = "absent"],
     [Ping EXCEPT !.method = "none"], [Ping EXCEPT !.text = "blank"],
     [Ping EXCEPT !.text = "no JSON"], [Ping EXCEPT !.text = "long integer"]}
=============================================================================
