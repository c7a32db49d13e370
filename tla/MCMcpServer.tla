----------------------------- MODULE MCMcpServer -----------------------------
(* The lines of the MCP runs: every form, every method and every tool. *)
EXTENDS McpServer

Line(form, method, name, query) == [form |-> form, method |-> method, name |-> name, query |-> query]

MCMessages ==
  {Line("blank", "", "", FALSE), Line("junk", "", "", FALSE),
   Line("notification", "initialized", "", FALSE), Line("notification", "tools/call", "pplx_ask", TRUE),
   Line("request", "initialize", "", FALSE), Line("request", "unknown", "", FALSE),
   Line("request", "tools/call", "", FALSE), Line("request", "tools/call", "no_such_tool", FALSE),
   Line("request", "tools/call", "pplx_ask", FALSE), Line("request", "tools/call", "pplx_ask", TRUE),
   Line("request", "tools/call", "pplx_usage", FALSE), Line("request", "tools/call", "pplx_spec_check", FALSE)}
=============================================================================
