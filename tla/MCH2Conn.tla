------------------------------ MODULE MCH2Conn ------------------------------
EXTENDS H2Conn

request(body, decl, head) ==
    [body |-> body, decl |-> decl, head |-> head, trailers |-> FALSE, expect |-> FALSE, close |-> FALSE]
response(body, decl, trailers, status, info) ==
    [body |-> body, decl |-> decl, trailers |-> trailers, status |-> status, info |-> info]

Perms == Permutations(Requests)

GET == request(0, Absent, FALSE)
HEAD == request(0, Absent, TRUE)
MCShapes == {GET, HEAD, request(1, 1, FALSE), [request(2, Absent, FALSE) EXCEPT !.expect = TRUE],
             [GET EXCEPT !.close = TRUE], [request(1, Absent, FALSE) EXCEPT !.trailers = TRUE]}

\* Nothing; two bytes after a 1xx; one byte before trailers; an error whose
\* body is shorter than it says.
MCResponses == {response(0, Absent, FALSE, "ok", FALSE), response(2, Absent, FALSE, "ok", TRUE),
                response(1, Absent, TRUE, "ok", FALSE), response(1, 2, FALSE, "error", FALSE)}

MCFaultCost ==
    [cancel |-> 2, closeBody |-> 2, panic |-> 2, goaway |-> 2, timeout |-> 4, readTimeout |-> 3,
     ping |-> 4, shutdown |-> 4, idle |-> 4, network |-> 4]
=============================================================================
