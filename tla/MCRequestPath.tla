--------------------------- MODULE MCRequestPath ---------------------------
EXTENDS Lookups

MCStatuses == {200, 201, 202, 204, 302, 304, 400, 401, 404, 409, 429, 502, 503}

\* An IRN, the empty string, ".", "..", "oauth/token", "irn/pdf" and "status".
MCIdentifiers == {<<"irn">>, <<>>, <<".">>, <<"..">>, <<"oauth", "token">>, <<"irn", "pdf">>,
                  <<"status">>}
=============================================================================
