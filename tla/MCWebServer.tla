------------------------------ MODULE MCWebServer ------------------------------
EXTENDS WebServer

CONSTANTS c1, c2

\* A page beside a browser that fetches a file, and a malformed request beside a
\* connection that is kept alive until an error closes it.
MCPlans ==
  {(c1 :> <<"ws">> @@ c2 :> <<"fileClose">>),
   (c1 :> <<"bad">> @@ c2 :> <<"api", "file", "missing">>)}
=============================================================================
