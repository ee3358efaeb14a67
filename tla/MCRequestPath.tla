--------------------------- MODULE MCRequestPath ---------------------------
(***************************************************************************)
(* Two requests to a Service of two pods; a pod can stop and              *)
(* a pod can come back with or without h2c and extended CONNECT.           *)
(***************************************************************************)
EXTENDS RequestPath

CONSTANTS r1, r2

Mix(a, b) == (r1 :> a) @@ (r2 :> b)

MCRoutes == {<<"p", "q">>, <<"q">>, << >>}
MCProtos == {{"h1"}}
MCStarts == {[p |-> {"h1"}, q |-> {"h1", "h2"}],
             [p |-> {}, q |-> {"h1", "h2", "ws"}]}
MCConfigs ==
    {[scheme |-> "http", auto |-> TRUE, wsup |-> TRUE, kinds |-> k] :
       k \in {Mix({"plain"}, {"plain"}), Mix({"plain"}, {"body"}),
              Mix({"ws"}, {"plain"}), Mix({"upgrade"}, {"plain"})}}
    \cup
    {[scheme |-> "h2c", auto |-> FALSE, wsup |-> TRUE,
      kinds |-> Mix({"ws"}, {"body", "upgrade"})],
     [scheme |-> "https", auto |-> FALSE, wsup |-> FALSE,
      kinds |-> Mix({"ws"}, {"body"})]}
=============================================================================
