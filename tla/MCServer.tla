-------------------------------- MODULE MCServer --------------------------------
(* Instances of Server for TLC. *)
EXTENDS Server

Chain(id, route, auto, upstreams) ==
  [chain_id |-> id, route |-> route, rooted |-> TRUE, auto_public |-> auto,
   upstreams |-> upstreams]

Config(chs, keys) == [chains |-> chs, auth |-> [enabled |-> keys # {}, api_keys |-> keys]]

Own == Chain(1, "/eth", TRUE, <<Upstream("a", "primary"), Upstream("b", "secondary")>>)
Public == Chain(2, "/base", TRUE, <<>>)
Plain == Chain(3, "/arb", FALSE, <<Upstream("c", "primary")>>)

MCConfigs ==
  {Config(<<Own, Public>>, {"k"}), Config(<<Public, Plain>>, {}), Config(<<Plain>>, {"k"}),
   Config(<<Chain(3, "/arb", FALSE, <<>>)>>, {}), Config(<<Plain, Plain>>, {}),
   Config(<<Plain, Chain(4, "/health", FALSE, <<Upstream("d", "primary")>>)>>, {})}

MCRegistries ==
  {[id \in {1, 2} |-> IF id = 1 THEN <<"b", "p", "p">> ELSE <<"q">>],
   [id \in {1} |-> <<"p", "a">>]}

Req(verb, path, header, key, body) ==
  [verb |-> verb, path |-> path, header |-> header, key |-> key, body |-> body]

MCRequests ==
  {Req("POST", path, header, {}, "small") :
     path \in {"/eth", "/base", "/arb"}, header \in {{}, {"k"}}} \cup
  {Req("GET", "/base", {"x"}, {"k"}, "small"), Req("GET", "/eth", {""}, {"k"}, "small"),
   Req("GET", "/base", {}, {"k"}, "small"), Req("HEAD", "/arb", {"k"}, {}, "small"),
   Req("GET", "/health", {}, {}, "small"), Req("OPTIONS", "/arb", {"k"}, {}, "small"),
   Req("POST", "/eth", {}, {"k"}, "streamed"), Req("POST", "/eth", {"k"}, {}, "declared")}
===============================================================================
