----------------------------- MODULE MCRequestPath -----------------------------
(* Instances of RequestPath for TLC. *)
EXTENDS RequestPath

CONSTANTS c1, c2

MCLength == [c \in Clients |-> IF c = c1 THEN 2 ELSE 1]

Balance == Request("eth_getBalance", Tagged("finalized"))

MCMenu == [c \in Clients |->
  IF c = c1 THEN {Balance, Request("eth_sendRawTransaction", NoBlock)}
  ELSE {Balance, Request("eth_blockNumber", NoBlock),
        Request("debug_traceTransaction", NoBlock)}]

MCPolicies ==
  <<[methods |-> {"eth_blockNumber"}, finality |-> "any", ttl |-> Never],
    [methods |-> {"eth_getBalance"}, finality |-> "finalized", ttl |-> Forever]>>
===============================================================================
