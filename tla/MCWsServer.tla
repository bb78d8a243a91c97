------------------------------ MODULE MCWsServer ------------------------------
(* An instance of WsServer for TLC. *)
EXTENDS WsServer

CONSTANTS a1, a2, t1, t2

Heads == [type |-> "newHeads", criteria |-> Criteria(Anything, <<>>)]
Transfers == [type |-> "logs",
              criteria |-> Criteria(OneText(a1), <<Anything, Texts({t1, t2})>>)]
Syncing == [type |-> "syncing", criteria |-> Criteria(Anything, <<>>)]

MCRequests ==
  {Subscribing(Heads), Subscribing(Transfers), Subscribing(Syncing), Unsubscribing(1),
   OtherRequest}

MCFeed ==
  <<[kind |-> "NewBlock", logs |-> <<>>],
    [kind |-> "NewLogs",
     logs |-> <<Log(a1, <<t1, t2>>), Log(a1, <<t2>>), Log(a2, <<t1, t1>>), Log(a1, <<t2, t1>>)>>],
    [kind |-> "NewBlock", logs |-> <<>>]>>
===============================================================================
