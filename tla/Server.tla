--------------------------------- MODULE Server ---------------------------------
(***************************************************************************)
(* The process from its start on (src/main.rs, src/server.rs): the         *)
(* configuration is loaded and validated (src/config.rs), the registry of  *)
(* public endpoints is fetched (src/upstream/public_endpoints.rs), a chain *)
(* manager is made for each chain, and requests come through the layers    *)
(* of the router: the body limit, the rate limiter                         *)
(* (src/middleware/rate_limit.rs), the API key (src/middleware/auth.rs)    *)
(* and the routes.                                                         *)
(*                                                                         *)
(* The layers share nothing but the rate limiter, so that a request is     *)
(* one step up to the handler it reaches.                                  *)
(***************************************************************************)
EXTENDS RateLimiter, SequencesExt

CONSTANTS
  Configs,       \* the configurations the file may hold
  Registries,    \* what the registry may answer: the URLs by chain id
  Requests       \* [verb, path, header, key, body]: header and key hold the value of
                 \* X-Api-Key and of the query's key, if there is one; the body is
                 \* "small", or larger than max_body_size: "declared" or "streamed"

UpstreamConfig == [http_url : STRING, role : {"primary", "secondary", "fallback"}]

ASSUME ServerAssumption ==
  /\ \A c \in Configs : \A i \in DOMAIN c.chains :
       /\ {"chain_id", "route", "auto_public", "upstreams"} \subseteq DOMAIN c.chains[i]
       /\ c.chains[i].upstreams \in Seq(UpstreamConfig)
  /\ \A listed \in Registries : \A id \in DOMAIN listed : listed[id] \in Seq(STRING)

VARIABLES
  phase,            \* "start", "loaded", "resolved", "serving" or "exited"
  config,           \* as it was loaded
  registry,         \* the answer that the registry has given since the start, if any
  chains,           \* the chains with their public upstreams
  chain_managers,
  reply             \* to the last request

startup == <<config, registry, chains, chain_managers>>
vars == <<limiter, phase, startup, reply>>

NoReply == [status |-> "none"]

Upstream(url, role) == [http_url |-> url, role |-> role]

Urls(upstreams) == {upstreams[i].http_url : i \in DOMAIN upstreams}

\* The variables have their types.
TypeOK ==
  /\ LimiterTypeOK
  /\ phase \in {"start", "loaded", "resolved", "serving", "exited"}
  /\ config \in Configs
  /\ registry \in SUBSET Registries
  /\ \A cs \in {chains, chain_managers} : \A i \in DOMAIN cs :
       i \in DOMAIN config.chains /\ cs[i].upstreams \in Seq(UpstreamConfig)
  /\ phase = "serving" => DOMAIN chain_managers = DOMAIN config.chains
  /\ reply.status \in {"none", "413", "health", "429", "401", "404", "405", "preflight",
                      "rpc", "ws"}

Init ==
  /\ LimiterInit
  /\ phase = "start"
  /\ config \in Configs
  /\ registry = {}
  /\ chains = <<>> /\ chain_managers = <<>>
  /\ reply = NoReply

-------------------------------------------------------------------------------
\* Starting up.

Exit == phase' = "exited" /\ UNCHANGED <<limiter, startup, reply>>

validate(cs) ==
  /\ cs # <<>>
  /\ \A i \in DOMAIN cs : cs[i].upstreams # <<>> \/ cs[i].auto_public
  /\ \A i \in DOMAIN cs : cs[i].rooted
  /\ \A i, j \in DOMAIN cs : cs[i].route = cs[j].route => i = j

\* Config::load
Load ==
  /\ phase = "start"
  /\ IF validate(config.chains)
     THEN /\ phase' = "loaded"
          /\ chains' = config.chains
          /\ UNCHANGED <<limiter, config, registry, chain_managers, reply>>
     ELSE Exit

\* Mutant: an endpoint that is configured is added once more.
ListedEndpoints(chain, endpoints) == endpoints

\* The endpoints that are no configured upstream's.  They are not compared with each other.
PublicEndpoints(chain, endpoints) ==
  LET existing_urls == Urls(chain.upstreams)
  IN  FlattenSeq([i \in DOMAIN endpoints |->
        IF endpoints[i] \in existing_urls THEN <<>> ELSE <<endpoints[i]>>])

Resolved(chain, listed) ==
  IF chain.auto_public /\ chain.chain_id \in DOMAIN listed
  THEN LET public == PublicEndpoints(chain, listed[chain.chain_id])
       IN  [chain EXCEPT !.upstreams =
             @ \o [i \in DOMAIN public |-> Upstream(public[i], "fallback")]]
  ELSE chain

\* Mutant: without the registry the process goes on with the upstreams it has.
ResolveAnyway ==
  /\ phase = "loaded"
  /\ phase' = "resolved"
  /\ UNCHANGED <<limiter, startup, reply>>

\* resolve_auto_public: the registry is asked if a chain needs it, and its failure ends
\* the process, whatever the other chains have.
Resolve ==
  /\ phase = "loaded"
  /\ IF \E i \in DOMAIN chains : chains[i].auto_public
     THEN \/ Exit
          \/ \E listed \in Registries :
               /\ registry' = {listed}
               /\ chains' = [i \in DOMAIN chains |-> Resolved(chains[i], listed)]
               /\ phase' = "resolved"
               /\ UNCHANGED <<limiter, config, chain_managers, reply>>
     ELSE /\ phase' = "resolved"
          /\ UNCHANGED <<limiter, startup, reply>>

\* Mutant: a chain without upstreams gets no manager.
ManagersOfServed == SelectSeq(chains, LAMBDA chain : chain.upstreams # <<>>)

\* ChainManager::new for each chain.
Managers == chains

\* setup: Redis may not answer, and the router panics on a chain's GET for the health route.
Setup ==
  /\ phase = "resolved"
  /\ \/ Exit
     \/ /\ \A i \in DOMAIN chains : chains[i].route # "/health"
        /\ chain_managers' = Managers
        /\ NewLimiter
        /\ phase' = "serving"
        /\ UNCHANGED <<config, registry, chains, reply>>

\* The process has ended, or is ended, and starts again, perhaps with another file.
Restart ==
  /\ phase \in {"serving", "exited"}
  /\ phase' = "start"
  /\ config' \in Configs
  /\ registry' = {}
  /\ chains' = <<>> /\ chain_managers' = <<>>
  /\ reply' = NoReply
  /\ UNCHANGED limiter

-------------------------------------------------------------------------------
\* Serving.

Reply(req, status, idx) == reply' = [status |-> status, to |-> req, idx |-> idx]

IsHealth(req) == req.path = "/health"

\* The header, even an empty one, and the query parameter if there is none.
ApiKey(req) == IF req.header # {} THEN req.header ELSE req.key

AuthLayer == config.auth.enabled /\ config.auth.api_keys # {}
Authorized(req) ==
  IsHealth(req) \/ ~AuthLayer \/ ApiKey(req) \cap config.auth.api_keys # {}

RoutesTo(req) == {i \in DOMAIN chains : chains[i].route = req.path}

\* The status of a request for a chain's route.  A body whose length was not declared
\* ends where it is read.
ChainStatus(req) ==
  CASE req.verb = "POST" -> IF req.body = "small" THEN "rpc" ELSE "413"
    [] req.verb = "GET" -> "ws"
    [] OTHER -> "405"

\* CorsLayer and the routes, behind the API key.
Route(req) ==
  IF ~Authorized(req) THEN Reply(req, "401", 0)
  ELSE IF req.verb = "OPTIONS" THEN Reply(req, "preflight", 0)
  ELSE IF IsHealth(req) THEN Reply(req, IF req.verb \in {"GET", "HEAD"} THEN "health" ELSE "405", 0)
  ELSE IF RoutesTo(req) = {} THEN Reply(req, "404", 0)
  ELSE \E idx \in RoutesTo(req) : Reply(req, ChainStatus(req), idx)

\* RequestBodyLimitLayer: a body that is declared too long.
TooLarge(req) ==
  /\ req.body = "declared"
  /\ Reply(req, "413", 0)
  /\ UNCHANGED limiter

Health(req) ==
  /\ req.body # "declared" /\ IsHealth(req)
  /\ Route(req)
  /\ UNCHANGED limiter

\* client_rate_limit
Admit(req) ==
  /\ req.body # "declared" /\ ~IsHealth(req)
  /\ Granted
  /\ Route(req)

Refuse(req) ==
  /\ req.body # "declared" /\ ~IsHealth(req)
  /\ Refused
  /\ Reply(req, "429", 0)

Serve ==
  /\ phase = "serving"
  /\ \E req \in Requests : TooLarge(req) \/ Health(req) \/ Admit(req) \/ Refuse(req)
  /\ UNCHANGED <<phase, startup>>

Elapse == Tick /\ UNCHANGED <<phase, startup, reply>>

Next == Load \/ Resolve \/ Setup \/ Restart \/ Serve \/ Elapse

Spec == Init /\ [][Next]_vars

-------------------------------------------------------------------------------
\* What the registry has listed for a chain.
Listed(id) == UNION {ToSet(answer[id]) : answer \in {a \in registry : id \in DOMAIN a}}

\* The upstreams are a chain's own as they are, then, with auto_public, as fallbacks the
\* URLs that are listed and not its own.
AsListed(chain, upstreams, listed) ==
  LET own == chain.upstreams
      added == SubSeq(upstreams, Len(own) + 1, Len(upstreams))
  IN  /\ IsPrefix(own, upstreams)
      /\ \A j \in DOMAIN added : added[j].role = "fallback"
      /\ Urls(added) = IF chain.auto_public THEN listed \ Urls(own) ELSE {}

\* Each manager of a process that serves has the upstreams that are configured and, with
\* auto_public, those that the registry lists for its chain besides; and a process with
\* such a chain has had the registry's answer: one that did not get it does not serve.
\* How often a URL is added that is listed more than once, is left open
\* (public_endpoints.rs:44-124, server.rs:41-64, main.rs).
UpstreamsAsListed ==
  phase = "serving" =>
    /\ (\E i \in DOMAIN config.chains : config.chains[i].auto_public) => registry # {}
    /\ \A i \in DOMAIN config.chains :
         LET chain == config.chains[i]
         IN  AsListed(chain, chain_managers[i].upstreams, Listed(chain.chain_id))

\* A request reaches the manager of the chain whose route it names, with a valid key if
\* keys are in force, which a header that is present and wrong keeps it from, and over
\* the right protocol; and the health route answers whatever the rate limiter and the
\* keys say (server.rs:71-112, auth.rs:15-53).
RequestsReachTheirChain ==
  /\ reply.status \in {"rpc", "ws"} =>
       /\ reply.idx \in DOMAIN chain_managers
       /\ \E i \in DOMAIN config.chains :
            /\ config.chains[i].route = reply.to.path
            /\ config.chains[i].chain_id = chain_managers[reply.idx].chain_id
       /\ AuthLayer => \E key \in config.auth.api_keys :
            key \in reply.to.header \/ (key \in reply.to.key /\ reply.to.header = {})
       /\ reply.to.verb = IF reply.status = "rpc" THEN "POST" ELSE "GET"
  /\ reply.status \in {"401", "429"} => ~IsHealth(reply.to)
===============================================================================
