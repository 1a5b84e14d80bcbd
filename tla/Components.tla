----------------------------- MODULE Components -----------------------------
(***************************************************************************)
(* The components that stand alone, side by side: part says which of them  *)
(* a behaviour is about, the others stay as they began.                    *)
(***************************************************************************)
EXTENDS CircuitBreakerUse, Completion, RateLimiter, SafeMap, TaskRunner, Server, Storage,
  Persistence

VARIABLE part

allVars == <<part, vars, completerVars, limiterVars, mapVars, runnerVars, serverVars, storeVars,
             persistenceVars>>

ComponentsInit ==
  /\ part \in {"breaker", "completion", "limiter", "map", "runner", "server", "storage",
              "persistence"}
  /\ Init /\ NewCompleter /\ NewRateLimiter /\ NewSafeMap /\ NewRunner /\ NewServer /\ NewStorage
  /\ NewPersistence

Rest(p) ==
  /\ UNCHANGED part
  /\ p # "breaker" => UNCHANGED vars
  /\ p # "completion" => UNCHANGED completerVars
  /\ p # "limiter" => UNCHANGED limiterVars
  /\ p # "map" => UNCHANGED mapVars
  /\ p # "runner" => UNCHANGED runnerVars
  /\ p # "server" => UNCHANGED serverVars
  /\ p # "storage" => UNCHANGED storeVars
  /\ p # "persistence" => UNCHANGED persistenceVars

ComponentsNext ==
  \/ part = "breaker" /\ Next /\ Rest("breaker")
  \/ part = "completion" /\ CompleterNext /\ Rest("completion")
  \/ part = "limiter" /\ LimiterNext /\ Rest("limiter")
  \/ part = "map" /\ MapNext /\ Rest("map")
  \/ part = "runner" /\ RunnerNext /\ Rest("runner")
  \/ part = "server" /\ ServerNext /\ Rest("server")
  \/ part = "storage" /\ StoreNext /\ Rest("storage")
  \/ part = "persistence" /\ PersistenceNext /\ Rest("persistence")

ComponentsSpec == ComponentsInit /\ [][ComponentsNext]_allVars

(* The types of all of them.                                                *)
ComponentsTypeOK ==
  /\ TypeOK /\ CompleterTypeOK /\ LimiterTypeOK /\ MapTypeOK
  /\ RunnerTypeOK /\ ServerTypeOK /\ StoreTypeOK /\ PersistenceTypeOK
=============================================================================
