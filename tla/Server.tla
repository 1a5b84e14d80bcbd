------------------------------- MODULE Server -------------------------------
(***************************************************************************)
(* A request on its way through the middleware of server/server.go, from   *)
(* the outside in: Recoverer, Timeout, the metrics, brotli, the handler.   *)
(* Each of them acts when the handler's return, or its panic, comes back   *)
(* through it.  Recoverer, Timeout and what net/http does with a response  *)
(* are chi's and the library's; their order is the server's.  A status is  *)
(* 0 until it is sent: the first one counts, and is 200 when the body, or  *)
(* nothing, is written first.                                              *)
(***************************************************************************)
EXTENDS Naturals, FiniteSets

CONSTANTS
  HttpRequests,
  Statuses,        \* what handlers set
  ServerConfigs    \* records [enableBrotli, writeTimeout, timeoutDuration], in ticks

\* validateConfig accepts any positive time-outs, in any relation.
ASSUME ServerAssumption ==
  \A c \in ServerConfigs : /\ c.enableBrotli \in BOOLEAN
                           /\ c.writeTimeout \in Nat \ {0}
                           /\ c.timeoutDuration \in Nat \ {0}
ASSUME StatusAssumption == Statuses \subseteq 200..599

VARIABLES
  config,   \* s.config, never changed
  req       \* per request, what is known of it

serverVars == <<config, req>>

Idle == [phase |-> "idle"]

\* Past both time-outs the clock does not matter.
LastTick == IF config.writeTimeout > config.timeoutDuration
            THEN config.writeTimeout ELSE config.timeoutDuration

\* phase is where the request is; br whether it asks for brotli; elapsed its
\* age; wrote the statuses its handler has set; sent the status of the
\* response; seen the statusCode of the metrics' responseWriter; counted the
\* status it was counted with; answer what the client receives, 0 for nothing.
Request ==
  [phase : {"handler", "close", "count", "respond", "done"},
   br : BOOLEAN, elapsed : 0..LastTick, wrote : SUBSET ({200} \union Statuses),
   sent : {0} \union 200..599, seen : {200} \union Statuses, panicked : BOOLEAN, counted : {0, 200} \union Statuses,
   answer : {0} \union 200..599]

ServerTypeOK ==
  /\ config \in ServerConfigs
  /\ req \in [HttpRequests -> Request \union {Idle}]

NewServer ==
  /\ config \in ServerConfigs
  /\ req = [r \in HttpRequests |-> Idle]

-----------------------------------------------------------------------------
First(sent, status) == IF sent = 0 THEN status ELSE sent

\* A body sets a status only when the handler has set none.
BodySets(wrote) == IF wrote = {} THEN {200} ELSE wrote

Arrive(r) ==
  /\ req[r].phase \in {"idle", "done"}
  /\ \E br \in BOOLEAN :
       req' = [req EXCEPT ![r] =
                 [phase |-> "handler", br |-> br, elapsed |-> 0, wrote |-> {}, sent |-> 0,
                  seen |-> 200, panicked |-> FALSE, counted |-> 0, answer |-> 0]]
  /\ UNCHANGED config

At(r, phase) == req[r].phase = phase /\ UNCHANGED config

\* Mutated form: the status is passed on and not noted.
WriteHeaderUnseen(r, code) ==
  /\ At(r, "handler")
  /\ req' = [req EXCEPT ![r].wrote = @ \union {code}, ![r].sent = First(@, code)]

\* WriteHeader of the metrics' responseWriter notes every code, net/http
\* sends the first.
WriteHeader(r, code) ==
  /\ At(r, "handler")
  /\ req' = [req EXCEPT ![r].wrote = @ \union {code}, ![r].seen = code,
                        ![r].sent = First(@, code)]

\* A body goes out at once; the brotli writer may keep it to itself.
Write(r) ==
  /\ At(r, "handler")
  /\ req' = [req EXCEPT ![r].wrote = BodySets(@), ![r].sent = First(@, 200)]

WriteCompressed(r) ==
  /\ At(r, "handler") /\ config.enableBrotli /\ req[r].br
  /\ req' = [req EXCEPT ![r].wrote = BodySets(@)]

HandlerReturns(r) ==
  /\ At(r, "handler")
  /\ req' = [req EXCEPT ![r].phase = "close"]

HandlerPanics(r) ==
  /\ At(r, "handler")
  /\ req' = [req EXCEPT ![r].phase = "close", ![r].panicked = TRUE]

\* Mutated form: the writer is closed for clients that asked for none too.
CloseBrotliAlways(r) ==
  /\ At(r, "close")
  /\ req' = [req EXCEPT ![r].phase = "count", ![r].sent = First(@, 200)]

\* The deferred bw.Close ends the stream, which writes a body, in panics too.
CloseBrotli(r) ==
  /\ At(r, "close")
  /\ req' = [req EXCEPT ![r].phase = "count",
       ![r].sent = IF config.enableBrotli /\ req[r].br THEN First(@, 200) ELSE @]

\* The metrics are counted after the handler, and not when it panics.
CountRequest(r) ==
  /\ At(r, "count")
  /\ req' = [req EXCEPT ![r].phase = "respond",
       ![r].counted = IF req[r].panicked THEN 0 ELSE req[r].seen]

\* Timeout, Recoverer and net/http, in this order, each send a status if none
\* is sent yet; past the connection's write deadline nothing arrives.
Respond(r) ==
  LET x == req[r]
      timeout == IF x.elapsed >= config.timeoutDuration THEN First(x.sent, 504) ELSE x.sent
      recover == IF x.panicked THEN First(timeout, 500) ELSE timeout
      sent == First(recover, 200)
  IN /\ At(r, "respond")
     /\ req' = [req EXCEPT ![r].phase = "done", ![r].sent = sent,
          ![r].answer = IF x.elapsed >= config.writeTimeout THEN 0 ELSE sent]

ServerTick ==
  /\ \E r \in HttpRequests :
       req[r].phase \notin {"idle", "done"} /\ req[r].elapsed < LastTick
  /\ req' = [r \in HttpRequests |->
       IF req[r].phase \in {"idle", "done"} \/ req[r].elapsed = LastTick THEN req[r]
       ELSE [req[r] EXCEPT !.elapsed = @ + 1]]
  /\ UNCHANGED config

ServerNext ==
  \/ \E r \in HttpRequests :
       \/ Arrive(r) \/ Write(r) \/ WriteCompressed(r)
       \/ \E code \in Statuses : WriteHeader(r, code)
       \/ HandlerReturns(r) \/ HandlerPanics(r)
       \/ CloseBrotli(r) \/ CountRequest(r) \/ Respond(r)
  \/ ServerTick

ServerSpec == NewServer /\ [][ServerNext]_serverVars

-----------------------------------------------------------------------------
(* A handler that panics, or is late, before it has written anything is not *)
(* answered as if it had succeeded, except by the brotli middleware, whose  *)
(* deferred Close sends a 200 before Recoverer or Timeout can send theirs   *)
(* (server.go:318).                                                         *)
FailureIsNotSuccess ==
  \A r \in HttpRequests :
    LET x == req[r] IN
    x.phase = "done" /\ x.wrote = {} /\ x.answer = 200 =>
      \/ ~x.panicked /\ x.elapsed < config.timeoutDuration
      \/ config.enableBrotli /\ x.br

(* The metrics count a request with the status its client received, bodies  *)
(* or not, except when its handler was late (server.go:285-288 knows nothing*)
(* of the 504 Timeout sends, nor of the write deadline), panicked, which is *)
(* not counted, or called WriteHeader again with another status, or after a *)
(* body with one that is not 200: the metrics note the last, net/http sends *)
(* the first (server.go:354-357).                                           *)
CountedAsAnswered ==
  \A r \in HttpRequests :
    LET x == req[r] IN
    x.phase = "done" /\ x.counted # x.answer =>
      \/ x.elapsed >= config.timeoutDuration \/ x.elapsed >= config.writeTimeout
      \/ x.panicked /\ x.counted = 0
      \/ Cardinality(x.wrote) > 1
=============================================================================
