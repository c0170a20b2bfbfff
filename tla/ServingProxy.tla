---------------------------- MODULE ServingProxy ----------------------------
(***************************************************************************)
(* The model proxy between the agents' LLM calls and the upstream servers: *)
(* the retries of a call, the routes, the discovery of the managed server  *)
(* through endpoint.json with its cache, and the requests the proxy has    *)
(* open upstream. Time is counted in ticks. The proxy does not notice that *)
(* the client of a plain request gave up.                                  *)
(*                                                                         *)
(* Source: archbench/serving, and call_llm of the in-container loops.      *)
(***************************************************************************)
EXTENDS Naturals, FiniteSets

CONSTANTS
    Clients,          \* agents, each with one LLM call at a time
    NoClient,         \* not a client
    Urls,             \* base URLs a server advertises
    NoUrl,            \* endpoint.json is not ready or does not parse
    Missing,          \* there is no endpoint.json
    ClientTimeout,    \* timeout of call_llm, 600 s, in ticks
    UpstreamTimeout,  \* UPSTREAM_TIMEOUT_S, 1800 s, in ticks
    GatewayTimeout,   \* upstream_timeout_s of the gateway's routes, 600 s
    Waits,            \* how often a plain request waits for the upstream: to
                      \* connect, to write, for each part of the answer
    Ttl,              \* DEFAULT_TTL_S, in ticks
    MinAttempts,      \* 5 in the code
    ApiKeys           \* keys in the pool of LLM_API_KEY

ASSUME ProxyAssumption ==
    /\ {ClientTimeout, UpstreamTimeout, GatewayTimeout, Waits, Ttl,
        MinAttempts, ApiKeys} \subseteq Nat \ {0}
    /\ {NoUrl, Missing} \cap Urls = {} /\ NoUrl # Missing
    /\ NoClient \notin Clients

VARIABLES
    file,      \* endpoint.json: its url; whether it was written in this tick,
               \* and its predecessor in the same one (the mtimes are tied)
    gone,      \* ticks since each url was replaced in the file
    cache,     \* _cache: url, age, whether its mtime is that of the file;
               \* the entry to be written while a request reads the file
    reading,   \* the client whose request is between its stat and its read
    call,      \* the LLM call of each client
    req,       \* the proxy's side of the call's last attempt
    left       \* requests a client gave up that are open upstream, by how
               \* their waiting stands

fileVars == <<file, gone>>
cacheVars == <<cache, reading>>
proxyVars == <<fileVars, cacheVars, call, req, left>>

Contents == Urls \cup {NoUrl, Missing}
Attempts == IF 2 * ApiKeys > MinAttempts THEN 2 * ApiKeys ELSE MinAttempts

(* How long the proxy waits for the upstream: per route, with a default.   *)
RouteTimeout(route) == IF route = "gateway" THEN GatewayTimeout
                                            ELSE UpstreamTimeout

Spans == {GatewayTimeout, UpstreamTimeout}
MaxSpan == IF GatewayTimeout > UpstreamTimeout THEN GatewayTimeout
                                               ELSE UpstreamTimeout

(* httpx has no timeout of a request as a whole: its number holds for each *)
(* wait, to connect, to write, and to read the next part of the answer.    *)
(* span is that number, rest what is left of it in the present wait, and   *)
(* more how many waits may follow.                                         *)
Waiting == [span : Spans, more : 0..(Waits - 1), rest : 0..MaxSpan]

Begin(span) == [span |-> span, more |-> Waits - 1, rest |-> span]

(* Something came from the upstream, or went to it.                        *)
Advance(w) == [w EXCEPT !.more = @ - 1, !.rest = w.span]

(* Where a call's model leads: to the managed server, to a gateway with a  *)
(* fixed url, to a backend that is a stub; "unset" lacks a field or a key  *)
(* it needs, "unknown" is no route.                                        *)
Routes == {"managed", "gateway", "stub", "unset", "unknown"}

NoReq == [phase |-> "none", wait |-> Begin(UpstreamTimeout)]
Idle == [state |-> "idle", attempt |-> 0, waited |-> 0, route |-> "managed",
         stream |-> FALSE]

ProxyInit ==
    /\ file \in [url : Contents, fresh : {TRUE}, tied : {FALSE}]
    /\ gone = [u \in Urls |-> Ttl]
    /\ cache = [url |-> NoUrl, age |-> Ttl, match |-> FALSE]
    /\ reading = NoClient
    /\ call = [c \in Clients |-> Idle]
    /\ req = [c \in Clients |-> NoReq]
    /\ left = [c \in Clients |-> [w \in Waiting |-> 0]]

-----------------------------------------------------------------------------
(* The client: call_llm *)

Post(c, k) ==
    /\ call' = [call EXCEPT ![c] = [k EXCEPT !.state = "waiting", !.waited = 0,
                                             !.attempt = @ + 1]]
    /\ req' = [req EXCEPT ![c] = [NoReq EXCEPT !.phase = "received"]]
    /\ UNCHANGED <<fileVars, cacheVars, left>>

(* The loops of the repository do not ask for a stream; other clients may. *)
StartCall(c) ==
    /\ call[c].state \in {"idle", "done"}
    /\ \E route \in Routes, stream \in BOOLEAN :
          Post(c, [Idle EXCEPT !.route = route, !.stream = stream])

(* After the sleep between two attempts.                                   *)
Retry(c) == call[c].state = "backoff" /\ Post(c, call[c])

(* Mutant: a failed attempt is always followed by another.                 *)
MutFailed(k) == [k EXCEPT !.state = "backoff", !.attempt = 0, !.waited = 0]

(* An attempt failed, by any error status, too; the last one raises.       *)
Failed(k) ==
    IF k.attempt < Attempts THEN [k EXCEPT !.state = "backoff", !.waited = 0]
                            ELSE [Idle EXCEPT !.state = "raised"]

Expired(c) == call[c].state = "waiting" /\ call[c].waited >= ClientTimeout

(* The client hangs up: a stream is cancelled with it, a plain request     *)
(* goes on upstream.                                                       *)
ClientGivesUp(c) ==
    /\ Expired(c)
    /\ call' = [call EXCEPT ![c] = Failed(@)]
    /\ req' = [req EXCEPT ![c] = NoReq]
    /\ left' = IF req[c].phase # "upstream" THEN left
               ELSE [left EXCEPT ![c][req[c].wait] = @ + 1]
    /\ UNCHANGED <<fileVars, cacheVars>>

-----------------------------------------------------------------------------
(* The proxy *)

(* An error or an answer. A stream that breaks off has its status 200      *)
(* already, and is not retried.                                            *)
Answer(c, ok) ==
    /\ req' = [req EXCEPT ![c] = NoReq]
    /\ call' = [call EXCEPT ![c] =
                  IF ok THEN [Idle EXCEPT !.state = "done"]
                  ELSE IF req[c].phase = "streaming"
                       THEN [Idle EXCEPT !.state = "raised"]
                       ELSE Failed(@)]

Served(c, route) ==
    /\ req[c].phase = "received" /\ call[c].route = route
    /\ reading = NoClient
    /\ UNCHANGED <<fileVars, left>>

(* 400, 404 and 500: a bad body, no route or no backend of that name.      *)
UnknownModel(c) == Served(c, "unknown")

(* 500: a route without endpoint_json, base_url or key.                    *)
Unset(c) == Served(c, "unset")

(* 501: an openai, anthropic, together or bedrock backend.                 *)
Stubbed(c) == Served(c, "stub")

Refuse(c) ==
    /\ UnknownModel(c) \/ Unset(c) \/ Stubbed(c)
    /\ Answer(c, FALSE)
    /\ UNCHANGED cacheVars

(* POST to the upstream, or the start of a stream: its status is sent      *)
(* before the upstream is asked.                                           *)
Forward(c) ==
    /\ req' = [req EXCEPT ![c] = [phase |-> IF call[c].stream THEN "streaming"
                                                              ELSE "upstream",
                                  wait |-> Begin(RouteTimeout(call[c].route))]]
    /\ UNCHANGED call

ForwardToGateway(c) == Served(c, "gateway") /\ Forward(c) /\ UNCHANGED cacheVars

(* Without a url the answer is 503.                                        *)
ForwardTo(c, url) == IF url \in Urls THEN Forward(c) ELSE Answer(c, FALSE)

(* Mutant: the age of the cached read is not asked.                        *)
MutCacheHit == cache.match

(* The cached read has the file's mtime and is younger than the ttl.       *)
CacheHit == cache.match /\ cache.age < Ttl

(* What get_managed_vllm_url returns.                                      *)
Discovered(c) == IF reading = c \/ file.url = Missing THEN file.url ELSE cache.url

(* get_managed_vllm_url runs on the proxy's event loop: no other request   *)
(* is served between its stat and its read.                                *)
Stat(c) ==
    /\ Served(c, "managed")
    /\ IF file.url = Missing \/ CacheHit
       THEN ForwardTo(c, Discovered(c)) /\ UNCHANGED cacheVars
       ELSE /\ reading' = c
            /\ cache' = [url |-> NoUrl, age |-> 0, match |-> TRUE]
            /\ UNCHANGED <<call, req>>

(* _read_base_url: the file as it is now; the cache keeps the mtime and    *)
(* the time of the stat.                                                   *)
Read(c) ==
    /\ reading = c
    /\ cache' = [cache EXCEPT !.url = IF file.url \in Urls THEN file.url
                                                           ELSE NoUrl]
    /\ ForwardTo(c, Discovered(c))
    /\ reading' = NoClient
    /\ UNCHANGED <<fileVars, left>>

AtUpstream(c) == req[c].phase \in {"upstream", "streaming"}

(* The upstream answers, with an error status too, or the connection fails *)
(* or breaks.                                                              *)
UpstreamAnswers(c) ==
    /\ req[c].phase = "upstream"
    /\ \E ok \in BOOLEAN : Answer(c, ok)
    /\ UNCHANGED <<fileVars, cacheVars, left>>

(* The end of a stream. An error status of the upstream, too, is met after *)
(* the 200 was sent.                                                       *)
StreamEnds(c) ==
    /\ req[c].phase = "streaming"
    /\ \E ok \in BOOLEAN : Answer(c, ok)
    /\ UNCHANGED <<fileVars, cacheVars, left>>

(* So does one nobody waits for any longer.                                *)
LeftAnswers(c) ==
    /\ \E w \in Waiting :
          left[c][w] > 0 /\ left' = [left EXCEPT ![c][w] = @ - 1]
    /\ UNCHANGED <<fileVars, cacheVars, call, req>>

(* A plain request gets on, which its client does not see.                 *)
RequestGoesOn(c) ==
    /\ req[c].phase = "upstream" /\ req[c].wait.more > 0
    /\ req' = [req EXCEPT ![c].wait = Advance(@)]
    /\ UNCHANGED <<fileVars, cacheVars, call, left>>

LeftGoesOn(c) ==
    /\ \E w \in Waiting :
          /\ left[c][w] > 0 /\ w.more > 0
          /\ left' = [left EXCEPT ![c][w] = @ - 1, ![c][Advance(w)] = @ + 1]
    /\ UNCHANGED <<fileVars, cacheVars, call, req>>

StreamGoesOn(c) ==
    /\ req[c].phase = "streaming"
    /\ req[c].wait.rest < req[c].wait.span
    /\ req' = [req EXCEPT ![c].wait.rest = req[c].wait.span]
    /\ call' = [call EXCEPT ![c].waited = 0]
    /\ UNCHANGED <<fileVars, cacheVars, left>>

(* Mutant: the timeout upstream is left to the client's.                   *)
MutTimedOut(w) == FALSE

(* Nothing came from the upstream for the route's timeout.                 *)
TimedOut(w) == w.rest = 0

UpstreamTimesOut(c) ==
    \/ /\ AtUpstream(c) /\ TimedOut(req[c].wait)
       /\ Answer(c, FALSE)
       /\ UNCHANGED <<fileVars, cacheVars, left>>
    \/ /\ \E w \in Waiting : /\ TimedOut(w) /\ left[c][w] > 0
                             /\ left' = [left EXCEPT ![c][w] = @ - 1]
       /\ UNCHANGED <<fileVars, cacheVars, call, req>>

-----------------------------------------------------------------------------
(* Around the proxy *)

(* The SLURM job rewrites endpoint.json; two writes in one tick have the   *)
(* same mtime.                                                             *)
JobWrites ==
    \E url \in Contents \ {file.url} :
       /\ file' = [url |-> url, fresh |-> TRUE, tied |-> file.fresh]
       /\ gone' = [u \in Urls |-> IF u = file.url THEN 0 ELSE gone[u]]
       /\ cache' = [cache EXCEPT !.match = @ /\ file.fresh]
       /\ UNCHANGED <<reading, call, req, left>>

Older(n, bound) == IF n < bound THEN n + 1 ELSE bound

(* Time does not pass a timeout that is due, and the event loop serves a   *)
(* request within a tick.                                                  *)
Tick ==
    /\ \A c \in Clients :
          /\ ~Expired(c) /\ req[c].phase # "received"
          /\ AtUpstream(c) => ~TimedOut(req[c].wait)
          /\ \A w \in Waiting : TimedOut(w) => left[c][w] = 0
    /\ file' = [file EXCEPT !.fresh = FALSE]
    /\ gone' = [u \in Urls |-> Older(gone[u], Ttl)]
    /\ cache' = [cache EXCEPT !.age = Older(@, Ttl)]
    /\ call' = [c \in Clients |->
                  IF call[c].state # "waiting" THEN call[c]
                  ELSE [call[c] EXCEPT !.waited = Older(@, ClientTimeout)]]
    /\ req' = [c \in Clients |->
                 IF AtUpstream(c) /\ req[c].wait.rest > 0
                 THEN [req[c] EXCEPT !.wait.rest = @ - 1]
                 ELSE req[c]]
    /\ left' = [c \in Clients |-> [w \in Waiting |->
                  (IF w.rest < MaxSpan THEN left[c][[w EXCEPT !.rest = @ + 1]]
                                       ELSE 0)
                  + (IF w.rest = 0 THEN left[c][w] ELSE 0)]]
    /\ UNCHANGED reading

ProxyStep(c) ==
    \/ Refuse(c) \/ ForwardToGateway(c) \/ Stat(c) \/ Read(c)
    \/ UpstreamTimesOut(c)

ProxyNext ==
    \/ \E c \in Clients :
          \/ StartCall(c) \/ Retry(c) \/ ClientGivesUp(c) \/ ProxyStep(c)
          \/ UpstreamAnswers(c) \/ LeftAnswers(c)
          \/ RequestGoesOn(c) \/ LeftGoesOn(c)
          \/ StreamGoesOn(c) \/ StreamEnds(c)
    \/ JobWrites \/ Tick

ProxySpec == ProxyInit /\ [][ProxyNext]_proxyVars

(* Clocks run, sleeps and timeouts end, the event loop serves its          *)
(* requests. Neither the job nor the upstream owes anything.               *)
FairProxySpec ==
    /\ ProxySpec /\ WF_proxyVars(Tick)
    /\ \A c \in Clients : /\ WF_proxyVars(Retry(c)) /\ WF_proxyVars(ClientGivesUp(c))
                          /\ WF_proxyVars(ProxyStep(c))

-----------------------------------------------------------------------------
(* Properties *)

(* The longest that a request may stay open, and any request may.          *)
Most(w) == w.more * w.span + w.rest
Longest == Waits * MaxSpan

(* The requests that may stay open for r or longer, told apart by a number.*)
OpenFrom(counts, r) ==
    UNION {{w} \X (1..counts[w]) : w \in {v \in Waiting : Most(v) >= r}}

(* Plain requests of one client that are open upstream.                    *)
OpenPlain(c) ==
    Cardinality(OpenFrom(left[c], 0))
    + (IF req[c].phase = "upstream" THEN 1 ELSE 0)

(* However often a client gives up and tries again, and however slowly the *)
(* upstream takes and answers its requests, the proxy has no more of its   *)
(* plain ones open upstream than begin while one can stay open: that is    *)
(* the longest timeout of the routes once for each wait, not once in all   *)
(* (call_llm's 600 s against UPSTREAM_TIMEOUT_S of httpx).                 *)
PileUpBounded ==
    \A c \in Clients : OpenPlain(c) <= Longest \div ClientTimeout + 1

(* A request is forwarded to the url the file advertises, or to one it     *)
(* replaced less than a ttl ago by a file of the same mtime                *)
(* (get_managed_vllm_url: "an mtime bump invalidates the cached value").   *)
FreshUrl ==
    [][\A c \in Clients :
         /\ req[c].phase = "received" /\ call[c].route = "managed"
         /\ req'[c].phase \in {"upstream", "streaming"}
         => \/ Discovered(c) = file.url
            \/ file.tied /\ gone[Discovered(c)] < Ttl]_proxyVars

(* Every plain LLM call returns or raises, whatever the upstream does.     *)
CallEnds ==
    \A c \in Clients :
       call[c].state = "waiting" /\ ~call[c].stream
       ~> call[c].state \in {"done", "raised"}
=============================================================================
