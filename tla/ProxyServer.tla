----------------------------- MODULE ProxyServer -----------------------------
(***************************************************************************)
(* The requests of a proxy: create_message and count_tokens of              *)
(* proxy/server.py, the client cache of proxy/client_factory.py, the        *)
(* clients of core/llm/clients/litellm.py with the credential cache of      *)
(* core/llm/credentials.py, and the metrics of proxy/metrics.py.            *)
(*                                                                          *)
(* One event loop runs them: between two awaits a handler is atomic.  The   *)
(* critical sections of get_client and of the credential manager never      *)
(* suspend, so each is one step here.  Keys are numbered; the upstream      *)
(* accepts the newest key only.                                      *)
(***************************************************************************)
EXTENDS Integers, Sequences, FiniteSets

CONSTANTS
  Requests,        \* requests of one behaviour
  Models,          \* models the tiers map to
  MaxRotations,    \* times the key is replaced upstream and in the store
  MaxExpiries,     \* times the cached clients and credentials pass their TTL
  MaxAttempts      \* attempts of a completion (tenacity: 3)

ASSUME ProxyServerAssumption ==
  /\ IsFiniteSet(Requests) /\ MaxRotations \in Nat /\ MaxExpiries \in Nat /\ MaxAttempts \in Nat /\ MaxAttempts > 0

VARIABLES
  req,             \* request -> its progress
  refreshLock,     \* holder of TierClientFactory._refresh_lock
  cache,           \* model -> client cached for it, 0 for none
  clients,         \* the clients made: the key each has taken, 0 for none yet
  credential,      \* key in the credential manager, 0 for none
  storedKey,       \* key in the environment or the credentials file, 0 for none
  newestKey,       \* the key the upstream accepts
  refused,         \* keys refused by the upstream since they were last read from the store
  metrics,         \* requests counted, per outcome
  expiries         \* TTLs passed

serverVars == <<req, refreshLock, cache, clients, credential, storedKey, newestKey, refused, metrics, expiries>>

NoOne == "none"
Kinds == {"message", "stream", "count"}
NewRequest == [kind |-> "none", model |-> "none", at |-> "idle", client |-> 0, attempts |-> 0,
               retried |-> FALSE, status |-> 0, failed |-> FALSE, counted |-> 0]

Set(r, f) == req' = [req EXCEPT ![r] = [g \in DOMAIN @ |-> IF g \in DOMAIN f THEN f[g] ELSE @[g]]]

ServerInit ==
  /\ req = [r \in Requests |-> NewRequest]
  /\ refreshLock = NoOne
  /\ cache = [m \in Models |-> 0]
  /\ clients = <<>>
  /\ credential = 0 /\ storedKey = 1 /\ newestKey = 1 /\ refused = {}
  /\ metrics = [ok |-> 0, failed |-> 0]
  /\ expiries = 0

----------------------------------------------------------------------------
(* Answers.  record_request counts a request once it is answered, except    *)
(* for the answers given as HTTPException before a client was called.       *)

Counted(failed) == metrics' = [metrics EXCEPT !.ok = IF failed THEN @ ELSE @ + 1,
                                              !.failed = IF failed THEN @ + 1 ELSE @]

Answer(r, status, failed) ==
  /\ Set(r, [at |-> "answered", status |-> status, failed |-> failed, counted |-> req[r].counted + 1])
  /\ Counted(failed)

AnswerUncounted(r, status) ==
  /\ Set(r, [at |-> "answered", status |-> status, failed |-> TRUE])
  /\ UNCHANGED metrics

(* As if a request that fails were counted only while it is handled.        *)
FailUncounted(r, status) == AnswerUncounted(r, status)

(* count_tokens never records; its errors are answered with 500.            *)
Fail(r, status) ==
  IF req[r].kind = "count" THEN AnswerUncounted(r, status) ELSE Answer(r, status, TRUE)

----------------------------------------------------------------------------
(* Arrival and routing: a tier that cannot be resolved is answered before   *)
(* anything is tried, a conversion that raises by the outer handler.        *)

Arrive(r, kind, model) ==
  /\ req[r].at = "idle"
  /\ Set(r, [kind |-> kind, model |-> model, at |-> "routing"])
  /\ UNCHANGED <<refreshLock, cache, clients, credential, storedKey, newestKey, refused, metrics, expiries>>

NoTier(r) ==
  /\ req[r].at = "routing" /\ AnswerUncounted(r, 500)
  /\ UNCHANGED <<refreshLock, cache, clients, credential, storedKey, newestKey, refused, expiries>>

ConversionFails(r) ==
  /\ req[r].at = "routing" /\ Fail(r, 500)
  /\ UNCHANGED <<refreshLock, cache, clients, credential, storedKey, newestKey, refused, expiries>>

Route(r) ==
  /\ req[r].at = "routing" /\ Set(r, [at |-> "client"])
  /\ UNCHANGED <<refreshLock, cache, clients, credential, storedKey, newestKey, refused, metrics, expiries>>

----------------------------------------------------------------------------
(* get_client: a cached client is taken without the lock, a new one made    *)
(* under it.  The lock is free or held for ever: only a refresh awaits      *)
(* while it holds it.                                                       *)

UseCached(r) ==
  /\ req[r].at = "client" /\ cache[req[r].model] # 0
  /\ Set(r, [at |-> "calling", client |-> cache[req[r].model]])
  /\ UNCHANGED <<refreshLock, cache, clients, credential, storedKey, newestKey, refused, metrics, expiries>>

MakeClient(r) ==
  /\ req[r].at = "client" /\ cache[req[r].model] = 0 /\ refreshLock = NoOne
  /\ clients' = Append(clients, 0)
  /\ cache' = [cache EXCEPT ![req[r].model] = Len(clients')]
  /\ Set(r, [at |-> "calling", client |-> Len(clients')])
  /\ UNCHANGED <<refreshLock, credential, storedKey, newestKey, refused, metrics, expiries>>

(* A token count needs no upstream: it estimates and answers.               *)
CountTokens(r) ==
  /\ req[r].at = "calling" /\ req[r].kind = "count"
  /\ Set(r, [at |-> "answered", status |-> 200])
  /\ UNCHANGED <<refreshLock, cache, clients, credential, storedKey, newestKey, refused, metrics, expiries>>

(* LiteLLMClient._get_client: a client takes its key when it is first used, *)
(* from the credential manager, and keeps it.                               *)
TakeKey(r) ==
  /\ req[r].at = "calling" /\ req[r].kind # "count" /\ clients[req[r].client] = 0
  /\ IF credential = 0 /\ storedKey = 0
       THEN Fail(r, IF req[r].kind = "stream" THEN 200 ELSE 500) /\ UNCHANGED <<clients, credential>>
            /\ UNCHANGED refused
       ELSE LET key == IF credential # 0 THEN credential ELSE storedKey
            IN /\ clients' = [clients EXCEPT ![req[r].client] = key]
               /\ credential' = key
               /\ refused' = IF credential = 0 THEN refused \ {key} ELSE refused
               /\ UNCHANGED <<req, metrics>>
  /\ UNCHANGED <<refreshLock, cache, storedKey, newestKey, expiries>>

HasKey(r) == req[r].at = "calling" /\ req[r].kind # "count" /\ clients[req[r].client] # 0
Accepted(r) == clients[req[r].client] = newestKey

UpstreamAnswers(r) ==
  /\ HasKey(r) /\ Accepted(r)
  /\ Answer(r, 200, FALSE)
  /\ UNCHANGED <<refreshLock, cache, clients, credential, storedKey, newestKey, refused, expiries>>

\* Mutant: no limit on the attempts.
RetriesForEver(r) == req[r].kind = "message"

(* A transient error of a completion is tried again; streams, and a         *)
(* completion out of attempts, fail.  A stream has sent its status before.  *)
AttemptsLeft(r) == req[r].kind = "message" /\ req[r].attempts + 1 < MaxAttempts

(* The count never gets past MaxAttempts; the remainder only bounds it.     *)
CountAttempts(n) == n % (MaxAttempts + 1)

UpstreamFails(r) ==
  /\ HasKey(r)
  /\ IF AttemptsLeft(r)
       THEN Set(r, [attempts |-> CountAttempts(req[r].attempts + 1)]) /\ UNCHANGED metrics
       ELSE Answer(r, IF req[r].kind = "stream" THEN 200 ELSE 500, TRUE)
  /\ UNCHANGED <<refreshLock, cache, clients, credential, storedKey, newestKey, refused, expiries>>

----------------------------------------------------------------------------
(* A refused key is dropped from the credential manager.  A completion then *)
(* refreshes its client once: invalidate_and_retry drops the cached clients *)
(* of the model and asks for a new one while it holds the lock get_client   *)
(* needs to make it.                                                        *)

\* Mutant: the refused credential is kept.
AfterRefusalKept == credential

AfterRefusal == 0

Refuse(r) ==
  /\ HasKey(r) /\ ~Accepted(r)
  /\ refused' = refused \cup {clients[req[r].client]}
  /\ credential' = AfterRefusal
  /\ IF req[r].kind = "stream" \/ req[r].retried
       THEN Answer(r, IF req[r].kind = "stream" THEN 200 ELSE 500, TRUE)
       ELSE Set(r, [at |-> "invalidating"]) /\ UNCHANGED metrics
  /\ UNCHANGED <<refreshLock, cache, clients, storedKey, newestKey, expiries>>

Invalidate(r) ==
  /\ req[r].at = "invalidating" /\ refreshLock = NoOne
  /\ refreshLock' = r
  /\ cache' = [cache EXCEPT ![req[r].model] = 0]
  /\ Set(r, [at |-> "client", retried |-> TRUE, attempts |-> 0])
  /\ UNCHANGED <<clients, credential, storedKey, newestKey, refused, metrics, expiries>>

----------------------------------------------------------------------------
(* The world: the upstream replaces its key; the store gets the new one, or *)
(* loses its key; caches pass their TTL.                                    *)

RotateKey ==
  /\ newestKey <= MaxRotations
  /\ newestKey' = newestKey + 1
  /\ UNCHANGED <<req, refreshLock, cache, clients, credential, storedKey, refused, metrics, expiries>>

StoreKey(key) ==
  /\ storedKey # 0 /\ storedKey' = key /\ storedKey' # storedKey
  /\ UNCHANGED <<req, refreshLock, cache, clients, credential, newestKey, refused, metrics, expiries>>

ExpireClient(m) ==
  /\ expiries < MaxExpiries /\ cache[m] # 0
  /\ expiries' = expiries + 1 /\ cache' = [cache EXCEPT ![m] = 0]
  /\ UNCHANGED <<req, refreshLock, clients, credential, storedKey, newestKey, refused, metrics>>

ExpireCredential ==
  /\ expiries < MaxExpiries /\ credential # 0
  /\ expiries' = expiries + 1 /\ credential' = 0
  /\ UNCHANGED <<req, refreshLock, cache, clients, storedKey, newestKey, refused, metrics>>

Handle(r) ==
  \/ NoTier(r) \/ ConversionFails(r) \/ Route(r)
  \/ UseCached(r) \/ MakeClient(r) \/ CountTokens(r) \/ TakeKey(r)
  \/ UpstreamAnswers(r) \/ UpstreamFails(r) \/ Refuse(r)
  \/ Invalidate(r)

ServerNext ==
  \/ \E r \in Requests : Handle(r) \/ \E k \in Kinds, m \in Models : Arrive(r, k, m)
  \/ RotateKey \/ (\E key \in {0, newestKey} : StoreKey(key))
  \/ ExpireCredential \/ \E m \in Models : ExpireClient(m)

(* The event loop resumes a handler that can go on, and the HTTP client     *)
(* gives every call of the upstream an end (its timeout).                   *)
ServerFairness == \A r \in Requests : WF_serverVars(Handle(r))

----------------------------------------------------------------------------
(* The state of the server has its type.                                    *)
ServerTypeOK ==
  /\ \A r \in Requests :
       /\ req[r].kind \in Kinds \cup {"none"} /\ req[r].model \in Models \cup {"none"}
       /\ req[r].at \in {"idle", "routing", "client", "calling", "invalidating", "answered"}
       /\ req[r].client \in 0 .. Len(clients) /\ req[r].attempts \in 0 .. MaxAttempts
       /\ req[r].status \in {0, 200, 500} /\ req[r].counted \in 0 .. 1
  /\ \A m \in Models : cache[m] \in 0 .. Len(clients)
  /\ refreshLock \in Requests \cup {NoOne}
  /\ {credential, storedKey, newestKey} \cup refused \subseteq 0 .. MaxRotations + 1

(* The credential manager never hands out a key that was refused since it   *)
(* was read from the store, however requests, refusals, refreshes and       *)
(* expiries interleave: only a store that is behind brings a refused key    *)
(* back.                                                                    *)
RefusedKeysAreNotCached == credential \notin refused

(* The metrics add up: once a client was called for it, a message or a      *)
(* stream that is answered is counted exactly once, under the outcome its   *)
(* answer has, and nothing else is.                                         *)
MetricsMatchAnswers ==
  LET answered(f) == {r \in Requests : req[r].at = "answered" /\ req[r].counted = 1 /\ req[r].failed = f}
  IN /\ metrics = [ok |-> Cardinality(answered(FALSE)), failed |-> Cardinality(answered(TRUE))]
     /\ \A r \in Requests :
          req[r].at = "answered" /\ req[r].client # 0 => (req[r].counted = 1 <=> req[r].kind # "count")

(* Every request is answered: the attempts of a completion and its one      *)
(* refresh end.                                                             *)
EveryRequestIsAnswered == \A r \in Requests : req[r].at # "idle" ~> req[r].at = "answered"

(* Requests are answered at least as long as no refresh of a client is      *)
(* under way: whatever the keys, the caches and the failures upstream.      *)
AnsweredUnlessRefreshing ==
  \A r \in Requests : req[r].at # "idle" ~> req[r].at = "answered" \/ refreshLock # NoOne

(* Keys and metrics stay right however requests overlap: a refused key is   *)
(* not what the credential manager holds for the next client - one that was *)
(* made before may still use it - and each answer is counted once.          *)
RequestsAreAccounted == ServerTypeOK /\ RefusedKeysAreNotCached /\ MetricsMatchAnswers
=============================================================================
