--------------------------- MODULE ConversationProofs ---------------------------
(***************************************************************************)
(* Proofs about what passes between an agent and its models: the requests  *)
(* of a proxy, the rounds of the multi-model workflows, what is handed     *)
(* from one session to the next, a streamed answer and a walkthrough.      *)
(***************************************************************************)
EXTENDS ProxyServer, ReviewWorkflow, Handoff, ProxyStream, Walkthrough, ProxyRequests, FiniteSetTheorems,
        SequenceTheorems, WellFoundedInduction, TLAPS

-----------------------------------------------------------------------------
(***************************************************************************)
(* ProxyServer, for any requests, models, rotations, expiries and attempts. *)
(*                                                                         *)
(* A request has no client before it is routed, one while it is served, and *)
(* is counted only by its answer (Progress); the metrics tally the answers. *)
(* A refused key leaves the credential manager in the step it is refused in, *)
(* and comes back only from the store.                                     *)
(***************************************************************************)

ServerSpec == ServerInit /\ [][ServerNext]_serverVars

Statuses == {0, 200, 500}
RequestTypes ==
    [kind : Kinds \cup {"none"}, model : Models \cup {"none"},
     at : {"idle", "routing", "client", "calling", "invalidating", "answered"},
     client : Nat, attempts : 0 .. MaxAttempts, retried : BOOLEAN,
     status : Statuses, failed : BOOLEAN, counted : 0 .. 1]

ServerTypes ==
    /\ req \in [Requests -> RequestTypes]
    /\ refreshLock \in Requests \cup {NoOne}
    /\ clients \in Seq(Nat) /\ cache \in [Models -> 0 .. Len(clients)]
    /\ credential \in Nat /\ storedKey \in Nat /\ newestKey \in Nat
    /\ refused \in SUBSET Nat /\ expiries \in Nat
    /\ metrics \in [ok : Nat, failed : Nat]

\* Every key is one the upstream had.
KeysAreKnown ==
    /\ newestKey <= MaxRotations + 1 /\ credential <= newestKey /\ storedKey <= newestKey
    /\ \A key \in refused : key \in 1 .. newestKey
    /\ \A c \in DOMAIN clients : clients[c] <= newestKey

\* How far a request is.
Progress(q) ==
    /\ q.client \in 0 .. Len(clients)
    /\ q.at # "answered" => q.counted = 0
    /\ q.at \in {"idle", "routing"} => q.client = 0
    /\ q.at # "idle" => q.kind \in Kinds /\ q.model \in Models
    /\ q.at \in {"calling", "invalidating"} => q.client # 0
    /\ q.at = "answered" /\ q.client # 0 => (q.counted = 1 <=> q.kind # "count")

Successes == {r \in Requests : req[r].at = "answered" /\ req[r].counted = 1 /\ ~req[r].failed}
Failures == {r \in Requests : req[r].at = "answered" /\ req[r].counted = 1 /\ req[r].failed}
Tallied == metrics = [ok |-> Cardinality(Successes), failed |-> Cardinality(Failures)]

Accounted ==
    /\ req \in [Requests -> RequestTypes] /\ metrics \in [ok : Nat, failed : Nat]
    /\ (\A r \in Requests : Progress(req[r])) /\ Tallied

ServerInv ==
    /\ ServerTypes /\ KeysAreKnown /\ (\A r \in Requests : Progress(req[r]))
    /\ RefusedKeysAreNotCached /\ Tallied

\* What Set makes of a request.
LEMMA SetIs ==
  ASSUME ServerTypes, NEW r \in Requests, NEW f, Set(r, f)
  PROVE  req' = [req EXCEPT ![r] =
           [kind |-> IF "kind" \in DOMAIN f THEN f.kind ELSE req[r].kind,
            model |-> IF "model" \in DOMAIN f THEN f.model ELSE req[r].model,
            at |-> IF "at" \in DOMAIN f THEN f.at ELSE req[r].at,
            client |-> IF "client" \in DOMAIN f THEN f.client ELSE req[r].client,
            attempts |-> IF "attempts" \in DOMAIN f THEN f.attempts ELSE req[r].attempts,
            retried |-> IF "retried" \in DOMAIN f THEN f.retried ELSE req[r].retried,
            status |-> IF "status" \in DOMAIN f THEN f.status ELSE req[r].status,
            failed |-> IF "failed" \in DOMAIN f THEN f.failed ELSE req[r].failed,
            counted |-> IF "counted" \in DOMAIN f THEN f.counted ELSE req[r].counted]]
<1>1. PICK q \in RequestTypes : q = req[r]
  BY DEF ServerTypes
<1>2. DOMAIN q = {"kind", "model", "at", "client", "attempts", "retried", "status", "failed", "counted"}
  BY DEF RequestTypes
<1>3. req' = [req EXCEPT ![r] = [g \in DOMAIN q |-> IF g \in DOMAIN f THEN f[g] ELSE q[g]]]
  BY <1>1 DEF Set
<1>4. PICK h : h = [g \in DOMAIN q |-> IF g \in DOMAIN f THEN f[g] ELSE q[g]]
  OBVIOUS
<1>5. h = [kind |-> h.kind, model |-> h.model, at |-> h.at, client |-> h.client,
           attempts |-> h.attempts, retried |-> h.retried, status |-> h.status, failed |-> h.failed, counted |-> h.counted]
  BY <1>2, <1>4
<1>6. /\ h.kind = IF "kind" \in DOMAIN f THEN f.kind ELSE q.kind
      /\ h.model = IF "model" \in DOMAIN f THEN f.model ELSE q.model
      /\ h.at = IF "at" \in DOMAIN f THEN f.at ELSE q.at
      /\ h.client = IF "client" \in DOMAIN f THEN f.client ELSE q.client
      /\ h.attempts = IF "attempts" \in DOMAIN f THEN f.attempts ELSE q.attempts
      /\ h.retried = IF "retried" \in DOMAIN f THEN f.retried ELSE q.retried
      /\ h.status = IF "status" \in DOMAIN f THEN f.status ELSE q.status
      /\ h.failed = IF "failed" \in DOMAIN f THEN f.failed ELSE q.failed
      /\ h.counted = IF "counted" \in DOMAIN f THEN f.counted ELSE q.counted
  BY <1>2, <1>4
<1>7. req' = [req EXCEPT ![r] = h]
  BY <1>3, <1>4
<1>8. QED
  BY ZenonT(40), <1>1, <1>5, <1>6, <1>7

\* A request that moves on and is not answered, or is answered and counted or not, leaves
\* the metrics telling what has been answered.
LEMMA RequestMoves ==
  ASSUME ServerInv, NEW r \in Requests, NEW q \in RequestTypes, req' = [req EXCEPT ![r] = q],
         req[r].at # "answered", Progress(q)', Len(clients) \in Nat, Len(clients') \in Nat,
         Len(clients') >= Len(clients),
         \/ metrics' = metrics /\ (q.at # "answered" \/ q.counted = 0)
         \/ /\ q.at = "answered" /\ q.counted = 1
            /\ metrics' = [ok |-> IF q.failed THEN metrics.ok ELSE metrics.ok + 1,
                           failed |-> IF q.failed THEN metrics.failed + 1 ELSE metrics.failed]
  PROVE  Accounted'
<1>1. /\ req \in [Requests -> RequestTypes] /\ metrics \in [ok : Nat, failed : Nat]
      /\ metrics = [ok |-> Cardinality(Successes), failed |-> Cardinality(Failures)]
      /\ \A x \in Requests : Progress(req[x])
  BY DEF ServerInv, ServerTypes, Tallied
<1>2. req'[r] = q /\ \A x \in Requests \ {r} : req'[x] = req[x]
  BY <1>1
<1>3. \A x \in Requests : Progress(req[x])'
  <2>1. ASSUME NEW x \in Requests \ {r} PROVE Progress(req[x])'
    BY <1>1, <1>2 DEF Progress
  <2>2. Progress(req[r])'
    BY <1>2 DEF Progress
  <2>3. QED
    BY <2>1, <2>2
<1>4. /\ IsFiniteSet(Successes) /\ IsFiniteSet(Failures) /\ r \notin Successes /\ r \notin Failures
      /\ Cardinality(Successes) \in Nat /\ Cardinality(Failures) \in Nat
  BY ProxyServerAssumption, FS_Subset, FS_CardinalityType DEF Successes, Failures
<1>a. req' \in [Requests -> RequestTypes] /\ metrics' \in [ok : Nat, failed : Nat]
  BY <1>1 DEF RequestTypes
<1>5. CASE q.at # "answered" \/ q.counted = 0
  <2>1. Successes' = Successes /\ Failures' = Failures
    BY <1>2, <1>5 DEF Successes, Failures
  <2>2. metrics' = metrics
    BY <1>5
  <2>3. QED
    BY <1>1, <1>3, <1>a, <2>1, <2>2 DEF Accounted, Tallied
<1>6. CASE q.at = "answered" /\ q.counted = 1
  <2>1. metrics' = [ok |-> IF q.failed THEN metrics.ok ELSE metrics.ok + 1,
                    failed |-> IF q.failed THEN metrics.failed + 1 ELSE metrics.failed]
    BY <1>6
  <2>2. CASE q.failed
    <3>1. Successes' = Successes /\ Failures' = Failures \cup {r}
      BY <1>2, <1>6, <2>2 DEF Successes, Failures
    <3>2. Cardinality(Failures') = Cardinality(Failures) + 1
      BY <1>4, <3>1, FS_AddElement
    <3>3. QED
      BY <1>1, <1>3, <1>4, <1>a, <2>1, <2>2, <3>1, <3>2 DEF Accounted, Tallied
  <2>3. CASE ~q.failed
    <3>1. Successes' = Successes \cup {r} /\ Failures' = Failures
      BY <1>2, <1>6, <2>3 DEF Successes, Failures
    <3>2. Cardinality(Successes') = Cardinality(Successes) + 1
      BY <1>4, <3>1, FS_AddElement
    <3>3. QED
      BY <1>1, <1>3, <1>4, <1>a, <2>1, <2>3, <3>1, <3>2 DEF Accounted, Tallied
  <2>4. QED
    BY <2>2, <2>3
<1>7. QED
  BY <1>5, <1>6 DEF RequestTypes

\* The three ways to be answered: counted, by an error before a client was called, and
\* with the estimate of a token count.
LEMMA AnswerCounts ==
  ASSUME ServerInv, NEW r \in Requests, req[r].at \notin {"idle", "answered"},
         req[r].kind # "count" \/ req[r].client = 0,
         NEW status \in Statuses, Answer(r, status, TRUE) \/ Answer(r, status, FALSE), clients' = clients
  PROVE  Accounted'
<1>1. PICK b \in BOOLEAN : /\ Set(r, [at |-> "answered", status |-> status, failed |-> b, counted |-> req[r].counted + 1])
                           /\ metrics' = [ok |-> IF b THEN metrics.ok ELSE metrics.ok + 1,
                                          failed |-> IF b THEN metrics.failed + 1 ELSE metrics.failed]
  <2>1. CASE Answer(r, status, TRUE)
    <3>1. /\ Set(r, [at |-> "answered", status |-> status, failed |-> TRUE, counted |-> req[r].counted + 1])
          /\ metrics' = [ok |-> metrics.ok, failed |-> metrics.failed + 1]
      BY <2>1 DEF Answer, Counted, ServerInv, ServerTypes
    <3>2. QED
      BY <3>1
  <2>2. CASE Answer(r, status, FALSE)
    <3>1. /\ Set(r, [at |-> "answered", status |-> status, failed |-> FALSE, counted |-> req[r].counted + 1])
          /\ metrics' = [ok |-> metrics.ok + 1, failed |-> metrics.failed]
      BY <2>2 DEF Answer, Counted, ServerInv, ServerTypes
    <3>2. QED
      BY <3>1
  <2>3. QED
    BY <2>1, <2>2
<1>2. PICK f : f = [at |-> "answered", status |-> status, failed |-> b, counted |-> req[r].counted + 1]
  OBVIOUS
<1>3. /\ req[r] \in RequestTypes /\ req[r].counted = 0 /\ Progress(req[r]) /\ ServerTypes /\ Len(clients) \in Nat
      /\ Len(clients') \in Nat /\ Len(clients') >= Len(clients) /\ req[r].at # "answered"
  BY DEF ServerInv, ServerTypes, Progress
<1>4. PICK q : q = [kind |-> req[r].kind, model |-> req[r].model, at |-> "answered", client |-> req[r].client,
                    attempts |-> req[r].attempts, retried |-> req[r].retried, status |-> status,
                    failed |-> b, counted |-> 1]
  OBVIOUS
<1>5. req' = [req EXCEPT ![r] = q]
  <2>1. Set(r, f)
    BY <1>1, <1>2
  <2>2. QED
    BY <1>2, <1>3, <1>4, <2>1, SetIs
<1>6. q \in RequestTypes
  BY <1>3, <1>4 DEF RequestTypes
<1>7. Progress(q)'
  BY <1>3, <1>4 DEF Progress, Kinds
<1>8. q.at = "answered" /\ q.counted = 1 /\ q.failed = b
  BY <1>4
<1>9. QED
  BY <1>1, <1>3, <1>5, <1>6, <1>7, <1>8, RequestMoves

LEMMA ErrorIsUncounted ==
  ASSUME ServerInv, NEW r \in Requests, req[r].at = "routing", NEW status \in Statuses,
         AnswerUncounted(r, status), clients' = clients
  PROVE  Accounted'
<1>1. PICK b : /\ b \in BOOLEAN /\ Set(r, [at |-> "answered", status |-> status, failed |-> b])
               /\ metrics' = metrics
  BY DEF AnswerUncounted
<1>2. PICK f : f = [at |-> "answered", status |-> status, failed |-> b]
  OBVIOUS
<1>3. /\ req[r] \in RequestTypes /\ req[r].counted = 0 /\ req[r].client = 0 /\ Progress(req[r]) /\ ServerTypes
      /\ Len(clients) \in Nat /\ Len(clients') \in Nat /\ Len(clients') >= Len(clients)
  BY DEF ServerInv, ServerTypes, Progress
<1>4. PICK q : q = [kind |-> req[r].kind, model |-> req[r].model, at |-> "answered", client |-> req[r].client,
                    attempts |-> req[r].attempts, retried |-> req[r].retried, status |-> status,
                    failed |-> b, counted |-> 0]
  OBVIOUS
<1>5. req' = [req EXCEPT ![r] = q]
  <2>1. Set(r, f)
    BY <1>1, <1>2
  <2>2. QED
    BY <1>2, <1>3, <1>4, <2>1, SetIs
<1>6. q \in RequestTypes /\ q.counted = 0
  BY <1>1, <1>3, <1>4 DEF RequestTypes
<1>7. Progress(q)'
  BY <1>3, <1>4 DEF Progress
<1>8. QED
  BY <1>1, <1>3, <1>5, <1>6, <1>7, RequestMoves

LEMMA EstimateIsUncounted ==
  ASSUME ServerInv, NEW r \in Requests, CountTokens(r)
  PROVE  Accounted'
<1>1. PICK f : f = [at |-> "answered", status |-> 200]
  OBVIOUS
<1>2. Set(r, f) /\ metrics' = metrics /\ clients' = clients /\ req[r].at = "calling" /\ req[r].kind = "count"
  BY <1>1 DEF CountTokens
<1>3. /\ req[r] \in RequestTypes /\ req[r].counted = 0 /\ Progress(req[r]) /\ ServerTypes /\ Len(clients) \in Nat
      /\ Len(clients') \in Nat /\ Len(clients') >= Len(clients) /\ req[r].at # "answered"
  BY <1>2 DEF ServerInv, ServerTypes, Progress
<1>4. PICK q : q = [kind |-> req[r].kind, model |-> req[r].model, at |-> "answered", client |-> req[r].client,
                    attempts |-> req[r].attempts, retried |-> req[r].retried, status |-> 200,
                    failed |-> req[r].failed, counted |-> req[r].counted]
  OBVIOUS
<1>5. req' = [req EXCEPT ![r] = q]
  BY <1>1, <1>2, <1>3, <1>4, SetIs
<1>6. q \in RequestTypes /\ q.counted = 0
  BY <1>3, <1>4 DEF RequestTypes, Statuses
<1>7. Progress(q)'
  BY <1>2, <1>3, <1>4 DEF Progress
<1>8. QED
  BY <1>2, <1>3, <1>5, <1>6, <1>7, RequestMoves

\* A request that goes on is not answered yet.
LEMMA GoesOn ==
  ASSUME ServerInv, NEW r \in Requests, req[r].at # "answered", metrics' = metrics,
         NEW q \in RequestTypes, req' = [req EXCEPT ![r] = q], q.counted = 0, q.kind \in Kinds, q.model \in Models,
         q.at \in {"routing", "client", "calling", "invalidating"},
         q.client <= Len(clients'), Len(clients') \in Nat, Len(clients') >= Len(clients),
         q.at = "routing" => q.client = 0, q.at \in {"calling", "invalidating"} => q.client # 0
  PROVE  Accounted'
<1>1. Len(clients) \in Nat
  BY DEF ServerInv, ServerTypes
<1>2. Progress(q)' /\ q.at # "answered"
  BY DEF Progress, RequestTypes
<1>3. QED
  BY <1>1, <1>2, RequestMoves

\* A step that changes only requests and metrics, and those well, keeps the invariant.
LEMMA Framed ==
  ASSUME ServerInv, Accounted',
         UNCHANGED <<refreshLock, cache, clients, credential, storedKey, newestKey, refused, expiries>>
  PROVE  ServerInv'
  BY DEF ServerInv, ServerTypes, KeysAreKnown, RefusedKeysAreNotCached, Accounted

LEMMA AnswersKeep ==
  ASSUME ServerInv, NEW r \in Requests,
         NoTier(r) \/ ConversionFails(r) \/ CountTokens(r) \/ UpstreamAnswers(r)
  PROVE  ServerInv'
<1>1. 200 \in Statuses /\ 500 \in Statuses
  BY DEF Statuses
<1>2. Progress(req[r])
  BY DEF ServerInv
<1>3. CASE NoTier(r)
  <2>1. AnswerUncounted(r, 500) /\ req[r].at = "routing" /\ clients' = clients
    BY <1>3 DEF NoTier
  <2>2. Accounted'
    BY <1>1, <2>1, ErrorIsUncounted
  <2>3. QED
    BY <1>3, <2>2, Framed DEF NoTier
<1>4. CASE ConversionFails(r)
  <2>1. req[r].at = "routing" /\ clients' = clients /\ req[r].client = 0
    BY <1>2, <1>4 DEF ConversionFails, Progress
  <2>2. AnswerUncounted(r, 500) \/ Answer(r, 500, TRUE)
    BY <1>4 DEF ConversionFails, Fail
  <2>3. Accounted'
    <3>1. CASE AnswerUncounted(r, 500)
      BY <1>1, <2>1, <3>1, ErrorIsUncounted
    <3>2. CASE Answer(r, 500, TRUE)
      BY ZenonT(40), <1>1, <2>1, <3>2, AnswerCounts
    <3>3. QED
      BY <2>2, <3>1, <3>2
  <2>4. QED
    BY <1>4, <2>3, Framed DEF ConversionFails
<1>5. CASE CountTokens(r)
  <2>1. Accounted'
    BY <1>5, EstimateIsUncounted
  <2>2. metrics' = metrics
    BY <1>5 DEF CountTokens
  <2>3. QED
    BY <1>5, <2>1, Framed DEF CountTokens
<1>6. CASE UpstreamAnswers(r)
  <2>1. Answer(r, 200, FALSE) /\ req[r].at = "calling" /\ req[r].kind # "count" /\ clients' = clients
    BY <1>6 DEF UpstreamAnswers, HasKey
  <2>2. Accounted'
    BY <1>1, <2>1, AnswerCounts
  <2>3. QED
    BY <1>6, <2>2, Framed DEF UpstreamAnswers
<1>7. QED
  BY <1>3, <1>4, <1>5, <1>6

\* Steps on the way to an answer that take no key.
LEMMA WayKeeps ==
  ASSUME ServerInv, NEW r \in Requests,
         \/ \E k \in Kinds, m \in Models : Arrive(r, k, m)
         \/ Route(r) \/ UseCached(r)
  PROVE  ServerInv'
<1>1. /\ req[r] \in RequestTypes /\ Progress(req[r]) /\ Len(clients) \in Nat /\ ServerTypes
      /\ cache \in [Models -> 0 .. Len(clients)]
  BY DEF ServerInv, ServerTypes
<1>2. /\ req[r].attempts \in 0 .. MaxAttempts /\ req[r].retried \in BOOLEAN /\ req[r].client \in Nat
  BY <1>1 DEF RequestTypes
<1>3. ASSUME NEW k \in Kinds, NEW m \in Models, Arrive(r, k, m) PROVE ServerInv'
  <2>1. PICK f : f = [kind |-> k, model |-> m, at |-> "routing"]
    OBVIOUS
  <2>2. Set(r, f) /\ req[r].at = "idle" /\ metrics' = metrics /\ clients' = clients
    BY <1>3, <2>1 DEF Arrive
  <2>3. req[r].client = 0
    BY <1>1, <2>2 DEF Progress
  <2>3a. PICK q : q = [kind |-> k, model |-> m, at |-> "routing", client |-> req[r].client,
                   attempts |-> req[r].attempts, retried |-> req[r].retried, status |-> req[r].status, failed |-> req[r].failed, counted |-> 0]
    OBVIOUS
  <2>3b. req[r].counted = 0
    BY <1>1, <2>2 DEF Progress
  <2>3c. req' = [req EXCEPT ![r] = q]
    BY <1>1, <2>1, <2>2, <2>3a, <2>3b, SetIs
  <2>3d. q \in RequestTypes
    BY <1>1, <2>3, <2>3a DEF RequestTypes
  <2>3e. /\ q.counted = 0 /\ q.kind \in Kinds /\ q.model \in Models
         /\ q.at \in {"routing", "client", "calling", "invalidating"}
         /\ q.client <= Len(clients') /\ Len(clients') \in Nat /\ Len(clients') >= Len(clients)
         /\ q.at = "routing" => q.client = 0
         /\ q.at \in {"calling", "invalidating"} => q.client # 0
         /\ req[r].at # "answered" /\ metrics' = metrics
    BY <1>1, <1>2, <2>1, <2>2, <2>3, <2>3a
  <2>4. Accounted'
    BY <2>3c, <2>3d, <2>3e, GoesOn
  <2>5. QED
    BY <1>3, <2>4, Framed DEF Arrive
<1>4. CASE Route(r)
  <2>1. PICK f : f = [at |-> "client"]
    OBVIOUS
  <2>2. Set(r, f) /\ req[r].at = "routing" /\ metrics' = metrics /\ clients' = clients
    BY <1>4, <2>1 DEF Route
  <2>3. req[r].kind \in Kinds /\ req[r].model \in Models /\ req[r].client = 0
    BY <1>1, <2>2 DEF Progress
  <2>3a. PICK q : q = [kind |-> req[r].kind, model |-> req[r].model, at |-> "client", client |-> req[r].client,
                   attempts |-> req[r].attempts, retried |-> req[r].retried, status |-> req[r].status, failed |-> req[r].failed, counted |-> 0]
    OBVIOUS
  <2>3b. req[r].counted = 0
    BY <1>1, <2>2 DEF Progress
  <2>3c. req' = [req EXCEPT ![r] = q]
    BY <1>1, <2>1, <2>2, <2>3a, <2>3b, SetIs
  <2>3d. q \in RequestTypes
    BY <1>1, <2>3, <2>3a DEF RequestTypes
  <2>3e. /\ q.counted = 0 /\ q.kind \in Kinds /\ q.model \in Models
         /\ q.at \in {"routing", "client", "calling", "invalidating"}
         /\ q.client <= Len(clients') /\ Len(clients') \in Nat /\ Len(clients') >= Len(clients)
         /\ q.at = "routing" => q.client = 0
         /\ q.at \in {"calling", "invalidating"} => q.client # 0
         /\ req[r].at # "answered" /\ metrics' = metrics
    BY <1>1, <1>2, <2>1, <2>2, <2>3, <2>3a
  <2>4. Accounted'
    BY <2>3c, <2>3d, <2>3e, GoesOn
  <2>5. QED
    BY <1>4, <2>4, Framed DEF Route
<1>5. CASE UseCached(r)
  <2>1. PICK f : f = [at |-> "calling", client |-> cache[req[r].model]]
    OBVIOUS
  <2>2. /\ Set(r, f) /\ req[r].at = "client" /\ metrics' = metrics /\ clients' = clients
        /\ cache[req[r].model] # 0
    BY <1>5, <2>1 DEF UseCached
  <2>3. req[r].kind \in Kinds /\ req[r].model \in Models
    BY <1>1, <2>2 DEF Progress
  <2>4. cache[req[r].model] \in Nat /\ cache[req[r].model] <= Len(clients)
    BY <1>1, <2>3
  <2>4a. PICK q : q = [kind |-> req[r].kind, model |-> req[r].model, at |-> "calling", client |-> cache[req[r].model],
                   attempts |-> req[r].attempts, retried |-> req[r].retried, status |-> req[r].status, failed |-> req[r].failed, counted |-> 0]
    OBVIOUS
  <2>4b. req[r].counted = 0
    BY <1>1, <2>2 DEF Progress
  <2>4c. req' = [req EXCEPT ![r] = q]
    BY <1>1, <2>1, <2>2, <2>4a, <2>4b, SetIs
  <2>4d. q \in RequestTypes
    BY <1>1, <2>3, <2>4, <2>4a DEF RequestTypes
  <2>4e. /\ q.counted = 0 /\ q.kind \in Kinds /\ q.model \in Models
         /\ q.at \in {"routing", "client", "calling", "invalidating"}
         /\ q.client <= Len(clients') /\ Len(clients') \in Nat /\ Len(clients') >= Len(clients)
         /\ q.at = "routing" => q.client = 0
         /\ q.at \in {"calling", "invalidating"} => q.client # 0
         /\ req[r].at # "answered" /\ metrics' = metrics
    BY <1>1, <1>2, <2>1, <2>2, <2>3, <2>4, <2>4a
  <2>5. Accounted'
    BY <2>4c, <2>4d, <2>4e, GoesOn
  <2>6. QED
    BY <1>5, <2>5, Framed DEF UseCached
<1>6. QED
  BY <1>3, <1>4, <1>5

\* Making a client, taking a key, failing, being refused and refreshing.
LEMMA MakeClientKeeps == ASSUME ServerInv, NEW r \in Requests, MakeClient(r) PROVE ServerInv'
<1>1. /\ req[r] \in RequestTypes /\ Progress(req[r]) /\ Len(clients) \in Nat /\ clients \in Seq(Nat) /\ ServerTypes
      /\ cache \in [Models -> 0 .. Len(clients)]
  BY DEF ServerInv, ServerTypes
<1>2. /\ req[r].attempts \in 0 .. MaxAttempts /\ req[r].retried \in BOOLEAN
  BY <1>1 DEF RequestTypes
<1>3. /\ req[r].at = "client" /\ clients' = Append(clients, 0) /\ metrics' = metrics
      /\ cache' = [cache EXCEPT ![req[r].model] = Len(clients')]
      /\ UNCHANGED <<refreshLock, credential, storedKey, newestKey, refused, expiries>>
  BY DEF MakeClient
<1>4. clients' \in Seq(Nat) /\ Len(clients') = Len(clients) + 1
      /\ \A c \in DOMAIN clients' : clients'[c] = IF c \in DOMAIN clients THEN clients[c] ELSE 0
  BY <1>1, <1>3
<1>a. PICK last : last = Len(clients') /\ last \in Nat
  BY <1>1, <1>4
<1>5. PICK f : f = [at |-> "calling", client |-> last]
  OBVIOUS
<1>6. Set(r, f)
  BY <1>5, <1>a DEF MakeClient
<1>7. req[r].kind \in Kinds /\ req[r].model \in Models
  BY <1>1, <1>3 DEF Progress
<1>8. Accounted'
  <2>1. Len(clients') \in Nat /\ Len(clients') # 0 /\ Len(clients') >= Len(clients)
    BY <1>1, <1>4
  <2>1a. PICK q : q = [kind |-> req[r].kind, model |-> req[r].model, at |-> "calling", client |-> last,
                   attempts |-> req[r].attempts, retried |-> req[r].retried, status |-> req[r].status, failed |-> req[r].failed, counted |-> 0]
    OBVIOUS
  <2>1b. req[r].counted = 0
    BY <1>1, <1>3 DEF Progress
  <2>1c. req' = [req EXCEPT ![r] = q]
    BY <1>1, <1>3, <1>5, <1>6, <2>1a, <2>1b, SetIs
  <2>1d. q \in RequestTypes
    BY <1>1, <1>2, <1>7, <1>a, <2>1a DEF RequestTypes
  <2>1e. /\ q.counted = 0 /\ q.kind \in Kinds /\ q.model \in Models
         /\ q.at \in {"routing", "client", "calling", "invalidating"}
         /\ q.client <= Len(clients') /\ Len(clients') \in Nat /\ Len(clients') >= Len(clients)
         /\ q.at = "routing" => q.client = 0
         /\ q.at \in {"calling", "invalidating"} => q.client # 0
         /\ req[r].at # "answered" /\ metrics' = metrics
    BY <1>1, <1>2, <1>3, <1>5, <1>6, <1>7, <1>a, <2>1, <2>1a
  <2>2. QED
    BY <2>1c, <2>1d, <2>1e, GoesOn
<1>9. cache' \in [Models -> 0 .. Len(clients')]
  <2>1. Len(clients') \in 0 .. Len(clients') /\ \A m \in Models : cache[m] \in 0 .. Len(clients')
    BY <1>1, <1>4
  <2>2. QED
    BY <1>1, <1>3, <2>1
<1>10. KeysAreKnown'
  BY <1>3, <1>4 DEF ServerInv, ServerTypes, KeysAreKnown
<1>11. QED
  BY <1>3, <1>4, <1>8, <1>9, <1>10 DEF ServerInv, ServerTypes, RefusedKeysAreNotCached, Accounted

LEMMA TakeKeyKeeps == ASSUME ServerInv, NEW r \in Requests, TakeKey(r) PROVE ServerInv'
<1>1. req[r].at = "calling" /\ req[r].kind # "count" /\ UNCHANGED <<refreshLock, cache, storedKey, newestKey, expiries>>
  BY DEF TakeKey
<1>2. CASE credential = 0 /\ storedKey = 0
  <2>1. PICK status \in Statuses : Answer(r, status, TRUE) /\ UNCHANGED <<clients, credential, refused>>
    BY ZenonT(40), <1>1, <1>2 DEF TakeKey, Fail, Statuses
  <2>2. Accounted'
    BY <1>1, <2>1, AnswerCounts
  <2>3. QED
    BY <1>1, <2>1, <2>2, Framed
<1>3. CASE ~(credential = 0 /\ storedKey = 0)
  <2>1. PICK key : key = IF credential # 0 THEN credential ELSE storedKey
    OBVIOUS
  <2>2. /\ clients' = [clients EXCEPT ![req[r].client] = key] /\ credential' = key
        /\ refused' = IF credential = 0 THEN refused \ {key} ELSE refused
        /\ UNCHANGED <<req, metrics>>
    BY <1>3, <2>1 DEF TakeKey
  <2>3. key \in Nat /\ key <= newestKey /\ clients \in Seq(Nat) /\ newestKey \in Nat
    BY <2>1 DEF ServerInv, ServerTypes, KeysAreKnown
  <2>a. Progress(req[r])
    BY DEF ServerInv
  <2>b. req[r].client \in DOMAIN clients
    BY <1>1, <2>3, <2>a DEF Progress
  <2>4. clients' \in Seq(Nat) /\ Len(clients') = Len(clients)
        /\ \A c \in DOMAIN clients' : c \in DOMAIN clients /\ (clients'[c] = clients[c] \/ clients'[c] = key)
    BY <2>2, <2>3, <2>b
  <2>5. KeysAreKnown'
    BY <1>1, <2>2, <2>3, <2>4 DEF ServerInv, ServerTypes, KeysAreKnown
  <2>6. RefusedKeysAreNotCached'
    BY <1>3, <2>1, <2>2 DEF ServerInv, RefusedKeysAreNotCached
  <2>7. (\A x \in Requests : Progress(req[x]))' /\ Tallied'
    BY <2>2, <2>4 DEF ServerInv, Progress, Tallied, Successes, Failures
  <2>8. ServerTypes'
    BY <1>1, <2>2, <2>3, <2>4 DEF ServerInv, ServerTypes
  <2>9. QED
    BY <2>5, <2>6, <2>7, <2>8 DEF ServerInv
<1>4. QED
  BY <1>2, <1>3

LEMMA FailKeeps == ASSUME ServerInv, NEW r \in Requests, UpstreamFails(r) PROVE ServerInv'
<1>1. /\ req[r] \in RequestTypes /\ Progress(req[r]) /\ Len(clients) \in Nat /\ clients \in Seq(Nat) /\ ServerTypes
  BY DEF ServerInv, ServerTypes
<1>2. /\ req[r].attempts \in 0 .. MaxAttempts /\ req[r].retried \in BOOLEAN /\ req[r].client \in Nat
  BY <1>1 DEF RequestTypes
<1>3. /\ req[r].at = "calling" /\ req[r].kind # "count"
      /\ UNCHANGED <<refreshLock, cache, clients, credential, storedKey, newestKey, refused, expiries>>
  BY DEF UpstreamFails, HasKey
<1>4. /\ req[r].kind \in Kinds /\ req[r].model \in Models /\ req[r].client # 0 /\ req[r].client <= Len(clients)
  BY <1>1, <1>3 DEF Progress
<1>5. CASE AttemptsLeft(r)
  <2>1. PICK n : n = CountAttempts(req[r].attempts + 1)
    OBVIOUS
  <2>2. n \in 0 .. MaxAttempts
    <3>1. req[r].attempts + 1 < MaxAttempts
      BY <1>5 DEF AttemptsLeft
    <3>2. (req[r].attempts + 1) % (MaxAttempts + 1) = req[r].attempts + 1
      BY <1>2, <3>1, ProxyServerAssumption
    <3>3. QED
      BY <1>2, <2>1, <3>1, <3>2, ProxyServerAssumption DEF CountAttempts
  <2>3. PICK f : f = [attempts |-> n]
    OBVIOUS
  <2>4. Set(r, f) /\ metrics' = metrics
    BY <1>5, <2>1, <2>3 DEF UpstreamFails
  <2>4a. PICK q : q = [kind |-> req[r].kind, model |-> req[r].model, at |-> req[r].at, client |-> req[r].client,
                   attempts |-> n, retried |-> req[r].retried, status |-> req[r].status, failed |-> req[r].failed, counted |-> 0]
    OBVIOUS
  <2>4b. req[r].counted = 0
    BY <1>1, <1>3 DEF Progress
  <2>4c. req' = [req EXCEPT ![r] = q]
    BY <1>1, <2>3, <2>4, <2>4a, <2>4b, SetIs
  <2>4d. q \in RequestTypes
    BY <1>1, <1>2, <1>4, <2>2, <2>4a DEF RequestTypes
  <2>4e. /\ q.counted = 0 /\ q.kind \in Kinds /\ q.model \in Models
         /\ q.at \in {"routing", "client", "calling", "invalidating"}
         /\ q.client <= Len(clients') /\ Len(clients') \in Nat /\ Len(clients') >= Len(clients)
         /\ q.at = "routing" => q.client = 0
         /\ q.at \in {"calling", "invalidating"} => q.client # 0
         /\ req[r].at # "answered" /\ metrics' = metrics
    BY <1>1, <1>2, <1>3, <1>4, <2>2, <2>3, <2>4, <2>4a
  <2>5. Accounted'
    BY <2>4c, <2>4d, <2>4e, GoesOn
  <2>6. QED
    BY <1>3, <2>5, Framed
<1>6. CASE ~AttemptsLeft(r)
  <2>1. PICK status \in Statuses : Answer(r, status, TRUE)
    BY ZenonT(40), <1>6 DEF UpstreamFails, Statuses
  <2>2. Accounted'
    BY <1>3, <2>1, AnswerCounts
  <2>3. QED
    BY <1>3, <2>2, Framed
<1>7. QED
  BY <1>5, <1>6

LEMMA RefuseKeeps == ASSUME ServerInv, NEW r \in Requests, Refuse(r) PROVE ServerInv'
<1>1. /\ req[r] \in RequestTypes /\ Progress(req[r]) /\ Len(clients) \in Nat /\ clients \in Seq(Nat) /\ ServerTypes
  BY DEF ServerInv, ServerTypes
<1>2. /\ req[r].attempts \in 0 .. MaxAttempts /\ req[r].retried \in BOOLEAN /\ req[r].client \in Nat
  BY <1>1 DEF RequestTypes
<1>3. /\ req[r].at = "calling" /\ req[r].kind # "count"
      /\ refused' = refused \cup {clients[req[r].client]} /\ credential' = 0
      /\ clients[req[r].client] # 0
      /\ UNCHANGED <<refreshLock, cache, clients, storedKey, newestKey, expiries>>
  BY DEF Refuse, HasKey, AfterRefusal
<1>4. /\ req[r].kind \in Kinds /\ req[r].model \in Models /\ req[r].client # 0 /\ req[r].client <= Len(clients)
  BY <1>1, <1>3 DEF Progress
<1>5. Accounted'
  <2>1. CASE req[r].kind = "stream" \/ req[r].retried
    <3>1. PICK status \in Statuses : Answer(r, status, TRUE)
      BY ZenonT(40), <2>1 DEF Refuse, Statuses
    <3>2. QED
      BY <1>3, <3>1, AnswerCounts
  <2>2. CASE ~(req[r].kind = "stream" \/ req[r].retried)
    <3>1. PICK f : f = [at |-> "invalidating"]
      OBVIOUS
    <3>2. Set(r, f) /\ metrics' = metrics
      BY <2>2, <3>1 DEF Refuse
    <3>2a. PICK q : q = [kind |-> req[r].kind, model |-> req[r].model, at |-> "invalidating", client |-> req[r].client,
                     attempts |-> req[r].attempts, retried |-> req[r].retried, status |-> req[r].status, failed |-> req[r].failed, counted |-> 0]
      OBVIOUS
    <3>2b. req[r].counted = 0
      BY <1>1, <1>3 DEF Progress
    <3>2c. req' = [req EXCEPT ![r] = q]
      BY <1>1, <3>1, <3>2, <3>2a, <3>2b, SetIs
    <3>2d. q \in RequestTypes
      BY <1>1, <1>2, <1>4, <3>2a DEF RequestTypes
    <3>2e. /\ q.counted = 0 /\ q.kind \in Kinds /\ q.model \in Models
           /\ q.at \in {"routing", "client", "calling", "invalidating"}
           /\ q.client <= Len(clients') /\ Len(clients') \in Nat /\ Len(clients') >= Len(clients)
           /\ q.at = "routing" => q.client = 0
           /\ q.at \in {"calling", "invalidating"} => q.client # 0
           /\ req[r].at # "answered" /\ metrics' = metrics
      BY <1>1, <1>2, <1>3, <1>4, <3>1, <3>2, <3>2a
    <3>3. QED
      BY <3>2c, <3>2d, <3>2e, GoesOn
  <2>3. QED
    BY <2>1, <2>2
<1>6. clients[req[r].client] \in 1 .. newestKey
  BY <1>1, <1>2, <1>3, <1>4 DEF ServerInv, ServerTypes, KeysAreKnown
<1>7. KeysAreKnown' /\ RefusedKeysAreNotCached'
  BY <1>3, <1>6 DEF ServerInv, ServerTypes, KeysAreKnown, RefusedKeysAreNotCached
<1>8. ServerTypes'
  <2>1. refused' \in SUBSET Nat /\ credential' \in Nat
    <3>1. clients[req[r].client] \in Nat /\ refused \in SUBSET Nat
      BY <1>1, <1>6 DEF ServerTypes
    <3>2. QED
      BY <1>3, <3>1
  <2>2. QED
    BY <1>1, <1>3, <1>5, <2>1 DEF ServerTypes, Accounted
<1>9. QED
  BY <1>5, <1>7, <1>8 DEF ServerInv, Accounted

LEMMA InvalidateKeeps == ASSUME ServerInv, NEW r \in Requests, Invalidate(r) PROVE ServerInv'
<1>1. /\ req[r] \in RequestTypes /\ Progress(req[r]) /\ Len(clients) \in Nat /\ clients \in Seq(Nat) /\ ServerTypes
  BY DEF ServerInv, ServerTypes
<1>2. req[r].client \in Nat /\ 0 \in 0 .. MaxAttempts
  BY <1>1, ProxyServerAssumption DEF RequestTypes
<1>3. PICK yes \in BOOLEAN : Set(r, [at |-> "client", retried |-> yes, attempts |-> 0])
  BY DEF Invalidate
<1>4. PICK f : f = [at |-> "client", retried |-> yes, attempts |-> 0]
  OBVIOUS
<1>5. /\ Set(r, f) /\ req[r].at = "invalidating" /\ refreshLock' = r /\ metrics' = metrics
      /\ cache' = [cache EXCEPT ![req[r].model] = 0]
      /\ UNCHANGED <<clients, credential, storedKey, newestKey, refused, expiries>>
  BY <1>3, <1>4 DEF Invalidate
<1>6. /\ req[r].kind \in Kinds /\ req[r].model \in Models /\ req[r].client <= Len(clients)
  BY <1>1, <1>5 DEF Progress
<1>6a. PICK q : q = [kind |-> req[r].kind, model |-> req[r].model, at |-> "client", client |-> req[r].client,
                 attempts |-> 0, retried |-> yes, status |-> req[r].status, failed |-> req[r].failed, counted |-> 0]
  OBVIOUS
<1>6b. req[r].counted = 0
  BY <1>1, <1>5 DEF Progress
<1>6c. req' = [req EXCEPT ![r] = q]
  BY SMTT(30), <1>1, <1>4, <1>5, <1>6a, <1>6b, SetIs
<1>6d. q \in RequestTypes
  BY <1>1, <1>2, <1>6, <1>6a DEF RequestTypes
<1>6e. /\ q.counted = 0 /\ q.kind \in Kinds /\ q.model \in Models
       /\ q.at \in {"routing", "client", "calling", "invalidating"}
       /\ q.client <= Len(clients') /\ Len(clients') \in Nat /\ Len(clients') >= Len(clients)
       /\ q.at = "routing" => q.client = 0
       /\ q.at \in {"calling", "invalidating"} => q.client # 0
       /\ req[r].at # "answered" /\ metrics' = metrics
  BY <1>1, <1>2, <1>4, <1>5, <1>6, <1>6a
<1>7. Accounted'
  BY <1>6c, <1>6d, <1>6e, GoesOn
<1>8. cache' \in [Models -> 0 .. Len(clients')]
  <2>1. 0 \in 0 .. Len(clients) /\ cache \in [Models -> 0 .. Len(clients)]
    BY <1>1 DEF ServerTypes
  <2>2. QED
    BY <1>5, <2>1
<1>9. ServerTypes'
  BY <1>1, <1>5, <1>7, <1>8 DEF ServerTypes, Accounted
<1>10. KeysAreKnown' /\ RefusedKeysAreNotCached'
  BY <1>5 DEF ServerInv, KeysAreKnown, RefusedKeysAreNotCached
<1>11. QED
  BY <1>7, <1>9, <1>10 DEF ServerInv, Accounted

\* The world's steps.
LEMMA WorldKeeps ==
  ASSUME ServerInv,
         \/ RotateKey \/ (\E key \in {0, newestKey} : StoreKey(key))
         \/ ExpireCredential \/ (\E m \in Models : ExpireClient(m))
  PROVE  ServerInv'
<1>1. Accounted
  BY DEF ServerInv, ServerTypes, Accounted
<1>2. UNCHANGED <<req, clients, metrics, refreshLock>>
  BY DEF RotateKey, StoreKey, ExpireCredential, ExpireClient
<1>3. Accounted'
  <2>1. Successes' = Successes /\ Failures' = Failures
    BY <1>2 DEF Successes, Failures
  <2>2. \A r \in Requests : Progress(req[r])'
    BY <1>1, <1>2 DEF Accounted, Progress
  <2>3. QED
    BY <1>1, <1>2, <2>1, <2>2 DEF Accounted, Tallied
<1>4. ServerTypes /\ KeysAreKnown /\ RefusedKeysAreNotCached
  BY DEF ServerInv
<1>5. CASE RotateKey
  <2>1. newestKey' = newestKey + 1 /\ newestKey' <= MaxRotations + 1
        /\ UNCHANGED <<cache, credential, storedKey, refused, expiries>>
    BY <1>4, <1>5, ProxyServerAssumption DEF RotateKey, ServerTypes
  <2>2. KeysAreKnown' /\ RefusedKeysAreNotCached'
    BY <1>2, <1>4, <2>1 DEF ServerTypes, KeysAreKnown, RefusedKeysAreNotCached
  <2>3. ServerTypes'
    BY <1>2, <1>3, <1>4, <2>1 DEF ServerTypes, Accounted
  <2>4. QED
    BY <1>3, <2>2, <2>3 DEF ServerInv, Accounted
<1>6. CASE \E key \in {0, newestKey} : StoreKey(key)
  <2>1. storedKey' \in {0, newestKey} /\ UNCHANGED <<cache, credential, newestKey, refused, expiries>>
    BY <1>6 DEF StoreKey
  <2>2. KeysAreKnown' /\ RefusedKeysAreNotCached'
    BY <1>2, <1>4, <2>1 DEF ServerTypes, KeysAreKnown, RefusedKeysAreNotCached
  <2>3. ServerTypes'
    BY <1>2, <1>3, <1>4, <2>1 DEF ServerTypes, Accounted
  <2>4. QED
    BY <1>3, <2>2, <2>3 DEF ServerInv, Accounted
<1>7. CASE ExpireCredential
  <2>1. credential' = 0 /\ expiries' = expiries + 1 /\ UNCHANGED <<cache, storedKey, newestKey, refused>>
    BY <1>7 DEF ExpireCredential
  <2>2. KeysAreKnown' /\ RefusedKeysAreNotCached'
    BY <1>2, <1>4, <2>1 DEF ServerTypes, KeysAreKnown, RefusedKeysAreNotCached
  <2>3. ServerTypes'
    BY <1>2, <1>3, <1>4, <2>1 DEF ServerTypes, Accounted
  <2>4. QED
    BY <1>3, <2>2, <2>3 DEF ServerInv, Accounted
<1>8. CASE \E m \in Models : ExpireClient(m)
  <2>1. PICK m \in Models : /\ cache' = [cache EXCEPT ![m] = 0] /\ expiries' = expiries + 1
                            /\ UNCHANGED <<credential, storedKey, newestKey, refused>>
    BY <1>8 DEF ExpireClient
  <2>2. cache' \in [Models -> 0 .. Len(clients')]
    <3>1. Len(clients) \in Nat
      BY <1>4 DEF ServerTypes
    <3>2. QED
      BY <1>2, <1>4, <2>1, <3>1 DEF ServerTypes
  <2>3. KeysAreKnown' /\ RefusedKeysAreNotCached'
    BY <1>2, <1>4, <2>1 DEF KeysAreKnown, RefusedKeysAreNotCached
  <2>4. ServerTypes'
    BY <1>2, <1>3, <1>4, <2>1, <2>2 DEF ServerTypes, Accounted
  <2>5. QED
    BY <1>3, <2>3, <2>4 DEF ServerInv, Accounted
<1>9. QED
  BY <1>5, <1>6, <1>7, <1>8

LEMMA ServerInitInv == ASSUME ServerInit PROVE ServerInv
<1>1. /\ req = [r \in Requests |-> NewRequest] /\ refreshLock = NoOne
      /\ cache = [m \in Models |-> 0] /\ clients = <<>>
      /\ credential = 0 /\ storedKey = 1 /\ newestKey = 1 /\ refused = {}
      /\ metrics = [ok |-> 0, failed |-> 0] /\ expiries = 0
  BY DEF ServerInit
<1>2. NewRequest \in RequestTypes /\ NewRequest.at = "idle" /\ NewRequest.client = 0 /\ NewRequest.counted = 0
  BY ProxyServerAssumption DEF NewRequest, RequestTypes, Statuses
<1>3. clients \in Seq(Nat) /\ Len(clients) = 0 /\ DOMAIN clients = {}
  BY <1>1
<1>4. ServerTypes
  BY <1>1, <1>2, <1>3 DEF ServerTypes
<1>5. KeysAreKnown /\ RefusedKeysAreNotCached
  BY <1>1, <1>3, ProxyServerAssumption DEF KeysAreKnown, RefusedKeysAreNotCached
<1>6. \A r \in Requests : Progress(req[r])
  BY <1>1, <1>2, <1>3 DEF Progress
<1>7. Tallied
  <2>1. Successes = {} /\ Failures = {}
    BY <1>1, <1>2 DEF Successes, Failures
  <2>2. QED
    BY <1>1, <2>1, FS_EmptySet DEF Tallied
<1>8. QED
  BY <1>4, <1>5, <1>6, <1>7 DEF ServerInv

LEMMA ServerStep == ASSUME ServerInv, [ServerNext]_serverVars PROVE ServerInv'
<1>1. ASSUME NEW r \in Requests, Handle(r) PROVE ServerInv'
  BY <1>1, AnswersKeep, WayKeeps, MakeClientKeeps, TakeKeyKeeps, FailKeeps, RefuseKeeps, InvalidateKeeps DEF Handle
<1>2. ASSUME NEW r \in Requests, NEW k \in Kinds, NEW m \in Models, Arrive(r, k, m) PROVE ServerInv'
  BY <1>2, WayKeeps
<1>3. CASE UNCHANGED serverVars
  BY <1>3 DEF serverVars, ServerInv, ServerTypes, KeysAreKnown, Progress, RefusedKeysAreNotCached,
              Tallied, Successes, Failures
<1>4. QED
  BY <1>1, <1>2, <1>3, WorldKeeps DEF ServerNext

\* Requests have their types, know their client and are counted as they should be.
THEOREM ServerInvariance == ServerSpec => []ServerInv
<1>1. ServerInit => ServerInv
  BY ServerInitInv
<1>2. ServerInv /\ [ServerNext]_serverVars => ServerInv'
  BY ServerStep
<1>3. QED
  BY <1>1, <1>2, PTL DEF ServerSpec

\* However many requests overlap, and however keys are rotated, stored, lost and expired
\* between their steps: the credential manager holds no key that was refused since it was
\* read from the store, and the metrics count each answer once, under its outcome.
THEOREM Accounting == ServerSpec => []RequestsAreAccounted
<1>1. ServerInv => RequestsAreAccounted
  <2> SUFFICES ASSUME ServerInv PROVE RequestsAreAccounted
    OBVIOUS
  <2>1. ServerTypeOK
    <3>1. \A r \in Requests : req[r] \in RequestTypes /\ Progress(req[r])
      BY DEF ServerInv, ServerTypes
    <3>2. {credential, storedKey, newestKey} \cup refused \subseteq 0 .. MaxRotations + 1
      BY ProxyServerAssumption DEF ServerInv, ServerTypes, KeysAreKnown
    <3>3. QED
      BY <3>1, <3>2 DEF ServerTypeOK, ServerInv, ServerTypes, RequestTypes, Progress, Statuses
  <2>2. MetricsMatchAnswers
    <3>1. \A r \in Requests : req[r] \in RequestTypes /\ Progress(req[r])
      BY DEF ServerInv, ServerTypes
    <3>2. /\ Successes = {r \in Requests : req[r].at = "answered" /\ req[r].counted = 1 /\ req[r].failed = FALSE}
          /\ Failures = {r \in Requests : req[r].at = "answered" /\ req[r].counted = 1 /\ req[r].failed = TRUE}
      BY <3>1 DEF Successes, Failures, RequestTypes
    <3>3. metrics = [ok |-> Cardinality(Successes), failed |-> Cardinality(Failures)]
      BY DEF ServerInv, Tallied
    <3>4. QED
      BY <3>1, <3>2, <3>3 DEF MetricsMatchAnswers, Progress
  <2>3. QED
    BY <2>1, <2>2 DEF RequestsAreAccounted, ServerInv
<1>2. QED
  BY <1>1, ServerInvariance, PTL

-----------------------------------------------------------------------------
(***************************************************************************)
(* ReviewWorkflow, for any models, workers, threads and interrupts.        *)
(*                                                                         *)
(* A process that may run is tracked, or its worker is about to track it,  *)
(* so once every worker is done the clean-up reaches them all (Children).  *)
(* The results gathered are of distinct workers, so when there are as many *)
(* as workers every worker is among them, and is done (Gathering).  Ids are *)
(* told apart by their lengths and by the count of equal ones before.      *)
(***************************************************************************)

ReviewSpec == ReviewInit /\ [][ReviewNext]_reviewVars

Outcomes == Answers \cup {Failure}
Stages == {"preflight", "round", "gathering", "draining", "aborted", "returned", "ended"}
WorkerStates == {"queued", "preparing", "spawned", "talking", Failure} \cup Answers
ChildStates == {"none", "alive", "stubborn", "dead"}

ReviewTypes ==
    /\ command.workflow \in Workflows /\ command.workers \in Workers(command.workflow)
    /\ stage \in Stages /\ round \in {1, 2}
    /\ worker \in [Specs -> WorkerStates] /\ child \in [Specs -> ChildStates] /\ tracked \in SUBSET Specs
    /\ results \in Seq([spec : Specs, outcome : Outcomes]) /\ interrupts \in Nat
    /\ exit \in {"none", "ok", "rejected", "error", "interrupted"}

Pool == Cardinality(Busy) <= MaxWorkers

Children ==
    /\ \A s \in Specs : /\ worker[s] = "talking" => s \in tracked
                        /\ child[s] \in {"alive", "stubborn"} => s \in tracked \/ worker[s] = "spawned"
    /\ ~PoolRuns => \A s \in Specs : child[s] \in {"none", "dead"}

Reporters == {results[i].spec : i \in DOMAIN results}
Gathering ==
    PoolRuns =>
        /\ \A i \in DOMAIN results : /\ Done(results[i].spec)
                                     /\ results[i].outcome = worker[results[i].spec]
        /\ Cardinality(Reporters) = Len(results)

InOrder == Len(results) = NumSpecs /\ \A s \in Specs : results[s] = [spec |-> s, outcome |-> worker[s]]

Verdict ==
    /\ exit # "none" => stage \in {"ended", "aborted"}
    /\ exit \in {"ok", "rejected"} => stage = "ended"
    /\ (stage = "returned" \/ exit \in {"ok", "rejected"}) /\ results # <<>> => InOrder
    /\ exit = "ok" => (~command.check \/ Passes) /\ (command.workflow = "consensus" => round = 2)

ReviewInv == ReviewTypes /\ Pool /\ Children /\ Gathering /\ Verdict

\* Ids, in words of their own.
Base(workers, s) == <<workers[s].model>> \o workers[s].label
Equals(workers, s) == {t \in 1 .. s - 1 : Base(workers, t) = Base(workers, s)}
Seen(workers, s) == Cardinality(Equals(workers, s))

LEMMA IdIs ==
  ASSUME NEW workers, NEW s \in Specs
  PROVE  WorkerIds(workers)[s] = IF workers[s].label = Plain \/ Seen(workers, s) = 0
                                 THEN Base(workers, s) ELSE Append(Base(workers, s), Seen(workers, s))
  BY DEF WorkerIds, Base, Seen, Equals

LEMMA IdsAreOfSpecs == ASSUME NEW workers PROVE DOMAIN WorkerIds(workers) = Specs
  BY DEF WorkerIds

\* More equal workers come before a later one.
LEMMA SeenGrows ==
  ASSUME NEW workers, NEW s \in Specs, NEW t \in Specs, s < t, Base(workers, s) = Base(workers, t)
  PROVE  Seen(workers, s) \in Nat /\ Seen(workers, t) \in Nat /\ Seen(workers, s) < Seen(workers, t)
<1>1. s \in Nat /\ t \in Nat /\ 1 <= s
  BY ReviewAssumption DEF Specs
<1>2. PICK S : S = Equals(workers, s)
  OBVIOUS
<1>3. PICK T : T = Equals(workers, t)
  OBVIOUS
<1>4. s \notin S /\ S \cup {s} \subseteq T
  BY <1>1, <1>2, <1>3 DEF Equals
<1>5. IsFiniteSet(T)
  <2>1. IsFiniteSet(1 .. t - 1) /\ T \subseteq 1 .. t - 1
    BY <1>1, <1>3, FS_Interval DEF Equals
  <2>2. QED
    BY <2>1, FS_Subset
<1>6. IsFiniteSet(S) /\ Cardinality(S \cup {s}) = Cardinality(S) + 1 /\ Cardinality(S \cup {s}) <= Cardinality(T)
  BY <1>4, <1>5, FS_Subset, FS_AddElement
<1>7. Cardinality(S) \in Nat /\ Cardinality(T) \in Nat
  BY <1>5, <1>6, FS_CardinalityType
<1>8. QED
  BY <1>2, <1>3, <1>6, <1>7 DEF Seen

LEMMA SeenIsNumber == ASSUME NEW workers, NEW s \in Specs PROVE Seen(workers, s) \in Nat
<1>1. s \in Nat
  BY ReviewAssumption DEF Specs
<1>2. IsFiniteSet(1 .. s - 1) /\ Equals(workers, s) \subseteq 1 .. s - 1
  BY <1>1, FS_Interval DEF Equals
<1>3. QED
  BY <1>2, FS_Subset, FS_CardinalityType DEF Seen

\* What the labels of workers are.
Short(label) == label = Plain \/ \E part : label = <<part>>

LEMMA LabelsAre ==
  ASSUME NEW workflow, NEW workers \in Workers(workflow), NEW s \in Specs, Len(workers[s].label) < 2
  PROVE  Short(workers[s].label)
<1>1. ASSUME NEW m, NEW c \in {<<Plain>>, <<<<"for">>>>, StockCycle}, workers = Cyclic(m, c)
      PROVE  Short(workers[s].label)
  <2>1. workers[s].label = c[((s - 1) % Len(c)) + 1]
    BY <1>1 DEF Cyclic
  <2>2. ((s - 1) % Len(c)) + 1 \in 1 .. Len(c)
    <3>1. s - 1 \in Nat /\ Len(c) \in Nat \ {0}
      BY ReviewAssumption DEF Specs, StockCycle
    <3>2. (s - 1) % Len(c) \in 0 .. Len(c) - 1
      BY <3>1
    <3>3. QED
      BY <3>1, <3>2
  <2>3. \A i \in 1 .. Len(c) : Short(c[i])
    <3>1. Short(Plain) /\ Short(<<"for">>) /\ Short(<<"against">>) /\ Short(<<"neutral">>)
      BY DEF Short
    <3>2. QED
      BY SMTT(30), <3>1 DEF StockCycle
  <2>4. QED
    BY <2>1, <2>2, <2>3
<1>2. ASSUME NEW m, NEW l \in [Specs -> CustomLabels], workers = AsGiven(m, l)
      PROVE  Short(workers[s].label)
  <2>1. workers[s].label = l[s] /\ l[s] \in CustomLabels
    BY <1>2 DEF AsGiven
  <2>2. l[s] = <<"for">>
    BY <2>1 DEF CustomLabels
  <2>3. QED
    BY <2>1, <2>2 DEF Short
<1>3. QED
  BY <1>1, <1>2 DEF Workers

\* A pair put together, and one more element.
LEMMA Pairing == ASSUME NEW a, NEW b PROVE <<a>> \o <<b>> = <<a, b>>
<1> DEFINE S == {a, b}
           r == <<a>> \o <<b>>
<1>1. <<a>> \in Seq(S) /\ <<b>> \in Seq(S) /\ <<a, b>> \in Seq(S)
  OBVIOUS
<1>2. /\ r \in Seq(S) /\ Len(r) = Len(<<a>>) + Len(<<b>>)
      /\ \A i \in 1 .. Len(<<a>>) + Len(<<b>>) :
            r[i] = IF i <= Len(<<a>>) THEN <<a>>[i] ELSE <<b>>[i - Len(<<a>>)]
  BY <1>1, ConcatProperties
<1>3. Len(r) = 2 /\ r[1] = a /\ r[2] = b
  BY <1>2
<1>4. PICK t : t = <<a, b>>
  OBVIOUS
<1>5. t \in Seq(S) /\ Len(t) = 2 /\ t[1] = a /\ t[2] = b
  BY <1>1, <1>4
<1> HIDE DEF r, S
<1>6. Len(r) = Len(t) /\ \A i \in 1 .. Len(r) : r[i] = t[i]
  BY <1>3, <1>5
<1>7. r = t
  BY <1>2, <1>5, <1>6, SeqEqual
<1>8. QED
  BY <1>4, <1>7 DEF r

LEMMA Extending == ASSUME NEW a, NEW b, NEW n PROVE Append(<<a, b>>, n) = <<a, b, n>>
<1> DEFINE S == {a, b, n}
           r == Append(<<a, b>>, n)
<1>1. <<a, b>> \in Seq(S) /\ <<a, b, n>> \in Seq(S) /\ n \in S
  OBVIOUS
<1>2. /\ r \in Seq(S) /\ Len(r) = Len(<<a, b>>) + 1
      /\ \A i \in 1 .. Len(<<a, b>>) : r[i] = <<a, b>>[i]
      /\ r[Len(<<a, b>>) + 1] = n
  BY <1>1, AppendProperties
<1>3. Len(r) = 3 /\ r[1] = a /\ r[2] = b /\ r[3] = n
  BY <1>2
<1>4. PICK t : t = <<a, b, n>>
  OBVIOUS
<1>5. t \in Seq(S) /\ Len(t) = 3 /\ t[1] = a /\ t[2] = b /\ t[3] = n
  BY <1>1, <1>4
<1> HIDE DEF r, S
<1>6. Len(r) = Len(t) /\ \A i \in 1 .. Len(r) : r[i] = t[i]
  BY <1>3, <1>5
<1>7. r = t
  BY <1>2, <1>5, <1>6, SeqEqual
<1>8. QED
  BY <1>4, <1>7 DEF r

\* An id is a model, a model with one part, or that with a count.
LEMMA BaseIs ==
  ASSUME NEW workers, NEW s, Short(workers[s].label)
  PROVE  \/ workers[s].label = Plain /\ Base(workers, s) = <<workers[s].model>>
         \/ \E part : /\ workers[s].label = <<part>>
                      /\ Base(workers, s) = <<workers[s].model, part>>
                      /\ \A n : Append(Base(workers, s), n) = <<workers[s].model, part, n>>
<1>1. CASE workers[s].label = Plain
  BY <1>1 DEF Base, Plain
<1>2. ASSUME NEW part, workers[s].label = <<part>>
      PROVE  /\ Base(workers, s) = <<workers[s].model, part>>
             /\ \A n : Append(Base(workers, s), n) = <<workers[s].model, part, n>>
  <2>1. <<workers[s].model>> \o <<part>> = <<workers[s].model, part>>
    BY Pairing
  <2>2. \A n : Append(<<workers[s].model, part>>, n) = <<workers[s].model, part, n>>
    BY Extending
  <2>3. QED
    BY <1>2, <2>1, <2>2 DEF Base
<1>3. QED
  BY <1>1, <1>2 DEF Short

\* With labels of one part at most, and no model repeated without a label, ids are distinct.
LEMMA IdsDiffer ==
  ASSUME NEW workers, \A s \in Specs : Short(workers[s].label),
         \A s, t \in Specs : s # t /\ workers[s].label = Plain => workers[s].model # workers[t].model,
         NEW s \in Specs, NEW t \in Specs, s < t
  PROVE  WorkerIds(workers)[s] # WorkerIds(workers)[t]
<1>1. PICK a, b : a = workers[s].model /\ b = workers[t].model
  OBVIOUS
<1>2. PICK m, n : m = Seen(workers, s) /\ n = Seen(workers, t)
  OBVIOUS
<1>3. /\ m \in Nat /\ n \in Nat /\ (Base(workers, s) = Base(workers, t) => m < n)
      /\ s # t
  BY <1>2, SeenIsNumber, SeenGrows, ReviewAssumption DEF Specs
<1>4. CASE workers[s].label = Plain /\ workers[t].label = Plain
  <2>1. WorkerIds(workers)[s] = <<a>> /\ WorkerIds(workers)[t] = <<b>>
    BY <1>1, <1>4, IdIs, BaseIs DEF Short, Plain
  <2>2. a # b
    BY <1>1, <1>3, <1>4
  <2>3. QED
    BY <2>1, <2>2
<1>5. ASSUME NEW x \in Specs, workers[x].label # Plain
      PROVE  \E part : /\ workers[x].label = <<part>>
                       /\ Base(workers, x) = <<workers[x].model, part>>
                       /\ WorkerIds(workers)[x] = IF Seen(workers, x) = 0 THEN <<workers[x].model, part>>
                                                  ELSE <<workers[x].model, part, Seen(workers, x)>>
  <2>1. PICK part : /\ workers[x].label = <<part>>
                    /\ Base(workers, x) = <<workers[x].model, part>>
                    /\ \A k : Append(Base(workers, x), k) = <<workers[x].model, part, k>>
    BY ZenonT(40), <1>5, BaseIs
  <2>2. WorkerIds(workers)[x] = IF Seen(workers, x) = 0 THEN Base(workers, x)
                                ELSE Append(Base(workers, x), Seen(workers, x))
    BY <1>5, IdIs
  <2>3. QED
    BY <2>1, <2>2
<1>6. ASSUME NEW x \in Specs, workers[x].label = Plain PROVE WorkerIds(workers)[x] = <<workers[x].model>>
  BY <1>6, IdIs, BaseIs DEF Short, Plain
<1>7. CASE workers[s].label = Plain /\ workers[t].label # Plain
  <2>1. PICK q : WorkerIds(workers)[t] = IF n = 0 THEN <<b, q>> ELSE <<b, q, n>>
    BY <1>1, <1>2, <1>5, <1>7
  <2>2. WorkerIds(workers)[s] = <<a>>
    BY <1>1, <1>6, <1>7
  <2>3. QED
    BY <2>1, <2>2
<1>8. CASE workers[s].label # Plain /\ workers[t].label = Plain
  <2>1. PICK p : WorkerIds(workers)[s] = IF m = 0 THEN <<a, p>> ELSE <<a, p, m>>
    BY <1>1, <1>2, <1>5, <1>8
  <2>2. WorkerIds(workers)[t] = <<b>>
    BY <1>1, <1>6, <1>8
  <2>3. QED
    BY <2>1, <2>2
<1>9. CASE workers[s].label # Plain /\ workers[t].label # Plain
  <2>1. PICK p : /\ Base(workers, s) = <<a, p>>
                 /\ WorkerIds(workers)[s] = IF m = 0 THEN <<a, p>> ELSE <<a, p, m>>
    BY <1>1, <1>2, <1>5, <1>9
  <2>2. PICK q : /\ Base(workers, t) = <<b, q>>
                 /\ WorkerIds(workers)[t] = IF n = 0 THEN <<b, q>> ELSE <<b, q, n>>
    BY <1>1, <1>2, <1>5, <1>9
  <2>3. (a = b /\ p = q) => m < n
    BY <1>3, <2>1, <2>2
  <2>4. QED
    BY <1>3, <2>1, <2>2, <2>3
<1>10. QED
  BY <1>4, <1>7, <1>8, <1>9

-----------------------------------------------------------------------------
LEMMA SpecsAreFinite == /\ Specs \subseteq Nat \ {0} /\ IsFiniteSet(Specs) /\ Cardinality(Specs) = NumSpecs
                        /\ IsFiniteSet(Busy) /\ Cardinality(Busy) \in Nat
<1>1. /\ NumSpecs \in Nat /\ IsFiniteSet(Specs) /\ Cardinality(Specs) = NumSpecs /\ Specs \subseteq Nat \ {0}
  BY ReviewAssumption, FS_Interval DEF Specs
<1>2. Busy \subseteq Specs
  BY DEF Busy
<1>3. QED
  BY <1>1, <1>2, FS_Subset, FS_CardinalityType

LEMMA ReviewInitInv == ASSUME ReviewInit PROVE ReviewInv
<1>1. /\ stage = "preflight" /\ round = 1 /\ worker = [s \in Specs |-> "queued"]
      /\ child = [s \in Specs |-> "none"] /\ tracked = {}
      /\ results = <<>> /\ interrupts = 0 /\ exit = "none"
  BY DEF ReviewInit, Fresh
<1>2. command.workflow \in Workflows /\ command.workers \in Workers(command.workflow)
  <2>1. PICK workflow \in Workflows, check \in BOOLEAN, nested \in BOOLEAN :
           \E workers \in Workers(workflow) :
             command = [workflow |-> workflow, check |-> check, nested |-> nested, workers |-> workers]
    BY DEF ReviewInit
  <2>2. PICK workers \in Workers(workflow) :
           command = [workflow |-> workflow, check |-> check, nested |-> nested, workers |-> workers]
    BY <2>1
  <2>3. QED
    BY <2>2
<1>3. ReviewTypes
  BY <1>1, <1>2 DEF ReviewTypes, Stages, WorkerStates, ChildStates, Failure, Answers
<1>4. Pool
  <2>1. Busy = {}
    BY <1>1 DEF Busy
  <2>2. QED
    BY <2>1, FS_EmptySet, ReviewAssumption DEF Pool
<1>5. Children /\ Gathering /\ Verdict
  BY <1>1 DEF Children, Gathering, Verdict, PoolRuns
<1>6. QED
  BY <1>3, <1>4, <1>5 DEF ReviewInv

\* The results gathered, taken one by one.
Result == [spec : Specs, outcome : Outcomes]
LEMMA ResultsAre ==
  ASSUME ReviewTypes
  PROVE  /\ Len(results) \in Nat /\ DOMAIN results = 1 .. Len(results)
         /\ \A i \in DOMAIN results :
               /\ results[i] \in Result /\ results[i].spec \in Specs /\ results[i].outcome \in Outcomes
               /\ results[i] = [spec |-> results[i].spec, outcome |-> results[i].outcome]
<1>1. results \in Seq(Result)
  BY DEF ReviewTypes, Result
<1>2. Len(results) \in Nat /\ DOMAIN results = 1 .. Len(results) /\ \A i \in 1 .. Len(results) : results[i] \in Result
  BY <1>1
<1>3. \A r \in Result : /\ r.spec \in Specs /\ r.outcome \in Outcomes
                        /\ r = [spec |-> r.spec, outcome |-> r.outcome]
  BY DEF Result
<1>4. QED
  BY <1>2, <1>3

\* What a worker that is not done does changes no result.
LEMMA WorkerMoves ==
  ASSUME ReviewInv, NEW s \in Specs, PoolRuns, ~Done(s), NEW w, worker' = [worker EXCEPT ![s] = w],
         UNCHANGED <<command, stage, round, results, interrupts, exit>>
  PROVE  Gathering' /\ Verdict' /\ stage' = stage /\ PoolRuns'
<1>1. ReviewTypes /\ Gathering /\ Verdict
  BY DEF ReviewInv
<1>2. \A x \in Specs : Done(x) => x # s /\ worker'[x] = worker[x]
  BY <1>1 DEF ReviewTypes
<1>3. \A i \in DOMAIN results : results[i].spec \in Specs
  BY <1>1, ResultsAre
<1>4. Gathering'
  BY <1>1, <1>2, <1>3 DEF Gathering, Done, Reporters
<1>5. stage # "returned" /\ exit \notin {"ok", "rejected"}
  BY <1>1 DEF PoolRuns, Verdict
<1>6. Verdict'
  BY <1>1, <1>5 DEF Verdict
<1>7. QED
  BY <1>4, <1>6 DEF PoolRuns

\* Fewer busy workers fit the pool.
LEMMA FewerBusy == ASSUME Pool, Busy' \subseteq Busy PROVE Pool'
<1>1. Cardinality(Busy') <= Cardinality(Busy) /\ Cardinality(Busy') \in Nat
  BY SpecsAreFinite, FS_Subset, FS_CardinalityType
<1>2. QED
  BY <1>1, SpecsAreFinite, ReviewAssumption DEF Pool

LEMMA ThreadsKeep ==
  ASSUME ReviewInv, NEW s \in Specs, TakeSpec(s) \/ CannotStart(s) \/ Spawn(s) \/ Track(s) PROVE ReviewInv'
<1>1. ReviewTypes /\ Pool /\ Children
  BY DEF ReviewInv
<1>2. CASE TakeSpec(s)
  <2>1. /\ PoolRuns /\ worker[s] = "queued" /\ worker' = [worker EXCEPT ![s] = "preparing"]
        /\ Cardinality(Busy) < MaxWorkers
        /\ UNCHANGED <<command, stage, round, child, tracked, results, interrupts, exit>>
    BY <1>2 DEF TakeSpec
  <2>2. ReviewTypes'
    BY <1>1, <2>1 DEF ReviewTypes, WorkerStates
  <2>3. Pool'
    <3>1. Busy' = Busy \cup {s} /\ s \notin Busy
      BY <1>1, <2>1 DEF Busy, ReviewTypes
    <3>2. Cardinality(Busy') = Cardinality(Busy) + 1
      BY <3>1, SpecsAreFinite, FS_AddElement
    <3>3. QED
      BY <2>1, <3>2, SpecsAreFinite, ReviewAssumption DEF Pool
  <2>4. Gathering' /\ Verdict'
    BY <2>1, WorkerMoves DEF Done, Answers, Failure
  <2>5. Children'
    BY <1>1, <2>1 DEF Children, PoolRuns, ReviewTypes
  <2>6. QED
    BY <2>2, <2>3, <2>4, <2>5 DEF ReviewInv
<1>3. CASE CannotStart(s)
  <2>1. /\ PoolRuns /\ worker[s] = "preparing" /\ worker' = [worker EXCEPT ![s] = Failure]
        /\ UNCHANGED <<command, stage, round, child, tracked, results, interrupts, exit>>
    BY <1>3 DEF CannotStart
  <2>2. ReviewTypes'
    BY <1>1, <2>1 DEF ReviewTypes, WorkerStates
  <2>3. Pool'
    <3>1. Busy' \subseteq Busy
      BY <1>1, <2>1 DEF Busy, ReviewTypes, Failure
    <3>2. QED
      BY <1>1, <3>1, FewerBusy
  <2>4. Gathering' /\ Verdict'
    BY <2>1, WorkerMoves DEF Done, Answers, Failure
  <2>5. Children'
    BY <1>1, <2>1 DEF Children, PoolRuns, ReviewTypes, Failure
  <2>6. QED
    BY <2>2, <2>3, <2>4, <2>5 DEF ReviewInv
<1>4. CASE Spawn(s)
  <2>1. /\ PoolRuns /\ worker[s] = "preparing" /\ worker' = [worker EXCEPT ![s] = "spawned"]
        /\ child' = [child EXCEPT ![s] = "alive"]
        /\ UNCHANGED <<command, stage, round, tracked, results, interrupts, exit>>
    BY <1>4 DEF Spawn
  <2>2. ReviewTypes'
    BY <1>1, <2>1 DEF ReviewTypes, WorkerStates, ChildStates
  <2>3. Pool'
    <3>1. Busy' \subseteq Busy
      BY <1>1, <2>1 DEF Busy, ReviewTypes
    <3>2. QED
      BY <1>1, <3>1, FewerBusy
  <2>4. Gathering' /\ Verdict'
    BY <2>1, WorkerMoves DEF Done, Answers, Failure
  <2>5. Children'
    BY <1>1, <2>1 DEF Children, PoolRuns, ReviewTypes
  <2>6. QED
    BY <2>2, <2>3, <2>4, <2>5 DEF ReviewInv
<1>5. CASE Track(s)
  <2>1. /\ PoolRuns /\ worker[s] = "spawned" /\ worker' = [worker EXCEPT ![s] = "talking"]
        /\ tracked' = tracked \cup {s}
        /\ UNCHANGED <<command, stage, round, child, results, interrupts, exit>>
    BY <1>5 DEF Track
  <2>2. ReviewTypes'
    BY <1>1, <2>1 DEF ReviewTypes, WorkerStates
  <2>3. Pool'
    <3>1. Busy' \subseteq Busy
      BY <1>1, <2>1 DEF Busy, ReviewTypes
    <3>2. QED
      BY <1>1, <3>1, FewerBusy
  <2>4. Gathering' /\ Verdict'
    BY <2>1, WorkerMoves DEF Done, Answers, Failure
  <2>5. Children'
    BY <1>1, <2>1 DEF Children, PoolRuns, ReviewTypes
  <2>6. QED
    BY <2>2, <2>3, <2>4, <2>5 DEF ReviewInv
<1>6. QED
  BY <1>2, <1>3, <1>4, <1>5

\* However a process ends, its worker has an outcome.
LEMMA EndsKeep ==
  ASSUME ReviewInv, NEW s \in Specs,
         (\E outcome \in Outcomes : ChildEnds(s, outcome)) \/ (\E obeys \in BOOLEAN : TimeOut(s, obeys))
  PROVE  ReviewInv'
<1>1. ReviewTypes /\ Pool /\ Children
  BY DEF ReviewInv
<1>2. PICK w \in Outcomes, c \in {"dead", "stubborn"} :
         /\ PoolRuns /\ worker[s] = "talking" /\ worker' = [worker EXCEPT ![s] = w]
         /\ child' = [child EXCEPT ![s] = c]
         /\ UNCHANGED <<command, stage, round, tracked, results, interrupts, exit>>
  <2>1. ASSUME NEW outcome \in Outcomes, ChildEnds(s, outcome)
        PROVE  /\ PoolRuns /\ worker[s] = "talking" /\ worker' = [worker EXCEPT ![s] = outcome]
               /\ child' = [child EXCEPT ![s] = "dead"]
               /\ UNCHANGED <<command, stage, round, tracked, results, interrupts, exit>>
    BY <2>1 DEF ChildEnds
  <2>2. ASSUME NEW obeys \in BOOLEAN, TimeOut(s, obeys)
        PROVE  \E c \in {"dead", "stubborn"} :
               /\ PoolRuns /\ worker[s] = "talking" /\ worker' = [worker EXCEPT ![s] = Failure]
               /\ child' = [child EXCEPT ![s] = c]
               /\ UNCHANGED <<command, stage, round, tracked, results, interrupts, exit>>
    BY <2>2 DEF TimeOut
  <2>3. Failure \in Outcomes
    BY DEF Outcomes
  <2>4. QED
    BY <2>1, <2>2, <2>3
<1>3. w \in WorkerStates /\ w \notin {"queued", "preparing", "spawned", "talking"}
  BY DEF Outcomes, WorkerStates, Answers, Failure
<1>4. ReviewTypes'
  BY <1>1, <1>2, <1>3 DEF ReviewTypes, ChildStates
<1>5. Pool'
  <2>1. Busy' \subseteq Busy
    BY <1>1, <1>2, <1>3 DEF Busy, ReviewTypes
  <2>2. QED
    BY <1>1, <2>1, FewerBusy
<1>6. Gathering' /\ Verdict'
  BY <1>2, WorkerMoves DEF Done, Answers, Failure
<1>7. Children'
  BY <1>1, <1>2, <1>3 DEF Children, PoolRuns, ReviewTypes
<1>8. QED
  BY <1>4, <1>5, <1>6, <1>7 DEF ReviewInv

\* Results are of distinct workers, and all there are when there are as many.
LEMMA AllReported ==
  ASSUME ReviewInv, PoolRuns, Len(results) = NumSpecs PROVE Reporters = Specs
<1>1. Reporters \subseteq Specs
  BY ResultsAre DEF ReviewInv, Reporters
<1>2. Cardinality(Reporters) = Cardinality(Specs)
  BY SpecsAreFinite DEF ReviewInv, Gathering
<1>3. QED
  BY <1>1, <1>2, SpecsAreFinite, FS_Subset

\* The clean-up leaves no process, once every worker is done.
LEMMA CleanUp ==
  ASSUME ReviewInv, NEW s \in Specs
  PROVE  /\ Cleaned(child)[s] \in ChildStates
         /\ Cleaned(child)[s] \in {"alive", "stubborn"} => worker[s] = "spawned"
  BY DEF ReviewInv, ReviewTypes, Children, Cleaned, ChildStates

LEMMA GatherKeeps == ASSUME ReviewInv, NEW s \in Specs, Gather(s) PROVE ReviewInv'
<1>1. ReviewTypes /\ Pool /\ Children /\ Gathering /\ Verdict
  BY DEF ReviewInv
<1>2. /\ stage = "gathering" /\ Done(s) /\ ~Gathered(s)
      /\ results' = Append(results, [spec |-> s, outcome |-> worker[s]])
      /\ UNCHANGED <<command, stage, round, worker, child, tracked, interrupts, exit>>
  BY DEF Gather
<1>3. PICK r : r = [spec |-> s, outcome |-> worker[s]]
  OBVIOUS
<1>4. r \in [spec : Specs, outcome : Outcomes] /\ r.spec = s /\ r.outcome = worker[s]
  BY <1>2, <1>3 DEF Done, Outcomes
<1>5. /\ results' \in Seq([spec : Specs, outcome : Outcomes]) /\ Len(results') = Len(results) + 1
      /\ DOMAIN results' = DOMAIN results \cup {Len(results')} /\ Len(results) \in Nat
      /\ \A i \in DOMAIN results : results'[i] = results[i]
      /\ results'[Len(results')] = r
  BY <1>1, <1>2, <1>3, <1>4 DEF ReviewTypes
<1>6. ReviewTypes'
  BY <1>1, <1>2, <1>5 DEF ReviewTypes
<1>7. Pool' /\ Children'
  BY <1>1, <1>2 DEF Pool, Children, Busy, PoolRuns
<1>8. Gathering'
  <2>1. Reporters' = Reporters \cup {s} /\ s \notin Reporters
    BY <1>2, <1>4, <1>5 DEF Reporters, Gathered
  <2>2. IsFiniteSet(Reporters)
    <3>1. Reporters \subseteq Specs
      BY <1>1, ResultsAre DEF Reporters
    <3>2. QED
      BY <3>1, SpecsAreFinite, FS_Subset
  <2>3. Cardinality(Reporters') = Cardinality(Reporters) + 1
    BY <2>1, <2>2, FS_AddElement
  <2>4. Cardinality(Reporters') = Len(results')
    BY <1>1, <1>2, <1>5, <2>3 DEF Gathering, PoolRuns
  <2>5. \A i \in DOMAIN results' : Done(results'[i].spec) /\ results'[i].outcome = worker[results'[i].spec]
    BY <1>1, <1>2, <1>4, <1>5 DEF Gathering, PoolRuns
  <2>6. QED
    BY <1>2, <2>4, <2>5 DEF Gathering, Done
<1>9. Verdict'
  BY <1>1, <1>2 DEF Verdict
<1>10. QED
  BY <1>6, <1>7, <1>8, <1>9 DEF ReviewInv

LEMMA ReturnKeeps == ASSUME ReviewInv, Return PROVE ReviewInv'
<1>1. ReviewTypes /\ Pool /\ Children /\ Gathering /\ Verdict
  BY DEF ReviewInv
<1>2. /\ stage = "gathering" /\ Len(results) = NumSpecs /\ stage' = "returned" /\ results' = Ordered
      /\ child' = Cleaned(child)
      /\ UNCHANGED <<command, round, worker, tracked, interrupts, exit>>
  BY DEF Return
<1>3. Reporters = Specs
  BY <1>2, AllReported DEF PoolRuns
<1>4. /\ DOMAIN results = Specs
      /\ \A i \in DOMAIN results : /\ Done(results[i].spec) /\ results[i].outcome = worker[results[i].spec]
                                   /\ results[i] = [spec |-> results[i].spec, outcome |-> results[i].outcome]
                                   /\ results[i] \in Result
  BY <1>1, <1>2, ResultsAre DEF Gathering, PoolRuns, Specs
<1>5. ASSUME NEW s \in Specs
      PROVE  /\ Done(s)
             /\ Ordered[s] = [spec |-> s, outcome |-> worker[s]]
             /\ Ordered[s] \in Result
  <2>1. PICK i \in DOMAIN results : results[i].spec = s
    BY <1>3 DEF Reporters
  <2>2. PICK R : R = {results[j] : j \in DOMAIN results}
    OBVIOUS
  <2>3. results[i] \in R /\ \A r \in R : r.spec = s => r = [spec |-> s, outcome |-> worker[s]]
    BY <1>4, <2>2
  <2>4. (CHOOSE r \in R : r.spec = s) = [spec |-> s, outcome |-> worker[s]]
    BY <2>1, <2>3
  <2>5. Ordered[s] = (CHOOSE r \in R : r.spec = s)
    BY <1>4, <2>2 DEF Ordered
  <2>6. results[i] = [spec |-> s, outcome |-> worker[s]]
    BY <2>1, <2>3
  <2>7. QED
    BY <1>4, <2>1, <2>4, <2>5, <2>6
<1>6. Ordered \in [1 .. NumSpecs -> Result]
  BY <1>4, <1>5 DEF Ordered, Specs
<1>7. Ordered \in Seq(Result) /\ Len(Ordered) = NumSpecs
  <2>1. PICK o : o = Ordered
    OBVIOUS
  <2>2. o \in [1 .. NumSpecs -> Result] /\ NumSpecs \in Nat
    BY <1>6, <2>1, ReviewAssumption
  <2>3. o \in Seq(Result)
    BY <2>2
  <2>4. Len(o) = NumSpecs
    BY <2>2, <2>3
  <2>5. QED
    BY <2>1, <2>3, <2>4
<1>8. \A s \in Specs : child'[s] \in {"none", "dead"}
  BY <1>2, <1>5, CleanUp DEF Done, Answers, Failure, ChildStates
<1>9. child' \in [Specs -> ChildStates]
  BY <1>2, CleanUp DEF Cleaned
<1>10. ReviewTypes'
  BY <1>1, <1>2, <1>7, <1>9 DEF ReviewTypes, Stages, Result
<1>11. Pool' /\ Children' /\ Gathering'
  BY <1>1, <1>2, <1>8 DEF Pool, Children, Gathering, Busy, PoolRuns
<1>12. InOrder'
  BY <1>2, <1>5, <1>7 DEF InOrder
<1>13. Verdict'
  BY <1>1, <1>2, <1>12 DEF Verdict
<1>14. QED
  BY <1>10, <1>11, <1>13 DEF ReviewInv

\* A command that is not in a round, or starts one, gathers nothing.
LEMMA BetweenKeeps ==
  ASSUME ReviewInv, (\E ok \in BOOLEAN : Preflight(ok)) \/ AtDepthLimit \/ Reconcile \/ Report PROVE ReviewInv'
<1>1. ReviewTypes /\ Pool /\ Children /\ Verdict
  BY DEF ReviewInv
<1>2. /\ ~PoolRuns /\ ~PoolRuns' /\ UNCHANGED <<command, worker, child, tracked, interrupts>>
      /\ stage' \in Stages /\ round' \in {1, 2}
      /\ results' = results \/ results' = <<>>
      /\ exit' \in {"none", "ok", "rejected", "error", "interrupted"}
  <2>1. ASSUME NEW ok \in BOOLEAN, Preflight(ok)
        PROVE  /\ stage = "preflight" /\ stage' \in {"round", "ended"} /\ exit' \in {exit, "error"}
               /\ UNCHANGED <<command, round, worker, child, tracked, results, interrupts>>
    BY <2>1 DEF Preflight
  <2>2. ASSUME Report
        PROVE  /\ stage = "returned" /\ stage' = "ended" /\ exit' \in {"ok", "rejected"}
               /\ UNCHANGED <<command, round, worker, child, tracked, results, interrupts>>
    BY <2>2 DEF Report
  <2>3. CASE \E ok \in BOOLEAN : Preflight(ok)
    BY <1>1, <2>1, <2>3 DEF PoolRuns, ReviewTypes, Stages
  <2>4. CASE AtDepthLimit
    BY <1>1, <2>4 DEF AtDepthLimit, PoolRuns, ReviewTypes, Stages
  <2>5. CASE Reconcile
    BY <1>1, <2>5 DEF Reconcile, PoolRuns, ReviewTypes, Stages
  <2>6. CASE Report
    BY <1>1, <2>2, <2>6 DEF PoolRuns, ReviewTypes, Stages
  <2>7. QED
    BY <2>3, <2>4, <2>5, <2>6
<1>3. ReviewTypes'
  <2>1. results \in Seq([spec : Specs, outcome : Outcomes]) /\ <<>> \in Seq([spec : Specs, outcome : Outcomes])
    BY <1>1, EmptySeq DEF ReviewTypes
  <2>2. results' \in Seq([spec : Specs, outcome : Outcomes])
    BY <1>2, <2>1
  <2>3. QED
    BY <1>1, <1>2, <2>2 DEF ReviewTypes
<1>4. Pool' /\ Children' /\ Gathering'
  BY <1>1, <1>2 DEF Pool, Children, Gathering, Busy
<1>5. Verdict'
  <2>1. ASSUME NEW ok \in BOOLEAN, Preflight(ok) PROVE Verdict'
    BY <1>1, <2>1 DEF Preflight, Verdict
  <2>2. CASE AtDepthLimit
    BY <1>1, <2>2 DEF AtDepthLimit, Verdict
  <2>3. CASE Reconcile
    BY <1>1, <2>3 DEF Reconcile, Verdict
  <2>4. CASE Report
    <3>1. /\ stage = "returned" /\ stage' = "ended" /\ (command.workflow = "consensus" => round = 2)
          /\ exit' = IF ~command.check \/ Passes THEN "ok" ELSE "rejected"
          /\ UNCHANGED <<command, round, worker, results>>
      BY <2>4 DEF Report
    <3>2. results # <<>> => InOrder'
      BY <1>1, <3>1 DEF Verdict, InOrder
    <3>3. exit' = "ok" => ~command.check \/ Passes'
      BY <3>1 DEF Passes, Accepting
    <3>4. QED
      BY <3>1, <3>2, <3>3 DEF Verdict
  <2>5. QED
    BY <2>1, <2>2, <2>3, <2>4
<1>6. QED
  BY <1>3, <1>4, <1>5 DEF ReviewInv

LEMMA SubmitKeeps == ASSUME ReviewInv, SubmitAll PROVE ReviewInv'
<1>1. ReviewTypes /\ Verdict
  BY DEF ReviewInv
<1>2. /\ stage = "round" /\ stage' = "gathering" /\ worker' = [s \in Specs |-> "queued"]
      /\ child' = [s \in Specs |-> "none"] /\ tracked' = {} /\ results' = <<>>
      /\ UNCHANGED <<command, round, interrupts, exit>>
  BY DEF SubmitAll, Fresh
<1>3. ReviewTypes'
  BY <1>1, <1>2 DEF ReviewTypes, Stages, WorkerStates, ChildStates
<1>4. Pool'
  <2>1. Busy' = {}
    BY <1>2 DEF Busy
  <2>2. QED
    BY <2>1, FS_EmptySet, ReviewAssumption DEF Pool
<1>5. Children'
  BY <1>2 DEF Children, PoolRuns
<1>6. Gathering'
  <2>1. DOMAIN results' = {} /\ Len(results') = 0
    BY <1>2
  <2>2. Reporters' = {}
    BY <2>1 DEF Reporters
  <2>3. QED
    BY <2>1, <2>2, FS_EmptySet DEF Gathering
<1>7. Verdict'
  BY <1>1, <1>2 DEF Verdict
<1>8. QED
  BY <1>3, <1>4, <1>5, <1>6, <1>7 DEF ReviewInv

LEMMA InterruptKeeps == ASSUME ReviewInv, Interrupt \/ InterruptAgain \/ Drained PROVE ReviewInv'
<1>1. ReviewTypes /\ Pool /\ Children /\ Gathering /\ Verdict
  BY DEF ReviewInv
<1>2. /\ PoolRuns /\ stage' \in Stages /\ exit' \in {exit, "interrupted"} /\ stage' # "returned"
      /\ exit' # exit => stage' \in {"ended", "aborted"}
      /\ interrupts' \in Nat
      /\ child' = child \/ child' = Cleaned(child)
      /\ UNCHANGED <<command, round, worker, tracked, results>>
      /\ ~PoolRuns' => child' = Cleaned(child) /\ \A s \in Specs : Done(s)
  BY <1>1 DEF Interrupt, InterruptAgain, Drained, PoolRuns, Stages, ReviewTypes
<1>3. child' \in [Specs -> ChildStates]
  BY <1>1, <1>2, CleanUp DEF Cleaned, ReviewTypes
<1>4. ReviewTypes'
  BY <1>1, <1>2, <1>3 DEF ReviewTypes
<1>5. Pool'
  BY <1>1, <1>2 DEF Pool, Busy
<1>6. Gathering'
  BY <1>1, <1>2 DEF Gathering, Done, Reporters
<1>7. Children'
  <2>1. ASSUME NEW s \in Specs, child'[s] \in {"alive", "stubborn"}
        PROVE  s \in tracked \/ worker[s] = "spawned"
    BY <1>1, <1>2, <2>1, CleanUp DEF Children
  <2>2. ASSUME ~PoolRuns', NEW s \in Specs PROVE child'[s] \in {"none", "dead"}
    BY <1>2, <2>2, CleanUp DEF Done, Answers, Failure, ChildStates
  <2>3. QED
    BY <1>1, <1>2, <2>1, <2>2 DEF Children
<1>8. Verdict'
  <2>1. exit \notin {"ok", "rejected"} /\ exit' \notin {"ok", "rejected"}
    BY <1>1, <1>2 DEF Verdict, PoolRuns
  <2>2. exit' # "none" => stage' \in {"ended", "aborted"}
    BY <1>1, <1>2 DEF Verdict, Interrupt, InterruptAgain, Drained
  <2>3. QED
    BY <1>2, <2>1, <2>2 DEF Verdict
<1>9. QED
  BY <1>4, <1>5, <1>6, <1>7, <1>8 DEF ReviewInv

LEMMA ReviewStep == ReviewInv /\ [ReviewNext]_reviewVars => ReviewInv'
<1> SUFFICES ASSUME ReviewInv, [ReviewNext]_reviewVars PROVE ReviewInv'
  OBVIOUS
<1>1. CASE UNCHANGED reviewVars
  <2>1. UNCHANGED <<command, stage, round, worker, child, tracked, results, interrupts, exit>>
    BY <1>1 DEF reviewVars
  <2>2. ReviewTypes /\ Pool /\ Children /\ Gathering /\ Verdict
    BY DEF ReviewInv
  <2>3. ReviewTypes' /\ Pool' /\ Children'
    BY <2>1, <2>2 DEF ReviewTypes, Pool, Children, Busy, PoolRuns
  <2>4. Gathering'
    BY <2>1, <2>2 DEF Gathering, PoolRuns, Done, Reporters
  <2>5. InOrder' = InOrder /\ Passes' = Passes
    BY <2>1 DEF InOrder, Passes, Accepting
  <2>6. Verdict'
    BY <2>1, <2>2, <2>5 DEF Verdict
  <2>7. QED
    BY <2>3, <2>4, <2>6 DEF ReviewInv
<1>2. CASE (\E ok \in BOOLEAN : Preflight(ok)) \/ AtDepthLimit \/ Reconcile \/ Report
  BY <1>2, BetweenKeeps
<1>3. CASE Return \/ Interrupt \/ Drained \/ InterruptAgain \/ SubmitAll
  BY <1>3, ReturnKeeps, InterruptKeeps, SubmitKeeps
<1>4. ASSUME NEW s \in Specs,
             \/ TakeSpec(s) \/ CannotStart(s) \/ Spawn(s) \/ Track(s) \/ Gather(s)
             \/ \E outcome \in Answers \cup {Failure} : ChildEnds(s, outcome)
             \/ \E obeys \in BOOLEAN : TimeOut(s, obeys)
      PROVE  ReviewInv'
  BY <1>4, ThreadsKeep, GatherKeeps, EndsKeep DEF Outcomes
<1>5. QED
  BY <1>1, <1>2, <1>3, <1>4 DEF ReviewNext

\* The invariant of a workflow holds in every state.
THEOREM ReviewInvariance == ReviewSpec => []ReviewInv
<1>1. ReviewInit => ReviewInv
  BY ReviewInitInv
<1>2. ReviewInv /\ [ReviewNext]_reviewVars => ReviewInv'
  BY ReviewStep
<1>3. QED
  BY <1>1, <1>2, PTL DEF ReviewSpec

\* What a worker's id is the key of is that worker's own.
LEMMA KeysAreTheirOwn ==
  ASSUME NEW values, NEW s \in Specs, \A t \in Specs : t # s => WorkerIds(command.workers)[t] # WorkerIds(command.workers)[s]
  PROVE  ById(values)[WorkerIds(command.workers)[s]] = values[s]
<1>1. PICK ids : ids = WorkerIds(command.workers)
  OBVIOUS
<1>2. ids[s] \in Range(ids)
  BY <1>1, IdsAreOfSpecs DEF Range
<1>3. ById(values)[ids[s]] = values[CHOOSE x \in Specs : ids[x] = ids[s] /\ \A t \in Specs : ids[t] = ids[s] => t <= x]
  BY <1>1, <1>2 DEF ById
<1>4. ids[s] = ids[s] /\ \A t \in Specs : ids[t] = ids[s] => t <= s
  BY <1>1, SpecsAreFinite
<1>5. \A x \in Specs : ids[x] = ids[s] => x = s
  BY <1>1
<1>6. (CHOOSE x \in Specs : ids[x] = ids[s] /\ \A t \in Specs : ids[t] = ids[s] => t <= x) = s
  BY <1>4, <1>5
<1>7. QED
  BY <1>1, <1>3, <1>6

\* A round ends whole: no process of it is left, its results are in order, told apart by model, and
\* a check passes only if all of its workers accept - for any models, workers, threads and interrupts.
THEOREM RoundsSound == ReviewSpec => []RoundsAreSound
<1>1. ASSUME ReviewInv PROVE RoundsAreSound
  <2>1. ReviewTypes /\ Pool /\ Children /\ Gathering /\ Verdict
    BY <1>1 DEF ReviewInv
  <2>2. ReviewTypeOK
    BY <2>1 DEF ReviewTypeOK, ReviewTypes, Pool, Stages, WorkerStates, ChildStates
  <2>3. NoChildOutlivesTheRound
    BY <2>1 DEF NoChildOutlivesTheRound, Children, PoolRuns
  <2>4. ResultsKeepTheirOrder
    BY <2>1 DEF ResultsKeepTheirOrder, Verdict, InOrder
  <2>5. GateFailsClosed
    <3>1. SUFFICES ASSUME exit = "ok", command.check PROVE \A s \in Specs : worker[s] \in Accepting
      BY <2>1 DEF GateFailsClosed, Verdict
    <3>2. Passes /\ InOrder
      BY <2>1, <3>1 DEF Verdict, Passes
    <3>3. DOMAIN results = Specs
      BY <2>1, <3>2 DEF InOrder, ReviewTypes, Specs
    <3>4. ASSUME NEW s \in Specs PROVE worker[s] \in Accepting
      <4>1. results[s].outcome \in Accepting /\ results[s] = [spec |-> s, outcome |-> worker[s]]
        BY <3>2, <3>3 DEF Passes, InOrder
      <4>2. QED
        BY <4>1
    <3>5. QED
      BY <3>4
  <2>6. RepeatedModelsAreToldApart
    <3>1. PICK workers : workers = command.workers
      OBVIOUS
    <3>2. SUFFICES ASSUME exit \in {"ok", "rejected"}, results # <<>>,
                          \A s \in Specs : Len(workers[s].label) < 2,
                          \A s, t \in Specs : s # t /\ workers[s].label = Plain => workers[s].model # workers[t].model,
                          NEW s \in Specs
                   PROVE  /\ ById(results)[WorkerIds(workers)[s]].spec = s
                          /\ ById(workers)[WorkerIds(workers)[s]].label = workers[s].label
      BY <3>1 DEF RepeatedModelsAreToldApart
    <3>3. \A x \in Specs : Short(workers[x].label)
      BY <2>1, <3>1, <3>2, LabelsAre DEF ReviewTypes
    <3>4. ASSUME NEW t \in Specs, t # s PROVE WorkerIds(workers)[t] # WorkerIds(workers)[s]
      <4>1. s < t \/ t < s
        BY <3>4, SpecsAreFinite
      <4>2. CASE s < t
        BY <3>2, <3>3, <4>2, IdsDiffer
      <4>3. CASE t < s
        BY <3>2, <3>3, <4>3, IdsDiffer
      <4>4. QED
        BY <4>1, <4>2, <4>3
    <3>5. /\ ById(results)[WorkerIds(workers)[s]] = results[s]
          /\ ById(workers)[WorkerIds(workers)[s]] = workers[s]
      BY <3>1, <3>4, KeysAreTheirOwn
    <3>6. results[s].spec = s
      <4>1. results[s] = [spec |-> s, outcome |-> worker[s]]
        BY <2>1, <3>2 DEF Verdict, InOrder
      <4>2. QED
        BY <4>1
    <3>7. QED
      BY <3>5, <3>6
  <2>7. QED
    BY <2>2, <2>3, <2>4, <2>5, <2>6 DEF RoundsAreSound
<1>2. QED
  BY <1>1, ReviewInvariance, PTL

-----------------------------------------------------------------------------
(***************************************************************************)
(* Handoff, for any conversations, plans, documents and designations.      *)
(*                                                                         *)
(* A conversation only grows: what was copied, recorded or marked of it is *)
(* never more than was said, and a copy that is still there, and was not   *)
(* cut short, is never less than what a Stop recorded or marked (Copied).  *)
(* The approved contents are listed in the order of their last recorded    *)
(* approvals, and every content with one is listed (ApprovedInOrder).      *)
(***************************************************************************)

Turns == 0..MaxTurns
PlanContents == 1..MaxPlans
Entries == [conv : Conversations, copied : BOOLEAN]
Context == [kind : Strategies, conv : Conversations \cup {0}, turns : Turns, plan : 0..MaxPlans]
HandoffTypes ==
  /\ said \in [Conversations -> Turns] /\ copy \in [Conversations -> Turns]
  /\ stopped \in [Conversations -> Turns] /\ turns \in Turns
  /\ current \in Conversations /\ named \in Conversations /\ kept \in SUBSET Conversations
  /\ cut \in SUBSET Conversations /\ listed \in Seq(Entries) /\ Len(listed) <= MaxListed
  /\ draft \in 0..MaxPlans /\ approved \in Seq(PlanContents) /\ snapshots \in SUBSET PlanContents
  /\ approvedAt \in [PlanContents -> 0..MaxApprovals] /\ approvals \in 0..MaxApprovals
  /\ context \in Context
  /\ markers \in SUBSET [conv : Conversations, turns : 1..MaxTurns]
  /\ agent \in [state : {"idle", "running"}, conv : Conversations \cup {0}, prompt : SUBSET Docs]
  /\ there \in SUBSET Docs /\ edited \in SUBSET Docs /\ losses \in 0..MaxLosses

Copied ==
  /\ \A c \in Conversations : /\ said[c] <= turns /\ stopped[c] <= said[c]
                              /\ (c \in cut \/ copy[c] = 0 \/ copy[c] >= stopped[c])
  /\ \A k \in markers : /\ k.turns <= said[k.conv]
                         /\ (k.conv \in cut \/ copy[k.conv] = 0 \/ copy[k.conv] >= k.turns)

ApprovedInOrder ==
  /\ \A i \in DOMAIN approved : approvedAt[approved[i]] <= approvals
  /\ \A i, j \in DOMAIN approved : i < j => approvedAt[approved[i]] < approvedAt[approved[j]]
  /\ \A p \in PlanContents : approvedAt[p] > 0 => \E i \in DOMAIN approved : approved[i] = p

Proposed(S) == \A d \in S : \E e \in Designated : e.path = d /\ (e.strategy = "suggested" => e.shadows # d)

HandoffInv == HandoffTypes /\ Copied /\ ApprovedInOrder /\ Proposed(agent.prompt) /\ Proposed(edited)

LEMMA FirstConversation ==
  /\ 1 \in Conversations /\ 0 \notin Conversations /\ Conversations \subseteq Nat
  /\ MaxTurns \in Nat \ {0} /\ MaxPlans \in Nat /\ MaxListed \in Nat /\ MaxLosses \in Nat
  /\ MaxApprovals \in Nat /\ MaxCurated \in Nat
<1>1. Cardinality(Conversations) \in Nat
  BY HandoffAssumption, FS_CardinalityType
<1>2. QED
  BY <1>1, HandoffAssumption

LEMMA HandoffInitInv == ASSUME HandoffInit PROVE HandoffInv
<1>1. /\ said = [c \in Conversations |-> 0] /\ copy = said /\ stopped = said /\ turns = 0
      /\ current = 1 /\ named = 1 /\ kept = {1}
      /\ cut = {} /\ listed = <<>> /\ draft = 0 /\ approved = <<>> /\ snapshots = {}
      /\ approvedAt = [p \in PlanContents |-> 0] /\ approvals = 0
      /\ context = NoCtx /\ markers = {} /\ agent = NoAgent
      /\ there = Docs /\ edited = {} /\ losses = 0
  BY DEF HandoffInit, PlanContents
<1>2. said \in [Conversations -> Turns]
  BY <1>1, FirstConversation DEF Turns
<1>3. context \in Context
  BY <1>1, FirstConversation DEF NoCtx, Turns, Strategies, Context
<1>4. agent \in [state : {"idle", "running"}, conv : Conversations \cup {0}, prompt : SUBSET Docs] /\ agent.prompt = {}
  BY <1>1 DEF NoAgent
<1>5. HandoffTypes
  BY <1>1, <1>2, <1>3, <1>4, FirstConversation DEF HandoffTypes, Turns, PlanContents
<1>6. Copied /\ ApprovedInOrder /\ Proposed(agent.prompt) /\ Proposed(edited)
  BY <1>1, <1>4 DEF Copied, ApprovedInOrder, Proposed
<1>7. QED
  BY <1>5, <1>6 DEF HandoffInv

-----------------------------------------------------------------------------
(* The parent. *)

LEMMA SayStep == ASSUME HandoffInv, Say PROVE HandoffInv'
<1>1. HandoffTypes /\ Copied
  BY DEF HandoffInv
<1>2. PICK n : n = said[current] + 1
  OBVIOUS
<1>3. /\ said' = [said EXCEPT ![current] = n] /\ turns' = turns + 1 /\ turns < MaxTurns
      /\ kept' = kept \cup {current}
      /\ UNCHANGED <<current, named, copy, cut, stopped, listed, planVars, context, agentVars, losses>>
  BY <1>2 DEF Say
<1>4. n \in Turns /\ turns' \in Turns /\ n <= turns' /\ n > said[current]
  <2>1. said[current] \in 0..MaxTurns /\ turns \in 0..MaxTurns /\ current \in Conversations
    BY <1>1 DEF HandoffTypes, Turns
  <2>2. said[current] <= turns
    BY <1>1, <2>1 DEF Copied
  <2>3. QED
    BY <1>2, <1>3, <2>1, <2>2, FirstConversation DEF Turns
<1>5. said' \in [Conversations -> Turns] /\ \A c \in Conversations : said'[c] = IF c = current THEN n ELSE said[c]
  BY <1>1, <1>3, <1>4 DEF HandoffTypes
<1>6. HandoffTypes'
  BY <1>1, <1>3, <1>4, <1>5 DEF HandoffTypes, planVars, agentVars
<1>7. Copied'
  <2>1. ASSUME NEW c \in Conversations
        PROVE  /\ said'[c] <= turns' /\ stopped'[c] <= said'[c] /\ said'[c] >= said[c]
               /\ (c \in cut' \/ copy'[c] = 0 \/ copy'[c] >= stopped'[c])
    <3>1. said[c] \in Nat /\ stopped[c] \in Nat /\ turns \in Nat /\ said[c] <= turns /\ stopped[c] <= said[c]
      BY <1>1 DEF HandoffTypes, Copied, Turns
    <3>2. UNCHANGED <<copy, cut, stopped>> /\ (c \in cut \/ copy[c] = 0 \/ copy[c] >= stopped[c])
      BY <1>1, <1>3 DEF Copied
    <3>3. n \in Nat /\ turns' = turns + 1
      BY <1>3, <1>4 DEF Turns
    <3>4. QED
      BY <1>4, <1>5, <3>1, <3>2, <3>3
  <2>2. ASSUME NEW k \in markers'
        PROVE  k.turns <= said'[k.conv] /\ (k.conv \in cut' \/ copy'[k.conv] = 0 \/ copy'[k.conv] >= k.turns)
    <3>1. k \in markers /\ k.conv \in Conversations /\ k.turns \in Nat /\ copy' = copy /\ cut' = cut
      BY <1>1, <1>3 DEF HandoffTypes, agentVars
    <3>2. k.turns <= said[k.conv] /\ (k.conv \in cut \/ copy[k.conv] = 0 \/ copy[k.conv] >= k.turns)
      BY <1>1, <3>1 DEF Copied
    <3>3. said[k.conv] \in Nat /\ said'[k.conv] \in Nat /\ said'[k.conv] >= said[k.conv]
      BY <1>1, <1>5, <2>1, <3>1 DEF HandoffTypes, Turns
    <3>4. QED
      BY <3>1, <3>2, <3>3
  <2>3. QED
    BY <2>1, <2>2 DEF Copied
<1>8. QED
  BY <1>3, <1>6, <1>7 DEF HandoffInv, ApprovedInOrder, Proposed, planVars, agentVars

\* A copy that is replaced by all that was said, cut short, left as it is or taken away.
LEMMA CopyStands ==
  ASSUME HandoffInv, NEW c \in Conversations, NEW n \in Turns,
         copy' = [copy EXCEPT ![c] = n], cut' \in SUBSET Conversations,
         \A e \in cut : e \in cut' \/ (e = c /\ (n = 0 \/ n = said[c])),
         n = 0 \/ n = said[c] \/ n = copy[c] \/ c \in cut',
         UNCHANGED <<said, turns, stopped, markers>>
  PROVE  copy' \in [Conversations -> Turns] /\ Copied'
<1>1. HandoffTypes /\ Copied
  BY DEF HandoffInv
<1>2. copy' \in [Conversations -> Turns] /\ \A e \in Conversations : copy'[e] = IF e = c THEN n ELSE copy[e]
  BY <1>1 DEF HandoffTypes
<1>3. ASSUME NEW e \in Conversations PROVE e \in cut' \/ copy'[e] = 0 \/ copy'[e] >= stopped[e]
  BY <1>1, <1>2 DEF Copied
<1>4. ASSUME NEW k \in markers PROVE k.conv \in cut' \/ copy'[k.conv] = 0 \/ copy'[k.conv] >= k.turns
  <2>1. k.conv \in Conversations
    BY <1>1 DEF HandoffTypes
  <2>2. QED
    BY <1>1, <1>2, <2>1 DEF Copied
<1>5. QED
  BY <1>1, <1>2, <1>3, <1>4 DEF Copied

LEMMA CutCopy ==
  ASSUME HandoffInv, NEW c \in Conversations, CutShort(c), UNCHANGED <<said, turns, stopped, markers>>
  PROVE  /\ copy' \in [Conversations -> Turns] /\ cut' \in SUBSET Conversations
         /\ losses' \in 0..MaxLosses /\ Copied'
<1>1. said \in [Conversations -> Turns] /\ cut \in SUBSET Conversations /\ losses \in 0..MaxLosses
  BY DEF HandoffInv, HandoffTypes
<1>2. PICK n \in 0..(said[c] - 1) : copy' = [copy EXCEPT ![c] = n]
  BY DEF CutShort
<1>3. n \in Turns
  <2>1. said[c] \in 0..MaxTurns
    BY <1>1 DEF Turns
  <2>2. QED
    BY <2>1, FirstConversation DEF Turns
<1>4. cut' = cut \cup {c} /\ losses' \in 0..MaxLosses
  BY <1>1, FirstConversation DEF CutShort, Loses
<1>5. QED
  BY <1>1, <1>2, <1>3, <1>4, CopyStands

LEMMA ListedTypes ==
  ASSUME HandoffInv, NEW c \in Conversations, NEW copied \in BOOLEAN, Lists(Entry(c, copied))
  PROVE  listed' \in Seq(Entries) /\ Len(listed') <= MaxListed
<1>1. PICK e \in Entries : e = Entry(c, copied)
  BY DEF Entry, Entries
<1>2. listed \in Seq(Entries) /\ listed' = Append(listed, e) /\ Len(listed) < MaxListed
  BY <1>1 DEF HandoffInv, HandoffTypes, Lists
<1>3. Append(listed, e) \in Seq(Entries) /\ Len(Append(listed, e)) = Len(listed) + 1 /\ Len(listed) \in Nat
  BY <1>1, <1>2, AppendProperties, LenProperties
<1>4. QED
  BY <1>2, <1>3, FirstConversation

LEMMA StopTurnStep == ASSUME HandoffInv, StopTurn PROVE HandoffInv'
<1>1. HandoffTypes /\ Copied
  BY DEF HandoffInv
<1>2. PICK n : n = said[current]
  OBVIOUS
<1>3. /\ n > 0 /\ copy' = [copy EXCEPT ![current] = n]
      /\ cut' = cut \ {current}
      /\ \/ Lists(Entry(current, TRUE)) /\ stopped' = [stopped EXCEPT ![current] = n]
         \/ UNCHANGED <<listed, stopped>>
      /\ \/ markers' = {k \in markers : k.conv # current} \cup {[conv |-> current, turns |-> n]}
         \/ UNCHANGED markers
      /\ UNCHANGED <<said, current, named, kept, turns, planVars, context, agent, there, edited, losses>>
  BY <1>2 DEF StopTurn, CopyAtStop
<1>4. n \in 1..MaxTurns /\ n \in Turns /\ current \in Conversations
  BY <1>1, <1>2, <1>3 DEF HandoffTypes, Turns
<1>5. copy' \in [Conversations -> Turns] /\ \A c \in Conversations : copy'[c] = IF c = current THEN n ELSE copy[c]
  BY <1>1, <1>3, <1>4 DEF HandoffTypes
<1>6. stopped' \in [Conversations -> Turns] /\ \A c \in Conversations : (stopped'[c] = stopped[c] \/ (c = current /\ stopped'[c] = n))
  BY <1>1, <1>3, <1>4 DEF HandoffTypes
<1>7. listed' \in Seq(Entries) /\ Len(listed') <= MaxListed
  BY <1>1, <1>3, <1>4, ListedTypes DEF HandoffTypes
<1>8. ASSUME NEW k \in markers'
      PROVE  /\ k \in [conv : Conversations, turns : 1..MaxTurns]
             /\ k \in markers \/ (k.conv = current /\ k.turns = n)
  <2>1. k \in markers \/ k = [conv |-> current, turns |-> n]
    BY <1>3
  <2>2. QED
    BY <1>1, <1>4, <2>1 DEF HandoffTypes
<1>9. HandoffTypes'
  BY <1>1, <1>3, <1>5, <1>6, <1>7, <1>8 DEF HandoffTypes, planVars
<1>10. Copied'
  <2>1. ASSUME NEW c \in Conversations
        PROVE  /\ said'[c] <= turns' /\ stopped'[c] <= said'[c] /\ (c \in cut' \/ copy'[c] = 0 \/ copy'[c] >= stopped'[c])
    <3>1. /\ said[c] \in Nat /\ stopped[c] \in Nat /\ copy[c] \in Nat /\ n \in Nat
          /\ said[c] <= turns /\ stopped[c] <= said[c] /\ (c \in cut \/ copy[c] = 0 \/ copy[c] >= stopped[c])
      BY <1>1, <1>4 DEF HandoffTypes, Copied, Turns
    <3>2. c = current => n = said[c]
      BY <1>2
    <3>3. QED
      BY <1>3, <1>5, <1>6, <3>1, <3>2
  <2>2. ASSUME NEW k \in markers'
        PROVE  k.turns <= said'[k.conv] /\ (k.conv \in cut' \/ copy'[k.conv] = 0 \/ copy'[k.conv] >= k.turns)
    <3>1. k.conv \in Conversations /\ k.turns \in Nat /\ said[k.conv] \in Nat
      <4>1. k \in [conv : Conversations, turns : 1..MaxTurns]
        BY <1>8
      <4>2. k.conv \in Conversations /\ k.turns \in 1..MaxTurns
        BY <4>1
      <4>3. said \in [Conversations -> 0..MaxTurns]
        BY <1>1 DEF HandoffTypes, Turns
      <4>4. QED
        BY <4>2, <4>3
    <3>2. k.turns <= said[k.conv]
      BY <1>1, <1>2, <1>8, <3>1 DEF Copied
    <3>3. k.conv \in cut' \/ copy'[k.conv] = 0 \/ copy'[k.conv] >= k.turns
      <4>1. CASE k.conv = current
        BY <1>2, <1>5, <3>1, <3>2, <4>1
      <4>2. CASE k.conv # current
        BY <1>1, <1>3, <1>5, <1>8, <3>1, <4>2 DEF Copied
      <4>3. QED
        BY <4>1, <4>2
    <3>4. QED
      BY <1>3, <3>2, <3>3
  <2>3. QED
    BY <2>1, <2>2 DEF Copied
<1>11. QED
  BY <1>3, <1>9, <1>10 DEF HandoffInv, ApprovedInOrder, Proposed, planVars

\* A Stop whose copy is cut short, and the entry of a compaction.
LEMMA StopFailsStep == ASSUME HandoffInv, StopFails \/ PreCompact PROVE HandoffInv'
<1>1. HandoffTypes /\ Copied
  BY DEF HandoffInv
<1>2. CASE StopFails
  <2>1. UNCHANGED <<said, current, named, kept, stopped, listed, turns, planVars, context, agentVars>>
    BY <1>2 DEF StopFails, CutShort
  <2>2. copy' \in [Conversations -> Turns] /\ cut' \in SUBSET Conversations /\ losses' \in 0..MaxLosses /\ Copied'
    <3>1. current \in Conversations
      BY <1>1 DEF HandoffTypes
    <3>2. UNCHANGED <<said, turns, stopped, markers>>
      BY <2>1 DEF agentVars
    <3>3. QED
      BY <1>2, <3>1, <3>2, CutCopy DEF StopFails
  <2>3. HandoffTypes'
    BY <1>1, <2>1, <2>2 DEF HandoffTypes, planVars, agentVars
  <2>4. QED
    BY <2>1, <2>2, <2>3 DEF HandoffInv, ApprovedInOrder, Proposed, planVars, agentVars
<1>3. CASE PreCompact
  <2>1. /\ Lists(Entry(current, FALSE))
        /\ UNCHANGED <<said, current, named, kept, copy, cut, stopped, turns, planVars, context, agentVars, losses>>
    BY <1>3 DEF PreCompact
  <2>2. listed' \in Seq(Entries) /\ Len(listed') <= MaxListed
    BY <1>1, <2>1, ListedTypes DEF HandoffTypes
  <2>3. HandoffTypes' /\ Copied'
    BY <1>1, <2>1, <2>2 DEF HandoffTypes, Copied, planVars, agentVars
  <2>4. QED
    BY <2>1, <2>3 DEF HandoffInv, ApprovedInOrder, Proposed, planVars, agentVars
<1>4. QED
  BY <1>2, <1>3

LEMMA RollOverStep == ASSUME HandoffInv, RollOver PROVE HandoffInv'
<1>1. HandoffTypes /\ Copied /\ named \in Conversations
  BY DEF HandoffInv, HandoffTypes
<1>2. /\ current' \in Conversations /\ named' \in Conversations
      /\ UNCHANGED <<said, kept, stopped, turns, planVars, context, agentVars>>
      /\ listed' = listed \/ Lists(Entry(named, TRUE))
      /\ \/ UNCHANGED <<copy, cut, losses>>
         \/ UNCHANGED <<cut, losses>> /\ copy' = [copy EXCEPT ![named] = CopyAtRollover(named)]
         \/ CutShort(named)
  BY <1>1 DEF RollOver, HandoffTypes, CutShort
<1>3. listed' \in Seq(Entries) /\ Len(listed') <= MaxListed
  BY <1>1, <1>2, ListedTypes DEF HandoffTypes
<1>4. PICK n : n = CopyAtRollover(named)
  OBVIOUS
<1>5. n \in Turns /\ (n = said[named] \/ n = copy[named]) /\ (n = said[named] \/ HasCopy(named))
  BY <1>1, <1>4 DEF CopyAtRollover, HandoffTypes
<1>6. copy' \in [Conversations -> Turns] /\ cut' \in SUBSET Conversations /\ losses' \in 0..MaxLosses /\ Copied'
  <2>1. CASE UNCHANGED <<copy, cut, losses>>
    BY <1>1, <1>2, <2>1 DEF HandoffTypes, Copied, agentVars
  <2>2. CASE UNCHANGED <<cut, losses>> /\ copy' = [copy EXCEPT ![named] = n]
    <3>1. cut' = cut /\ cut \in SUBSET Conversations /\ losses' \in 0..MaxLosses
      BY <1>1, <2>2 DEF HandoffTypes
    <3>2. UNCHANGED <<said, turns, stopped, markers>>
      BY <1>2 DEF agentVars
    <3>3. QED
      BY <1>1, <1>5, <2>2, <3>1, <3>2, CopyStands
  <2>3. CASE CutShort(named)
    <3>1. UNCHANGED <<said, turns, stopped, markers>>
      BY <1>2 DEF agentVars
    <3>2. QED
      BY <1>1, <2>3, <3>1, CutCopy
  <2>4. QED
    BY <1>2, <1>4, <2>1, <2>2, <2>3
<1>7. HandoffTypes'
  BY <1>1, <1>2, <1>3, <1>6 DEF HandoffTypes, planVars, agentVars
<1>8. QED
  BY <1>2, <1>6, <1>7 DEF HandoffInv, ApprovedInOrder, Proposed, planVars, agentVars

LEMMA RemovalSteps ==
  ASSUME HandoffInv,
         \/ \E c \in Conversations : DropTranscript(c) \/ DropCopy(c)
         \/ \E p \in 1..MaxPlans : DropSnapshot(p)
         \/ \E d \in Docs : UserRemovesDoc(d)
  PROVE  HandoffInv'
<1>1. HandoffTypes /\ Copied
  BY DEF HandoffInv
<1>2. /\ losses' \in 0..MaxLosses
      /\ UNCHANGED <<said, current, named, stopped, listed, turns, draft, approved, approvedAt, approvals, context,
                   markers, agent, edited>>
  BY <1>1, FirstConversation DEF DropTranscript, DropCopy, DropSnapshot, UserRemovesDoc, Loses, HandoffTypes,
     planVars, agentVars, parentVars
<1>3. kept' \in SUBSET Conversations /\ snapshots' \in SUBSET PlanContents /\ there' \in SUBSET Docs
  BY <1>1 DEF DropTranscript, DropCopy, DropSnapshot, UserRemovesDoc, HandoffTypes, planVars, agentVars, parentVars
<1>4. \/ UNCHANGED <<copy, cut>>
      \/ \E c \in Conversations : copy' = [copy EXCEPT ![c] = 0] /\ cut' = cut \ {c}
  BY DEF DropTranscript, DropCopy, DropSnapshot, UserRemovesDoc, parentVars
<1>5. copy' \in [Conversations -> Turns] /\ cut' \in SUBSET Conversations /\ Copied'
  <2>1. CASE UNCHANGED <<copy, cut>>
    BY <1>1, <1>2, <2>1 DEF HandoffTypes, Copied
  <2>2. ASSUME NEW c \in Conversations, copy' = [copy EXCEPT ![c] = 0] /\ cut' = cut \ {c}
        PROVE  copy' \in [Conversations -> Turns] /\ cut' \in SUBSET Conversations /\ Copied'
    <3>3. cut \in SUBSET Conversations
      BY <1>1 DEF HandoffTypes
    <3>1. 0 \in Turns /\ cut' \in SUBSET Conversations /\ \A e \in cut : e \in cut' \/ e = c
      BY <2>2, <3>3, FirstConversation DEF Turns
    <3>2. QED
      BY <1>2, <2>2, <3>1, CopyStands
  <2>3. QED
    BY <1>4, <2>1, <2>2
<1>6. HandoffTypes'
  BY <1>1, <1>2, <1>3, <1>5 DEF HandoffTypes
<1>7. QED
  BY <1>2, <1>5, <1>6 DEF HandoffInv, ApprovedInOrder, Proposed

\* The list w is plans with p at its end, in the order of the approvals at.
Moved(plans, p, at, w) ==
  /\ w \in Seq(PlanContents) /\ Len(w) \in Nat /\ Len(w) > 0 /\ w[Len(w)] = p
  /\ \A i \in 1..(Len(w) - 1) : w[i] # p /\ \E j \in DOMAIN plans : w[i] = plans[j]
  /\ \A i, j \in 1..(Len(w) - 1) : i < j => at[w[i]] < at[w[j]]
  /\ \A j \in DOMAIN plans : \E i \in DOMAIN w : w[i] = plans[j]

\* A content that is approved goes to the end of the list, out of its place if it was on it.
LEMMA WithApprovedIs ==
  ASSUME NEW plans \in Seq(PlanContents), NEW p \in PlanContents,
         NEW at \in [PlanContents -> Nat],
         \A i, j \in DOMAIN plans : i < j => at[plans[i]] < at[plans[j]]
  PROVE  Moved(plans, p, at, WithApproved(plans, p))
<1>1. PICK n \in Nat : n = Len(plans) /\ DOMAIN plans = 1..n /\ \A i \in 1..n : plans[i] \in PlanContents
  BY LenProperties, ElementOfSeq
<1>2. ASSUME NEW rest \in Seq(PlanContents), NEW w, w = Append(rest, p),
             \A i \in DOMAIN rest : rest[i] # p /\ \E j \in DOMAIN plans : rest[i] = plans[j],
             \A i, j \in DOMAIN rest : i < j => at[rest[i]] < at[rest[j]],
             \A j \in DOMAIN plans : plans[j] = p \/ \E i \in DOMAIN rest : rest[i] = plans[j]
      PROVE  Moved(plans, p, at, w)
  <2>1. PICK m \in Nat : m = Len(rest) /\ DOMAIN rest = 1..m
    BY <1>2, LenProperties
  <2>2. /\ w \in Seq(PlanContents) /\ Len(w) = m + 1 /\ w[m + 1] = p /\ \A i \in 1..m : w[i] = rest[i]
    BY <1>2, <2>1, AppendProperties
  <2>3. DOMAIN w = 1..(m + 1) /\ Len(w) - 1 = m
    BY <2>2, LenProperties
  <2>4. \A j \in DOMAIN plans : \E i \in DOMAIN w : w[i] = plans[j]
    <3>1. m + 1 \in 1..(m + 1) /\ \A i \in 1..m : i \in 1..(m + 1)
      OBVIOUS
    <3>2. QED
      BY <1>2, <2>1, <2>2, <2>3, <3>1
  <2>10. PICK l \in Nat : l = m + 1
    OBVIOUS
  <2>11. l - 1 = m
    BY <2>10
  <2>5. l = Len(w) /\ l = m + 1 /\ l - 1 = m
    BY <2>2, <2>10, <2>11
  <2>12. DOMAIN rest = 1..m /\ \A i \in DOMAIN rest : w[i] = rest[i]
    BY <2>1, <2>2
  <2>6. \A i \in 1..(l - 1) : w[i] # p /\ \E j \in DOMAIN plans : w[i] = plans[j]
    BY <1>2, <2>5, <2>12
  <2>7. \A i, j \in 1..(l - 1) : i < j => at[w[i]] < at[w[j]]
    BY <1>2, <2>5, <2>12
  <2>8. w \in Seq(PlanContents) /\ l > 0 /\ w[l] = p
    BY <2>2, <2>5
  <2>9. QED
    BY <2>4, <2>5, <2>6, <2>7, <2>8 DEF Moved
<1>3. CASE p \in ToSet(plans)
  <2>1. \E i \in DOMAIN plans : plans[i] = p
    BY <1>3 DEF ToSet
  <2>2. PICK k \in 1..n : plans[k] = p /\ k = CHOOSE i \in DOMAIN plans : plans[i] = p
    BY <1>1, <2>1
  <2>3. k \in Nat /\ 1 <= k /\ k <= n
    OBVIOUS
  <2>4. PICK front, back : front = SubSeq(plans, 1, k - 1) /\ back = SubSeq(plans, k + 1, n)
    OBVIOUS
  <2>22. k - 1 \in Nat /\ n - k \in Nat
    BY <2>3
  <2>23. PICK a \in Nat : a = k - 1
    BY <2>22
  <2>24. PICK b \in Nat : b = n - k
    BY <2>22
  <2>5. a = k - 1 /\ a < n
    BY <2>3, <2>23
  <2>6. b = n - k /\ a + b = n - 1
    BY <2>3, <2>5, <2>24
  <2>7. front \in Seq(PlanContents) /\ Len(front) = a /\ \A i \in 1..a : front[i] = plans[i]
    <3>1. \A i \in 1..a : plans[i] \in PlanContents
      BY <1>1, <2>5
    <3>2. /\ SubSeq(plans, 1, a) \in Seq(PlanContents)
          /\ Len(SubSeq(plans, 1, a)) = (IF 1 <= a THEN a - 1 + 1 ELSE 0)
          /\ \A i \in 1..(a - 1 + 1) : SubSeq(plans, 1, a)[i] = plans[1 + i - 1]
      BY <3>1, SubSeqProperties
    <3>3. QED
      BY <2>4, <2>5, <3>2
  <2>8. back \in Seq(PlanContents) /\ Len(back) = b /\ \A i \in 1..b : back[i] = plans[k + i]
    <3>1. PICK c \in Int : c = k + 1
      BY <2>3
    <3>2. \A i \in c..n : plans[i] \in PlanContents
      BY <1>1, <2>3, <3>1
    <3>3. /\ SubSeq(plans, c, n) \in Seq(PlanContents)
          /\ Len(SubSeq(plans, c, n)) = (IF c <= n THEN n - c + 1 ELSE 0)
          /\ \A i \in 1..(n - c + 1) : SubSeq(plans, c, n)[i] = plans[c + i - 1]
      BY <3>1, <3>2, SubSeqProperties
    <3>4. back = SubSeq(plans, c, n) /\ n - c + 1 = b /\ (c <= n \/ b = 0)
      BY <2>3, <2>4, <2>6, <3>1
    <3>5. Len(back) = b
      BY <2>6, <3>3, <3>4
    <3>6. ASSUME NEW i \in 1..b PROVE back[i] = plans[k + i]
      <4>1. c + i - 1 = k + i /\ i \in 1..(n - c + 1)
        BY <2>3, <3>1, <3>4
      <4>2. QED
        BY <3>3, <3>4, <4>1
    <3>7. QED
      BY <3>3, <3>4, <3>5, <3>6
  <2>20. PICK rest : rest = front \o back
    OBVIOUS
  <2>21. /\ rest \in Seq(PlanContents) /\ Len(rest) = a + b
         /\ \A i \in 1..(a + b) : rest[i] = IF i <= a THEN front[i] ELSE back[i - a]
    <3>1. /\ front \o back \in Seq(PlanContents) /\ Len(front \o back) = Len(front) + Len(back)
          /\ \A i \in 1..(Len(front) + Len(back)) :
                (front \o back)[i] = IF i <= Len(front) THEN front[i] ELSE back[i - Len(front)]
      BY <2>7, <2>8, ConcatProperties
    <3>2. Len(front) = a /\ Len(back) = b
      BY <2>7, <2>8
    <3>3. QED
      BY <2>20, <3>1, <3>2
  <2>9. /\ DOMAIN rest = 1..(n - 1)
        /\ \A i \in 1..(n - 1) : (i < k => rest[i] = plans[i]) /\ (i >= k => rest[i] = plans[i + 1])
    <3>1. DOMAIN rest = 1..(n - 1)
      BY <2>6, <2>21, LenProperties
    <3>2. ASSUME NEW i \in 1..(n - 1), i < k PROVE rest[i] = plans[i]
      <4>1. i \in 1..a /\ i \in 1..(a + b) /\ i <= a
        BY <2>3, <2>5, <2>6, <3>2
      <4>2. QED
        BY <2>7, <2>21, <4>1
    <3>3. ASSUME NEW i \in 1..(n - 1), i >= k PROVE rest[i] = plans[i + 1]
      <4>6. i - a \in 1..b /\ k + (i - a) = i + 1
        BY <2>3, <2>5, <2>6, <3>3
      <4>1. PICK d \in 1..b : d = i - a /\ k + d = i + 1
        BY <4>6
      <4>2. i \in 1..(a + b) /\ ~(i <= a)
        BY <2>3, <2>5, <2>6, <3>3
      <4>3. rest[i] = back[d]
        BY <2>21, <4>1, <4>2
      <4>4. back[d] = plans[k + d]
        BY <2>8, <4>1
      <4>5. QED
        BY <4>1, <4>3, <4>4
    <3>4. QED
      BY <3>1, <3>2, <3>3
  <2>10. ASSUME NEW i \in 1..(n - 1)
         PROVE  \E j \in 1..n : j # k /\ rest[i] = plans[j] /\ (i < k => j = i) /\ (i >= k => j = i + 1)
    BY <2>3, <2>9
  <2>11. ASSUME NEW j \in 1..n, j # k PROVE plans[j] # p
    <3>1. at[plans[j]] \in Nat /\ at[p] \in Nat
      BY <1>1
    <3>2. j < k \/ k < j
      BY <2>3, <2>11
    <3>3. QED
      BY <1>1, <2>2, <2>3, <2>11, <3>1, <3>2
  <2>12. \A i \in DOMAIN rest : rest[i] # p /\ \E j \in DOMAIN plans : rest[i] = plans[j]
    BY <1>1, <2>9, <2>10, <2>11
  <2>13. ASSUME NEW i \in DOMAIN rest, NEW j \in DOMAIN rest, i < j PROVE at[rest[i]] < at[rest[j]]
    <3>1. i \in 1..(n - 1) /\ j \in 1..(n - 1)
      BY <2>9, <2>13
    <3>2. PICK x \in 1..n : rest[i] = plans[x] /\ (i < k => x = i) /\ (i >= k => x = i + 1)
      BY <2>10, <3>1
    <3>3. PICK y \in 1..n : rest[j] = plans[y] /\ (j < k => y = j) /\ (j >= k => y = j + 1)
      BY <2>10, <3>1
    <3>4. x < y
      <4>1. i \in Int /\ j \in Int /\ k \in Int /\ x \in Int /\ y \in Int /\ i < j
        BY <2>3, <2>13, <3>1
      <4>2. x = i \/ x = i + 1
        BY <3>2, <4>1
      <4>3. CASE j < k
        <5>1. y = j /\ x = i
          BY <3>2, <3>3, <4>1, <4>3
        <5>2. QED
          BY <4>1, <5>1
      <4>4. CASE j >= k
        <5>1. y = j + 1
          BY <3>3, <4>4
        <5>2. QED
          BY <4>1, <4>2, <5>1
      <4>5. QED
        BY <4>1, <4>3, <4>4
    <3>5. QED
      BY <1>1, <3>2, <3>3, <3>4
  <2>14. ASSUME NEW j \in DOMAIN plans, plans[j] # p PROVE \E i \in DOMAIN rest : rest[i] = plans[j]
    <3>1. j \in 1..n /\ j # k
      BY <1>1, <2>2, <2>14
    <3>2. CASE j < k
      <4>1. j \in 1..(n - 1)
        BY <2>3, <3>1, <3>2
      <4>2. QED
        BY <2>9, <3>2, <4>1
    <3>3. CASE j > k
      <4>1. j - 1 \in 1..(n - 1) /\ j - 1 >= k /\ (j - 1) + 1 = j
        BY <2>3, <3>1, <3>3
      <4>2. rest[j - 1] = plans[j]
        BY <2>9, <4>1
      <4>3. QED
        BY <2>9, <4>1, <4>2
    <3>4. QED
      BY <2>3, <3>1, <3>2, <3>3
  <2>15. WithApproved(plans, p) = Append(rest, p)
    BY <1>1, <1>3, <2>2, <2>4, <2>20 DEF WithApproved, RemoveAt
  <2>16. PICK w : w = WithApproved(plans, p)
    OBVIOUS
  <2>17. w = Append(rest, p)
    BY <2>15, <2>16
  <2>18. QED
    BY <1>2, <2>12, <2>13, <2>14, <2>16, <2>17, <2>21
<1>4. CASE p \notin ToSet(plans)
  <2>1. PICK w : w = WithApproved(plans, p)
    OBVIOUS
  <2>2. w = Append(plans, p)
    BY <1>4, <2>1 DEF WithApproved
  <2>3. \A i \in DOMAIN plans : plans[i] # p
    BY <1>4 DEF ToSet
  <2>4. QED
    BY <1>2, <2>1, <2>2, <2>3
<1>5. QED
  BY <1>3, <1>4

LEMMA ApprovePlanStep == ASSUME HandoffInv, ApprovePlan PROVE HandoffInv'
<1>1. HandoffTypes /\ Copied /\ ApprovedInOrder
  BY DEF HandoffInv
<1>2. UNCHANGED <<said, current, named, kept, copy, cut, stopped, listed, turns, draft, context, markers, agent, there,
                  edited, losses>>
  BY DEF ApprovePlan, parentVars, agentVars
<1>3. /\ draft \in PlanContents /\ snapshots' \in SUBSET PlanContents /\ approved \in Seq(PlanContents)
      /\ approvedAt \in [PlanContents -> 0..MaxApprovals] /\ approvals \in 0..MaxApprovals
  BY <1>1, FirstConversation DEF ApprovePlan, HandoffTypes, PlanContents
<1>4. /\ approved' \in Seq(PlanContents) /\ approvedAt' \in [PlanContents -> 0..MaxApprovals]
      /\ approvals' \in 0..MaxApprovals /\ ApprovedInOrder'
  <2>1. CASE UNCHANGED <<approved, approvedAt, approvals>>
    BY <1>1, <1>3, <2>1 DEF ApprovedInOrder
  <2>2. CASE /\ approvals < MaxApprovals /\ approvals' = approvals + 1
             /\ approved' = WithApproved(approved, draft)
             /\ approvedAt' = [approvedAt EXCEPT ![draft] = approvals + 1]
    <3>1. PICK m \in 0..MaxApprovals : m = approvals + 1 /\ m > approvals
      BY <1>3, <2>2, FirstConversation
    <3>2. approvedAt' \in [PlanContents -> 0..MaxApprovals] /\ \A p \in PlanContents : approvedAt'[p] = IF p = draft THEN m ELSE approvedAt[p]
      BY <1>3, <2>2, <3>1
    <3>3. /\ \A i \in DOMAIN approved : approvedAt[approved[i]] <= approvals
          /\ \A i, j \in DOMAIN approved : i < j => approvedAt[approved[i]] < approvedAt[approved[j]]
          /\ \A p \in PlanContents : approvedAt[p] > 0 => \E i \in DOMAIN approved : approved[i] = p
      BY <1>1 DEF ApprovedInOrder
    <3>4. PICK w : w = WithApproved(approved, draft)
      OBVIOUS
    <3>5. approvedAt \in [PlanContents -> Nat]
      BY <1>3, FirstConversation
    <3>20. Moved(approved, draft, approvedAt, w)
      BY <1>3, <3>3, <3>4, <3>5, WithApprovedIs
    <3>6. /\ w \in Seq(PlanContents) /\ Len(w) \in Nat /\ Len(w) > 0 /\ w[Len(w)] = draft
          /\ \A i \in 1..(Len(w) - 1) : w[i] # draft /\ \E j \in DOMAIN approved : w[i] = approved[j]
          /\ \A i, j \in 1..(Len(w) - 1) : i < j => approvedAt[w[i]] < approvedAt[w[j]]
          /\ \A j \in DOMAIN approved : \E i \in DOMAIN w : w[i] = approved[j]
      BY <3>20 DEF Moved
    <3>7. PICK n \in Nat : n = Len(w) /\ n > 0 /\ DOMAIN w = 1..n /\ \A i \in 1..n : w[i] \in PlanContents
      BY <3>6, LenProperties, ElementOfSeq
    <3>8. approved' = w /\ approvals' = m
      BY <2>2, <3>1, <3>4
    <3>9. ASSUME NEW i \in 1..(n - 1)
          PROVE  /\ i \in 1..n /\ w[i] # draft /\ approvedAt'[w[i]] = approvedAt[w[i]] /\ approvedAt[w[i]] <= approvals
                 /\ approvedAt[w[i]] \in Nat
      <4>1. w[i] # draft /\ \E j \in DOMAIN approved : w[i] = approved[j]
        BY <3>6, <3>7
      <4>2. i \in 1..n
        OBVIOUS
      <4>3. w[i] \in PlanContents
        BY <3>7, <4>2
      <4>4. QED
        BY <3>2, <3>3, <3>5, <4>1, <4>2, <4>3
    <3>10. w[n] = draft /\ approvedAt'[draft] = m /\ n \in 1..n
      BY <1>3, <3>2, <3>6, <3>7
    <3>11. ASSUME NEW i \in DOMAIN w PROVE approvedAt'[w[i]] <= m
      <4>1. i = n \/ i \in 1..(n - 1)
        BY <3>7
      <4>2. QED
        BY <1>3, <3>1, <3>9, <3>10, <4>1
    <3>12. ASSUME NEW i \in DOMAIN w, NEW j \in DOMAIN w, i < j PROVE approvedAt'[w[i]] < approvedAt'[w[j]]
      <4>1. i \in 1..(n - 1) /\ (j = n \/ j \in 1..(n - 1))
        BY <3>7, <3>12
      <4>2. CASE j = n
        BY <1>3, <3>1, <3>9, <3>10, <4>1, <4>2
      <4>3. CASE j \in 1..(n - 1)
        BY <3>6, <3>7, <3>9, <3>12, <4>1, <4>3
      <4>4. QED
        BY <4>1, <4>2, <4>3
    <3>13. ASSUME NEW p \in PlanContents, approvedAt'[p] > 0 PROVE \E i \in DOMAIN w : w[i] = p
      BY <3>2, <3>3, <3>6, <3>7, <3>10, <3>13
    <3>14. QED
      BY <3>2, <3>6, <3>8, <3>11, <3>12, <3>13 DEF ApprovedInOrder
  <2>3. QED
    BY <2>1, <2>2 DEF ApprovePlan
<1>5. HandoffTypes' /\ Copied'
  BY <1>1, <1>2, <1>3, <1>4 DEF HandoffTypes, Copied
<1>6. QED
  BY <1>2, <1>4, <1>5 DEF HandoffInv, Proposed

LEMMA PlanSteps == ASSUME HandoffInv, WritePlan \/ ApprovePlan PROVE HandoffInv'
<1>1. CASE WritePlan
  <2>1. HandoffTypes
    BY DEF HandoffInv
  <2>2. /\ draft' \in 0..MaxPlans
        /\ UNCHANGED <<said, current, named, kept, copy, cut, stopped, listed, turns, approved, snapshots, approvedAt,
                       approvals, context, markers, agent, there, edited, losses>>
    BY <1>1, FirstConversation DEF WritePlan, parentVars, agentVars
  <2>3. HandoffTypes'
    BY <2>1, <2>2 DEF HandoffTypes
  <2>4. QED
    BY <2>2, <2>3 DEF HandoffInv, Copied, ApprovedInOrder, Proposed
<1>2. QED
  BY <1>1, ApprovePlanStep

-----------------------------------------------------------------------------
(* The context of a child. *)

\* A finite set of numbers has a largest: of the sets of what is larger than one of them a
\* smallest one is empty.
LEMMA LargestExists ==
  ASSUME NEW S \in SUBSET Nat, IsFiniteSet(S), S # {}
  PROVE  \E m \in S : \A i \in S : m >= i
<1>1. PICK larger : larger = [m \in S |-> {i \in S : i > m}]
  OBVIOUS
<1>2. PICK T : T = {larger[m] : m \in S}
  OBVIOUS
<1>3. T \subseteq FiniteSubsetsOf(S) /\ T # {}
  <2>1. ASSUME NEW m \in S PROVE larger[m] \in SUBSET S /\ IsFiniteSet(larger[m])
    BY <1>1, FS_Subset
  <2>2. QED
    BY <1>2, <2>1 DEF FiniteSubsetsOf
<1>4. PICK x \in T : \A y \in T : <<y, x>> \notin StrictSubsetOrdering(S)
  BY <1>3, FS_StrictSubsetOrderingWellFounded, WFMin
<1>5. PICK m \in S : x = larger[m]
  BY <1>2
<1>6. ASSUME NEW i \in S, ~(m >= i) PROVE FALSE
  <2>1. larger[m] = {j \in S : j > m} /\ larger[i] = {j \in S : j > i}
    BY <1>1
  <2>2. m \in Nat /\ i \in Nat /\ i > m /\ ~(i > i) /\ \A j \in Nat : j > i => j > m
    BY <1>6
  <2>3. i \in larger[m] /\ i \notin larger[i] /\ larger[i] \subseteq larger[m] /\ larger[m] \subseteq S
    BY <2>1, <2>2
  <2>4. <<larger[i], larger[m]>> \in StrictSubsetOrdering(S)
    BY <2>3 DEF StrictSubsetOrdering
  <2>5. QED
    BY <1>2, <1>4, <1>5, <2>4
<1>7. QED
  BY <1>6

\* The plan a context takes is the one approved last of those on disk.
LEMMA PlanContentIs ==
  ASSUME HandoffInv
  PROVE  /\ PlanContent \in 0..MaxPlans
         /\ PlanContent # 0 => \A p \in snapshots : approvedAt[p] <= approvedAt[PlanContent]
<1>1. /\ draft \in 0..MaxPlans /\ approved \in Seq(PlanContents) /\ ApprovedInOrder /\ MaxPlans \in Nat
      /\ snapshots \in SUBSET PlanContents /\ approvedAt \in [PlanContents -> 0..MaxApprovals] /\ MaxApprovals \in Nat
  BY FirstConversation DEF HandoffInv, HandoffTypes
<1>2. PICK onDisk : onDisk = {i \in DOMAIN approved : approved[i] \in snapshots}
  OBVIOUS
<1>3. PlanContent = IF onDisk # {} THEN approved[Max(onDisk)] ELSE draft
  BY <1>2 DEF PlanContent
<1>4. PICK n \in Nat : DOMAIN approved = 1..n /\ \A i \in 1..n : approved[i] \in PlanContents
  BY <1>1, LenProperties, ElementOfSeq
<1>5. ASSUME NEW p \in snapshots PROVE approvedAt[p] = 0 \/ \E i \in onDisk : approved[i] = p
  <2>1. p \in PlanContents /\ approvedAt[p] \in 0..MaxApprovals
    BY <1>1
  <2>2. CASE approvedAt[p] > 0
    BY <1>1, <1>2, <2>1, <2>2 DEF ApprovedInOrder
  <2>3. QED
    BY <1>1, <2>1, <2>2
<1>6. CASE onDisk = {}
  <2>1. PlanContent = draft
    BY <1>3, <1>6
  <2>2. draft # 0 => draft \in PlanContents
    BY <1>1 DEF PlanContents
  <2>3. ASSUME draft # 0, NEW p \in snapshots PROVE approvedAt[p] <= approvedAt[draft]
    <3>1. approvedAt[draft] \in 0..MaxApprovals /\ approvedAt[p] = 0
      BY <1>1, <1>5, <1>6, <2>2, <2>3
    <3>2. QED
      BY <1>1, <3>1
  <2>4. QED
    BY <1>1, <2>1, <2>3
<1>7. CASE onDisk # {}
  <2>1. onDisk \subseteq Nat /\ \A i \in onDisk : i <= n
    BY <1>2, <1>4
  <2>2. \E m \in onDisk : \A i \in onDisk : m >= i
    <3>1. IsFiniteSet(onDisk)
      BY <1>4, <2>1, FS_BoundedSetOfNaturals
    <3>2. QED
      BY <1>7, <2>1, <3>1, LargestExists
  <2>3. Max(onDisk) \in onDisk /\ \A i \in onDisk : Max(onDisk) >= i
    BY <2>2 DEF Max
  <2>4. PICK m : m = Max(onDisk)
    OBVIOUS
  <2>5. m \in 1..n /\ PlanContent = approved[m] /\ approved[m] \in PlanContents /\ approvedAt[approved[m]] \in 0..MaxApprovals
    BY <1>1, <1>2, <1>3, <1>4, <1>7, <2>3, <2>4
  <2>6. ASSUME NEW p \in snapshots PROVE approvedAt[p] <= approvedAt[approved[m]]
    <3>1. CASE approvedAt[p] = 0
      BY <1>1, <2>5, <3>1
    <3>2. ASSUME NEW i \in onDisk, approved[i] = p PROVE approvedAt[p] <= approvedAt[approved[m]]
      <4>1. i \in 1..n /\ m >= i
        BY <1>2, <1>4, <2>3, <2>4, <3>2
      <4>2. CASE i = m
        BY <2>5, <3>2, <4>2, <1>1
      <4>3. CASE i < m
        <5>1. approvedAt[approved[i]] < approvedAt[approved[m]]
          BY <1>1, <1>4, <2>5, <4>1, <4>3 DEF ApprovedInOrder
        <5>2. approvedAt[p] \in 0..MaxApprovals
          BY <1>1
        <5>3. QED
          BY <1>1, <2>5, <3>2, <5>1, <5>2
      <4>4. QED
        BY <2>5, <4>1, <4>2, <4>3
    <3>3. QED
      BY <1>5, <3>1, <3>2
  <2>7. QED
    BY <1>1, <2>5, <2>6 DEF PlanContents
<1>8. QED
  BY <1>6, <1>7

\* The more turns there are the more a context draws on, whatever its kind.
LEMMA WithinGrows ==
  ASSUME NEW n \in Nat, NEW m \in Nat, n <= m, NEW kind
  PROVE  /\ Within(kind, n) <= Within(kind, m) /\ Within(kind, m) \in 0..m
BY FirstConversation DEF Within

LEMMA ProcessHandoffStep ==
  ASSUME HandoffInv, ProcessHandoff
  PROVE  /\ HandoffInv'
         /\ context'.conv # 0 =>
               LET c == IF EndsInCopy THEN Last(listed).conv ELSE named
               IN  /\ context'.conv = c
                   /\ (EndsInCopy /\ c \in cut) \/ context'.turns >= Within(context'.kind, stopped[c])
         /\ context'.plan # 0 => \A p \in snapshots : approvedAt[p] <= approvedAt[context'.plan]
<1>1. HandoffTypes /\ Copied
  BY DEF HandoffInv
<1>2. UNCHANGED <<parentVars, planVars, agentVars, losses>>
  BY DEF ProcessHandoff
<1>3. PICK kind, used, conv, n, plan :
        /\ context' = [kind |-> kind, conv |-> IF used THEN conv ELSE 0,
                       turns |-> IF used THEN Within(kind, n) ELSE 0, plan |-> plan]
        /\ conv = SourceConv /\ n = SourceTurns /\ (used => n > 0) /\ used \in BOOLEAN /\ kind \in Strategies
        /\ plan = PlanContent \/ plan = 0
  <2>1. PICK strategy \in Strategies, answers \in BOOLEAN, inline \in BOOLEAN :
            context' = Assembled(strategy, answers, inline)
    BY DEF ProcessHandoff
  <2>2. PICK kind : kind = Kind(strategy, answers)
    OBVIOUS
  <2>3. kind \in Strategies
    BY <2>1, <2>2 DEF Kind, Strategies
  <2>4. PICK used \in BOOLEAN : used = (kind # "minimal" /\ SourceTurns > 0)
    OBVIOUS
  <2>5. context' = [kind |-> kind, conv |-> IF used THEN SourceConv ELSE 0,
                    turns |-> IF used THEN Within(kind, SourceTurns) ELSE 0,
                    plan |-> IF inline THEN PlanContent ELSE 0]
    BY <2>1, <2>2, <2>4 DEF Assembled
  <2>6. QED
    BY <2>3, <2>4, <2>5
<1>4. EndsInCopy => Last(listed).conv \in Conversations
  <2>1. listed # <<>> => Len(listed) \in DOMAIN listed
    BY <1>1 DEF HandoffTypes
  <2>2. listed # <<>> => Last(listed) \in Entries
    BY <1>1, <2>1 DEF HandoffTypes, Last
  <2>3. QED
    BY <2>2 DEF EndsInCopy, Entries
<1>5. PICK c : c = IF EndsInCopy THEN Last(listed).conv ELSE named
  OBVIOUS
<1>6. c \in Conversations /\ stopped[c] \in Nat /\ said[c] \in Turns /\ copy[c] \in Turns
  BY <1>1, <1>4, <1>5 DEF HandoffTypes, Turns
<1>7. /\ conv \in Conversations \cup {0} /\ n \in Turns
      /\ n > 0 => conv = c /\ ((EndsInCopy /\ c \in cut) \/ n >= stopped[c])
  <2>1. 0 \in Turns
    BY FirstConversation DEF Turns
  <2>2. CASE EndsInCopy
    <3>1. conv = c /\ n = copy[c]
      BY <1>3, <1>5, <2>2 DEF SourceConv, SourceTurns
    <3>2. c \in cut \/ copy[c] = 0 \/ copy[c] >= stopped[c]
      BY <1>1, <1>6 DEF Copied
    <3>3. QED
      BY <1>6, <2>2, <3>1, <3>2
  <2>3. CASE ~EndsInCopy
    <3>1. \/ conv = c /\ n = said[c]
          \/ conv = 0 /\ n = 0
      BY <1>3, <1>5, <2>3 DEF SourceConv, SourceTurns
    <3>2. stopped[c] <= said[c] /\ said[c] \in Nat
      BY <1>1, <1>6 DEF Copied, Turns
    <3>3. QED
      BY <1>6, <2>1, <3>1, <3>2
  <2>4. QED
    BY <2>2, <2>3
<1>8. plan \in 0..MaxPlans /\ (plan # 0 => \A p \in snapshots : approvedAt[p] <= approvedAt[plan])
  BY <1>3, PlanContentIs, FirstConversation
<1>9. n \in Nat /\ Within(kind, n) \in Turns
  <2>1. n \in Nat /\ n <= MaxTurns
    BY <1>7, FirstConversation DEF Turns
  <2>2. Within(kind, n) \in 0..n
    BY <2>1, WithinGrows
  <2>3. QED
    BY <2>1, <2>2, FirstConversation DEF Turns
<1>10. context' \in Context
  <2>1. 0 \in Turns
    BY FirstConversation DEF Turns
  <2>2. QED
    BY <1>3, <1>7, <1>8, <1>9, <2>1 DEF Context
<1>11. HandoffTypes'
  BY <1>1, <1>2, <1>10 DEF HandoffTypes, parentVars, planVars, agentVars
<1>12. HandoffInv'
  BY <1>2, <1>11 DEF HandoffInv, Copied, ApprovedInOrder, Proposed, parentVars, planVars, agentVars
<1>13. context'.conv # 0 =>
         /\ context'.conv = c
         /\ (EndsInCopy /\ c \in cut) \/ context'.turns >= Within(context'.kind, stopped[c])
  <2>1. SUFFICES ASSUME context'.conv # 0
                 PROVE  /\ context'.conv = c
                        /\ (EndsInCopy /\ c \in cut) \/ context'.turns >= Within(context'.kind, stopped[c])
    OBVIOUS
  <2>2. used /\ n > 0 /\ context'.conv = conv /\ context'.turns = Within(kind, n) /\ context'.kind = kind
    BY <1>3, <2>1
  <2>3. ASSUME n >= stopped[c] PROVE Within(kind, n) >= Within(kind, stopped[c])
    <3>1. /\ Within(kind, stopped[c]) <= Within(kind, n)
          /\ Within(kind, stopped[c]) \in 0..stopped[c] /\ Within(kind, n) \in 0..n
      BY <1>6, <1>9, <2>3, WithinGrows
    <3>2. QED
      BY <1>6, <1>9, <3>1
  <2>4. QED
    BY <1>7, <2>2, <2>3
<1>14. QED
  BY <1>3, <1>5, <1>8, <1>12, <1>13

-----------------------------------------------------------------------------
(* The agent. *)

\* What is designated and ready is not what it shadows.
LEMMA ReadyAreProposed == Proposed({d.path : d \in ReadyDocs}) /\ {d.path : d \in ReadyDocs} \in SUBSET Docs
<1>1. ASSUME NEW d \in ReadyDocs PROVE d \in Designated /\ (d.strategy = "suggested" => d.shadows # d.path)
  BY DEF ReadyDocs, ValidDocs, Consistent, Differs
<1>2. QED
  BY <1>1, HandoffAssumption DEF Proposed

LEMMA AgentSteps == ASSUME HandoffInv, LaunchAgent \/ FinishAgent PROVE HandoffInv'
<1>1. HandoffTypes /\ Copied /\ Proposed(agent.prompt) /\ Proposed(edited)
  BY DEF HandoffInv
<1>2. UNCHANGED <<said, current, named, kept, copy, cut, stopped, listed, turns, draft, approved, snapshots,
                  approvedAt, approvals, context, there, losses>>
  BY DEF LaunchAgent, FinishAgent, parentVars, planVars
<1>3. NoAgent \in [state : {"idle", "running"}, conv : Conversations \cup {0}, prompt : SUBSET Docs] /\ NoAgent.prompt = {}
  BY DEF NoAgent
<1>4. /\ markers' \in SUBSET markers
      /\ agent' \in [state : {"idle", "running"}, conv : Conversations \cup {0}, prompt : SUBSET Docs]
      /\ Proposed(agent'.prompt) /\ edited' \in SUBSET Docs /\ Proposed(edited')
  <2>1. CASE LaunchAgent
    <3>1. PICK k \in markers :
            /\ markers' = markers \ {k}
            /\ agent' = NoAgent \/ agent' = [state |-> "running", conv |-> k.conv, prompt |-> {d.path : d \in ReadyDocs}]
      BY <2>1 DEF LaunchAgent
    <3>2. edited' = edited /\ k.conv \in Conversations
      BY <1>1, <2>1 DEF LaunchAgent, HandoffTypes
    <3>3. Proposed({})
      BY DEF Proposed
    <3>4. CASE agent' = NoAgent
      BY <1>1, <1>3, <3>1, <3>2, <3>3, <3>4 DEF HandoffTypes
    <3>5. CASE agent' = [state |-> "running", conv |-> k.conv, prompt |-> {d.path : d \in ReadyDocs}]
      <4>1. PICK prompt \in SUBSET Docs : prompt = {d.path : d \in ReadyDocs} /\ Proposed(prompt)
        BY ReadyAreProposed
      <4>2. agent' = [state |-> "running", conv |-> k.conv, prompt |-> prompt]
        BY <3>5, <4>1
      <4>3. agent'.prompt = prompt
        BY <4>2
      <4>4. QED
        BY <1>1, <3>1, <3>2, <4>1, <4>2, <4>3 DEF HandoffTypes
    <3>6. QED
      BY <3>1, <3>4, <3>5
  <2>2. CASE FinishAgent
    <3>1. PICK d \in SUBSET (agent.prompt \cap there) : edited' = edited \cup d
      BY <2>2 DEF FinishAgent
    <3>2. agent' = NoAgent /\ markers' = markers /\ agent.prompt \in SUBSET Docs
      BY <1>1, <2>2 DEF FinishAgent, HandoffTypes
    <3>3. Proposed(edited')
      BY <1>1, <3>1 DEF Proposed
    <3>4. QED
      BY <1>1, <1>3, <3>1, <3>2, <3>3 DEF HandoffTypes, Proposed
  <2>3. QED
    BY <2>1, <2>2
<1>5. HandoffTypes' /\ Copied'
  BY <1>1, <1>2, <1>4 DEF HandoffTypes, Copied
<1>6. QED
  BY <1>2, <1>4, <1>5 DEF HandoffInv, ApprovedInOrder, Proposed

LEMMA HandoffNextInv == ASSUME HandoffInv, [HandoffNext]_handoffVars PROVE HandoffInv'
<1>1. CASE UNCHANGED handoffVars
  BY <1>1 DEF HandoffInv, HandoffTypes, Copied, ApprovedInOrder, Proposed, handoffVars, parentVars, planVars, agentVars
<1>2. CASE ParentStep
  BY <1>2, SayStep, StopTurnStep, StopFailsStep, RollOverStep, PlanSteps, RemovalSteps DEF ParentStep
<1>3. CASE ProcessHandoff
  BY <1>3, ProcessHandoffStep
<1>4. CASE LaunchAgent \/ FinishAgent
  BY <1>4, AgentSteps
<1>5. CASE \E d \in Docs : UserRemovesDoc(d)
  BY <1>5, RemovalSteps
<1>6. QED
  BY <1>1, <1>2, <1>3, <1>4, <1>5 DEF HandoffNext

THEOREM HandoffInvariance == HandoffSpec => []HandoffInv
<1>1. HandoffInit => HandoffInv
  BY HandoffInitInv
<1>2. HandoffInv /\ [HandoffNext]_handoffVars => HandoffInv'
  BY HandoffNextInv
<1>3. QED
  BY <1>1, <1>2, PTL DEF HandoffSpec

\* Only the assembly of a context changes one.
LEMMA OnlyAssembly ==
  ASSUME [HandoffNext]_handoffVars, context' # context
  PROVE  ProcessHandoff
BY DEF HandoffNext, ParentStep, Say, StopTurn, StopFails, PreCompact, RollOver, WritePlan, ApprovePlan, DropTranscript, DropCopy,
   DropSnapshot, LaunchAgent, FinishAgent, UserRemovesDoc, handoffVars

\* What a session hands on is what it was (process_handoff, _resolve_plan_content, the Stop
\* and PreCompact hooks and the handoff agent): a context is of the copy listed last, or of the
\* conversation the manifest names when the last entry has no copy, and draws on all its last
\* recorded Stop saw, or on as many turns as a curation is shown; no plan on disk was approved
\* later than the one inlined; a waiting marker's copy holds what it was left for; and a
\* document that is only shadowed is not edited - in whatever order conversations, compactions,
\* stops, approvals, losses and agents follow one another, but for copies cut short.
THEOREM HandoffFaithful == HandoffSpec => HandoffIsFaithful
<1>1. HandoffInv => HandoffTypeOK /\ MarkedTurnsAreCopied /\ OfficialDocsAreOnlyProposedTo
  BY DEF HandoffInv, HandoffTypes, Turns, PlanContents, Entries, Context, Copied, Proposed, HandoffTypeOK,
     MarkedTurnsAreCopied, OfficialDocsAreOnlyProposedTo
<1>2. HandoffInv /\ [HandoffNext]_handoffVars =>
         [context' # context /\ context'.conv # 0
            => LET c == IF EndsInCopy THEN Last(listed).conv ELSE named
               IN  /\ context'.conv = c
                   /\ (EndsInCopy /\ c \in cut)
                        \/ context'.turns >= Within(context'.kind, stopped[c])]_handoffVars
  BY OnlyAssembly, ProcessHandoffStep
<1>3. HandoffInv /\ [HandoffNext]_handoffVars =>
         [context' # context /\ context'.plan # 0
            => \A p \in snapshots : approvedAt[p] <= approvedAt[context'.plan]]_handoffVars
  BY OnlyAssembly, ProcessHandoffStep
<1>4. QED
  BY <1>1, <1>2, <1>3, HandoffInvariance, PTL
     DEF HandoffSpec, HandoffIsFaithful, ContextReachesTheLastStop, InlinedPlanIsNewest

-----------------------------------------------------------------------------
(***************************************************************************)
(* ProxyStream, for any number of tool calls and chunks.                   *)
(*                                                                         *)
(* While a stream is converted the block that is current is the last one,  *)
(* and a buffered call names a tool block (Linked).  As long as every call *)
(* came with its name, all blocks but the current one and superseded tool  *)
(* calls are stopped, and a current call is the one of the highest index   *)
(* (BlocksInOrder); as long as no text followed a call no block of a call  *)
(* is stopped (Open).                                                      *)
(***************************************************************************)

BlockKinds == {"text", "tool_use"}
Endings == {"start", "message_stop", "error", "error_stop", "cancelled"}

Whole11(s) ==
  s = [blocks |-> s.blocks, closed |-> s.closed, current |-> s.current, text |-> s.text, buffer |-> s.buffer,
       usage |-> s.usage, nullStops |-> s.nullStops, strays |-> s.strays, finish |-> s.finish, sent |-> s.sent,
       failed |-> s.failed]

Shaped(s, k) ==
  /\ Whole11(s) /\ s.blocks \in Seq(BlockKinds) /\ s.closed \in Seq(Nat) /\ Len(s.closed) = Len(s.blocks)
  /\ s.buffer \in [0..(k - 1) -> {Nameless} \cup (1..Len(s.blocks))]
  /\ s.current \in {"none", "text", "tool_use"} /\ s.text \in BOOLEAN /\ s.nullStops \in Nat /\ s.strays \in Nat
  /\ s.usage \in {NoUsage, SomeUsage} /\ s.sent \in Endings /\ s.failed \in BOOLEAN

Linked(s, k) ==
  /\ s.text <=> s.current = "text"
  /\ s.current # "none" => Len(s.blocks) > 0 /\ s.blocks[Len(s.blocks)] = s.current
  /\ s.current = "tool_use" => k > 0
  /\ \A i \in 0..(k - 1) : s.buffer[i] # Nameless => s.blocks[s.buffer[i]] = "tool_use"

Superseded(s, b) ==
  s.closed[b] = 0 /\ b < Len(s.blocks) /\ s.blocks[b] = "tool_use" /\ s.blocks[b + 1] = "tool_use"

BlocksInOrder(s, k) ==
  /\ s.nullStops = 0 /\ \A i \in 0..(k - 1) : s.buffer[i] # Nameless
  /\ s.current = "tool_use" => s.buffer[k - 1] = Len(s.blocks)
  /\ s.current # "none" => s.closed[Len(s.blocks)] = 0
  /\ \A b \in 1..Len(s.blocks) :
        \/ s.closed[b] = 1
        \/ Superseded(s, b)
        \/ b = Len(s.blocks) /\ s.current # "none"

Open(s, k) == s.strays = 0 /\ \A i \in 0..(k - 1) : s.buffer[i] # Nameless => s.closed[s.buffer[i]] = 0

Good(s, k, late, resumed) ==
  Shaped(s, k) /\ Linked(s, k) /\ (~late => BlocksInOrder(s, k)) /\ (~resumed => Open(s, k))

\* What the conversion of a chunk leaves alone.
Rest(s, t) == t.usage = s.usage /\ t.finish = s.finish /\ t.sent = s.sent /\ t.failed = s.failed

\* The stream t is s with another current block and block b stopped once more.
Stopped(s, t, b, mode, text) ==
  /\ Whole11(t) /\ Rest(s, t) /\ t.blocks = s.blocks /\ t.closed \in Seq(Nat) /\ Len(t.closed) = Len(s.blocks)
  /\ t.buffer = s.buffer /\ t.current = mode /\ t.text = text
  /\ t.nullStops = s.nullStops /\ t.strays = s.strays
  /\ t.closed[b] = s.closed[b] + 1 /\ \A c \in 1..Len(s.blocks) : c # b => t.closed[c] = s.closed[c]

LEMMA StoppedBlock ==
  ASSUME NEW k \in Nat, NEW s, Shaped(s, k), NEW b \in 1..Len(s.blocks), NEW mode, NEW text \in BOOLEAN,
         NEW t, t = [s EXCEPT !.closed[b] = s.closed[b] + 1, !.current = mode, !.text = text]
  PROVE  Stopped(s, t, b, mode, text)
<1>1. PICK m : m = s.closed[b] + 1
  OBVIOUS
<1>2. PICK closed : closed = [s.closed EXCEPT ![b] = m]
  OBVIOUS
<1>3. s.closed \in Seq(Nat) /\ Len(s.closed) = Len(s.blocks) /\ Whole11(s)
  BY DEF Shaped
<1>4. DOMAIN s.closed = 1..Len(s.blocks)
  BY <1>3
<1>5. m \in Nat
  <2>1. s.closed[b] \in Nat
    BY <1>3, <1>4, ElementOfSeq
  <2>2. QED
    BY <1>1, <2>1
<1>6. closed \in Seq(Nat) /\ Len(closed) = Len(s.blocks)
  BY <1>2, <1>3, <1>5, ExceptSeq
<1>7. closed[b] = m /\ \A c \in 1..Len(s.blocks) : c # b => closed[c] = s.closed[c]
  BY <1>2, <1>4
<1>8. t = [blocks |-> s.blocks, closed |-> closed, current |-> mode, text |-> text, buffer |-> s.buffer,
           usage |-> s.usage, nullStops |-> s.nullStops, strays |-> s.strays, finish |-> s.finish, sent |-> s.sent,
           failed |-> s.failed]
  BY <1>1, <1>2, <1>3 DEF Whole11
<1>9. /\ t.blocks = s.blocks /\ t.closed = closed /\ t.current = mode /\ t.text = text /\ t.buffer = s.buffer
      /\ t.usage = s.usage /\ t.nullStops = s.nullStops /\ t.strays = s.strays /\ t.finish = s.finish
      /\ t.sent = s.sent /\ t.failed = s.failed
  <2>1. t.blocks = s.blocks /\ t.buffer = s.buffer /\ t.usage = s.usage /\ t.nullStops = s.nullStops
    BY <1>8
  <2>6. t.closed = closed
    BY <1>1, <1>2, <1>3, <1>8 DEF Whole11
  <2>7. t.current = mode
    BY <1>8
  <2>2. t.text = text
    BY <1>8
  <2>3. t.failed = s.failed
    BY <1>8 DEF Shaped
  <2>4. t.strays = s.strays /\ t.finish = s.finish /\ t.sent = s.sent
    BY <1>8
  <2>5. QED
    BY <2>1, <2>2, <2>3, <2>4, <2>6, <2>7
<1>10. Whole11(t)
  BY <1>8, <1>9 DEF Whole11
<1>11. QED
  BY <1>1, <1>6, <1>7, <1>9, <1>10 DEF Rest, Stopped

\* A text block that is left is stopped.
LEMMA TextIsLeft ==
  ASSUME NEW k \in Nat, NEW late \in BOOLEAN, NEW resumed \in BOOLEAN, NEW s, Good(s, k, late, resumed)
  PROVE  /\ Good(LeaveText(s), k, late, resumed) /\ Rest(s, LeaveText(s)) /\ LeaveText(s).current # "text"
         /\ LeaveText(s).buffer = s.buffer
<1>1. Shaped(s, k) /\ Linked(s, k)
  BY DEF Good
<1>2. PICK t, n : t = LeaveText(s) /\ n = Len(s.blocks)
  OBVIOUS
<1>3. CASE s.current # "text"
  <2>1. t = s
    BY <1>2, <1>3 DEF LeaveText
  <2>2. QED
    BY <1>2, <1>3, <2>1 DEF Rest
<1>4. CASE s.current = "text"
  <2>1. s.text /\ n > 0 /\ n \in Nat /\ s.blocks[n] = "text" /\ n \in 1..Len(s.blocks)
    BY <1>1, <1>2, <1>4 DEF Linked, Shaped
  <2>2. t = [[s EXCEPT !.closed[n] = s.closed[n] + 1] EXCEPT !.current = "none", !.text = FALSE]
    BY <1>2, <1>4, <2>1 DEF LeaveText, StopText
  <2>3. t = [s EXCEPT !.closed[n] = s.closed[n] + 1, !.current = "none", !.text = FALSE]
    BY <2>2
  <2>4. /\ Whole11(t) /\ Rest(s, t) /\ t.blocks = s.blocks /\ t.closed \in Seq(Nat) /\ Len(t.closed) = Len(s.blocks)
        /\ t.buffer = s.buffer /\ t.current = "none" /\ t.text = FALSE
        /\ t.nullStops = s.nullStops /\ t.strays = s.strays
        /\ t.closed[n] = s.closed[n] + 1 /\ \A c \in 1..Len(s.blocks) : c # n => t.closed[c] = s.closed[c]
    <3>1. PICK mode, text : mode = "none" /\ text = FALSE /\ text \in BOOLEAN
      OBVIOUS
    <3>2. t = [s EXCEPT !.closed[n] = s.closed[n] + 1, !.current = mode, !.text = text]
      BY <2>3, <3>1
    <3>3. Stopped(s, t, n, mode, text)
      BY <1>1, <2>1, <3>1, <3>2, StoppedBlock
    <3>4. QED
      BY <3>1, <3>3 DEF Stopped
  <2>5. Shaped(t, k)
    BY <1>1, <2>4 DEF Shaped, Rest
  <2>6. Linked(t, k)
    BY <1>1, <2>4 DEF Linked
  <2>7. ~late => BlocksInOrder(t, k)
    <3>1. SUFFICES ASSUME ~late PROVE BlocksInOrder(t, k)
      OBVIOUS
    <3>2. BlocksInOrder(s, k)
      BY <3>1 DEF Good
    <3>3. ASSUME NEW b \in 1..Len(t.blocks) PROVE t.closed[b] = 1 \/ Superseded(t, b)
      BY <1>2, <1>4, <2>4, <3>2 DEF BlocksInOrder, Superseded
    <3>4. QED
      BY <2>4, <3>2, <3>3 DEF BlocksInOrder
  <2>8. ~resumed => Open(t, k)
    <3>1. SUFFICES ASSUME ~resumed PROVE Open(t, k)
      OBVIOUS
    <3>2. Open(s, k)
      BY <3>1 DEF Good
    <3>3. ASSUME NEW i \in 0..(k - 1), t.buffer[i] # Nameless PROVE t.closed[t.buffer[i]] = 0
      <4>1. s.buffer[i] \in 1..Len(s.blocks) /\ s.blocks[s.buffer[i]] = "tool_use"
        BY <1>1, <2>4, <3>3 DEF Shaped, Linked
      <4>2. s.buffer[i] # n
        BY <2>1, <4>1
      <4>3. QED
        BY <2>4, <3>2, <3>3, <4>1, <4>2 DEF Open
    <3>4. QED
      BY <2>4, <3>2, <3>3 DEF Open
  <2>9. QED
    BY <1>2, <2>4, <2>5, <2>6, <2>7, <2>8 DEF Good
<1>5. QED
  BY <1>3, <1>4

\* The block of the call with the highest index.
LEMMA LastToolBlockIs ==
  ASSUME NEW k \in Nat, k > 0, NEW s, Shaped(s, k)
  PROVE  LastToolBlock(s) = s.buffer[k - 1] /\ LastToolBlock(s) \in {Nameless} \cup (1..Len(s.blocks))
<1>1. DOMAIN s.buffer = 0..(k - 1)
  BY DEF Shaped
<1>2. PICK S : S = 0..(k - 1)
  OBVIOUS
<1>3. k - 1 \in S /\ \A x \in S : k - 1 >= x
  BY <1>2
<1>4. \A x \in S : (\A y \in S : x >= y) => x = k - 1
  BY <1>2, <1>3
<1>5. Max(S) = k - 1
  BY <1>3, <1>4 DEF Max
<1>6. LastToolBlock(s) = s.buffer[k - 1]
  BY <1>1, <1>2, <1>5 DEF LastToolBlock
<1>7. QED
  BY <1>2, <1>3, <1>6 DEF Shaped

\* A tool block that is left for a text is stopped, if it is known.
LEMMA ToolIsLeft ==
  ASSUME NEW k \in Nat, NEW late \in BOOLEAN, NEW resumed \in BOOLEAN, NEW s, Good(s, k, late, resumed),
         s.current = "tool_use"
  PROVE  LET t == [StopTool(s) EXCEPT !.current = "none"]
         IN  Good(t, k, late, TRUE) /\ Rest(s, t) /\ t.current = "none" /\ ~t.text
<1>1. Shaped(s, k) /\ Linked(s, k) /\ k > 0 /\ ~s.text
  BY DEF Good, Linked
<1>2. PICK t, b : t = [StopTool(s) EXCEPT !.current = "none"] /\ b = LastToolBlock(s)
  OBVIOUS
<1>3. b = s.buffer[k - 1] /\ b \in {Nameless} \cup (1..Len(s.blocks))
  BY <1>1, <1>2, LastToolBlockIs
<1>4. CASE b = Nameless
  <2>1. PICK m : m = s.nullStops + 1
    OBVIOUS
  <2>2. t = [[s EXCEPT !.nullStops = m] EXCEPT !.current = "none"]
    BY <1>2, <1>4, <2>1 DEF StopTool
  <2>3. t = [blocks |-> s.blocks, closed |-> s.closed, current |-> "none", text |-> s.text, buffer |-> s.buffer,
             usage |-> s.usage, nullStops |-> m, strays |-> s.strays, finish |-> s.finish, sent |-> s.sent,
             failed |-> s.failed]
    BY <1>1, <2>2 DEF Shaped, Whole11
  <2>4. /\ t.blocks = s.blocks /\ t.closed = s.closed /\ t.current = "none" /\ t.text = s.text /\ t.buffer = s.buffer
        /\ t.usage = s.usage /\ t.nullStops = m /\ t.strays = s.strays /\ t.finish = s.finish
        /\ t.sent = s.sent /\ t.failed = s.failed
    BY <2>3
  <2>5. Whole11(t)
    BY <2>3, <2>4 DEF Whole11
  <2>6. Shaped(t, k) /\ Linked(t, k)
    BY SMTT(30), <1>1, <2>1, <2>4, <2>5 DEF Shaped, Linked
  <2>7. late
    <3>1. SUFFICES ASSUME ~late PROVE FALSE
      OBVIOUS
    <3>2. BlocksInOrder(s, k) /\ k - 1 \in 0..(k - 1)
      BY <1>1, <3>1 DEF Good
    <3>3. QED
      BY <1>3, <1>4, <3>2 DEF BlocksInOrder
  <2>8. QED
    BY <1>1, <1>2, <2>4, <2>6, <2>7 DEF Good, Rest
<1>5. CASE b # Nameless
  <2>1. b \in 1..Len(s.blocks)
    BY <1>3, <1>5
  <2>2. t = [[s EXCEPT !.closed[b] = s.closed[b] + 1] EXCEPT !.current = "none"]
    BY <1>2, <1>5 DEF StopTool
  <2>3. t = [s EXCEPT !.closed[b] = s.closed[b] + 1, !.current = "none", !.text = FALSE]
    <3>1. s.text = FALSE /\ Whole11(s)
      BY <1>1 DEF Shaped
    <3>2. QED
      BY <2>2, <3>1 DEF Whole11
  <2>4. /\ Whole11(t) /\ Rest(s, t) /\ t.blocks = s.blocks /\ t.closed \in Seq(Nat) /\ Len(t.closed) = Len(s.blocks)
        /\ t.buffer = s.buffer /\ t.current = "none" /\ t.text = FALSE
        /\ t.nullStops = s.nullStops /\ t.strays = s.strays
        /\ t.closed[b] = s.closed[b] + 1 /\ \A c \in 1..Len(s.blocks) : c # b => t.closed[c] = s.closed[c]
    <3>1. PICK mode, text : mode = "none" /\ text = FALSE /\ text \in BOOLEAN
      OBVIOUS
    <3>2. t = [s EXCEPT !.closed[b] = s.closed[b] + 1, !.current = mode, !.text = text]
      BY <2>3, <3>1
    <3>3. Stopped(s, t, b, mode, text)
      BY <1>1, <2>1, <3>1, <3>2, StoppedBlock
    <3>4. QED
      BY <3>1, <3>3 DEF Stopped
  <2>5. Shaped(t, k)
    BY <1>1, <2>4 DEF Shaped, Rest
  <2>6. Linked(t, k)
    BY <1>1, <2>4 DEF Linked
  <2>7. ~late => BlocksInOrder(t, k)
    <3>1. SUFFICES ASSUME ~late PROVE BlocksInOrder(t, k)
      OBVIOUS
    <3>2. BlocksInOrder(s, k)
      BY <3>1 DEF Good
    <3>3. b = Len(s.blocks) /\ s.closed[b] = 0
      BY <1>3, <3>2 DEF BlocksInOrder
    <3>4. ASSUME NEW c \in 1..Len(t.blocks) PROVE t.closed[c] = 1 \/ Superseded(t, c)
      BY SMTT(30), <2>4, <3>2, <3>3 DEF BlocksInOrder, Superseded
    <3>5. QED
      BY <2>4, <3>2, <3>4 DEF BlocksInOrder
  <2>8. QED
    BY <1>2, <2>4, <2>5, <2>6, <2>7 DEF Good
<1>6. QED
  BY <1>4, <1>5

\* The stream t is s with one more block, which is current.
Started(s, t, kind, buffer, text) ==
  /\ Whole11(t) /\ Rest(s, t) /\ t.blocks \in Seq(BlockKinds) /\ t.closed \in Seq(Nat)
  /\ Len(t.blocks) = Len(s.blocks) + 1 /\ Len(t.closed) = Len(s.blocks) + 1
  /\ t.blocks[Len(s.blocks) + 1] = kind /\ \A b \in 1..Len(s.blocks) : t.blocks[b] = s.blocks[b]
  /\ t.closed[Len(s.blocks) + 1] = 0 /\ \A b \in 1..Len(s.blocks) : t.closed[b] = s.closed[b]
  /\ t.current = kind /\ t.text = text /\ t.buffer = buffer /\ t.nullStops = s.nullStops /\ t.strays = s.strays

\* What was superseded stays so.
LEMMA SupersededStays ==
  ASSUME NEW s, NEW t, NEW kind, NEW buffer, NEW text, Started(s, t, kind, buffer, text), Len(s.blocks) \in Nat,
         NEW b \in 1..Len(s.blocks), Superseded(s, b)
  PROVE  Superseded(t, b)
<1>1. b + 1 \in 1..Len(s.blocks) /\ b < Len(t.blocks)
  BY SMTT(30) DEF Superseded, Started
<1>2. t.blocks[b] = s.blocks[b] /\ t.blocks[b + 1] = s.blocks[b + 1] /\ t.closed[b] = s.closed[b]
  BY <1>1 DEF Started
<1>3. QED
  BY <1>1, <1>2 DEF Superseded

StartedWith(s, kind, buffer, text) == [Start(s, kind) EXCEPT !.buffer = buffer, !.text = text]

LEMMA StartedBlock ==
  ASSUME NEW k \in Nat, NEW s, Shaped(s, k), NEW kind \in BlockKinds, NEW buffer, NEW text \in BOOLEAN,
         NEW t, t = StartedWith(s, kind, buffer, text)
  PROVE  Started(s, t, kind, buffer, text)
<1>1. /\ Whole11(s) /\ s.blocks \in Seq(BlockKinds) /\ s.closed \in Seq(Nat) /\ Len(s.closed) = Len(s.blocks)
      /\ s.failed \in BOOLEAN
  BY DEF Shaped
<1>2. PICK blocks, closed : blocks = Append(s.blocks, kind) /\ closed = Append(s.closed, 0)
  OBVIOUS
<1>3. /\ blocks \in Seq(BlockKinds) /\ Len(blocks) = Len(s.blocks) + 1 /\ blocks[Len(s.blocks) + 1] = kind
      /\ \A b \in 1..Len(s.blocks) : blocks[b] = s.blocks[b]
  BY <1>1, <1>2, AppendProperties
<1>4. /\ closed \in Seq(Nat) /\ Len(closed) = Len(s.blocks) + 1 /\ closed[Len(s.blocks) + 1] = 0
      /\ \A b \in 1..Len(s.blocks) : closed[b] = s.closed[b]
  <2>1. PICK N, zero : N = Nat /\ zero = 0 /\ zero \in N /\ s.closed \in Seq(N) /\ closed = Append(s.closed, zero)
    BY <1>1, <1>2
  <2>2. /\ closed \in Seq(N) /\ Len(closed) = Len(s.closed) + 1 /\ closed[Len(s.closed) + 1] = zero
        /\ \A b \in 1..Len(s.closed) : closed[b] = s.closed[b]
    BY <2>1, AppendProperties
  <2>3. QED
    BY <1>1, <2>1, <2>2
<1>5. Start(s, kind) = [s EXCEPT !.blocks = blocks, !.closed = closed, !.current = kind]
  BY <1>2 DEF Start
<1>6. t = [blocks |-> blocks, closed |-> closed, current |-> kind, text |-> text, buffer |-> buffer,
           usage |-> s.usage, nullStops |-> s.nullStops, strays |-> s.strays, finish |-> s.finish, sent |-> s.sent,
           failed |-> s.failed]
  BY <1>1, <1>5 DEF Whole11, StartedWith
<1>7. /\ t.blocks = blocks /\ t.closed = closed /\ t.current = kind /\ t.text = text /\ t.buffer = buffer
      /\ t.usage = s.usage /\ t.nullStops = s.nullStops /\ t.strays = s.strays /\ t.finish = s.finish
      /\ t.sent = s.sent /\ t.failed = s.failed
  <2>1. t.blocks = blocks /\ t.closed = closed
    BY <1>6
  <2>2. t.current = kind
    BY <1>6
  <2>3. t.text = text
    BY <1>6
  <2>4. t.buffer = buffer /\ t.usage = s.usage /\ t.nullStops = s.nullStops
    BY <1>6
  <2>5. t.strays = s.strays /\ t.finish = s.finish /\ t.sent = s.sent
    BY <1>6
  <2>6. t.failed = s.failed
    BY <1>1, <1>6
  <2>7. QED
    BY <2>1, <2>2, <2>3, <2>4, <2>5, <2>6
<1>8. Whole11(t)
  BY <1>6, <1>7 DEF Whole11
<1>9. QED
  BY <1>1, <1>3, <1>4, <1>7, <1>8 DEF Started, Rest

\* A text block starts where no block is current.
TextBlock(s) == [Start(s, "text") EXCEPT !.text = TRUE]
LEMMA TextStarts ==
  ASSUME NEW k \in Nat, NEW late \in BOOLEAN, NEW resumed \in BOOLEAN, NEW s, Good(s, k, late, resumed),
         s.current = "none"
  PROVE  Good(TextBlock(s), k, late, resumed) /\ Rest(s, TextBlock(s))
<1>1. Shaped(s, k) /\ Linked(s, k)
  BY DEF Good
<1>2. PICK t, n : t = TextBlock(s) /\ n = Len(s.blocks)
  OBVIOUS
<1>3. PICK kind, text : kind = "text" /\ kind \in BlockKinds /\ text = TRUE /\ text \in BOOLEAN
  BY DEF BlockKinds
<1>4. t = StartedWith(s, kind, s.buffer, text)
  BY <1>1, <1>2, <1>3 DEF Shaped, Whole11, Start, StartedWith, TextBlock
<1>5. Started(s, t, kind, s.buffer, text)
  BY <1>1, <1>3, <1>4, StartedBlock
<1>6. n \in Nat /\ s.buffer \in [0..(k - 1) -> {Nameless} \cup (1..n)]
  BY <1>1, <1>2 DEF Shaped
<1>7. s.buffer \in [0..(k - 1) -> {Nameless} \cup (1..(n + 1))]
  BY <1>6
<1>8. Shaped(t, k)
  BY <1>1, <1>2, <1>3, <1>5, <1>7 DEF Shaped, Started, Rest
<1>9. Linked(t, k)
  <2>1. ASSUME NEW i \in 0..(k - 1), t.buffer[i] # Nameless PROVE t.blocks[t.buffer[i]] = "tool_use"
    <3>1. s.buffer[i] \in 1..n /\ s.blocks[s.buffer[i]] = "tool_use"
      BY <1>1, <1>5, <1>6, <2>1 DEF Linked, Started
    <3>2. QED
      BY <1>2, <1>5, <3>1 DEF Started
  <2>2. QED
    BY <1>2, <1>3, <1>5, <1>6, <2>1 DEF Linked, Started
<1>10. ~late => BlocksInOrder(t, k)
  <2>1. SUFFICES ASSUME ~late PROVE BlocksInOrder(t, k)
    OBVIOUS
  <2>2. BlocksInOrder(s, k)
    BY <2>1 DEF Good
  <2>3. ASSUME NEW b \in 1..Len(t.blocks)
        PROVE  t.closed[b] = 1 \/ Superseded(t, b) \/ (b = Len(t.blocks) /\ t.current # "none")
    <3>1. CASE b = n + 1
      BY <1>2, <1>3, <1>5, <3>1 DEF Started
    <3>2. CASE b # n + 1
      <4>1. b \in 1..n /\ b + 1 \in 1..(n + 1)
        BY SMTT(30), <1>2, <1>5, <1>6, <2>3, <3>2 DEF Started
      <4>2. s.closed[b] = 1 \/ Superseded(s, b)
        BY <1>2, <2>2, <4>1 DEF BlocksInOrder
      <4>3. Superseded(s, b) => Superseded(t, b)
        BY <1>2, <1>5, <1>6, <4>1, SupersededStays
      <4>4. t.closed[b] = s.closed[b]
        BY <1>2, <1>5, <4>1 DEF Started
      <4>5. QED
        BY <4>2, <4>3, <4>4
    <3>3. QED
      BY <3>1, <3>2
  <2>4. QED
    BY <1>2, <1>3, <1>5, <2>2, <2>3 DEF BlocksInOrder, Started
<1>11. ~resumed => Open(t, k)
  <2>1. SUFFICES ASSUME ~resumed PROVE Open(t, k)
    OBVIOUS
  <2>2. Open(s, k)
    BY <2>1 DEF Good
  <2>3. ASSUME NEW i \in 0..(k - 1), t.buffer[i] # Nameless PROVE t.closed[t.buffer[i]] = 0
    <3>1. s.buffer[i] \in 1..n /\ s.closed[s.buffer[i]] = 0
      BY <1>5, <1>6, <2>2, <2>3 DEF Open, Started
    <3>2. QED
      BY <1>2, <1>5, <3>1 DEF Started
  <2>4. QED
    BY <1>5, <2>2, <2>3 DEF Open, Started
<1>12. Rest(s, t)
  BY <1>5 DEF Started
<1>13. QED
  BY <1>2, <1>8, <1>9, <1>10, <1>11, <1>12 DEF Good

LEMMA TextIsConverted ==
  ASSUME NEW k \in Nat, NEW late \in BOOLEAN, NEW resumed \in BOOLEAN, NEW after \in BOOLEAN, NEW s,
         Good(s, k, late, resumed), after = (resumed \/ k > 0)
  PROVE  Good(OnText(s), k, late, after) /\ Rest(s, OnText(s))
<1>1. Shaped(s, k) /\ Linked(s, k) /\ Good(s, k, late, after)
  BY DEF Good
<1>2. CASE s.current = "text"
  <2>1. OnText(s) = s
    BY <1>1, <1>2 DEF OnText, Linked
  <2>2. QED
    BY <1>1, <2>1 DEF Rest
<1>3. CASE s.current = "none"
  <2>1. OnText(s) = TextBlock(s)
    BY <1>1, <1>3 DEF OnText, Linked, TextBlock
  <2>2. QED
    BY <1>1, <1>3, <2>1, TextStarts
<1>4. CASE s.current = "tool_use"
  <2>1. after
    BY <1>1, <1>4 DEF Linked
  <2>2. PICK t : t = [StopTool(s) EXCEPT !.current = "none"]
    OBVIOUS
  <2>3. Good(t, k, late, after) /\ Rest(s, t) /\ t.current = "none" /\ ~t.text
    BY <1>4, <2>1, <2>2, ToolIsLeft DEF Good
  <2>4. OnText(s) = TextBlock(t)
    BY <1>4, <2>2, <2>3 DEF OnText, TextBlock
  <2>5. Good(OnText(s), k, late, after) /\ Rest(t, OnText(s))
    BY <2>3, <2>4, TextStarts
  <2>6. QED
    BY <2>3, <2>5 DEF Rest
<1>5. QED
  BY <1>1, <1>2, <1>3, <1>4 DEF Shaped

\* A tool block starts for a call that is new or that was waiting for its name.
ToolBlock(s, i) == LET u == Start(s, "tool_use") IN Buffered(u, i, Len(u.blocks))
LEMMA ToolStarts ==
  ASSUME NEW k \in Nat, NEW late \in BOOLEAN, NEW resumed \in BOOLEAN, NEW s, Good(s, k, late, resumed),
         s.current # "text", NEW i \in 0..k, i < k => s.buffer[i] = Nameless,
         NEW size \in Nat, size = (IF i = k THEN k + 1 ELSE k)
  PROVE  Good(ToolBlock(s, i), size, late, resumed) /\ Rest(s, ToolBlock(s, i))
<1>1. Shaped(s, k) /\ Linked(s, k)
  BY DEF Good
<1>2. PICK t, u, n : u = Start(s, "tool_use") /\ t = Buffered(u, i, Len(u.blocks)) /\ n = Len(s.blocks)
  OBVIOUS
<1>3. PICK kind, text : kind = "tool_use" /\ kind \in BlockKinds /\ text = FALSE /\ text \in BOOLEAN
  BY DEF BlockKinds
<1>4. s.text = FALSE
  BY <1>1 DEF Linked, Shaped
<1>5. Started(s, u, kind, s.buffer, text)
  <2>1. u = StartedWith(s, kind, s.buffer, text)
    BY <1>1, <1>2, <1>3, <1>4 DEF Shaped, Whole11, Start, StartedWith
  <2>2. QED
    BY <1>1, <1>3, <2>1, StartedBlock
<1>6. n \in Nat /\ s.buffer \in [0..(k - 1) -> {Nameless} \cup (1..n)] /\ Len(u.blocks) = n + 1 /\ u.buffer = s.buffer
  BY <1>1, <1>2, <1>5 DEF Shaped, Started
<1>7. PICK buffer : buffer = [j \in (0..(k - 1)) \cup {i} |-> IF j = i THEN n + 1 ELSE s.buffer[j]]
  OBVIOUS
<1>8. (0..(k - 1)) \cup {i} = 0..(size - 1)
  OBVIOUS
<1>9. /\ buffer \in [0..(size - 1) -> {Nameless} \cup (1..(n + 1))] /\ buffer[i] = n + 1
      /\ \A j \in 0..(size - 1) : j # i => j \in 0..(k - 1) /\ buffer[j] = s.buffer[j]
  BY <1>6, <1>7, <1>8
<1>10. t = StartedWith(s, kind, buffer, text)
  <2>1. DOMAIN u.buffer = 0..(k - 1)
    BY <1>6
  <2>2. t = [u EXCEPT !.buffer = buffer]
    BY <1>2, <1>6, <1>7, <2>1 DEF Buffered
  <2>3. u = StartedWith(s, kind, s.buffer, text)
    BY <1>1, <1>2, <1>3, <1>4 DEF Shaped, Whole11, Start, StartedWith
  <2>4. StartedWith(s, kind, buffer, text) = [StartedWith(s, kind, s.buffer, text) EXCEPT !.buffer = buffer]
    BY <1>1 DEF Shaped, Whole11, Start, StartedWith
  <2>5. QED
    BY <2>2, <2>3, <2>4
<1>11. Started(s, t, kind, buffer, text)
  BY <1>1, <1>3, <1>10, StartedBlock
<1>12. Shaped(t, size)
  BY <1>1, <1>2, <1>3, <1>9, <1>11 DEF Shaped, Started, Rest
<1>13. Linked(t, size)
  <2>1. ASSUME NEW j \in 0..(size - 1), t.buffer[j] # Nameless PROVE t.blocks[t.buffer[j]] = "tool_use"
    <3>1. CASE j = i
      BY <1>2, <1>3, <1>9, <1>11, <3>1 DEF Started
    <3>2. CASE j # i
      <4>1. s.buffer[j] \in 1..n /\ s.blocks[s.buffer[j]] = "tool_use" /\ t.buffer[j] = s.buffer[j]
        BY <1>1, <1>6, <1>9, <1>11, <2>1, <3>2 DEF Linked, Started
      <4>2. QED
        BY <1>2, <1>11, <4>1 DEF Started
    <3>3. QED
      BY <3>1, <3>2
  <2>2. size > 0
    OBVIOUS
  <2>3. QED
    BY <1>2, <1>3, <1>6, <1>11, <2>1, <2>2 DEF Linked, Started
<1>14. ~late => BlocksInOrder(t, size)
  <2>1. SUFFICES ASSUME ~late PROVE BlocksInOrder(t, size)
    OBVIOUS
  <2>2. BlocksInOrder(s, k)
    BY <2>1 DEF Good
  <2>3. i = k /\ size = k + 1
    <3>1. i < k => i \in 0..(k - 1)
      OBVIOUS
    <3>2. QED
      BY <2>2, <3>1 DEF BlocksInOrder
  <2>4. ASSUME NEW b \in 1..Len(t.blocks)
        PROVE  t.closed[b] = 1 \/ Superseded(t, b) \/ (b = Len(t.blocks) /\ t.current # "none")
    <3>1. CASE b = n + 1
      BY <1>2, <1>3, <1>11, <3>1 DEF Started
    <3>2. CASE b # n + 1
      <4>1. b \in 1..n /\ b + 1 \in 1..(n + 1) /\ Len(t.blocks) = n + 1
        BY SMTT(30), <1>2, <1>6, <1>11, <2>4, <3>2 DEF Started
      <4>2. s.closed[b] = 1 \/ Superseded(s, b) \/ (b = n /\ s.current = "tool_use" /\ s.closed[n] = 0 /\ s.blocks[n] = "tool_use")
        BY <1>1, <1>2, <2>2, <4>1 DEF BlocksInOrder, Linked, Shaped
      <4>3. Superseded(s, b) => Superseded(t, b)
        BY <1>2, <1>6, <1>11, <4>1, SupersededStays
      <4>4. t.closed[b] = s.closed[b] /\ t.blocks[b] = s.blocks[b] /\ t.blocks[n + 1] = "tool_use"
        BY <1>2, <1>3, <1>11, <4>1 DEF Started
      <4>5. ASSUME b = n, s.closed[n] = 0, s.blocks[n] = "tool_use" PROVE Superseded(t, b)
        BY <1>6, <4>1, <4>4, <4>5 DEF Superseded
      <4>6. QED
        BY <4>2, <4>3, <4>4, <4>5
    <3>3. QED
      BY <3>1, <3>2
  <2>5. ASSUME NEW j \in 0..(size - 1) PROVE t.buffer[j] # Nameless
    <3>1. n + 1 # Nameless
      BY <1>6 DEF Nameless
    <3>2. QED
      BY <1>9, <1>11, <2>2, <3>1 DEF BlocksInOrder, Started
  <2>6. t.buffer[size - 1] = Len(t.blocks) /\ t.closed[Len(t.blocks)] = 0 /\ t.nullStops = 0
    BY <1>2, <1>9, <1>11, <2>2, <2>3 DEF BlocksInOrder, Started
  <2>7. QED
    BY <2>4, <2>5, <2>6 DEF BlocksInOrder
<1>15. ~resumed => Open(t, size)
  <2>1. SUFFICES ASSUME ~resumed PROVE Open(t, size)
    OBVIOUS
  <2>2. Open(s, k)
    BY <2>1 DEF Good
  <2>3. ASSUME NEW j \in 0..(size - 1), t.buffer[j] # Nameless PROVE t.closed[t.buffer[j]] = 0
    <3>1. CASE j = i
      BY <1>2, <1>9, <1>11, <3>1 DEF Started
    <3>2. CASE j # i
      <4>1. s.buffer[j] \in 1..n /\ s.closed[s.buffer[j]] = 0 /\ t.buffer[j] = s.buffer[j]
        BY <1>6, <1>9, <1>11, <2>2, <2>3, <3>2 DEF Open, Started
      <4>2. QED
        BY <1>2, <1>11, <4>1 DEF Started
    <3>3. QED
      BY <3>1, <3>2
  <2>4. QED
    BY <1>11, <2>2, <2>3 DEF Open, Started
<1>16. Rest(s, t)
  BY <1>11 DEF Started
<1>17. QED
  BY <1>2, <1>12, <1>13, <1>14, <1>15, <1>16 DEF Good, ToolBlock

\* A call that is announced without its name is buffered.
LEMMA NamelessBuffered ==
  ASSUME NEW k \in Nat, NEW late \in BOOLEAN, NEW resumed \in BOOLEAN, NEW s, Good(s, k, late, resumed)
  PROVE  LET t == Buffered(s, k, Nameless)
         IN  Good(t, k + 1, TRUE, resumed) /\ Rest(s, t) /\ t.current = s.current
<1>1. Shaped(s, k) /\ Linked(s, k)
  BY DEF Good
<1>2. PICK t, n : t = Buffered(s, k, Nameless) /\ n = Len(s.blocks)
  OBVIOUS
<1>3. n \in Nat /\ s.buffer \in [0..(k - 1) -> {Nameless} \cup (1..n)] /\ DOMAIN s.buffer = 0..(k - 1)
  BY <1>1, <1>2 DEF Shaped
<1>4. PICK buffer : buffer = [j \in (0..(k - 1)) \cup {k} |-> IF j = k THEN Nameless ELSE s.buffer[j]]
  OBVIOUS
<1>5. (0..(k - 1)) \cup {k} = 0..((k + 1) - 1)
  OBVIOUS
<1>6. /\ buffer \in [0..((k + 1) - 1) -> {Nameless} \cup (1..n)]
      /\ \A j \in 0..((k + 1) - 1) : IF j = k THEN buffer[j] = Nameless ELSE j \in 0..(k - 1) /\ buffer[j] = s.buffer[j]
  BY <1>3, <1>4, <1>5
<1>7. t = [s EXCEPT !.buffer = buffer]
  BY <1>2, <1>3, <1>4 DEF Buffered
<1>8. /\ t.blocks = s.blocks /\ t.closed = s.closed /\ t.current = s.current /\ t.text = s.text /\ t.buffer = buffer
      /\ t.nullStops = s.nullStops /\ t.strays = s.strays /\ Rest(s, t)
  BY <1>1, <1>7 DEF Shaped, Whole11, Rest
<1>9. Whole11(t)
  BY <1>1, <1>7, <1>8 DEF Shaped, Whole11, Rest
<1>10. Shaped(t, k + 1)
  BY <1>1, <1>2, <1>6, <1>8, <1>9 DEF Shaped, Rest
<1>11. Linked(t, k + 1)
  BY <1>1, <1>6, <1>8 DEF Linked
<1>12. ~resumed => Open(t, k + 1)
  BY <1>6, <1>8 DEF Good, Open
<1>13. QED
  BY <1>2, <1>8, <1>10, <1>11, <1>12 DEF Good

\* The delta of call i introduces it, names it, or leaves it as it is.
LEMMA Introduced ==
  ASSUME NEW k \in Nat, NEW late \in BOOLEAN, NEW resumed \in BOOLEAN, NEW s, Good(s, k, late, resumed),
         s.current # "text", NEW i \in 0..k, NEW d, d.index = i, i = k => d.id,
         NEW size \in Nat, size = (IF i = k THEN k + 1 ELSE k),
         NEW after \in BOOLEAN, after <=> (late \/ (i = k /\ ~d.name))
  PROVE  Good(Introduce(s, d), size, after, resumed) /\ Rest(s, Introduce(s, d))
<1>1. Shaped(s, k) /\ Good(s, k, after, resumed) /\ DOMAIN s.buffer = 0..(k - 1)
  BY DEF Good, Shaped
<1>2. i = k \/ i \in 0..(k - 1)
  OBVIOUS
<1>3. i = k => i \notin 0..(k - 1)
  OBVIOUS
<1>4. PICK t : t = ToolBlock(s, i)
  OBVIOUS
<1>5. ASSUME i < k => s.buffer[i] = Nameless PROVE Good(t, size, after, resumed) /\ Rest(s, t)
  BY <1>1, <1>4, <1>5, ToolStarts
<1>6. CASE i = k /\ d.name
  <2>1. Introduce(s, d) = t
    BY <1>1, <1>3, <1>4, <1>6 DEF Introduce, ToolBlock
  <2>2. Good(t, size, after, resumed) /\ Rest(s, t)
    BY <1>5, <1>6
  <2>3. QED
    BY <2>1, <2>2
<1>7. CASE i = k /\ ~d.name
  <2>1. Introduce(s, d) = Buffered(s, k, Nameless)
    BY <1>1, <1>3, <1>7 DEF Introduce
  <2>2. Good(Buffered(s, k, Nameless), k + 1, TRUE, resumed) /\ Rest(s, Buffered(s, k, Nameless))
    BY ZenonT(40), NamelessBuffered
  <2>3. after = TRUE /\ size = k + 1
    BY <1>7
  <2>4. QED
    BY <2>1, <2>2, <2>3
<1>8. CASE i \in 0..(k - 1) /\ d.name /\ d.id /\ s.buffer[i] = Nameless
  <2>1. Introduce(s, d) = t
    BY <1>1, <1>4, <1>8 DEF Introduce, ToolBlock
  <2>2. Good(t, size, after, resumed) /\ Rest(s, t)
    BY <1>5, <1>8
  <2>3. QED
    BY <2>1, <2>2
<1>9. CASE i \in 0..(k - 1) /\ ~(d.name /\ d.id /\ s.buffer[i] = Nameless)
  <2>1. Introduce(s, d) = s /\ size = k
    BY <1>1, <1>9 DEF Introduce
  <2>2. QED
    BY <1>1, <2>1 DEF Rest
<1>10. QED
  BY <1>2, <1>6, <1>7, <1>8, <1>9

\* Arguments only count where they arrive.
LEMMA Argued ==
  ASSUME NEW k \in Nat, NEW late \in BOOLEAN, NEW resumed \in BOOLEAN, NEW s, Good(s, k, late, resumed),
         NEW d
  PROVE  Good(Arguments(s, d), k, late, resumed) /\ Rest(s, Arguments(s, d))
<1>1. Shaped(s, k) /\ Linked(s, k) /\ DOMAIN s.buffer = 0..(k - 1)
  BY DEF Good, Shaped
<1>2. CASE Arguments(s, d) = s
  BY <1>2 DEF Rest
<1>3. CASE Arguments(s, d) # s
  <2>1. PICK t, m : t = Arguments(s, d) /\ m = s.strays + 1
    OBVIOUS
  <2>2. t = [s EXCEPT !.strays = m] /\ d.index \in DOMAIN s.buffer /\ s.buffer[d.index] # Nameless /\ s.closed[s.buffer[d.index]] > 0
    BY <1>3, <2>1 DEF Arguments
  <2>3. /\ t.blocks = s.blocks /\ t.closed = s.closed /\ t.current = s.current /\ t.text = s.text /\ t.buffer = s.buffer
        /\ t.nullStops = s.nullStops /\ t.strays = m /\ Rest(s, t)
    BY <1>1, <2>2 DEF Shaped, Whole11, Rest
  <2>4. Whole11(t)
    BY <1>1, <2>2, <2>3 DEF Shaped, Whole11, Rest
  <2>5. Shaped(t, k) /\ Linked(t, k)
    BY <1>1, <2>1, <2>3, <2>4 DEF Shaped, Linked, Rest
  <2>6. ~late => BlocksInOrder(t, k)
    BY <2>3 DEF Good, BlocksInOrder, Superseded
  <2>7. resumed
    BY <1>1, <2>2 DEF Good, Open
  <2>8. QED
    BY <2>1, <2>3, <2>5, <2>6, <2>7 DEF Good
<1>4. QED
  BY <1>2, <1>3

LEMMA ToolIsConverted ==
  ASSUME NEW k \in Nat, NEW late \in BOOLEAN, NEW resumed \in BOOLEAN, NEW s, Good(s, k, late, resumed),
         NEW i \in 0..k, NEW d, d.index = i, i = k => d.id,
         NEW size \in Nat, size = (IF i = k THEN k + 1 ELSE k),
         NEW after \in BOOLEAN, after <=> (late \/ (i = k /\ ~d.name))
  PROVE  Good(OnTool(s, d), size, after, resumed) /\ Rest(s, OnTool(s, d))
<1>1. PICK t, u, v : t = LeaveText(s) /\ u = Introduce(t, d) /\ v = Arguments(u, d)
  OBVIOUS
<1>2. Good(t, k, late, resumed) /\ Rest(s, t) /\ t.current # "text"
  BY <1>1, TextIsLeft
<1>3. Good(u, size, after, resumed) /\ Rest(t, u)
  BY <1>1, <1>2, Introduced
<1>4. Good(v, size, after, resumed) /\ Rest(u, v)
  BY <1>1, <1>3, Argued
<1>5. OnTool(s, d) = v
  BY <1>1 DEF OnTool
<1>6. QED
  BY <1>2, <1>3, <1>4, <1>5 DEF Rest

\* What message_stop promises of the blocks and of arguments.
Finished(s, t, late) ==
  /\ t.sent = "message_stop" /\ t.usage = s.usage /\ t.failed = s.failed /\ t.strays = s.strays
  /\ ~late => t.nullStops = 0 /\ \A b \in 1..Len(t.blocks) : t.closed[b] = 1 \/ Superseded(t, b)

\* The end stops the block that is current.
LEMMA StreamIsFinished ==
  ASSUME NEW k \in Nat, NEW late \in BOOLEAN, NEW resumed \in BOOLEAN, NEW s, Good(s, k, late, resumed)
  PROVE  Shaped(Finish(s), k) /\ Finished(s, Finish(s), late)
<1>1. Shaped(s, k) /\ Linked(s, k) /\ Whole11(s)
  BY DEF Good, Shaped
<1>2. PICK u, t, n : /\ t = [u EXCEPT !.sent = "message_stop"] /\ t = Finish(s) /\ n = Len(s.blocks)
                     /\ u = CASE s.current = "text" /\ s.text -> StopText(s)
                              [] s.current = "tool_use" /\ LastToolBlock(s) # Nameless -> StopTool(s)
                              [] OTHER -> s
  BY DEF Finish
<1>3. ASSUME Whole11(u), u.blocks = s.blocks, u.closed \in Seq(Nat), Len(u.closed) = n, u.buffer = s.buffer,
             u.current = s.current, u.text = s.text, u.nullStops = s.nullStops, u.strays = s.strays, Rest(s, u),
             ~late => BlocksInOrder(s, k) /\ \A b \in 1..n : u.closed[b] = 1 \/ Superseded(u, b)
      PROVE  Shaped(t, k) /\ Finished(s, t, late)
  <2>1. /\ t.blocks = u.blocks /\ t.closed = u.closed /\ t.current = u.current /\ t.text = u.text /\ t.buffer = u.buffer
        /\ t.usage = u.usage /\ t.nullStops = u.nullStops /\ t.strays = u.strays /\ t.finish = u.finish
        /\ t.sent = "message_stop" /\ t.failed = u.failed
    BY <1>1, <1>2, <1>3 DEF Shaped, Whole11, Rest
  <2>2. Whole11(t)
    BY <1>2, <1>3, <2>1 DEF Whole11
  <2>3. Shaped(t, k)
    <3>1. /\ t.blocks = s.blocks /\ t.closed = u.closed /\ t.buffer = s.buffer /\ t.current = s.current
          /\ t.text = s.text /\ t.nullStops = s.nullStops /\ t.strays = s.strays /\ t.usage = s.usage
          /\ t.sent \in Endings /\ t.failed = s.failed /\ Len(t.closed) = Len(t.blocks)
      BY <1>2, <1>3, <2>1 DEF Rest, Endings
    <3>2. QED
      BY <1>1, <1>3, <2>2, <3>1 DEF Shaped
  <2>4. Finished(s, t, late)
    BY <1>2, <1>3, <2>1 DEF Finished, Rest, Superseded, BlocksInOrder
  <2>5. QED
    BY <2>3, <2>4
<1>4. ASSUME NEW b \in 1..n, u = [s EXCEPT !.closed[b] = s.closed[b] + 1], b = n \/ late, s.current # "none"
      PROVE  Shaped(t, k) /\ Finished(s, t, late)
  <2>1. u = [s EXCEPT !.closed[b] = s.closed[b] + 1, !.current = s.current, !.text = s.text]
    BY <1>1, <1>4 DEF Whole11
  <2>2. s.text \in BOOLEAN
    BY <1>1 DEF Shaped
  <2>3. Stopped(s, u, b, s.current, s.text)
    <3>1. PICK mode, text : mode = s.current /\ text = s.text /\ text \in BOOLEAN
      BY <2>2
    <3>2. u = [s EXCEPT !.closed[b] = s.closed[b] + 1, !.current = mode, !.text = text] /\ b \in 1..Len(s.blocks)
      BY <1>2, <1>4, <2>1, <3>1
    <3>3. Stopped(s, u, b, mode, text)
      BY <1>1, <3>1, <3>2, StoppedBlock
    <3>4. QED
      BY <3>1, <3>3
  <2>4. ASSUME ~late PROVE BlocksInOrder(s, k) /\ \A c \in 1..n : u.closed[c] = 1 \/ Superseded(u, c)
    <3>1. BlocksInOrder(s, k) /\ b = n
      BY <1>4, <2>4 DEF Good
    <3>2. s.closed[n] = 0
      BY <1>2, <1>4, <3>1 DEF BlocksInOrder
    <3>3. ASSUME NEW c \in 1..n PROVE u.closed[c] = 1 \/ Superseded(u, c)
      <4>1. n \in 1..n /\ u.closed[n] = 1 /\ u.blocks = s.blocks
        BY <1>2, <1>4, <2>3, <3>1, <3>2 DEF Stopped
      <4>2. c # n => u.closed[c] = s.closed[c] /\ (s.closed[c] = 1 \/ Superseded(s, c))
        BY <1>2, <2>3, <3>1, <3>3 DEF Stopped, BlocksInOrder
      <4>3. QED
        BY <4>1, <4>2 DEF Superseded
    <3>4. QED
      BY <3>1, <3>3
  <2>5. QED
    BY <1>2, <1>3, <2>3, <2>4 DEF Stopped
<1>5. CASE s.current = "text"
  <2>1. s.text /\ n > 0 /\ n \in Nat /\ n \in 1..n
    BY <1>1, <1>2, <1>5 DEF Linked, Shaped
  <2>2. u = [s EXCEPT !.closed[n] = s.closed[n] + 1]
    BY <1>2, <1>5, <2>1 DEF StopText
  <2>3. QED
    BY <1>2, <1>4, <1>5, <2>1, <2>2
<1>6. CASE s.current = "tool_use" /\ LastToolBlock(s) # Nameless
  <2>1. PICK b : b = LastToolBlock(s)
    OBVIOUS
  <2>2. k > 0 /\ b = s.buffer[k - 1] /\ b \in 1..n
    BY <1>1, <1>2, <1>6, <2>1, LastToolBlockIs DEF Linked
  <2>3. u = [s EXCEPT !.closed[b] = s.closed[b] + 1]
    BY <1>2, <1>6, <2>1 DEF StopTool
  <2>4. b = n \/ late
    BY <1>2, <1>6, <2>2 DEF Good, BlocksInOrder
  <2>5. QED
    BY <1>2, <1>4, <1>6, <2>2, <2>3, <2>4
<1>7. CASE s.current # "text" /\ ~(s.current = "tool_use" /\ LastToolBlock(s) # Nameless)
  <2>1. u = s
    BY <1>2, <1>7
  <2>2. ASSUME ~late PROVE BlocksInOrder(s, k) /\ \A c \in 1..n : u.closed[c] = 1 \/ Superseded(u, c)
    <3>1. BlocksInOrder(s, k)
      BY <2>2 DEF Good
    <3>2. s.current # "tool_use"
      <4>1. SUFFICES ASSUME s.current = "tool_use" PROVE FALSE
        OBVIOUS
      <4>2. k > 0 /\ k - 1 \in 0..(k - 1)
        BY <1>1, <4>1 DEF Linked
      <4>3. LastToolBlock(s) = s.buffer[k - 1]
        BY <1>1, <4>2, LastToolBlockIs
      <4>4. QED
        BY <1>7, <3>1, <4>1, <4>2, <4>3 DEF BlocksInOrder
    <3>3. s.current = "none"
      BY <1>1, <1>7, <3>2 DEF Shaped
    <3>4. QED
      BY <1>2, <2>1, <3>1, <3>3 DEF BlocksInOrder
  <2>3. QED
    BY <1>1, <1>2, <1>3, <2>1, <2>2 DEF Shaped, Rest
<1>8. QED
  BY <1>2, <1>5, <1>6, <1>7

\* Neither the usage nor the finish reason matters to the blocks.
Relabel(s, usage, finish) == [s EXCEPT !.usage = usage, !.finish = finish]

LEMMA Relabelled ==
  ASSUME NEW k \in Nat, NEW late \in BOOLEAN, NEW resumed \in BOOLEAN, NEW s, Good(s, k, late, resumed),
         NEW usage \in {NoUsage, SomeUsage}, NEW finish, NEW t, t = Relabel(s, usage, finish)
  PROVE  Good(t, k, late, resumed) /\ t.usage = usage /\ t.sent = s.sent /\ t.failed = s.failed /\ t.strays = s.strays
<1>1. Shaped(s, k) /\ Linked(s, k) /\ Whole11(s)
  BY DEF Good, Shaped
<1>2. /\ t.blocks = s.blocks /\ t.closed = s.closed /\ t.current = s.current /\ t.text = s.text /\ t.buffer = s.buffer
      /\ t.usage = usage /\ t.nullStops = s.nullStops /\ t.strays = s.strays /\ t.finish = finish
      /\ t.sent = s.sent /\ t.failed = s.failed
  BY <1>1 DEF Shaped, Whole11, Relabel
<1>3. Whole11(t)
  BY <1>1, <1>2 DEF Whole11, Relabel
<1>4. Shaped(t, k) /\ Linked(t, k)
  BY <1>1, <1>2, <1>3 DEF Shaped, Linked
<1>5. ~late => BlocksInOrder(t, k)
  BY <1>2 DEF Good, BlocksInOrder, Superseded
<1>6. ~resumed => Open(t, k)
  BY <1>2 DEF Good, Open
<1>7. QED
  BY <1>2, <1>4, <1>5, <1>6 DEF Good

\* What a stream owes to the client and to the metrics once it has ended.
Ended(s) ==
  /\ s.sent = "message_stop" =>
        /\ s.usage = backend.usage
        /\ ~backend.lateNames => s.nullStops = 0 /\ \A b \in 1..Len(s.blocks) : s.closed[b] = 1 \/ Superseded(s, b)
  /\ s.failed <=> s.sent \in {"error", "error_stop"}

BackendOK ==
  /\ backend = [tools |-> backend.tools, named |-> backend.named, lateNames |-> backend.lateNames,
                resumed |-> backend.resumed, usage |-> backend.usage, chunks |-> backend.chunks]
  /\ backend.tools \in Nat /\ backend.named \subseteq 0..(backend.tools - 1) /\ backend.lateNames \in BOOLEAN
  /\ backend.resumed \in BOOLEAN /\ backend.usage \in {NoUsage, SomeUsage}

SseOK ==
  /\ Shaped(sse, backend.tools)
  /\ sse.sent = "start" => Good(sse, backend.tools, backend.lateNames, backend.resumed) /\ sse.usage = NoUsage
  /\ sse.strays > 0 => backend.resumed
  /\ Ended(sse)

RecordedOK ==
  \/ recorded = NotRecorded
  \/ sse.sent # "start" /\ recorded = [times |-> 1, failed |-> sse.failed, usage |-> sse.usage]

StreamInv == BackendOK /\ SseOK /\ RecordedOK

\* The end of the backend: the usage, then the block that is current.
LEMMA EndIsConverted ==
  ASSUME BackendOK, SseOK, sse.sent = "start"
  PROVE  /\ Shaped(ConvertEnd(sse), backend.tools) /\ Ended(ConvertEnd(sse)) /\ ConvertEnd(sse).sent = "message_stop"
         /\ ConvertEnd(sse).strays = sse.strays
<1>1. PICK k, late, resumed : k = backend.tools /\ late = backend.lateNames /\ resumed = backend.resumed
  OBVIOUS
<1>2. /\ k \in Nat /\ late \in BOOLEAN /\ resumed \in BOOLEAN /\ Good(sse, k, late, resumed) /\ ~sse.failed
      /\ sse.usage = NoUsage /\ backend.usage \in {NoUsage, SomeUsage} /\ sse.failed \in BOOLEAN /\ Whole11(sse)
  BY <1>1 DEF BackendOK, SseOK, Ended, Shaped
<1>3. PICK t, u, v, reason :
        /\ t = ConvertUsage(sse) /\ reason = EndEvent.reason /\ u = [t EXCEPT !.finish = reason] /\ v = Finish(u)
  OBVIOUS
<1>4. t = [sse EXCEPT !.usage = backend.usage]
  BY <1>2, <1>3 DEF ConvertUsage, Convert, UsageEvent, NoUsage, SomeUsage, Whole11
<1>5. u = [sse EXCEPT !.usage = backend.usage, !.finish = reason]
  BY <1>3, <1>4
<1>6. Good(u, k, late, resumed) /\ u.usage = backend.usage /\ u.sent = "start" /\ ~u.failed /\ u.strays = sse.strays
  <2>1. PICK s, usage : s = sse /\ usage = backend.usage
    OBVIOUS
  <2>2. Good(s, k, late, resumed) /\ usage \in {NoUsage, SomeUsage} /\ u = Relabel(s, usage, reason)
    BY <1>2, <1>5, <2>1 DEF Relabel
  <2>3. Good(u, k, late, resumed) /\ u.usage = usage /\ u.sent = s.sent /\ u.failed = s.failed /\ u.strays = s.strays
    BY <1>2, <2>2, Relabelled
  <2>4. QED
    BY <1>2, <2>1, <2>3
<1>7. Shaped(v, k) /\ Finished(u, v, late)
  BY <1>2, <1>3, <1>6, StreamIsFinished
<1>8. t.sent = "start"
  BY <1>2, <1>4 DEF Whole11
<1>9. ConvertEnd(sse) = v
  BY <1>3, <1>8 DEF ConvertEnd, Convert, EndEvent
<1>10. QED
  BY <1>1, <1>6, <1>7, <1>9 DEF Finished, Ended

\* A chunk that the converter took leaves the stream good.
LEMMA StillStreaming ==
  ASSUME BackendOK', Good(sse, backend.tools, backend.lateNames, backend.resumed)', Rest(sse, sse'),
         sse.sent = "start", sse.usage = NoUsage, ~sse.failed
  PROVE  SseOK'
<1>1. Shaped(sse, backend.tools)'
  BY DEF Good
<1>2. sse'.sent = "start" /\ sse'.usage = NoUsage /\ ~sse'.failed
  BY DEF Rest
<1>3. (sse.strays > 0 => backend.resumed)'
  BY DEF Good, Open
<1>4. QED
  BY <1>1, <1>2, <1>3 DEF SseOK, Ended

LEMMA StreamStarts == StreamInit => StreamInv
<1>1. SUFFICES ASSUME StreamInit PROVE StreamInv
  OBVIOUS
<1>2. BackendOK
  BY <1>1 DEF StreamInit, BackendInit, BackendOK, NoUsage
<1>3. PICK empty : empty = <<>>
  OBVIOUS
<1>4. empty \in Seq(BlockKinds) /\ empty \in Seq(Nat) /\ Len(empty) = 0 /\ DOMAIN empty = {}
  BY <1>3
<1>5. empty \in [0..(0 - 1) -> {Nameless} \cup (1..0)]
  <2>1. empty = [i \in 1..0 |-> empty[i]] /\ 1..0 = 0..(0 - 1)
    BY <1>3
  <2>2. QED
    BY <2>1
<1>6. /\ sse.blocks = empty /\ sse.closed = empty /\ sse.current = "none" /\ sse.text = FALSE /\ sse.buffer = empty
      /\ sse.usage = NoUsage /\ sse.nullStops = 0 /\ sse.strays = 0 /\ sse.finish = "none" /\ sse.sent = "start"
      /\ sse.failed = FALSE
  BY <1>1, <1>3 DEF StreamInit, Sse0, EmptyBuffer
<1>7. Whole11(sse)
  BY <1>1, <1>3, <1>6 DEF StreamInit, Sse0, EmptyBuffer, Whole11
<1>8. backend.tools = 0 /\ backend.resumed = FALSE /\ backend.lateNames = FALSE /\ recorded = NotRecorded
  BY <1>1 DEF StreamInit, BackendInit
<1>9. Shaped(sse, 0)
  <2>1. sse.buffer \in [0..(0 - 1) -> {Nameless} \cup (1..Len(sse.blocks))]
    BY <1>4, <1>5, <1>6
  <2>2. sse.blocks \in Seq(BlockKinds) /\ sse.closed \in Seq(Nat) /\ Len(sse.closed) = Len(sse.blocks)
    BY <1>4, <1>6
  <2>3. QED
    <3>1. sse.current = "none" /\ sse.nullStops \in Nat /\ sse.strays \in Nat
      BY <1>6
    <3>3. sse.text \in BOOLEAN
      BY <1>6
    <3>2. sse.usage \in {NoUsage, SomeUsage} /\ sse.sent \in Endings /\ sse.failed \in BOOLEAN
      BY <1>6 DEF Endings
    <3>4. QED
      BY <1>7, <2>1, <2>2, <3>1, <3>2, <3>3 DEF Shaped
<1>10. Linked(sse, 0) /\ BlocksInOrder(sse, 0) /\ Open(sse, 0)
  BY <1>4, <1>6 DEF Linked, BlocksInOrder, Open
<1>11. SseOK
  BY <1>6, <1>8, <1>9, <1>10 DEF SseOK, Good, Ended
<1>12. QED
  BY <1>2, <1>8, <1>11 DEF StreamInv, RecordedOK

\* A chunk: what the backend becomes, and what the converter makes of it.
Taken(tools, known, late, resumed) ==
  [backend EXCEPT !.chunks = backend.chunks + 1, !.tools = tools, !.named = known, !.lateNames = late, !.resumed = resumed]

LEMMA ChunkTaken ==
  ASSUME StreamInv, Streaming, UNCHANGED recorded,
         NEW tools \in Nat, NEW known, known \subseteq 0..(tools - 1), NEW late \in BOOLEAN, NEW resumed \in BOOLEAN,
         backend' = Taken(tools, known, late, resumed),
         Good(sse', tools, late, resumed), Rest(sse, sse')
  PROVE  StreamInv'
<1>1. BackendOK /\ sse.sent = "start" /\ sse.usage = NoUsage /\ ~sse.failed /\ recorded = NotRecorded
  BY DEF StreamInv, SseOK, Streaming, Ended
<1>2. PICK chunks, usage : chunks = backend.chunks + 1 /\ usage = backend.usage
  OBVIOUS
<1>3. backend' = [tools |-> tools, named |-> known, lateNames |-> late, resumed |-> resumed, usage |-> usage, chunks |-> chunks]
  BY <1>1, <1>2 DEF BackendOK, Taken
<1>4. backend'.tools = tools /\ backend'.named = known /\ backend'.usage = usage /\ backend'.chunks = chunks
  BY <1>3
<1>5. backend'.lateNames = late
  BY <1>3
<1>6. backend'.resumed = resumed
  BY <1>3
<1>7. BackendOK'
  BY <1>1, <1>2, <1>3, <1>4, <1>5, <1>6 DEF BackendOK
<1>8. Good(sse, backend.tools, backend.lateNames, backend.resumed)'
  BY <1>4, <1>5, <1>6
<1>9. SseOK'
  BY <1>1, <1>7, <1>8, StillStreaming
<1>10. RecordedOK'
  BY <1>1 DEF RecordedOK
<1>11. QED
  BY <1>7, <1>9, <1>10 DEF StreamInv

\* A tool call delta, whichever it is.
LEMMA ToolChunkTaken ==
  ASSUME StreamInv, Streaming, NEW i \in 0..backend.tools, NEW id \in BOOLEAN, NEW name \in BOOLEAN,
         NEW args \in BOOLEAN, i = backend.tools => id,
         NEW size \in Nat, size = (IF i = backend.tools THEN backend.tools + 1 ELSE backend.tools),
         NEW after \in BOOLEAN, after <=> (backend.lateNames \/ (i = backend.tools /\ ~name)),
         sse' = Convert(sse, ToolDelta(i, id, name, args))
  PROVE  Good(sse', size, after, backend.resumed) /\ Rest(sse, sse')
<1>1. PICK s, k, late, resumed, d :
        s = sse /\ k = backend.tools /\ late = backend.lateNames /\ resumed = backend.resumed /\ d = ToolDelta(i, id, name, args)
  OBVIOUS
<1>2. k \in Nat /\ late \in BOOLEAN /\ resumed \in BOOLEAN /\ Good(s, k, late, resumed) /\ s.sent = "start"
  BY <1>1 DEF StreamInv, SseOK, BackendOK, Streaming
<1>3. d.index = i /\ d.type = "tool" /\ d.id = id /\ d.name = name
  BY <1>1 DEF ToolDelta
<1>4. sse' = OnTool(s, d)
  BY <1>1, <1>2, <1>3 DEF Convert
<1>5. i \in 0..k /\ (i = k => d.id) /\ size = (IF i = k THEN k + 1 ELSE k) /\ (after <=> (late \/ (i = k /\ ~d.name)))
  BY <1>1, <1>3
<1>6. Good(OnTool(s, d), size, after, resumed) /\ Rest(s, OnTool(s, d))
  BY <1>2, <1>3, <1>5, ToolIsConverted
<1>7. QED
  BY <1>1, <1>4, <1>6

LEMMA StreamProceeds == StreamInv /\ [StreamNext]_streamVars => StreamInv'
<1>1. SUFFICES ASSUME StreamInv, [StreamNext]_streamVars PROVE StreamInv'
  OBVIOUS
<1>2. BackendOK /\ SseOK /\ RecordedOK
  BY <1>1 DEF StreamInv
<1>3. PICK k, known, late, resumed, chunks : /\ k = backend.tools /\ known = backend.named /\ late = backend.lateNames
                                     /\ resumed = backend.resumed /\ chunks = backend.chunks
  OBVIOUS
<1>4. k \in Nat /\ known \subseteq 0..(k - 1) /\ late \in BOOLEAN /\ resumed \in BOOLEAN
  BY <1>2, <1>3 DEF BackendOK
<1>5. CASE UNCHANGED streamVars
  BY <1>2, <1>5 DEF streamVars, StreamInv, BackendOK, SseOK, RecordedOK, Ended
<1>6. CASE TextChunk
  <2>1. Streaming /\ UNCHANGED recorded /\ sse.sent = "start"
    BY <1>6 DEF TextChunk, Streaming
  <2>2. sse' = OnText(sse)
    BY <1>6, <2>1 DEF TextChunk, Convert, Text
  <2>3. PICK s, after : s = sse /\ after = (resumed \/ k > 0) /\ after \in BOOLEAN
    BY <1>4
  <2>4. Good(s, k, late, resumed)
    BY <1>2, <1>3, <2>1, <2>3 DEF SseOK
  <2>5. Good(OnText(s), k, late, after) /\ Rest(s, OnText(s))
    BY <1>4, <2>3, <2>4, TextIsConverted
  <2>6. backend' = Taken(k, known, late, after)
    BY <1>2, <1>3, <1>6, <2>3 DEF TextChunk, BackendOK, Taken
  <2>7. QED
    BY <1>1, <1>4, <2>1, <2>2, <2>3, <2>5, <2>6, ChunkTaken
<1>7. ASSUME NEW name \in BOOLEAN, NEW args \in BOOLEAN, NewToolChunk(name, args) PROVE StreamInv'
  <2>1. Streaming /\ UNCHANGED recorded
    BY <1>7 DEF NewToolChunk
  <2>2. PICK id, after, size, more :
          /\ id = TRUE /\ after = (late \/ ~name) /\ size = k + 1 /\ more = (IF name THEN known \cup {k} ELSE known)
    OBVIOUS
  <2>3. id \in BOOLEAN /\ size \in Nat
    BY <1>4, <2>2
  <2>4. after \in BOOLEAN
    BY <2>2
  <2>5. more \subseteq 0..(size - 1)
    BY <1>4, <2>2
  <2>6. k \in 0..backend.tools /\ (k = backend.tools => id) /\ (after <=> (backend.lateNames \/ (k = backend.tools /\ ~name)))
        /\ size = (IF k = backend.tools THEN backend.tools + 1 ELSE backend.tools)
    <3>1. k \in 0..backend.tools
      BY <1>3, <1>4
    <3>2. id /\ (after <=> (backend.lateNames \/ ~name))
      BY <1>3, <2>2
    <3>3. size = (IF k = backend.tools THEN backend.tools + 1 ELSE backend.tools)
      BY <1>3, <2>2
    <3>4. QED
      BY <1>3, <3>1, <3>2, <3>3
  <2>7. sse' = Convert(sse, ToolDelta(k, id, name, args))
    BY <1>3, <1>7, <2>2 DEF NewToolChunk
  <2>8. Good(sse', size, after, resumed) /\ Rest(sse, sse')
    BY <1>1, <1>3, <2>1, <2>2, <2>7, <2>6, <2>3, <2>4, ToolChunkTaken
  <2>9. backend' = Taken(size, more, after, resumed)
    BY <1>2, <1>3, <1>7, <2>2 DEF NewToolChunk, BackendOK, Taken
  <2>10. QED
    BY <1>1, <1>4, <2>1, <2>8, <2>9, <2>5, <2>3, <2>4, ChunkTaken
<1>8. ASSUME NEW i \in 0..(MaxTools - 1), i < k, NEW withId \in BOOLEAN, LateNameChunk(i, withId) PROVE StreamInv'
  <2>1. Streaming /\ UNCHANGED recorded /\ i \in 0..(k - 1)
    BY <1>4, <1>8 DEF LateNameChunk
  <2>2. PICK yes, more : yes = TRUE /\ yes \in BOOLEAN /\ more = known \cup {i} /\ more \subseteq 0..(k - 1)
    BY <1>4, <2>1
  <2>3. sse' = Convert(sse, ToolDelta(i, withId, yes, yes))
    BY <1>8, <2>2 DEF LateNameChunk
  <2>4. i \in 0..k /\ i # k
    BY <1>4, <2>1
  <2>5. Good(sse', k, late, resumed) /\ Rest(sse, sse')
    BY <1>1, <1>3, <1>4, <2>1, <2>2, <2>3, <2>4, ToolChunkTaken
  <2>6. backend' = Taken(k, more, late, resumed)
    BY <1>2, <1>3, <1>8, <2>2 DEF LateNameChunk, BackendOK, Taken
  <2>7. QED
    BY <1>1, <1>4, <2>1, <2>2, <2>5, <2>6, ChunkTaken
<1>9. ASSUME NEW i \in 0..(MaxTools - 1), ArgumentsChunk(i) PROVE StreamInv'
  <2>1. Streaming /\ UNCHANGED recorded /\ i \in 0..(k - 1)
    BY <1>3, <1>4, <1>9 DEF ArgumentsChunk
  <2>2. PICK yes, no : yes = TRUE /\ yes \in BOOLEAN /\ no = FALSE /\ no \in BOOLEAN
    OBVIOUS
  <2>3. sse' = Convert(sse, ToolDelta(i, no, no, yes))
    BY <1>9, <2>2 DEF ArgumentsChunk
  <2>4. i \in 0..k /\ i # k
    BY <1>4, <2>1
  <2>5. Good(sse', k, late, resumed) /\ Rest(sse, sse')
    BY <1>1, <1>3, <1>4, <2>1, <2>2, <2>3, <2>4, ToolChunkTaken
  <2>6. backend' = Taken(k, known, late, resumed)
    BY <1>2, <1>3, <1>9 DEF ArgumentsChunk, BackendOK, Taken
  <2>7. QED
    BY <1>1, <1>4, <2>1, <2>5, <2>6, ChunkTaken
<1>10. CASE UsageChunk
  <2>1. PICK more : more = chunks + 1
    OBVIOUS
  <2>2. backend' = [tools |-> k, named |-> known, lateNames |-> late, resumed |-> resumed, usage |-> SomeUsage, chunks |-> more]
    BY <1>2, <1>3, <1>10, <2>1 DEF UsageChunk, BackendOK
  <2>3. backend'.tools = k /\ backend'.named = known /\ backend'.usage = SomeUsage /\ backend'.chunks = more
    BY <2>2
  <2>4. backend'.lateNames = late
    BY <1>4, <2>2
  <2>5. backend'.resumed = resumed
    BY <1>4, <2>2
  <2>6. BackendOK'
    BY <1>4, <2>2, <2>3, <2>4, <2>5 DEF BackendOK
  <2>7. sse' = sse /\ sse.sent = "start" /\ recorded' = recorded /\ recorded = NotRecorded
    BY <1>10 DEF UsageChunk, Streaming
  <2>8. SseOK'
    BY <1>2, <1>3, <2>3, <2>4, <2>5, <2>7 DEF SseOK, Ended
  <2>9. QED
    BY <2>6, <2>7, <2>8 DEF StreamInv, RecordedOK
<1>11. CASE BackendEnds
  <2>1. sse.sent = "start" /\ recorded = NotRecorded /\ sse' = ConvertEnd(sse) /\ backend' = backend /\ recorded' = recorded
    BY <1>11 DEF BackendEnds, Ends
  <2>2. /\ Shaped(sse', backend.tools) /\ Ended(sse') /\ sse'.sent = "message_stop" /\ sse'.strays = sse.strays
    BY <1>2, <2>1, EndIsConverted
  <2>3. SseOK'
    BY <1>2, <2>1, <2>2 DEF SseOK, Ended
  <2>4. QED
    BY <1>2, <2>1, <2>3 DEF StreamInv, BackendOK, RecordedOK
<1>12. ASSUME NEW sent \in {"error", "error_stop", "cancelled"}, NEW failed \in BOOLEAN, failed <=> sent # "cancelled",
              sse' = [sse EXCEPT !.sent = sent, !.failed = failed], sse.sent = "start", backend' = backend
       PROVE  BackendOK' /\ SseOK' /\ sse'.sent = sent /\ sse'.usage = sse.usage /\ sse'.failed = failed
  <2>1. Shaped(sse, k) /\ Whole11(sse)
    BY <1>2, <1>3 DEF SseOK, Shaped
  <2>2. sse' = [blocks |-> sse.blocks, closed |-> sse.closed, current |-> sse.current, text |-> sse.text, buffer |-> sse.buffer,
                usage |-> sse.usage, nullStops |-> sse.nullStops, strays |-> sse.strays, finish |-> sse.finish,
                sent |-> sent, failed |-> failed]
    BY <1>12, <2>1 DEF Whole11
  <2>3. /\ sse'.blocks = sse.blocks /\ sse'.closed = sse.closed /\ sse'.current = sse.current /\ sse'.text = sse.text
        /\ sse'.buffer = sse.buffer /\ sse'.usage = sse.usage /\ sse'.nullStops = sse.nullStops
        /\ sse'.strays = sse.strays /\ sse'.finish = sse.finish /\ sse'.sent = sent /\ sse'.failed = failed
    BY <1>12, <2>1 DEF Whole11, Shaped
  <2>4. Whole11(sse')
    BY <2>2, <2>3 DEF Whole11
  <2>5. Shaped(sse', k)
    BY <1>12, <2>1, <2>3, <2>4 DEF Shaped, Endings
  <2>6. BackendOK'
    BY <1>2, <1>12 DEF BackendOK
  <2>7. SseOK'
    BY <1>2, <1>3, <1>12, <2>3, <2>5 DEF SseOK, Ended
  <2>8. QED
    BY <2>3, <2>6, <2>7
<1>13. CASE BackendFails \/ ConverterRaises
  <2>1. /\ sse.sent = "start" /\ recorded = NotRecorded /\ backend' = backend /\ recorded' = recorded
    BY <1>13 DEF BackendFails, ConverterRaises, Ends
  <2>2. PICK sent, failed : /\ sent \in {"error", "error_stop"} /\ failed = TRUE /\ failed \in BOOLEAN
                            /\ sse' = [sse EXCEPT !.sent = sent, !.failed = failed]
    BY <1>13, <2>1 DEF BackendFails, ConverterRaises, Convert, OnError, ErrorEvent
  <2>3. BackendOK' /\ SseOK'
    BY <1>12, <2>1, <2>2
  <2>4. QED
    BY <2>1, <2>3 DEF StreamInv, RecordedOK
<1>14. CASE Complete
  <2>1. /\ recorded = NotRecorded /\ sse.sent # "start" /\ UNCHANGED <<backend, sse>>
        /\ recorded' = [times |-> 1, failed |-> sse.failed, usage |-> sse.usage]
    BY <1>14 DEF Complete, Record, NotRecorded
  <2>2. QED
    BY <1>2, <2>1 DEF StreamInv, BackendOK, SseOK, RecordedOK, Ended
<1>15. CASE Disconnect
  <2>1. PICK sent, failed : sent = "cancelled" /\ failed = FALSE /\ failed \in BOOLEAN
    OBVIOUS
  <2>2. Whole11(sse) /\ sse.failed = failed /\ sse.sent = "start" /\ backend' = backend /\ recorded = NotRecorded
    BY <1>2, <1>15, <2>1 DEF Disconnect, Ends, SseOK, Shaped, Ended
  <2>3. sse' = [sse EXCEPT !.sent = sent, !.failed = failed]
    BY <1>15, <2>1, <2>2 DEF Disconnect, Whole11
  <2>4. BackendOK' /\ SseOK' /\ sse'.sent = sent /\ sse'.usage = sse.usage /\ sse'.failed = failed
    BY <1>12, <2>1, <2>2, <2>3
  <2>5. recorded' = [times |-> 1, failed |-> sse'.failed, usage |-> sse'.usage]
    BY <1>15, <2>2, <2>4 DEF Disconnect, Record, NotRecorded
  <2>6. QED
    BY <2>1, <2>4, <2>5 DEF StreamInv, RecordedOK
<1>16. QED
  BY <1>1, <1>3, <1>5, <1>6, <1>7, <1>8, <1>9, <1>10, <1>11, <1>13, <1>14, <1>15 DEF StreamNext

\* From the first chunk to the metrics callback the converter keeps its blocks
\* in order (Linked, BlocksInOrder, Open), for any number of calls and chunks.
THEOREM StreamInvariance == StreamSpec => []StreamInv
BY StreamStarts, StreamProceeds, PTL DEF StreamSpec

LEMMA StreamFits == StreamInv => StreamIsWellFormed
<1>1. SUFFICES ASSUME StreamInv PROVE StreamIsWellFormed
  OBVIOUS
<1>2. BackendOK /\ SseOK /\ RecordedOK /\ Shaped(sse, backend.tools) /\ Ended(sse)
  BY <1>1 DEF StreamInv, SseOK
<1>3. DOMAIN sse.blocks = 1..Len(sse.blocks) /\ DOMAIN sse.buffer = 0..(backend.tools - 1)
  BY <1>2 DEF Shaped
<1>4. recorded.times \in 0..1 /\ (recorded.times = 1 => recorded.failed = sse.failed /\ recorded.usage = sse.usage)
  <2>1. CASE recorded = NotRecorded
    BY <2>1 DEF NotRecorded
  <2>2. CASE recorded = [times |-> 1, failed |-> sse.failed, usage |-> sse.usage]
    <3>1. sse.failed \in BOOLEAN
      BY <1>2 DEF Shaped
    <3>2. QED
      BY <2>2, <3>1
  <2>3. QED
    BY <1>2, <2>1, <2>2 DEF RecordedOK
<1>5. StreamTypeOK
  BY <1>2, <1>3, <1>4 DEF StreamTypeOK, Shaped, Endings
<1>6. OnlySupersededToolsStayOpen
  BY <1>2, <1>3 DEF OnlySupersededToolsStayOpen, Ended, Superseded
<1>7. ArgumentsReachOpenBlocks
  BY <1>2 DEF ArgumentsReachOpenBlocks, SseOK
<1>8. RecordMatchesStream
  BY <1>2, <1>4 DEF RecordMatchesStream, Ended, Shaped
<1>9. QED
  BY <1>5, <1>6, <1>7, <1>8 DEF StreamIsWellFormed

\* However chunks, failures and a cancellation follow one another, blocks are
\* stopped once or superseded, arguments reach open blocks while no text
\* resumed, and the metrics record what the client saw (proxy/converters.py).
THEOREM StreamWellFormed == StreamSpec => []StreamIsWellFormed
BY StreamInvariance, StreamFits, PTL

-----------------------------------------------------------------------------
(***************************************************************************)
(* Walkthrough, for any drafts of a checklist, editions and commands.      *)
(*                                                                         *)
(* The parser is followed line by line (ParserScans): after each line every *)
(* prerequisite so far, unless it stands in a code block, is kept by a step *)
(* or a section or waits, and while one waits the next line is another one *)
(* or a section (PrereqsKept).  A record has the run it was made in, and as *)
(* many results as its hash has assertions (Measured); a file of version 1 *)
(* has as many as the steps of the edition it names (OldMeasured).         *)
(***************************************************************************)

WalkthroughSpec == WalkthroughInit /\ [][WalkthroughNext]_walkthroughVars

Prerequisites == SUBSET (StepIds \cup SectionIds)
StepTypes ==
    [id : STRING, section : STRING \cup {"none"}, prereqs : Prerequisites, notes : SUBSET STRING,
     assertions : Seq(STRING), code : BOOLEAN, body : BOOLEAN]
SectionTypes == [id : STRING, prereqs : Prerequisites]
ScanTypes ==
    [ok : BOOLEAN, fence : BOOLEAN, pending : Prerequisites, secs : Seq(SectionTypes),
     steps : Seq(StepTypes), in : BOOLEAN]

Scanned(scan) == scan \in ScanTypes /\ (scan.in => scan.steps # <<>>)

\* A set that has 0 and with each number the next has every number up to a bound.
LEMMA UpToBound ==
  ASSUME NEW L \in Nat, NEW Q, 0 \in Q, \A n \in 0 .. L - 1 : n \in Q => n + 1 \in Q
  PROVE  0 .. L \subseteq Q
<1>1. PICK S : S = {n \in 0 .. L : \A i \in 0 .. n : i \in Q}
  OBVIOUS
<1>2. S \in SUBSET Nat /\ S # {} /\ S \subseteq 0 .. L
  <2>1. 0 \in 0 .. L /\ \A i \in 0 .. 0 : i = 0
    OBVIOUS
  <2>2. 0 \in S
    BY <1>1, <2>1
  <2>3. QED
    BY <1>1, <2>2
<1>3. IsFiniteSet(S)
  BY <1>2, FS_Interval, FS_Subset, 0 \in Int, L \in Int
<1>4. PICK m \in S : \A i \in S : m >= i
  BY <1>2, <1>3, LargestExists
<1>5. CASE m = L
  BY <1>1, <1>4, <1>5
<1>6. CASE m # L
  <2>1. m \in 0 .. L /\ m + 1 \in 0 .. L /\ m \in 0 .. L - 1
    BY <1>1, <1>4, <1>6
  <2>2. m \in Q
    BY <1>1, <1>4, <2>1
  <2>3. m + 1 \in Q
    BY <2>1, <2>2
  <2>4. \A i \in 0 .. m + 1 : i \in 0 .. m \/ i = m + 1
    BY <2>1
  <2>5. m + 1 \in S
    BY <1>1, <1>4, <2>1, <2>3, <2>4
  <2>6. QED
    BY <1>4, <2>1, <2>5
<1>7. QED
  BY <1>5, <1>6

\* What the parser keeps after n lines exists, and is what it keeps after the line before, with one more scanned.
ScanUpTo(lines, scan) ==
    scan = [n \in 0 .. Len(lines) |-> IF n = 0 THEN Scan0 ELSE ScanLine(lines, scan[n - 1], n)]

ScanUpToLine(lines, k, scan) ==
    scan = [n \in 0 .. k |-> IF n = 0 THEN Scan0 ELSE ScanLine(lines, scan[n - 1], n)]

LEMMA ScanExists ==
  ASSUME NEW lines \in Seq(LineTypes)
  PROVE  \E scan : ScanUpTo(lines, scan)
<1>1. PICK Q : Q = {k \in 0 .. Len(lines) : \E scan : ScanUpToLine(lines, k, scan)}
  OBVIOUS
<1>2. Len(lines) \in Nat
  OBVIOUS
<1>3. 0 \in Q
  <2>1. PICK s : s = [n \in 0 .. 0 |-> Scan0]
    OBVIOUS
  <2>2. s = [n \in 0 .. 0 |-> IF n = 0 THEN Scan0 ELSE ScanLine(lines, s[n - 1], n)]
    BY <2>1
  <2>3. QED
    BY <1>1, <1>2, <2>2 DEF ScanUpToLine
<1>4. ASSUME NEW k \in 0 .. Len(lines) - 1, k \in Q PROVE k + 1 \in Q
  <2>1. PICK s : ScanUpToLine(lines, k, s)
    BY <1>1, <1>4
  <2>2. PICK t : t = [n \in 0 .. k + 1 |-> IF n = k + 1 THEN ScanLine(lines, s[k], k + 1) ELSE s[n]]
    OBVIOUS
  <2>3. DOMAIN s = 0 .. k /\ \A n \in 0 .. k : s[n] = IF n = 0 THEN Scan0 ELSE ScanLine(lines, s[n - 1], n)
    BY <2>1 DEF ScanUpToLine
  <2>4. k \in Nat /\ k + 1 \in 0 .. Len(lines)
    BY <1>2
  <2>5. ASSUME NEW n \in 0 .. k + 1
        PROVE  t[n] = IF n = 0 THEN Scan0 ELSE ScanLine(lines, t[n - 1], n)
    <3>1. CASE n = k + 1
      <4>1. k \in 0 .. k + 1 /\ k # k + 1 /\ n - 1 = k /\ n # 0
        BY <2>4, <3>1
      <4>2. t[k] = s[k] /\ t[n] = ScanLine(lines, s[k], k + 1)
        BY <2>2, <3>1, <4>1
      <4>3. QED
        BY <3>1, <4>1, <4>2
    <3>2. CASE n # k + 1 /\ n # 0
      <4>1. n \in 0 .. k /\ n - 1 \in 0 .. k + 1 /\ n - 1 # k + 1
        BY <2>4, <3>2
      <4>2. t[n - 1] = s[n - 1] /\ t[n] = s[n]
        BY <2>2, <3>2, <4>1
      <4>3. QED
        BY <2>3, <3>2, <4>1, <4>2
    <3>3. CASE n = 0
      <4>1. n # k + 1 /\ n \in 0 .. k
        BY <2>4, <3>3
      <4>2. QED
        BY <2>2, <2>3, <3>3, <4>1
    <3>4. QED
      BY <3>1, <3>2, <3>3
  <2>6. t = [n \in 0 .. k + 1 |-> IF n = 0 THEN Scan0 ELSE ScanLine(lines, t[n - 1], n)]
    BY <2>2, <2>5
  <2>7. QED
    BY <1>1, <2>4, <2>6 DEF ScanUpToLine
<1>5. 0 .. Len(lines) \subseteq Q
  BY <1>2, <1>3, <1>4, UpToBound
<1>6. Len(lines) \in Q
  BY <1>2, <1>5
<1>7. QED
  BY <1>1, <1>6 DEF ScanUpTo, ScanUpToLine

LEMMA ParserScans ==
  ASSUME NEW lines \in Seq(LineTypes)
  PROVE  \E scan : ScanUpTo(lines, scan) /\ ParseChecklist(lines) = scan[Len(lines)]
<1>1. PICK scan : scan = CHOOSE s : s = [n \in 0 .. Len(lines) |-> IF n = 0 THEN Scan0 ELSE ScanLine(lines, s[n - 1], n)]
  OBVIOUS
<1>2. ParseChecklist(lines) = scan[Len(lines)]
  BY <1>1 DEF ParseChecklist
<1>3. ScanUpTo(lines, scan)
  BY <1>1, ScanExists DEF ScanUpTo
<1>4. QED
  BY <1>2, <1>3

LEMMA LastIn ==
  ASSUME NEW T, NEW s \in Seq(T), s # <<>>
  PROVE  Last(s) \in T
<1>1. Len(s) \in 1 .. Len(s)
  BY EmptySeq
<1>2. QED
  BY <1>1, ElementOfSeq DEF Last

LEMMA LastStep ==
  ASSUME NEW scan \in ScanTypes, scan.steps # <<>>
  PROVE  Len(scan.steps) \in DOMAIN scan.steps /\ Last(scan.steps) = scan.steps[Len(scan.steps)]
         /\ Last(scan.steps) \in StepTypes
<1>1. PICK s \in Seq(StepTypes) : s = scan.steps
  BY DEF ScanTypes
<1>2. s # <<>> /\ Len(s) \in Nat /\ DOMAIN s = 1 .. Len(s)
  BY <1>1
<1>3. Len(s) # 0
  BY <1>1, <1>2, EmptySeq
<1>4. Len(s) \in DOMAIN s
  BY <1>2, <1>3
<1>5. s[Len(s)] \in StepTypes
  BY <1>1, <1>4, ElementOfSeq
<1>6. QED
  BY <1>1, <1>4, <1>5 DEF Last

\* To change the last step changes nothing else, and keeps its prerequisites if the new one has them.
LEMMA UpdKeeps ==
  ASSUME NEW scan \in ScanTypes, scan.steps # <<>>, NEW step \in StepTypes,
         Last(scan.steps).prereqs \subseteq step.prereqs
  PROVE  /\ Upd(scan, step) \in ScanTypes /\ Upd(scan, step).steps # <<>>
         /\ Upd(scan, step).in = scan.in /\ Upd(scan, step).ok = scan.ok
         /\ Upd(scan, step).fence = scan.fence /\ Upd(scan, step).pending = scan.pending
         /\ Last(Upd(scan, step).steps) = step
         /\ KeptBy(scan) \subseteq KeptBy(Upd(scan, step)) /\ step.prereqs \subseteq KeptBy(Upd(scan, step))
<1>1. PICK s : s = scan.steps
  OBVIOUS
<1>2. PICK t : t = [s EXCEPT ![Len(s)] = step]
  OBVIOUS
<1>3. PICK u : u = Upd(scan, step)
  OBVIOUS
<1>4. u = [scan EXCEPT !.steps = t]
  BY <1>1, <1>2, <1>3 DEF Upd
<1>5. Len(s) \in DOMAIN s /\ Last(s) = s[Len(s)] /\ s \in Seq(StepTypes)
  BY <1>1, LastStep DEF ScanTypes
<1>6. t \in Seq(StepTypes) /\ Len(t) = Len(s) /\ DOMAIN t = DOMAIN s
  BY <1>2, <1>5, ExceptSeq
<1>7. t[Len(s)] = step /\ \A k \in DOMAIN s : k # Len(s) => t[k] = s[k]
  BY <1>2, <1>5
<1>8. t # <<>> /\ Last(t) = step
  BY <1>5, <1>6, <1>7 DEF Last
<1>9. /\ u.steps = t /\ u.secs = scan.secs /\ u.in = scan.in /\ u.ok = scan.ok
      /\ u.fence = scan.fence /\ u.pending = scan.pending
  BY <1>4 DEF ScanTypes
<1>10. u \in ScanTypes
  BY <1>4, <1>6 DEF ScanTypes
<1>11. \A k \in DOMAIN s : s[k].prereqs \subseteq t[k].prereqs
  <2>1. TAKE k \in DOMAIN s
  <2>2. CASE k = Len(s)
    BY <1>1, <1>5, <1>7, <2>2
  <2>3. CASE k # Len(s)
    BY <1>7, <2>3
  <2>4. QED
    BY <2>2, <2>3
<1>12. KeptBy(scan) \subseteq KeptBy(u)
  <2>1. \A k \in DOMAIN s : s[k].prereqs \subseteq UNION {t[j].prereqs : j \in DOMAIN t}
    BY <1>6, <1>11
  <2>2. UNION {s[k].prereqs : k \in DOMAIN s} \subseteq UNION {t[j].prereqs : j \in DOMAIN t}
    BY <2>1
  <2>3. QED
    BY <1>1, <1>9, <2>2 DEF KeptBy
<1>13. step.prereqs \subseteq KeptBy(u)
  <2>1. step.prereqs \subseteq UNION {t[j].prereqs : j \in DOMAIN t}
    BY <1>5, <1>6, <1>7
  <2>2. QED
    BY <1>9, <2>1 DEF KeptBy
<1>14. QED
  BY <1>3, <1>8, <1>9, <1>10, <1>12, <1>13

\* What one line does: at most one step changes, a prerequisite is kept, waits for the next section or is refused.
LEMMA OnPrereqKeeps ==
  ASSUME NEW scan \in ScanTypes, Scanned(scan), NEW line \in LineTypes, NEW next, scan.ok, ~scan.fence
  PROVE  LET scan2 == OnPrereq(scan, line, next)
         IN  /\ Scanned(scan2) /\ scan2.fence = scan.fence
             /\ scan2.ok => /\ KeptBy(scan) \subseteq KeptBy(scan2) /\ scan.pending \subseteq scan2.pending
                            /\ line.ids \subseteq KeptBy(scan2) \cup scan2.pending
                            /\ \/ scan2.pending = scan.pending /\ InAnnotations(scan)
                               \/ next \in {"prereq", "section"} /\ ~InAnnotations(scan2)
<1>1. PICK u : u = OnPrereq(scan, line, next)
  OBVIOUS
<1>2. line.ids \in Prerequisites
  BY DEF LineTypes, Prerequisites
<1>3. CASE InAnnotations(scan)
  <2>1. scan.in /\ scan.steps # <<>>
    BY <1>3 DEF InAnnotations, Scanned
  <2>2. PICK s \in StepTypes : s = Last(scan.steps)
    BY <2>1, LastStep
  <2>3. PICK t : t = [s EXCEPT !.prereqs = @ \cup line.ids]
    OBVIOUS
  <2>4. t \in StepTypes /\ s.prereqs \subseteq t.prereqs /\ line.ids \subseteq t.prereqs
    BY <1>2, <2>2, <2>3 DEF StepTypes, Prerequisites
  <2>5. u = Upd(scan, t)
    BY <1>1, <1>3, <2>2, <2>3 DEF OnPrereq
  <2>6. QED
    BY <1>1, <1>3, <2>1, <2>2, <2>4, <2>5, UpdKeeps DEF Scanned
<1>4. CASE ~InAnnotations(scan) /\ next \in {"prereq", "section"}
  <2>1. u = [scan EXCEPT !.pending = scan.pending \cup line.ids]
    BY <1>1, <1>4 DEF OnPrereq, Pending
  <2>2. u.pending = scan.pending \cup line.ids /\ u.steps = scan.steps /\ u.secs = scan.secs
        /\ u.in = scan.in /\ u.ok = scan.ok /\ u.fence = scan.fence
    BY <2>1 DEF ScanTypes
  <2>3. u \in ScanTypes
    BY <1>2, <2>1 DEF ScanTypes, Prerequisites
  <2>4. Scanned(u)
    BY <2>2, <2>3 DEF Scanned
  <2>5. KeptBy(u) = KeptBy(scan) /\ (InAnnotations(u) <=> InAnnotations(scan))
    BY <2>2 DEF KeptBy, InAnnotations
  <2>6. QED
    BY <1>1, <1>4, <2>2, <2>4, <2>5
<1>5. CASE ~InAnnotations(scan) /\ next \notin {"prereq", "section"}
  <2>1. u = [scan EXCEPT !.ok = FALSE]
    BY <1>1, <1>5 DEF OnPrereq
  <2>2. u \in ScanTypes /\ u.in = scan.in /\ u.steps = scan.steps /\ u.fence = scan.fence
    BY <2>1 DEF ScanTypes
  <2>3. u.ok = FALSE
    BY <2>1 DEF ScanTypes
  <2>4. QED
    BY <1>1, <2>2, <2>3 DEF Scanned
<1>6. QED
  BY <1>3, <1>4, <1>5

LEMMA OnFenceKeeps ==
  ASSUME NEW scan \in ScanTypes, Scanned(scan)
  PROVE  LET scan2 == OnFence(scan)
         IN  /\ Scanned(scan2) /\ scan2.fence = ~scan.fence /\ scan2.ok = scan.ok
             /\ scan2.pending = scan.pending /\ KeptBy(scan) \subseteq KeptBy(scan2)
<1>1. PICK f : f = [scan EXCEPT !.fence = ~@]
  OBVIOUS
<1>2. f \in ScanTypes
  BY <1>1 DEF ScanTypes
<1>3. f.pending = scan.pending /\ f.steps = scan.steps /\ f.secs = scan.secs /\ f.in = scan.in /\ f.ok = scan.ok
  BY <1>1 DEF ScanTypes
<1>4. f.fence = ~scan.fence
  BY <1>1 DEF ScanTypes
<1>5. Scanned(f) /\ KeptBy(f) = KeptBy(scan)
  BY <1>2, <1>3 DEF Scanned, KeptBy
<1>6. CASE ~scan.fence /\ scan.in
  <2>1. scan.steps # <<>>
    BY <1>6 DEF Scanned
  <2>2. PICK s \in StepTypes : s = Last(scan.steps)
    BY <2>1, LastStep
  <2>3. PICK t : t = [s EXCEPT !.code = TRUE]
    OBVIOUS
  <2>4. t \in StepTypes /\ t.prereqs = s.prereqs
    BY <2>2, <2>3 DEF StepTypes
  <2>5. OnFence(scan) = Upd(f, t)
    BY <1>1, <1>6, <2>2, <2>3 DEF OnFence
  <2>6. QED
    BY <1>2, <1>3, <1>4, <1>5, <1>6, <2>1, <2>2, <2>4, <2>5, UpdKeeps DEF Scanned
<1>7. CASE ~(~scan.fence /\ scan.in)
  <2>1. OnFence(scan) = f
    BY <1>1, <1>7 DEF OnFence
  <2>2. QED
    BY <1>3, <1>4, <1>5, <2>1
<1>8. QED
  BY <1>6, <1>7

LEMMA OnBodyKeeps ==
  ASSUME NEW scan \in ScanTypes, Scanned(scan), NEW line \in LineTypes
  PROVE  LET scan2 == OnBody(scan, line)
         IN  /\ Scanned(scan2) /\ scan2.fence = scan.fence /\ scan2.ok = scan.ok
             /\ scan2.pending = scan.pending /\ KeptBy(scan) \subseteq KeptBy(scan2)
<1>1. CASE ~scan.in
  BY <1>1 DEF OnBody
<1>2. CASE scan.in
  <2>1. scan.steps # <<>>
    BY <1>2 DEF Scanned
  <2>2. PICK s \in StepTypes : s = Last(scan.steps)
    BY <2>1, LastStep
  <2>3. line.id \in STRING
    BY DEF LineTypes
  <2>4. PICK t1 : t1 = [s EXCEPT !.assertions = Append(s.assertions, line.id)]
    OBVIOUS
  <2>5. PICK t2 : t2 = [s EXCEPT !.notes = s.notes \cup {line.id}]
    OBVIOUS
  <2>6. PICK t3 : t3 = [s EXCEPT !.body = TRUE]
    OBVIOUS
  <2>7. Append(s.assertions, line.id) \in Seq(STRING)
    BY <2>2, <2>3 DEF StepTypes
  <2>8. t1 \in StepTypes /\ t1.prereqs = s.prereqs
    BY <2>2, <2>4, <2>7 DEF StepTypes
  <2>9. t2 \in StepTypes /\ t2.prereqs = s.prereqs
    BY <2>2, <2>3, <2>5 DEF StepTypes
  <2>10. t3 \in StepTypes /\ t3.prereqs = s.prereqs
    BY <2>2, <2>6 DEF StepTypes
  <2>11. PICK t \in {t1, t2, t3} : OnBody(scan, line) = Upd(scan, t)
    BY <1>2, <2>2, <2>4, <2>5, <2>6 DEF OnBody
  <2>12. t \in StepTypes /\ t.prereqs = s.prereqs
    BY <2>8, <2>9, <2>10, <2>11
  <2>13. QED
    BY <1>2, <2>1, <2>2, <2>11, <2>12, UpdKeeps DEF Scanned
<1>3. QED
  BY <1>1, <1>2

LEMMA OnHeadingKeeps ==
  ASSUME NEW scan \in ScanTypes, Scanned(scan), NEW line \in LineTypes
  PROVE  LET scan2 == OnHeading(scan, line)
         IN  /\ Scanned(scan2) /\ scan2.fence = scan.fence /\ scan2.ok = scan.ok
             /\ KeptBy(scan) \subseteq KeptBy(scan2)
             /\ line.kind # "section" => scan2.pending = scan.pending
             /\ line.kind = "section" => scan2.pending = {} /\ scan.pending \subseteq KeptBy(scan2)
<1>1. PICK u : u = OnHeading(scan, line)
  OBVIOUS
<1>2. line.id \in STRING /\ scan.pending \in Prerequisites
  BY DEF LineTypes, ScanTypes
<1>3. CASE line.kind = "section"
  <2>1. PICK sec : sec = [id |-> line.id, prereqs |-> scan.pending]
    OBVIOUS
  <2>2. PICK secs : secs = Append(scan.secs, sec)
    OBVIOUS
  <2>3. u = [scan EXCEPT !.secs = secs, !.pending = {}, !.in = FALSE]
    BY <1>1, <1>3, <2>1, <2>2 DEF OnHeading
  <2>4. sec \in SectionTypes /\ sec.prereqs = scan.pending
    BY <1>2, <2>1 DEF SectionTypes
  <2>5. scan.secs \in Seq(SectionTypes)
    BY DEF ScanTypes
  <2>6. secs \in Seq(SectionTypes) /\ Len(scan.secs) + 1 \in DOMAIN secs /\ secs[Len(scan.secs) + 1] = sec
        /\ \A k \in DOMAIN scan.secs : k \in DOMAIN secs /\ secs[k] = scan.secs[k]
    BY <2>2, <2>4, <2>5, AppendProperties
  <2>7. {} \in Prerequisites
    BY DEF Prerequisites
  <2>8. u \in ScanTypes
    BY <2>3, <2>6, <2>7 DEF ScanTypes
  <2>9. u.pending = {} /\ u.steps = scan.steps /\ u.secs = secs /\ u.ok = scan.ok /\ u.fence = scan.fence
    BY <2>3 DEF ScanTypes
  <2>10. u.in = FALSE
    BY <2>3 DEF ScanTypes
  <2>11. UNION {scan.secs[k].prereqs : k \in DOMAIN scan.secs} \subseteq UNION {secs[k].prereqs : k \in DOMAIN secs}
    BY <2>6
  <2>12. scan.pending \subseteq UNION {secs[k].prereqs : k \in DOMAIN secs}
    BY <2>4, <2>6
  <2>13. KeptBy(scan) \subseteq KeptBy(u) /\ scan.pending \subseteq KeptBy(u)
    BY <2>9, <2>11, <2>12 DEF KeptBy
  <2>14. QED
    BY <1>1, <1>3, <2>8, <2>9, <2>10, <2>13 DEF Scanned
<1>4. CASE line.kind # "section"
  <2>1. PICK name : name = IF scan.secs = <<>> THEN "none" ELSE Last(scan.secs).id
    OBVIOUS
  <2>2. name \in STRING \cup {"none"}
    <3>1. CASE scan.secs = <<>>
      <4>1. name = "none"
        BY <2>1, <3>1
      <4>2. QED
        BY <4>1
    <3>2. CASE scan.secs # <<>>
      <4>1. scan.secs \in Seq(SectionTypes)
        BY DEF ScanTypes
      <4>2. Last(scan.secs) \in SectionTypes
        BY <3>2, <4>1, LastIn
      <4>3. QED
        BY <2>1, <3>2, <4>2 DEF SectionTypes
    <3>3. QED
      BY <3>1, <3>2
  <2>3. PICK step : step = NewStep(line.id, name)
    OBVIOUS
  <2>4. step \in StepTypes
    BY <1>2, <2>2, <2>3 DEF NewStep, StepTypes, Prerequisites
  <2>5. PICK steps : steps = Append(scan.steps, step)
    OBVIOUS
  <2>6. u = [scan EXCEPT !.in = TRUE, !.steps = steps]
    BY <1>1, <1>4, <2>1, <2>3, <2>5 DEF OnHeading
  <2>7. scan.steps \in Seq(StepTypes)
    BY DEF ScanTypes
  <2>8. steps \in Seq(StepTypes) /\ Len(scan.steps) + 1 \in DOMAIN steps
        /\ \A k \in DOMAIN scan.steps : k \in DOMAIN steps /\ steps[k] = scan.steps[k]
    BY <2>4, <2>5, <2>7, AppendProperties
  <2>9. steps # <<>>
    BY <2>8
  <2>10. u \in ScanTypes
    BY <2>6, <2>8 DEF ScanTypes
  <2>11. u.pending = scan.pending /\ u.steps = steps /\ u.secs = scan.secs /\ u.ok = scan.ok /\ u.fence = scan.fence
    BY <2>6 DEF ScanTypes
  <2>12. UNION {scan.steps[k].prereqs : k \in DOMAIN scan.steps} \subseteq UNION {steps[k].prereqs : k \in DOMAIN steps}
    BY <2>8
  <2>13. KeptBy(scan) \subseteq KeptBy(u)
    BY <2>11, <2>12 DEF KeptBy
  <2>14. QED
    BY <1>1, <1>4, <2>9, <2>10, <2>11, <2>13 DEF Scanned
<1>5. QED
  BY <1>3, <1>4

\* What the parser has kept after n lines, unless it refused one of them.
PrereqsKept(lines, scan, n) ==
    /\ scan.fence <=> Fenced(lines, n)
    /\ AskedUpTo(lines, n) \subseteq KeptBy(scan) \cup scan.pending
    /\ scan.pending # {} =>
          ~scan.fence /\ ~InAnnotations(scan) /\ n < Len(lines) /\ lines[n + 1].kind \in {"prereq", "section"}

LEMMA FencedNext ==
  ASSUME NEW lines, NEW n \in Nat
  PROVE  Fenced(lines, n + 1) <=> IF lines[n + 1].kind = "fence" THEN ~Fenced(lines, n) ELSE Fenced(lines, n)
<1>1. PICK S : S = {j \in 1 .. n : lines[j].kind = "fence"}
  OBVIOUS
<1>2. PICK T : T = {j \in 1 .. n + 1 : lines[j].kind = "fence"}
  OBVIOUS
<1>3. IsFiniteSet(S)
  BY <1>1, FS_Interval, FS_Subset, 1 \in Int, n \in Int
<1>4. Cardinality(S) \in Nat
  BY <1>3, FS_CardinalityType
<1>5. n + 1 \notin S /\ n + 1 \in 1 .. n + 1 /\ \A j : j \in 1 .. n + 1 <=> j \in 1 .. n \/ j = n + 1
  BY <1>1
<1>6. CASE lines[n + 1].kind = "fence"
  <2>1. T = S \cup {n + 1}
    BY <1>1, <1>2, <1>5, <1>6
  <2>2. Cardinality(T) = Cardinality(S) + 1
    BY <1>3, <1>5, <2>1, FS_AddElement
  <2>3. Cardinality(T) % 2 = 1 <=> ~(Cardinality(S) % 2 = 1)
    BY <1>4, <2>2
  <2>4. QED
    BY <1>1, <1>2, <1>6, <2>3 DEF Fenced
<1>7. CASE lines[n + 1].kind # "fence"
  <2>1. T = S
    BY <1>1, <1>2, <1>5, <1>7
  <2>2. QED
    BY <1>1, <1>2, <1>7, <2>1 DEF Fenced
<1>8. QED
  BY <1>6, <1>7

LEMMA AskedNext ==
  ASSUME NEW lines, NEW n \in Nat
  PROVE  /\ AskedUpTo(lines, n + 1) \subseteq AskedUpTo(lines, n) \cup lines[n + 1].ids
         /\ lines[n + 1].kind # "prereq" \/ Fenced(lines, n + 1) =>
               AskedUpTo(lines, n + 1) \subseteq AskedUpTo(lines, n)
<1>1. ASSUME NEW p \in AskedUpTo(lines, n + 1)
      PROVE  \/ p \in AskedUpTo(lines, n)
             \/ lines[n + 1].kind = "prereq" /\ ~Fenced(lines, n + 1) /\ p \in lines[n + 1].ids
  <2>1. PICK i \in 1 .. n + 1 : lines[i].kind = "prereq" /\ ~Fenced(lines, i) /\ p \in lines[i].ids
    BY <1>1 DEF AskedUpTo
  <2>2. i \in 1 .. n \/ i = n + 1
    BY <2>1
  <2>3. QED
    BY <2>1, <2>2 DEF AskedUpTo
<1>2. QED
  BY <1>1

LEMMA ScanLineKeeps ==
  ASSUME NEW lines \in Seq(LineTypes), NEW n \in 0 .. Len(lines) - 1,
         NEW scan \in ScanTypes, Scanned(scan), scan.ok => PrereqsKept(lines, scan, n)
  PROVE  LET scan2 == ScanLine(lines, scan, n + 1)
         IN  Scanned(scan2) /\ (scan2.ok => PrereqsKept(lines, scan2, n + 1))
<1>1. PICK u : u = ScanLine(lines, scan, n + 1)
  OBVIOUS
<1>2. PICK line \in LineTypes : line = lines[n + 1]
  <2>1. n + 1 \in 1 .. Len(lines)
    OBVIOUS
  <2>2. QED
    BY <2>1, ElementOfSeq
<1>3. PICK next : next = IF n + 1 < Len(lines) THEN lines[n + 2].kind ELSE "end"
  OBVIOUS
<1>4. n \in Nat /\ n + 1 \in Nat /\ (n + 1) + 1 = n + 2
  OBVIOUS
<1>5. u = IF ~scan.ok THEN scan
          ELSE IF line.kind = "fence" THEN OnFence(scan)
          ELSE IF scan.fence THEN scan
          ELSE IF line.kind = "prereq" THEN OnPrereq(scan, line, next)
          ELSE IF line.kind \in {"section", "step"} THEN OnHeading(scan, line)
          ELSE OnBody(scan, line)
  BY <1>1, <1>2, <1>3, <1>4 DEF ScanLine
<1>6. next \in {"prereq", "section"} => n + 1 < Len(lines) /\ lines[(n + 1) + 1].kind \in {"prereq", "section"}
  BY <1>3, <1>4
<1>7. Fenced(lines, n + 1) <=> IF line.kind = "fence" THEN ~Fenced(lines, n) ELSE Fenced(lines, n)
  BY <1>2, <1>4, FencedNext
<1>8. /\ AskedUpTo(lines, n + 1) \subseteq AskedUpTo(lines, n) \cup line.ids
      /\ line.kind # "prereq" \/ Fenced(lines, n + 1) => AskedUpTo(lines, n + 1) \subseteq AskedUpTo(lines, n)
  BY <1>2, <1>4, AskedNext
<1>9. scan.ok => /\ scan.fence <=> Fenced(lines, n)
                 /\ AskedUpTo(lines, n) \subseteq KeptBy(scan) \cup scan.pending
                 /\ scan.pending # {} => ~scan.fence /\ ~InAnnotations(scan) /\ line.kind \in {"prereq", "section"}
  BY <1>2 DEF PrereqsKept
<1>10. CASE ~scan.ok
  BY <1>1, <1>5, <1>10
<1>11. CASE scan.ok /\ line.kind = "fence"
  <2>1. u = OnFence(scan)
    BY <1>5, <1>11
  <2>2. Scanned(u) /\ u.fence = ~scan.fence /\ u.pending = scan.pending /\ KeptBy(scan) \subseteq KeptBy(u)
    BY <2>1, OnFenceKeeps
  <2>3. scan.pending = {}
    BY <1>9, <1>11
  <2>4. scan.fence \in BOOLEAN
    BY DEF ScanTypes
  <2>5. u.fence <=> Fenced(lines, n + 1)
    BY <1>7, <1>9, <1>11, <2>2, <2>4
  <2>6. AskedUpTo(lines, n + 1) \subseteq KeptBy(u) \cup u.pending
    BY <1>8, <1>9, <1>11, <2>2
  <2>7. QED
    BY <1>1, <2>2, <2>3, <2>5, <2>6 DEF PrereqsKept
<1>12. CASE scan.ok /\ line.kind # "fence" /\ scan.fence
  <2>1. u = scan
    BY <1>5, <1>12
  <2>2. scan.pending = {}
    BY <1>9, <1>12
  <2>3. scan.fence <=> Fenced(lines, n + 1)
    BY <1>7, <1>9, <1>12
  <2>4. AskedUpTo(lines, n + 1) \subseteq KeptBy(scan) \cup scan.pending
    BY <1>8, <1>9, <1>12, <2>3
  <2>5. QED
    BY <1>1, <2>1, <2>2, <2>3, <2>4 DEF PrereqsKept
<1>13. CASE scan.ok /\ line.kind = "prereq" /\ ~scan.fence
  <2>1. u = OnPrereq(scan, line, next)
    BY <1>5, <1>13
  <2>2. /\ Scanned(u) /\ u.fence = scan.fence
        /\ u.ok => /\ KeptBy(scan) \subseteq KeptBy(u) /\ scan.pending \subseteq u.pending
                   /\ line.ids \subseteq KeptBy(u) \cup u.pending
                   /\ \/ u.pending = scan.pending /\ InAnnotations(scan)
                      \/ next \in {"prereq", "section"} /\ ~InAnnotations(u)
    BY <1>13, <2>1, OnPrereqKeeps
  <2>3. ASSUME u.ok PROVE PrereqsKept(lines, u, n + 1)
    <3>1. u.fence <=> Fenced(lines, n + 1)
      BY <1>7, <1>9, <1>13, <2>2
    <3>2. AskedUpTo(lines, n + 1) \subseteq KeptBy(u) \cup u.pending
      BY <1>8, <1>9, <1>13, <2>2, <2>3
    <3>3. u.pending # {} => ~u.fence /\ ~InAnnotations(u) /\ next \in {"prereq", "section"}
      BY <1>9, <1>13, <2>2, <2>3
    <3>4. QED
      BY <1>6, <3>1, <3>2, <3>3 DEF PrereqsKept
  <2>4. QED
    BY <1>1, <2>2, <2>3
<1>14. CASE scan.ok /\ line.kind \in {"section", "step"} /\ ~scan.fence
  <2>1. u = OnHeading(scan, line)
    BY <1>5, <1>14
  <2>2. /\ Scanned(u) /\ u.fence = scan.fence /\ KeptBy(scan) \subseteq KeptBy(u)
        /\ line.kind # "section" => u.pending = scan.pending
        /\ line.kind = "section" => u.pending = {} /\ scan.pending \subseteq KeptBy(u)
    BY <2>1, OnHeadingKeeps
  <2>3. u.pending = {}
    BY <1>9, <1>14, <2>2
  <2>4. u.fence <=> Fenced(lines, n + 1)
    BY <1>7, <1>9, <1>14, <2>2
  <2>5. AskedUpTo(lines, n + 1) \subseteq KeptBy(u) \cup u.pending
    <3>1. scan.pending \subseteq KeptBy(u)
      BY <1>9, <1>14, <2>2
    <3>2. QED
      BY <1>8, <1>9, <1>14, <2>2, <3>1
  <2>6. QED
    BY <1>1, <2>2, <2>3, <2>4, <2>5 DEF PrereqsKept
<1>15. CASE scan.ok /\ line.kind \notin {"fence", "prereq", "section", "step"} /\ ~scan.fence
  <2>1. u = OnBody(scan, line)
    BY <1>5, <1>15
  <2>2. Scanned(u) /\ u.fence = scan.fence /\ u.pending = scan.pending /\ KeptBy(scan) \subseteq KeptBy(u)
    BY <2>1, OnBodyKeeps
  <2>3. u.pending = {}
    BY <1>9, <1>15, <2>2
  <2>4. u.fence <=> Fenced(lines, n + 1)
    BY <1>7, <1>9, <1>15, <2>2
  <2>5. AskedUpTo(lines, n + 1) \subseteq KeptBy(u) \cup u.pending
    BY <1>8, <1>9, <1>15, <2>2
  <2>6. QED
    BY <1>1, <2>2, <2>3, <2>4, <2>5 DEF PrereqsKept
<1>16. QED
  BY <1>10, <1>11, <1>12, <1>13, <1>14, <1>15

\* Whatever lines it is given, the parser keeps each prerequisite or refuses the checklist.
LEMMA ParserKeeps ==
  ASSUME NEW lines \in Seq(LineTypes)
  PROVE  LET scan == ParseChecklist(lines)
         IN  Scanned(scan) /\ (scan.ok => AskedUpTo(lines, Len(lines)) \subseteq KeptBy(scan))
<1>1. PICK scan : ScanUpTo(lines, scan) /\ ParseChecklist(lines) = scan[Len(lines)]
  BY ParserScans
<1>2. Len(lines) \in Nat
  OBVIOUS
<1>3. \A n \in 0 .. Len(lines) : scan[n] = IF n = 0 THEN Scan0 ELSE ScanLine(lines, scan[n - 1], n)
  BY <1>1 DEF ScanUpTo
<1>4. PICK Q : Q = {n \in 0 .. Len(lines) : Scanned(scan[n]) /\ (scan[n].ok => PrereqsKept(lines, scan[n], n))}
  OBVIOUS
<1>5. 0 \in Q
  <2>1. 0 \in 0 .. Len(lines) /\ scan[0] = Scan0
    BY <1>2, <1>3
  <2>2. Scanned(Scan0)
    <3>1. <<>> \in Seq(StepTypes) /\ <<>> \in Seq(SectionTypes) /\ {} \in Prerequisites
      BY DEF Prerequisites
    <3>2. QED
      BY <3>1 DEF Scan0, Scanned, ScanTypes
  <2>3. AskedUpTo(lines, 0) = {}
    BY DEF AskedUpTo
  <2>4. ~Fenced(lines, 0)
    <3>1. {j \in 1 .. 0 : lines[j].kind = "fence"} = {}
      OBVIOUS
    <3>2. Cardinality({}) = 0
      BY FS_EmptySet
    <3>3. QED
      BY <3>1, <3>2 DEF Fenced
  <2>5. PrereqsKept(lines, Scan0, 0)
    BY <2>3, <2>4 DEF PrereqsKept, Scan0
  <2>6. QED
    BY <1>4, <2>1, <2>2, <2>5
<1>6. ASSUME NEW n \in 0 .. Len(lines) - 1, n \in Q PROVE n + 1 \in Q
  <2>1. n + 1 \in 0 .. Len(lines) /\ n + 1 # 0 /\ (n + 1) - 1 = n
    BY <1>2
  <2>2. scan[n + 1] = ScanLine(lines, scan[n], n + 1)
    BY <1>3, <2>1
  <2>3. scan[n] \in ScanTypes /\ Scanned(scan[n]) /\ (scan[n].ok => PrereqsKept(lines, scan[n], n))
    BY <1>4, <1>6 DEF Scanned
  <2>4. Scanned(scan[n + 1]) /\ (scan[n + 1].ok => PrereqsKept(lines, scan[n + 1], n + 1))
    BY <2>2, <2>3, ScanLineKeeps
  <2>5. QED
    BY <1>4, <2>1, <2>4
<1>7. Len(lines) \in Q
  <2>1. 0 .. Len(lines) \subseteq Q
    BY <1>2, <1>5, <1>6, UpToBound
  <2>2. QED
    BY <1>2, <2>1
<1>8. Scanned(scan[Len(lines)]) /\ (scan[Len(lines)].ok => PrereqsKept(lines, scan[Len(lines)], Len(lines)))
  BY <1>4, <1>7
<1>9. scan[Len(lines)].ok => AskedUpTo(lines, Len(lines)) \subseteq KeptBy(scan[Len(lines)])
  BY <1>2, <1>8 DEF PrereqsKept
<1>10. QED
  BY <1>1, <1>8, <1>9

(* The commands. *)

HashTypes == [id : StepIds \cup {"none"}, notes : SUBSET STRING, assertions : Seq(STRING)]
RecordTypes == [results : Seq(Results), hash : HashTypes, scope : RunScopes \cup {NoScope}]
StepRecords == UNION {[ids -> RecordTypes] : ids \in SUBSET StepIds}
FileTypes ==
    [schema : 0 .. 2, of : Nat, at : StepIds \cup {"none"}, scope : RunScopes \cup {NoScope},
     steps : StepRecords, passed : SUBSET SectionIds]

WalkthroughTypes ==
    /\ drafted \in Seq(Lines) /\ Len(drafted) <= MaxLines
    /\ edition \in DOMAIN Editions /\ commands \in 0 .. MaxRecords
    /\ state \in FileTypes /\ ranIn \in [StepIds -> RunScopes \cup {NoScope}]

\* A step has been recorded in the run its record names.
RanWhereRecorded == \A i \in Recorded : ranIn[i] = state.steps[i].scope

\* A record has a result for each assertion its hash is of.
Measured(st) ==
    \A i \in DOMAIN st.steps :
        st.steps[i].hash # NoHash => Len(st.steps[i].results) = Len(st.steps[i].hash.assertions)

\* A file of version 1 is of the first edition, and measured by its steps.
OldMeasured ==
    /\ state.of = 1
    /\ \A i \in Recorded :
          i \in Ids(Parsed[1]) /\ Len(state.steps[i].results) = Len(FindStep(Parsed[1], i).assertions)

WalkthroughInv ==
    /\ WalkthroughTypes /\ RanWhereRecorded /\ CleanReportsAddUp
    /\ (state.schema = 0 => state = NoFile)
    /\ (state.schema = 1 => OldMeasured)
    /\ (state.schema = 2 => Measured(state))

\* What the commands may rely on in a checklist.
ListOK(list) ==
    /\ list \in ScanTypes /\ list.steps # <<>>
    /\ Ids(list) \subseteq StepIds /\ Sections(list) \subseteq SectionIds
    /\ \A j, k \in DOMAIN list.steps : list.steps[j].id = list.steps[k].id => j = k

LEMMA EditionsParse ==
  /\ 1 \in DOMAIN Editions /\ DOMAIN Editions \subseteq Nat \ {0}
  /\ \A e \in DOMAIN Editions : ListOK(Parsed[e])
<1>1. Editions \in Seq(Seq(LineTypes)) /\ Editions # <<>>
  BY WalkthroughAssumption, EditionsAssumption
<1>2. 1 \in DOMAIN Editions /\ DOMAIN Editions \subseteq Nat \ {0}
  <2>1. Len(Editions) \in Nat /\ Len(Editions) # 0 /\ DOMAIN Editions = 1 .. Len(Editions)
    BY <1>1, EmptySeq
  <2>2. QED
    BY <2>1
<1>3. ASSUME NEW e \in DOMAIN Editions PROVE ListOK(Parsed[e])
  <2>1. Editions[e] \in Seq(LineTypes)
    BY <1>1, <1>3, ElementOfSeq
  <2>2. PICK list : list = Parsed[e]
    OBVIOUS
  <2>3. list = ParseChecklist(Editions[e])
    BY <1>3, <2>2 DEF Parsed
  <2>4. list \in ScanTypes
    BY <2>1, <2>3, ParserKeeps DEF Scanned
  <2>5. /\ list.steps # <<>> /\ Ids(list) \subseteq StepIds /\ Sections(list) \subseteq SectionIds
        /\ \A j, k \in DOMAIN list.steps : list.steps[j].id = list.steps[k].id => j = k
    BY <1>3, <2>2, EditionsAssumption
  <2>6. QED
    BY <2>2, <2>4, <2>5 DEF ListOK
<1>4. QED
  BY <1>2, <1>3

LEMMA StepsAre ==
  ASSUME NEW list, ListOK(list)
  PROVE  /\ list.steps \in Seq(StepTypes) /\ DOMAIN list.steps = 1 .. Len(list.steps) /\ Len(list.steps) \in Nat
         /\ Ids(list) = {list.steps[k].id : k \in DOMAIN list.steps}
<1>1. list.steps \in Seq(StepTypes)
  BY DEF ListOK, ScanTypes
<1>2. Steps(list) = {list.steps[k] : k \in DOMAIN list.steps}
  BY DEF Steps, ToSet
<1>3. QED
  BY <1>1, <1>2 DEF Ids

LEMMA FindStepIs ==
  ASSUME NEW list, ListOK(list), NEW k \in DOMAIN list.steps
  PROVE  Index(list, list.steps[k].id) = k /\ FindStep(list, list.steps[k].id) = list.steps[k]
<1>1. PICK S : S = {j \in DOMAIN list.steps : list.steps[j].id = list.steps[k].id}
  OBVIOUS
<1>2. S = {k}
  BY <1>1 DEF ListOK
<1>3. k <= k
  BY StepsAre
<1>4. Min(S) = k
  BY <1>2, <1>3 DEF Min
<1>5. QED
  BY <1>1, <1>4 DEF Index, FindStep

LEMMA FindStepFinds ==
  ASSUME NEW list, ListOK(list), NEW id \in Ids(list)
  PROVE  /\ Index(list, id) \in DOMAIN list.steps /\ list.steps[Index(list, id)].id = id
         /\ FindStep(list, id) = list.steps[Index(list, id)]
         /\ FindStep(list, id) \in StepTypes /\ FindStep(list, id).id = id
<1>1. PICK k \in DOMAIN list.steps : id = list.steps[k].id
  BY StepsAre
<1>2. Index(list, id) = k /\ FindStep(list, id) = list.steps[k]
  BY <1>1, FindStepIs
<1>3. list.steps[k] \in StepTypes
  BY StepsAre, ElementOfSeq
<1>4. QED
  BY <1>1, <1>2, <1>3

LEMMA HashOfStep ==
  ASSUME NEW step \in StepTypes, step.id \in StepIds
  PROVE  /\ StepHash(step) \in HashTypes /\ StepHash(step) # NoHash
         /\ StepHash(step).assertions = step.assertions /\ NoHash \in HashTypes
<1>1. "none" \notin StepIds
  BY EditionsAssumption
<1>2. step.notes \in SUBSET STRING /\ step.assertions \in Seq(STRING)
  BY DEF StepTypes
<1>3. PICK h : h = StepHash(step)
  OBVIOUS
<1>4. h = [id |-> step.id, notes |-> step.notes, assertions |-> step.assertions]
  BY <1>3 DEF StepHash
<1>5. h.id = step.id /\ h.assertions = step.assertions /\ h \in HashTypes
  BY <1>2, <1>4 DEF HashTypes
<1>6. NoHash.id = "none"
  BY DEF NoHash
<1>7. NoHash \in HashTypes
  <2>1. <<>> \in Seq(STRING)
    OBVIOUS
  <2>2. QED
    BY <2>1 DEF NoHash, HashTypes
<1>8. QED
  BY <1>1, <1>3, <1>5, <1>6, <1>7

LEMMA RecordsAre ==
  ASSUME NEW steps \in StepRecords
  PROVE  /\ DOMAIN steps \subseteq StepIds /\ steps = [i \in DOMAIN steps |-> steps[i]]
         /\ \A i \in DOMAIN steps : steps[i] \in RecordTypes
BY DEF StepRecords

LEMMA RecordsMadeOf ==
  ASSUME NEW ids \in SUBSET StepIds, NEW steps, DOMAIN steps = ids, steps = [i \in ids |-> steps[i]],
         \A i \in ids : steps[i] \in RecordTypes
  PROVE  steps \in StepRecords
<1>1. steps \in [ids -> RecordTypes]
  OBVIOUS
<1>2. QED
  BY <1>1 DEF StepRecords

\* Migrated, a file is of the present version, has the results it had, and each of them is measured by its hash.
LEMMA MigrationMeasures ==
  ASSUME WalkthroughInv, state # NoFile, NEW st, st = Migrated(Checklist, state)
  PROVE  /\ st \in FileTypes /\ st.schema = 2 /\ st.scope = state.scope /\ Measured(st)
         /\ DOMAIN st.steps = Recorded
         /\ \A i \in Recorded : st.steps[i].scope = state.steps[i].scope
<1>1. state \in FileTypes /\ edition \in DOMAIN Editions /\ state.schema \in {1, 2}
  <2>1. state \in FileTypes /\ edition \in DOMAIN Editions /\ state.schema # 0
    BY DEF WalkthroughInv, WalkthroughTypes
  <2>2. state.schema \in 0 .. 2
    BY <2>1 DEF FileTypes
  <2>3. QED
    BY <2>1, <2>2
<1>2. CASE state.schema = 2
  <2>1. st = state
    BY <1>2 DEF Migrated
  <2>2. QED
    BY <1>1, <1>2, <2>1 DEF WalkthroughInv, Recorded
<1>3. CASE state.schema = 1
  <2>1. OldMeasured
    BY <1>3 DEF WalkthroughInv
  <2>2. PICK list : list = Checklist
    OBVIOUS
  <2>3. list = Parsed[edition] /\ ListOK(list) /\ ListOK(Parsed[1])
    BY <1>1, <2>2, EditionsParse DEF Checklist
  <2>4. PICK old \in StepRecords : old = state.steps
    BY <1>1 DEF FileTypes
  <2>5. DOMAIN old = Recorded /\ Recorded \subseteq StepIds /\ \A i \in Recorded : old[i] \in RecordTypes
    BY <2>4, RecordsAre DEF Recorded
  <2>6. PICK hash : hash = [i \in DOMAIN old |->
             IF Trusted(state) /\ i \in Ids(list) THEN StepHash(FindStep(list, i)) ELSE NoHash]
    OBVIOUS
  <2>7. PICK steps : steps = [i \in DOMAIN old |-> [old[i] EXCEPT !.hash = hash[i]]]
    OBVIOUS
  <2>8. \A i \in DOMAIN old : hash[i] \in HashTypes
                              /\ (hash[i] # NoHash => Len(old[i].results) = Len(hash[i].assertions))
    <3>1. TAKE i \in DOMAIN old
    <3>2. CASE Trusted(state) /\ i \in Ids(list)
      <4>1. hash[i] = StepHash(FindStep(list, i))
        BY <2>6, <3>2
      <4>2. list = Parsed[1]
        BY <2>1, <2>3, <3>2 DEF OldMeasured, Trusted
      <4>3. FindStep(list, i) \in StepTypes /\ FindStep(list, i).id = i /\ i \in StepIds
        BY <2>3, <2>5, <3>2, FindStepFinds
      <4>4. hash[i] \in HashTypes /\ hash[i].assertions = FindStep(list, i).assertions
        BY <4>1, <4>3, HashOfStep
      <4>5. Len(old[i].results) = Len(FindStep(list, i).assertions)
        BY <2>1, <2>4, <2>5, <4>2 DEF OldMeasured
      <4>6. QED
        BY <4>4, <4>5
    <3>3. CASE ~(Trusted(state) /\ i \in Ids(list))
      <4>1. hash[i] = NoHash
        BY <2>6, <3>3
      <4>2. NoHash \in HashTypes
        <5>1. <<>> \in Seq(STRING)
          OBVIOUS
        <5>2. QED
          BY <5>1 DEF NoHash, HashTypes
      <4>3. QED
        BY <4>1, <4>2
    <3>4. QED
      BY <3>2, <3>3
  <2>9. \A i \in DOMAIN old : /\ steps[i] \in RecordTypes /\ steps[i].results = old[i].results
                              /\ steps[i].hash = hash[i] /\ steps[i].scope = old[i].scope
    <3>1. TAKE i \in DOMAIN old
    <3>2. PICK r \in RecordTypes : r = old[i]
      BY <2>5
    <3>3. PICK h \in HashTypes : h = hash[i]
      BY <2>8
    <3>4. steps[i] = [r EXCEPT !.hash = h]
      BY <2>7, <3>2, <3>3
    <3>5. steps[i] \in RecordTypes
      BY <3>4 DEF RecordTypes
    <3>6. steps[i].results = r.results /\ steps[i].hash = h /\ steps[i].scope = r.scope
      BY <3>4 DEF RecordTypes
    <3>7. QED
      BY <3>2, <3>3, <3>5, <3>6
  <2>10. DOMAIN steps = DOMAIN old /\ steps \in StepRecords
    BY <2>5, <2>7, <2>9, RecordsMadeOf
  <2>11. st = [state EXCEPT !.schema = 2, !.steps = steps]
    BY <1>3, <2>2, <2>4, <2>6, <2>7 DEF Migrated
  <2>12. st \in FileTypes
    <3>1. PICK versions : versions = 0 .. 2
      OBVIOUS
    <3>2. 2 \in versions
      BY <3>1
    <3>3. state \in [schema : versions, of : Nat, at : StepIds \cup {"none"}, scope : RunScopes \cup {NoScope},
                     steps : StepRecords, passed : SUBSET SectionIds]
      BY <1>1, <3>1 DEF FileTypes
    <3>4. st \in [schema : versions, of : Nat, at : StepIds \cup {"none"}, scope : RunScopes \cup {NoScope},
                  steps : StepRecords, passed : SUBSET SectionIds]
      BY <2>10, <2>11, <3>2, <3>3
    <3>5. QED
      BY <3>1, <3>4 DEF FileTypes
  <2>13. st.schema = 2 /\ st.scope = state.scope /\ st.steps = steps
    BY <1>1, <2>11 DEF FileTypes
  <2>14. Measured(st)
    BY <2>8, <2>9, <2>10, <2>13 DEF Measured
  <2>15. QED
    BY <2>4, <2>5, <2>9, <2>10, <2>12, <2>13, <2>14
<1>4. QED
  BY <1>1, <1>2, <1>3

\* A command that leaves the file in the present version, with records measured and of the runs they were made in.
LEMMA FileWritten ==
  ASSUME WalkthroughInv, NEW st \in FileTypes, st.schema = 2, Measured(st), Runs(st),
         ranIn' \in [StepIds -> RunScopes \cup {NoScope}],
         \A i \in DOMAIN st.steps : ranIn'[i] = st.steps[i].scope, CleanReportsAddUp'
  PROVE  WalkthroughInv'
<1>1. state' = st /\ drafted' = drafted /\ edition' = edition /\ commands' = commands + 1 /\ commands < MaxRecords
  BY DEF Runs
<1>2. commands' \in 0 .. MaxRecords
  BY <1>1, WalkthroughAssumption DEF WalkthroughInv, WalkthroughTypes
<1>3. WalkthroughTypes'
  BY <1>1, <1>2 DEF WalkthroughInv, WalkthroughTypes
<1>4. RanWhereRecorded'
  BY <1>1 DEF RanWhereRecorded, Recorded
<1>5. Measured(state')
  BY <1>1
<1>6. state'.schema = 2
  BY <1>1
<1>7. QED
  BY <1>3, <1>4, <1>5, <1>6 DEF WalkthroughInv, Measured

LEMMA ReportKept ==
  ASSUME CleanReportsAddUp, UNCHANGED reported
  PROVE  CleanReportsAddUp'
BY DEF CleanReportsAddUp

LEMMA EmptyRecords == <<>> \in StepRecords /\ DOMAIN <<>> = {}
<1>1. DOMAIN <<>> = {} /\ <<>> = [i \in {} |-> <<>>[i]]
  OBVIOUS
<1>2. <<>> \in StepRecords
  BY <1>1, RecordsMadeOf
<1>3. QED
  BY <1>1, <1>2

LEMMA InitialiseStep ==
  ASSUME WalkthroughInv, NEW force \in BOOLEAN, Initialise(force)
  PROVE  WalkthroughInv'
<1>1. PICK list : list = Checklist
  OBVIOUS
<1>2. ListOK(list) /\ edition \in Nat
  BY <1>1, EditionsParse DEF Checklist, WalkthroughInv, WalkthroughTypes
<1>3. PICK first : first = list.steps[1].id
  OBVIOUS
<1>4. first \in StepIds
  <2>1. 1 \in DOMAIN list.steps
    BY <1>2, StepsAre, EmptySeq DEF ListOK
  <2>2. QED
    BY <1>2, <1>3, <2>1, StepsAre DEF ListOK
<1>5. PICK st : st = [NoFile EXCEPT !.schema = 2, !.of = edition, !.at = first]
  OBVIOUS
<1>6. st = [schema |-> 2, of |-> edition, at |-> first, scope |-> NoScope, steps |-> <<>>, passed |-> {}]
  BY <1>5 DEF NoFile
<1>7. st \in FileTypes
  BY <1>2, <1>4, <1>6, EmptyRecords DEF FileTypes
<1>8. st.schema = 2 /\ DOMAIN st.steps = {}
  BY <1>6, EmptyRecords
<1>9. Runs(st) /\ ranIn' = [i \in StepIds |-> NoScope] /\ UNCHANGED reported
  BY <1>1, <1>3, <1>5 DEF Initialise
<1>10. CleanReportsAddUp'
  BY <1>9, ReportKept DEF WalkthroughInv
<1>11. QED
  BY <1>7, <1>8, <1>9, <1>10, FileWritten DEF Measured

LEMMA RefreshedIs ==
  ASSUME NEW list, ListOK(list), NEW st \in FileTypes
  PROVE  LET new == Refreshed(list, st)
         IN  new \in FileTypes /\ new.steps = st.steps /\ new.schema = st.schema /\ new.scope = st.scope
<1>1. PICK passed : passed = {sec \in Sections(list) : SectionStatus(list, st, sec) = "passed"}
  OBVIOUS
<1>2. passed \subseteq SectionIds
  BY <1>1 DEF ListOK
<1>3. Refreshed(list, st) = [st EXCEPT !.passed = passed]
  BY <1>1 DEF Refreshed
<1>4. QED
  BY <1>2, <1>3 DEF FileTypes

LEMMA NextOfIs ==
  ASSUME NEW list, ListOK(list), NEW id \in Ids(list)
  PROVE  NextOf(list, id) \in StepIds \cup {"none"}
<1>1. PICK k \in DOMAIN list.steps : k = Index(list, id)
  BY FindStepFinds
<1>2. NextOf(list, id) = IF k < Len(list.steps) THEN list.steps[k + 1].id ELSE "none"
  BY <1>1 DEF NextOf
<1>3. CASE k < Len(list.steps)
  <2>1. k + 1 \in DOMAIN list.steps
    BY <1>3, StepsAre
  <2>2. list.steps[k + 1].id \in StepIds
    BY <2>1, StepsAre DEF ListOK
  <2>3. QED
    BY <1>2, <1>3, <2>2
<1>4. CASE ~(k < Len(list.steps))
  BY <1>2, <1>4
<1>5. QED
  BY <1>3, <1>4

LEMMA RecordStepStep ==
  ASSUME WalkthroughInv, NEW id \in Ids(Checklist), NEW outcome \in Seq(Results), NEW force \in BOOLEAN,
         RecordStep(id, outcome, force)
  PROVE  WalkthroughInv'
<1>1. PICK list : list = Checklist
  OBVIOUS
<1>2. ListOK(list)
  BY <1>1, EditionsParse DEF Checklist, WalkthroughInv, WalkthroughTypes
<1>3. PICK st : st = Migrated(Checklist, state)
  OBVIOUS
<1>4. /\ st \in FileTypes /\ st.schema = 2 /\ st.scope = state.scope /\ Measured(st) /\ DOMAIN st.steps = Recorded
      /\ \A i \in Recorded : st.steps[i].scope = state.steps[i].scope
  BY <1>3, MigrationMeasures DEF RecordStep
<1>5. PICK step : step = FindStep(list, id)
  OBVIOUS
<1>6. step \in StepTypes /\ step.id = id /\ id \in StepIds
  BY <1>1, <1>2, <1>5, FindStepFinds DEF ListOK
<1>7. Len(outcome) = Len(step.assertions)
  BY <1>1, <1>3, <1>5 DEF RecordStep, Fits
<1>8. PICK hash \in HashTypes : hash = StepHash(step) /\ hash.assertions = step.assertions
  BY <1>6, HashOfStep
<1>9. PICK scope \in RunScopes \cup {NoScope} : scope = st.scope
  BY <1>4 DEF FileTypes
<1>10. PICK rec : rec = [results |-> outcome, hash |-> hash, scope |-> scope]
  OBVIOUS
<1>11. rec \in RecordTypes
  BY <1>10 DEF RecordTypes
<1>12. rec.results = outcome /\ rec.hash = hash /\ rec.scope = scope
  BY <1>10
<1>13. PICK old \in StepRecords : old = st.steps
  BY <1>4 DEF FileTypes
<1>14. DOMAIN old = Recorded /\ DOMAIN old \subseteq StepIds /\ \A i \in DOMAIN old : old[i] \in RecordTypes
  BY <1>4, <1>13, RecordsAre
<1>15. PICK steps : steps = [i \in (DOMAIN old) \cup {id} |-> IF i = id THEN rec ELSE old[i]]
  OBVIOUS
<1>17. DOMAIN steps = (DOMAIN old) \cup {id} /\ steps[id] = rec /\ \A i \in DOMAIN old : i # id => steps[i] = old[i]
  BY <1>15
<1>18. steps \in StepRecords
  BY <1>6, <1>11, <1>14, <1>15, <1>17, RecordsMadeOf
<1>19. PICK at \in StepIds \cup {"none"} : at = NextOf(list, id)
  BY <1>1, <1>2, NextOfIs
<1>20. PICK mid : mid = [st EXCEPT !.steps = steps, !.at = at]
  OBVIOUS
<1>21. mid \in FileTypes
  BY <1>4, <1>18, <1>20 DEF FileTypes
<1>22. mid.steps = steps /\ mid.schema = 2 /\ mid.scope = scope
  BY <1>4, <1>9, <1>20 DEF FileTypes
<1>23. PICK new : new = Refreshed(list, mid)
  OBVIOUS
<1>24. new \in FileTypes /\ new.steps = steps /\ new.schema = 2
  BY <1>2, <1>21, <1>22, <1>23, RefreshedIs
<1>25. Runs(new) /\ ranIn' = [ranIn EXCEPT ![id] = scope] /\ UNCHANGED reported
  BY <1>1, <1>3, <1>5, <1>8, <1>9, <1>10, <1>13, <1>15, <1>19, <1>20, <1>23 DEF RecordStep
<1>26. ranIn \in [StepIds -> RunScopes \cup {NoScope}] /\ \A i \in Recorded : ranIn[i] = state.steps[i].scope
  BY DEF WalkthroughInv, WalkthroughTypes, RanWhereRecorded
<1>27. ranIn' \in [StepIds -> RunScopes \cup {NoScope}] /\ ranIn'[id] = scope
       /\ \A i \in StepIds : i # id => ranIn'[i] = ranIn[i]
  BY <1>6, <1>25, <1>26
<1>28. \A i \in DOMAIN new.steps : ranIn'[i] = new.steps[i].scope
  <2>1. TAKE i \in DOMAIN new.steps
  <2>2. CASE i = id
    BY <1>12, <1>17, <1>24, <1>27, <2>2
  <2>3. CASE i # id
    <3>1. i \in DOMAIN old /\ i \in StepIds /\ i \in Recorded
      BY <1>14, <1>17, <1>24, <2>3
    <3>2. new.steps[i].scope = state.steps[i].scope
      BY <1>4, <1>13, <1>17, <1>24, <2>3, <3>1
    <3>3. QED
      BY <1>26, <1>27, <2>3, <3>1, <3>2
  <2>4. QED
    BY <2>2, <2>3
<1>29. Measured(new)
  <2>1. ASSUME NEW i \in DOMAIN steps, steps[i].hash # NoHash
        PROVE  Len(steps[i].results) = Len(steps[i].hash.assertions)
    <3>1. CASE i = id
      BY <1>7, <1>8, <1>12, <1>17, <3>1
    <3>2. CASE i # id
      BY <1>4, <1>13, <1>17, <2>1, <3>2 DEF Measured
    <3>3. QED
      BY <3>1, <3>2
  <2>2. QED
    BY <1>24, <2>1 DEF Measured
<1>30. CleanReportsAddUp'
  BY <1>25, ReportKept DEF WalkthroughInv
<1>31. QED
  BY <1>24, <1>25, <1>27, <1>28, <1>29, <1>30, FileWritten

LEMMA SetScopeStep ==
  ASSUME WalkthroughInv, NEW scope \in RunScopes, SetScope(scope)
  PROVE  WalkthroughInv'
<1>1. state' = [state EXCEPT !.scope = scope] /\ UNCHANGED <<drafted, edition, reported, ranIn>>
      /\ commands < MaxRecords /\ commands' = commands + 1 /\ state # NoFile
  BY DEF SetScope, Runs
<1>2. state \in FileTypes
  BY DEF WalkthroughInv, WalkthroughTypes
<1>3. state' \in FileTypes
  BY <1>1, <1>2 DEF FileTypes
<1>4. state'.schema = state.schema /\ state'.of = state.of /\ state'.steps = state.steps
  BY <1>1, <1>2 DEF FileTypes
<1>5. commands' \in 0 .. MaxRecords
  BY SMTT(30), <1>1, WalkthroughAssumption DEF WalkthroughInv, WalkthroughTypes
<1>6. WalkthroughTypes'
  BY <1>1, <1>3, <1>5 DEF WalkthroughInv, WalkthroughTypes
<1>7. RanWhereRecorded'
  BY <1>1, <1>4 DEF WalkthroughInv, RanWhereRecorded, Recorded
<1>8. CleanReportsAddUp'
  BY <1>1, ReportKept DEF WalkthroughInv
<1>9. state.schema # 0 /\ (state.schema = 1 => OldMeasured) /\ (state.schema = 2 => Measured(state))
  BY <1>1 DEF WalkthroughInv
<1>10. OldMeasured => OldMeasured'
  BY <1>4 DEF OldMeasured, Recorded
<1>11. Measured(state) => Measured(state')
  BY <1>4 DEF Measured
<1>12. Measured(state') = Measured(state)'
  BY DEF Measured
<1>13. QED
  BY <1>4, <1>6, <1>7, <1>8, <1>9, <1>10, <1>11, <1>12 DEF WalkthroughInv

LEMMA ValidateFromStep ==
  ASSUME WalkthroughInv, NEW from \in Ids(Checklist), ValidateFrom(from)
  PROVE  WalkthroughInv'
<1>1. PICK list : list = Checklist
  OBVIOUS
<1>2. ListOK(list)
  BY <1>1, EditionsParse DEF Checklist, WalkthroughInv, WalkthroughTypes
<1>3. PICK st : st = Migrated(Checklist, state)
  OBVIOUS
<1>4. /\ st \in FileTypes /\ st.schema = 2 /\ Measured(st) /\ DOMAIN st.steps = Recorded
      /\ \A i \in Recorded : st.steps[i].scope = state.steps[i].scope
  BY <1>3, MigrationMeasures DEF ValidateFrom
<1>5. PICK old \in StepRecords : old = st.steps
  BY <1>4 DEF FileTypes
<1>6. DOMAIN old = Recorded /\ DOMAIN old \subseteq StepIds /\ \A i \in DOMAIN old : old[i] \in RecordTypes
  BY <1>4, <1>5, RecordsAre
<1>7. PICK stay : stay = ((DOMAIN old) \cap Ids(list)) \ Ahead(list, from)
  OBVIOUS
<1>8. PICK steps : steps = [i \in stay |-> old[i]]
  OBVIOUS
<1>9. stay \subseteq DOMAIN old /\ DOMAIN steps = stay /\ \A i \in stay : steps[i] = old[i]
  BY <1>7, <1>8
<1>10. steps \in StepRecords
  BY <1>6, <1>8, <1>9, RecordsMadeOf
<1>11. PICK mid : mid = [st EXCEPT !.steps = steps, !.at = from]
  OBVIOUS
<1>12. from \in StepIds
  BY <1>1, <1>2 DEF ListOK
<1>13. mid \in FileTypes
  BY <1>4, <1>10, <1>11, <1>12 DEF FileTypes
<1>14. mid.steps = steps /\ mid.schema = 2
  BY <1>4, <1>11 DEF FileTypes
<1>15. PICK new : new = Refreshed(list, mid)
  OBVIOUS
<1>16. new \in FileTypes /\ new.steps = steps /\ new.schema = 2
  BY <1>2, <1>13, <1>14, <1>15, RefreshedIs
<1>17. Runs(new) /\ UNCHANGED <<reported, ranIn>>
  BY <1>1, <1>3, <1>5, <1>7, <1>8, <1>11, <1>15 DEF ValidateFrom
<1>18. ranIn' \in [StepIds -> RunScopes \cup {NoScope}] /\ \A i \in Recorded : ranIn'[i] = state.steps[i].scope
  BY <1>17 DEF WalkthroughInv, WalkthroughTypes, RanWhereRecorded
<1>19. \A i \in DOMAIN new.steps : ranIn'[i] = new.steps[i].scope
  BY <1>4, <1>5, <1>6, <1>9, <1>16, <1>18
<1>20. Measured(new)
  BY <1>4, <1>5, <1>9, <1>16 DEF Measured
<1>21. CleanReportsAddUp'
  BY <1>17, ReportKept DEF WalkthroughInv
<1>22. QED
  BY <1>16, <1>17, <1>18, <1>19, <1>20, <1>21, FileWritten

\* Where a report warns of nothing and misses nothing, each step has as many results as assertions.
LEMMA CleanMeasures ==
  ASSUME NEW list, ListOK(list), NEW st \in FileTypes, Measured(st), ~Warned(list, st), Ids(list) \subseteq DOMAIN st.steps
  PROVE  RecordedResults(list, st) = Expected(list)
<1>1. ASSUME NEW k \in DOMAIN list.steps
      PROVE  list.steps[k].id \in DOMAIN st.steps /\ Len(st.steps[list.steps[k].id].results) = Len(list.steps[k].assertions)
  <2>1. PICK step \in StepTypes : step = list.steps[k]
    BY StepsAre, ElementOfSeq
  <2>2. step.id \in Ids(list) /\ step.id \in StepIds
    BY <2>1, StepsAre DEF ListOK
  <2>3. step.id \in DOMAIN st.steps
    BY <2>2
  <2>4. FindStep(list, step.id) = step
    BY <2>1, FindStepIs
  <2>5. st.steps[step.id].hash = StepHash(step)
    BY <2>3, <2>4 DEF Warned
  <2>6. StepHash(step) # NoHash /\ StepHash(step).assertions = step.assertions
    BY <2>2, HashOfStep
  <2>7. Len(st.steps[step.id].results) = Len(step.assertions)
    BY <2>3, <2>5, <2>6 DEF Measured
  <2>8. QED
    BY <2>1, <2>3, <2>7
<1>2. [k \in DOMAIN list.steps |-> Len(list.steps[k].assertions)]
      = [k \in DOMAIN list.steps |->
           IF list.steps[k].id \in DOMAIN st.steps THEN Len(st.steps[list.steps[k].id].results) ELSE 0]
  BY <1>1
<1>3. QED
  BY <1>2 DEF RecordedResults, Expected

LEMMA ReportStep ==
  ASSUME WalkthroughInv, ReportRun
  PROVE  WalkthroughInv'
<1>1. PICK list : list = Checklist
  OBVIOUS
<1>2. ListOK(list)
  BY <1>1, EditionsParse DEF Checklist, WalkthroughInv, WalkthroughTypes
<1>3. PICK st : st = Migrated(Checklist, state)
  OBVIOUS
<1>4. /\ st \in FileTypes /\ st.schema = 2 /\ Measured(st) /\ DOMAIN st.steps = Recorded
      /\ \A i \in Recorded : st.steps[i].scope = state.steps[i].scope
  BY <1>3, MigrationMeasures DEF ReportRun
<1>5. PICK counted, expected : counted = RecordedResults(list, st) /\ expected = Expected(list)
  OBVIOUS
<1>6. PICK clean, complete : clean = ~Warned(list, st) /\ complete = (Ids(list) \subseteq DOMAIN st.steps)
  OBVIOUS
<1>7. Runs(st) /\ UNCHANGED ranIn
      /\ reported' = [clean |-> clean, complete |-> complete, counted |-> counted, expected |-> expected]
  BY <1>1, <1>3, <1>5, <1>6 DEF ReportRun
<1>8. reported'.clean = clean /\ reported'.complete = complete
  BY <1>7, Zenon
<1>9. reported'.counted = counted /\ reported'.expected = expected
  BY <1>7
<1>10. CleanReportsAddUp'
  <2>1. ASSUME clean, complete PROVE counted = expected
    BY <1>2, <1>4, <1>5, <1>6, <2>1, CleanMeasures
  <2>2. QED
    BY <1>8, <1>9, <2>1 DEF CleanReportsAddUp
<1>11. ranIn' \in [StepIds -> RunScopes \cup {NoScope}] /\ \A i \in Recorded : ranIn'[i] = state.steps[i].scope
  BY <1>7 DEF WalkthroughInv, WalkthroughTypes, RanWhereRecorded
<1>12. \A i \in DOMAIN st.steps : ranIn'[i] = st.steps[i].scope
  BY <1>4, <1>11
<1>13. QED
  BY <1>4, <1>7, <1>10, <1>11, <1>12, FileWritten

LEMMA WalkthroughStarts ==
  ASSUME WalkthroughInit
  PROVE  WalkthroughInv
<1>1. /\ drafted = <<>> /\ edition = 1 /\ reported = NoReport /\ commands = 0
      /\ state \in {NoFile} \cup {OldFile(done) : done \in SUBSET Ids(Parsed[1])}
      /\ ranIn = [i \in StepIds |-> NoScope]
  BY DEF WalkthroughInit
<1>2. PICK list : list = Parsed[1]
  OBVIOUS
<1>3. 1 \in DOMAIN Editions /\ ListOK(list)
  BY <1>2, EditionsParse
<1>4. CleanReportsAddUp
  BY <1>1 DEF CleanReportsAddUp, NoReport
<1>5. drafted \in Seq(Lines) /\ Len(drafted) <= MaxLines /\ edition \in DOMAIN Editions /\ commands \in 0 .. MaxRecords
  <2>1. <<>> \in Seq(Lines) /\ Len(<<>>) = 0
    OBVIOUS
  <2>2. QED
    BY <1>1, <1>3, <2>1, WalkthroughAssumption
<1>6. ranIn \in [StepIds -> RunScopes \cup {NoScope}]
  BY <1>1
<1>7. CASE state = NoFile
  <2>1. state \in FileTypes /\ state.schema = 0 /\ DOMAIN state.steps = {}
    BY <1>7, EmptyRecords DEF NoFile, FileTypes
  <2>2. QED
    BY <1>4, <1>5, <1>6, <1>7, <2>1 DEF WalkthroughInv, WalkthroughTypes, RanWhereRecorded, Recorded
<1>8. CASE state # NoFile
  <2>1. PICK done \in SUBSET Ids(list) : state = OldFile(done)
    BY <1>1, <1>2, <1>8
  <2>2. PICK outcome : outcome = [i \in done |-> [k \in DOMAIN FindStep(list, i).assertions |-> "pass"]]
    OBVIOUS
  <2>3. PICK steps : steps = [i \in done |-> [results |-> outcome[i], hash |-> NoHash, scope |-> NoScope]]
    OBVIOUS
  <2>4. PICK first : first = list.steps[1].id
    OBVIOUS
  <2>5. state = [schema |-> 1, of |-> 1, at |-> first, scope |-> NoScope, steps |-> steps, passed |-> {}]
    <3>1. steps = [i \in done |-> [results |-> [k \in DOMAIN FindStep(list, i).assertions |-> "pass"],
                                   hash |-> NoHash, scope |-> NoScope]]
      BY <2>2, <2>3
    <3>2. state = [NoFile EXCEPT !.schema = 1, !.of = 1, !.at = first, !.steps = steps]
      BY <1>2, <2>1, <2>4, <3>1 DEF OldFile
    <3>3. QED
      BY <3>2 DEF NoFile
  <2>6. first \in StepIds
    <3>1. 1 \in DOMAIN list.steps
      BY <1>3, StepsAre, EmptySeq DEF ListOK
    <3>2. QED
      BY <1>3, <2>4, <3>1, StepsAre DEF ListOK
  <2>7. \A i \in done : outcome[i] \in Seq(Results) /\ Len(outcome[i]) = Len(FindStep(list, i).assertions)
    <3>1. TAKE i \in done
    <3>2. PICK asserted \in Seq(STRING) : asserted = FindStep(list, i).assertions
      BY <1>3, <2>1, FindStepFinds DEF StepTypes
    <3>3. outcome[i] = [k \in DOMAIN asserted |-> "pass"]
      BY <2>2, <3>2
    <3>4. DOMAIN asserted = 1 .. Len(asserted) /\ Len(asserted) \in Nat
      BY <3>2
    <3>5. "pass" \in Results
      BY DEF Results
    <3>6. outcome[i] \in Seq(Results) /\ Len(outcome[i]) = Len(asserted)
      BY <3>3, <3>4, <3>5
    <3>7. QED
      BY <3>2, <3>6
  <2>8. NoHash \in HashTypes
    <3>1. <<>> \in Seq(STRING)
      OBVIOUS
    <3>2. QED
      BY <3>1 DEF NoHash, HashTypes
  <2>9. \A i \in done : steps[i] \in RecordTypes /\ steps[i].results = outcome[i] /\ steps[i].scope = NoScope
    BY <2>3, <2>7, <2>8 DEF RecordTypes
  <2>10. done \subseteq StepIds /\ DOMAIN steps = done /\ steps \in StepRecords
    <3>1. done \subseteq StepIds
      BY <1>3, <2>1 DEF ListOK
    <3>2. DOMAIN steps = done /\ steps = [i \in done |-> steps[i]]
      BY <2>3
    <3>3. QED
      BY <2>9, <3>1, <3>2, RecordsMadeOf
  <2>11. state \in FileTypes
    BY <2>5, <2>6, <2>10 DEF FileTypes
  <2>12. state.schema = 1 /\ state.of = 1 /\ state.steps = steps
    BY <2>5
  <2>13. OldMeasured
    BY <1>2, <2>1, <2>7, <2>9, <2>10, <2>12 DEF OldMeasured, Recorded
  <2>14. RanWhereRecorded
    BY <1>1, <2>9, <2>10, <2>12 DEF RanWhereRecorded, Recorded
  <2>15. QED
    BY <1>4, <1>5, <1>6, <2>11, <2>12, <2>13, <2>14 DEF WalkthroughInv, WalkthroughTypes
<1>9. QED
  BY <1>7, <1>8

LEMMA ChecklistChanges ==
  ASSUME WalkthroughInv, EditChecklist
  PROVE  WalkthroughInv'
<1>1. edition' \in DOMAIN Editions
  <2>1. edition \in DOMAIN Editions /\ Editions \in Seq(Seq(LineTypes)) /\ edition < Len(Editions) /\ edition' = edition + 1
    BY WalkthroughAssumption DEF WalkthroughInv, WalkthroughTypes, EditChecklist
  <2>2. QED
    BY <2>1
<1>2. UNCHANGED <<drafted, state, reported, ranIn, commands>>
  BY DEF EditChecklist
<1>3. QED
  BY <1>1, <1>2 DEF WalkthroughInv, WalkthroughTypes, RanWhereRecorded, Recorded, CleanReportsAddUp, OldMeasured, Measured

LEMMA DraftGrows ==
  ASSUME WalkthroughInv, NEW line \in Lines, WriteLine(line)
  PROVE  WalkthroughInv'
<1>1. drafted' \in Seq(Lines) /\ Len(drafted') <= MaxLines
  <2>1. drafted \in Seq(Lines) /\ Len(drafted) < MaxLines /\ drafted' = Append(drafted, line)
    BY DEF WalkthroughInv, WalkthroughTypes, WriteLine
  <2>2. QED
    BY <2>1, WalkthroughAssumption
<1>2. UNCHANGED <<edition, state, reported, ranIn, commands>>
  BY DEF WriteLine
<1>3. QED
  BY <1>1, <1>2 DEF WalkthroughInv, WalkthroughTypes, RanWhereRecorded, Recorded, CleanReportsAddUp, OldMeasured, Measured

LEMMA WalkthroughSteps ==
  ASSUME WalkthroughInv, [WalkthroughNext]_walkthroughVars
  PROVE  WalkthroughInv'
<1>1. ASSUME NEW force \in BOOLEAN, Initialise(force) PROVE WalkthroughInv'
  BY <1>1, InitialiseStep
<1>2. ASSUME NEW id \in Ids(Checklist), NEW force \in BOOLEAN, NEW n \in 0 .. MaxResults,
             NEW outcome \in [1 .. n -> Results], RecordStep(id, outcome, force)
      PROVE  WalkthroughInv'
  <2>1. n \in Nat
    BY WalkthroughAssumption
  <2>2. outcome \in Seq(Results)
    BY <2>1
  <2>3. QED
    BY <1>2, <2>2, RecordStepStep
<1>3. ASSUME NEW scope \in RunScopes, SetScope(scope) PROVE WalkthroughInv'
  BY <1>3, SetScopeStep
<1>4. ASSUME NEW id \in Ids(Checklist), ValidateFrom(id) PROVE WalkthroughInv'
  BY <1>4, ValidateFromStep
<1>5. CASE ReportRun
  BY <1>5, ReportStep
<1>6. CASE EditChecklist
  BY <1>6, ChecklistChanges
<1>7. ASSUME NEW line \in Lines, WriteLine(line) PROVE WalkthroughInv'
  BY <1>7, DraftGrows
<1>8. CASE UNCHANGED walkthroughVars
  BY <1>8 DEF walkthroughVars, WalkthroughInv, WalkthroughTypes, RanWhereRecorded, Recorded, CleanReportsAddUp,
              OldMeasured, Measured, Checklist
<1>9. QED
  BY <1>1, <1>2, <1>3, <1>4, <1>5, <1>6, <1>7, <1>8 DEF WalkthroughNext, Command

\* Types, records measured by their hashes and runs remembered hold of every walkthrough, for any editions of a
\* checklist, commands in any order, files of version 1 and drafts of any lines.
THEOREM WalkthroughInvariance == WalkthroughSpec => []WalkthroughInv
<1>1. WalkthroughInit => WalkthroughInv
  BY WalkthroughStarts
<1>2. WalkthroughInv /\ [WalkthroughNext]_walkthroughVars => WalkthroughInv'
  BY WalkthroughSteps
<1>3. QED
  BY <1>1, <1>2, PTL DEF WalkthroughSpec

LEMMA PassedMeansRecorded ==
  ASSUME WalkthroughInv, state.scope # NoScope, NEW p, NEW list,
         PrereqStatus(list, state, p) = "passed", NEW i \in (IF p \in SectionIds THEN StepsOf(list, p) ELSE {p})
  PROVE  i \in Recorded /\ state.steps[i].scope = state.scope
<1>1. CASE p \in SectionIds
  <2>1. SectionStatus(list, state, p) = "passed" /\ i \in StepsOf(list, p)
    BY <1>1 DEF PrereqStatus
  <2>2. PICK ids, have : ids = StepsOf(list, p) /\ have = ids \cap DOMAIN state.steps
    OBVIOUS
  <2>3. ~\E j \in have : ~OfThisRun(state.steps[j], state.scope)
    BY <2>1, <2>2 DEF SectionStatus
  <2>4. have = ids
    BY <2>1, <2>2, <2>3 DEF SectionStatus
  <2>5. i \in have /\ i \in DOMAIN state.steps
    BY <2>1, <2>2, <2>4
  <2>6. QED
    BY <2>3, <2>5 DEF OfThisRun, Recorded
<1>2. CASE p \notin SectionIds
  <2>1. StepStatus(state, p) = "passed" /\ i = p
    BY <1>2 DEF PrereqStatus
  <2>2. p \in DOMAIN state.steps
    BY <2>1 DEF StepStatus
  <2>3. OfThisRun(state.steps[p], state.scope)
    BY <2>1, <2>2 DEF StepStatus
  <2>4. QED
    BY <2>1, <2>2, <2>3 DEF OfThisRun, Recorded
<1>3. QED
  BY <1>1, <1>2

\* The parser keeps or refuses each prerequisite whatever lines it reads, clean reports add up and steps only run
\* when those they need were recorded in the present run (walkthrough-state.py), for any editions, files and commands.
THEOREM WalkthroughSound == WalkthroughSpec => []WalkthroughIsSound
<1>1. ASSUME WalkthroughInv PROVE WalkthroughIsSound
  <2>1. WalkthroughTypeOK
    <3>1. Len(drafted) <= MaxLines /\ edition \in DOMAIN Editions /\ commands \in 0 .. MaxRecords
      BY <1>1 DEF WalkthroughInv, WalkthroughTypes
    <3>2. PICK f \in FileTypes : f = state
      BY <1>1 DEF WalkthroughInv, WalkthroughTypes
    <3>3. f.schema \in 0 .. 2 /\ f.scope \in RunScopes \cup {NoScope} /\ f.at \in StepIds \cup {"none"}
          /\ f.steps \in StepRecords /\ f.passed \subseteq SectionIds
      BY <3>2 DEF FileTypes
    <3>4. DOMAIN f.steps \subseteq StepIds /\ \A i \in DOMAIN f.steps : f.steps[i].results \in Seq(Results)
      BY <3>3, RecordsAre DEF RecordTypes
    <3>5. QED
      BY <3>1, <3>2, <3>3, <3>4 DEF WalkthroughTypeOK, Recorded
  <2>2. PrereqsAreNeverLost
    <3>1. drafted \in Seq(LineTypes)
      <4>1. drafted \in Seq(Lines) /\ Lines \subseteq LineTypes
        BY <1>1, WalkthroughAssumption DEF WalkthroughInv, WalkthroughTypes
      <4>2. QED
        BY <4>1
    <3>2. QED
      BY <3>1, ParserKeeps DEF PrereqsAreNeverLost
  <2>3. CleanReportsAddUp
    BY <1>1 DEF WalkthroughInv
  <2>4. PrereqsPassedInThisRun
    <3>1. SUFFICES ASSUME NEW id \in Ids(Checklist), state.scope # NoScope, PrereqOk(Checklist, state, id),
                          NEW p \in PrereqsOf(Checklist, id),
                          NEW i \in (IF p \in SectionIds THEN StepsOf(Checklist, p) ELSE {p})
                   PROVE  ranIn[i] = state.scope
      BY DEF PrereqsPassedInThisRun
    <3>2. PrereqStatus(Checklist, state, p) = "passed"
      BY <3>1 DEF PrereqOk, AllPassed
    <3>3. i \in Recorded /\ state.steps[i].scope = state.scope
      BY <1>1, <3>1, <3>2, PassedMeansRecorded
    <3>4. QED
      BY <1>1, <3>3 DEF WalkthroughInv, RanWhereRecorded
  <2>5. QED
    BY <2>1, <2>2, <2>3, <2>4 DEF WalkthroughIsSound
<1>2. QED
  BY <1>1, WalkthroughInvariance, PTL

-----------------------------------------------------------------------------
(***************************************************************************)
(* ProxyRequests, for histories of any length.  Flattening, collecting and *)
(* translating are recursive over a sequence; what holds of them is proved *)
(* for the set of sequences it holds of, which has <<>> and with each      *)
(* sequence the longer ones, so that it has all (SeqClosed).               *)
(***************************************************************************)

\* A set with the empty sequence and, with a sequence, those one longer.
LEMMA SeqClosed ==
  ASSUME NEW S, NEW Q, <<>> \in Q,
         \A s \in Seq(S), e \in S : s \in Q => Append(s, e) \in Q
  PROVE  Seq(S) \subseteq Q
<1>1. SUFFICES ASSUME NEW t \in Seq(S) PROVE t \in Q
  OBVIOUS
<1>2. Len(t) \in Nat
  OBVIOUS
<1>3. PICK N : N = {n \in 0 .. Len(t) : \A s \in Seq(S) : Len(s) = n => s \in Q}
  OBVIOUS
<1>4. 0 \in N
  <2>1. \A s \in Seq(S) : Len(s) = 0 => s = <<>>
    BY EmptySeq
  <2>2. QED
    BY <1>2, <1>3, <2>1
<1>5. ASSUME NEW n \in 0 .. Len(t) - 1, n \in N PROVE n + 1 \in N
  <2>1. ASSUME NEW s \in Seq(S), Len(s) = n + 1 PROVE s \in Q
    <3>1. s # <<>>
      BY <2>1, EmptySeq
    <3>2. PICK r \in Seq(S), e \in S : s = Append(r, e)
      BY <3>1, SequenceEmptyOrAppend
    <3>3. Len(r) = n
      BY <2>1, <3>2, AppendProperties, LenProperties
    <3>4. QED
      BY <1>3, <1>5, <3>2, <3>3
  <2>2. n + 1 \in 0 .. Len(t)
    BY <1>2
  <2>3. QED
    BY <1>3, <2>1, <2>2
<1>6. 0 .. Len(t) \subseteq N
  BY <1>2, <1>4, <1>5, UpToBound
<1>7. Len(t) \in N
  BY <1>2, <1>6
<1>8. QED
  BY <1>3, <1>7

\* The function FlattenSeq is defined by.
FlatOf(ss, f) == f = [i \in 1 .. Len(ss) |-> IF i = 1 THEN ss[i] ELSE f[i - 1] \o ss[i]]

LEMMA FlatUnique ==
  ASSUME NEW S, NEW ss \in Seq(Seq(S)), NEW f, NEW g, FlatOf(ss, f), FlatOf(ss, g)
  PROVE  f = g
<1>1. Len(ss) \in Nat
  OBVIOUS
<1>2. /\ DOMAIN f = 1 .. Len(ss) /\ DOMAIN g = 1 .. Len(ss)
      /\ \A i \in 1 .. Len(ss) : f[i] = IF i = 1 THEN ss[i] ELSE f[i - 1] \o ss[i]
      /\ \A i \in 1 .. Len(ss) : g[i] = IF i = 1 THEN ss[i] ELSE g[i - 1] \o ss[i]
  BY DEF FlatOf
<1>3. PICK Q : Q = {n \in 0 .. Len(ss) : n = 0 \/ f[n] = g[n]}
  OBVIOUS
<1>4. 0 \in Q
  BY <1>1, <1>3
<1>5. ASSUME NEW n \in 0 .. Len(ss) - 1, n \in Q PROVE n + 1 \in Q
  <2>1. n + 1 \in 1 .. Len(ss) /\ n + 1 \in 0 .. Len(ss) /\ (n + 1) - 1 = n /\ (n + 1 = 1 <=> n = 0)
    BY <1>1
  <2>2. CASE n = 0
    BY <1>2, <1>3, <2>1, <2>2
  <2>3. CASE n # 0
    <3>1. f[n] = g[n]
      BY <1>3, <1>5, <2>3
    <3>2. f[n + 1] = f[n] \o ss[n + 1] /\ g[n + 1] = g[n] \o ss[n + 1]
      BY <1>2, <2>1, <2>3
    <3>3. QED
      BY <1>3, <2>1, <3>1, <3>2
  <2>4. QED
    BY <2>2, <2>3
<1>6. 0 .. Len(ss) \subseteq Q
  BY <1>1, <1>4, <1>5, UpToBound
<1>7. \A i \in 1 .. Len(ss) : f[i] = g[i]
  <2>1. ASSUME NEW i \in 1 .. Len(ss) PROVE f[i] = g[i]
    <3>1. i \in 0 .. Len(ss) /\ i # 0
      BY <1>1
    <3>2. QED
      BY <1>3, <1>6, <3>1
  <2>2. QED
    BY <2>1
<1>8. f = [i \in 1 .. Len(ss) |-> f[i]] /\ g = [i \in 1 .. Len(ss) |-> g[i]]
  BY <1>2 DEF FlatOf
<1>9. QED
  BY <1>7, <1>8

LEMMA FlatLonger ==
  ASSUME NEW S, NEW ss \in Seq(Seq(S)), NEW s \in Seq(S), NEW f, FlatOf(ss, f)
  PROVE  \E g : FlatOf(Append(ss, s), g) /\ g[Len(ss) + 1] = IF Len(ss) = 0 THEN s ELSE f[Len(ss)] \o s
<1>1. PICK n, tt : n = Len(ss) /\ tt = Append(ss, s)
  OBVIOUS
<1>2. /\ n \in Nat /\ Len(tt) = n + 1
      /\ \A i \in 1 .. n : tt[i] = ss[i]
      /\ tt[n + 1] = s
  BY <1>1, AppendProperties, LenProperties
<1>3. PICK g : g = [i \in 1 .. n + 1 |-> IF i <= n THEN f[i] ELSE IF n = 0 THEN s ELSE f[n] \o s]
  OBVIOUS
<1>4. \A i \in 1 .. n : f[i] = IF i = 1 THEN ss[i] ELSE f[i - 1] \o ss[i]
  BY <1>1 DEF FlatOf
<1>5. ASSUME NEW i \in 1 .. n + 1
      PROVE  g[i] = IF i = 1 THEN tt[i] ELSE g[i - 1] \o tt[i]
  <2>1. CASE i <= n
    <3>1. i \in 1 .. n /\ g[i] = f[i] /\ tt[i] = ss[i]
      BY <1>2, <1>3, <2>1
    <3>2. i # 1 => i - 1 \in 1 .. n + 1 /\ i - 1 <= n
      BY <1>2, <2>1
    <3>3. i # 1 => g[i - 1] = f[i - 1]
      BY <1>3, <3>2
    <3>4. QED
      BY <1>4, <3>1, <3>3
  <2>2. CASE ~(i <= n)
    <3>1. i = n + 1 /\ tt[i] = s
      BY <1>2, <2>2
    <3>2. CASE n = 0
      BY <1>3, <2>2, <3>1, <3>2
    <3>3. CASE n # 0
      <4>1. i # 1 /\ i - 1 = n /\ n \in 1 .. n + 1 /\ n <= n
        BY <1>2, <3>1, <3>3
      <4>2. g[n] = f[n] /\ g[i] = f[n] \o s
        BY <1>3, <2>2, <3>3, <4>1
      <4>3. QED
        BY <3>1, <4>1, <4>2
    <3>4. QED
      BY <3>2, <3>3
  <2>3. QED
    BY <2>1, <2>2
<1>6. FlatOf(tt, g)
  <2>1. g = [i \in 1 .. n + 1 |-> IF i = 1 THEN tt[i] ELSE g[i - 1] \o tt[i]]
    BY <1>3, <1>5
  <2>2. QED
    BY <1>2, <2>1 DEF FlatOf
<1>7. g[n + 1] = IF n = 0 THEN s ELSE f[n] \o s
  <2>1. n + 1 \in 1 .. n + 1 /\ ~(n + 1 <= n)
    BY <1>2
  <2>2. QED
    BY <1>3, <2>1
<1>8. QED
  BY <1>1, <1>6, <1>7

LEMMA FlatExists ==
  ASSUME NEW S, NEW tt \in Seq(Seq(S))
  PROVE  \E f : FlatOf(tt, f)
<1>1. PICK Q : Q = {ss \in Seq(Seq(S)) : \E f : FlatOf(ss, f)}
  OBVIOUS
<1>2. <<>> \in Q
  <2>1. PICK f : f = [i \in 1 .. 0 |-> <<>>]
    OBVIOUS
  <2>2. f = [i \in 1 .. Len(<<>>) |-> IF i = 1 THEN <<>>[i] ELSE f[i - 1] \o <<>>[i]]
    BY <2>1
  <2>3. FlatOf(<<>>, f)
    BY <2>2 DEF FlatOf
  <2>4. QED
    BY <1>1, <2>3
<1>3. ASSUME NEW ss \in Seq(Seq(S)), NEW s \in Seq(S), ss \in Q PROVE Append(ss, s) \in Q
  BY <1>1, <1>3, FlatLonger
<1>4. Seq(Seq(S)) \subseteq Q
  BY <1>2, <1>3, SeqClosed
<1>5. QED
  BY <1>1, <1>4

LEMMA FlatIs ==
  ASSUME NEW S, NEW ss \in Seq(Seq(S)), NEW f, FlatOf(ss, f), Len(ss) # 0
  PROVE  FlattenSeq(ss) = f[Len(ss)]
<1>1. PICK g : g = CHOOSE h : h = [i \in 1 .. Len(ss) |-> IF i = 1 THEN ss[i] ELSE h[i - 1] \o ss[i]]
  OBVIOUS
<1>2. FlattenSeq(ss) = g[Len(ss)]
  BY <1>1 DEF FlattenSeq
<1>3. FlatOf(ss, g)
  BY <1>1 DEF FlatOf
<1>4. QED
  BY <1>2, <1>3, FlatUnique

\* What FlattenSeq is of no sequence, and of one more.
LEMMA FlatEmpty == FlattenSeq(<<>>) = <<>>
BY EmptySeq DEF FlattenSeq

LEMMA FlatAppend ==
  ASSUME NEW S, NEW tt \in Seq(Seq(S)), NEW t \in Seq(S)
  PROVE  /\ FlattenSeq(tt) \in Seq(S)
         /\ FlattenSeq(Append(tt, t)) = FlattenSeq(tt) \o t
         /\ FlattenSeq(Append(tt, t)) \in Seq(S)
<1>1. ASSUME NEW ss \in Seq(Seq(S)), NEW s \in Seq(S), FlattenSeq(ss) \in Seq(S)
      PROVE  FlattenSeq(Append(ss, s)) = FlattenSeq(ss) \o s /\ FlattenSeq(Append(ss, s)) \in Seq(S)
  <2>1. PICK f : FlatOf(ss, f)
    BY FlatExists
  <2>2. PICK g : /\ FlatOf(Append(ss, s), g)
                 /\ g[Len(ss) + 1] = IF Len(ss) = 0 THEN s ELSE f[Len(ss)] \o s
    BY <2>1, FlatLonger
  <2>3. Append(ss, s) \in Seq(Seq(S)) /\ Len(Append(ss, s)) = Len(ss) + 1 /\ Len(ss) + 1 # 0
    BY AppendProperties
  <2>4. FlattenSeq(Append(ss, s)) = g[Len(ss) + 1]
    BY <2>2, <2>3, FlatIs
  <2>5. CASE ss = <<>>
    <3>1. FlattenSeq(ss) = <<>> /\ Len(ss) = 0
      BY <2>5, FlatEmpty, EmptySeq
    <3>2. <<>> \o s = s
      BY ConcatEmptySeq
    <3>3. QED
      BY <2>2, <2>4, <3>1, <3>2
  <2>6. CASE ss # <<>>
    <3>1. FlattenSeq(ss) = f[Len(ss)] /\ Len(ss) # 0
      BY <2>1, <2>6, FlatIs, EmptySeq
    <3>2. FlattenSeq(Append(ss, s)) = FlattenSeq(ss) \o s
      BY <2>2, <2>4, <3>1
    <3>3. QED
      BY <1>1, <3>2, ConcatProperties
  <2>7. QED
    BY <2>5, <2>6
<1>2. PICK Q : Q = {ss \in Seq(Seq(S)) : FlattenSeq(ss) \in Seq(S)}
  OBVIOUS
<1>3. <<>> \in Q
  BY <1>2, FlatEmpty, EmptySeq
<1>4. \A ss \in Seq(Seq(S)), s \in Seq(S) : ss \in Q => Append(ss, s) \in Q
  BY <1>1, <1>2, AppendProperties
<1>5. Seq(Seq(S)) \subseteq Q
  BY <1>3, <1>4, SeqClosed
<1>6. QED
  BY <1>1, <1>2, <1>5

\* Flattening two sequences of sequences, one after the other.
LEMMA FlatConcat ==
  ASSUME NEW S, NEW ss \in Seq(Seq(S)), NEW tt \in Seq(Seq(S))
  PROVE  FlattenSeq(ss \o tt) = FlattenSeq(ss) \o FlattenSeq(tt)
<1>1. PICK Q : Q = {uu \in Seq(Seq(S)) : FlattenSeq(ss \o uu) = FlattenSeq(ss) \o FlattenSeq(uu)}
  OBVIOUS
<1>2. <<>> \in Q
  <2>1. ss \o <<>> = ss /\ <<>> \in Seq(Seq(S))
    BY ConcatEmptySeq, EmptySeq
  <2>2. FlattenSeq(ss) \in Seq(S)
    BY FlatAppend, EmptySeq
  <2>3. FlattenSeq(ss) \o <<>> = FlattenSeq(ss)
    BY <2>2, ConcatEmptySeq
  <2>4. QED
    BY <1>1, <2>1, <2>3, FlatEmpty
<1>3. ASSUME NEW uu \in Seq(Seq(S)), NEW u \in Seq(S), uu \in Q PROVE Append(uu, u) \in Q
  <2>1. ss \o Append(uu, u) = Append(ss \o uu, u) /\ ss \o uu \in Seq(Seq(S))
    BY ConcatProperties
  <2>2. FlattenSeq(ss \o Append(uu, u)) = FlattenSeq(ss \o uu) \o u
    BY <2>1, FlatAppend
  <2>3. FlattenSeq(Append(uu, u)) = FlattenSeq(uu) \o u /\ FlattenSeq(uu) \in Seq(S) /\ FlattenSeq(ss) \in Seq(S)
    BY FlatAppend
  <2>4. (FlattenSeq(ss) \o FlattenSeq(uu)) \o u = FlattenSeq(ss) \o (FlattenSeq(uu) \o u)
    BY SMTT(30), <2>3, ConcatAssociative
  <2>5. Append(uu, u) \in Seq(Seq(S))
    BY AppendProperties
  <2>6. QED
    BY <1>1, <1>3, <2>2, <2>3, <2>4, <2>5
<1>4. QED
  BY <1>1, <1>2, <1>3, SeqClosed

\* Functions over 1 .. n are sequences of length n.
LEMMA FunctionIsSeq ==
  ASSUME NEW S, NEW n \in Nat, NEW f \in [1 .. n -> S]
  PROVE  f \in Seq(S) /\ Len(f) = n
OBVIOUS

\* f is g followed by h, element by element.
Glue(S, f, g, h) ==
  /\ f \in Seq(S) /\ g \in Seq(S) /\ h \in Seq(S) /\ Len(f) = Len(g) + Len(h)
  /\ \A i \in 1 .. Len(g) : f[i] = g[i]
  /\ \A i \in 1 .. Len(h) : f[Len(g) + i] = h[i]

LEMMA Glued ==
  ASSUME NEW S, NEW f, NEW g, NEW h, Glue(S, f, g, h)
  PROVE  f = g \o h
<1> USE DEF Glue
<1>1. PICK m, n : m = Len(g) /\ n = Len(h)
  OBVIOUS
<1>2. m \in Nat /\ n \in Nat /\ Len(f) = m + n
  BY <1>1, LenProperties
<1>3. /\ g \o h \in Seq(S) /\ Len(g \o h) = m + n
      /\ \A i \in 1 .. m + n : (g \o h)[i] = IF i <= m THEN g[i] ELSE h[i - m]
  BY <1>1, <1>2, ConcatProperties
<1>4. ASSUME NEW i \in 1 .. m + n PROVE f[i] = (g \o h)[i]
  <2>1. CASE i <= m
    <3>1. i \in 1 .. m
      BY <1>2, <2>1
    <3>2. QED
      BY <1>1, <1>3, <2>1, <3>1
  <2>2. CASE ~(i <= m)
    <3>1. i - m \in 1 .. n /\ m + (i - m) = i
      BY <1>2, <2>2
    <3>2. f[m + (i - m)] = h[i - m]
      BY <1>1, <3>1
    <3>3. QED
      BY <1>3, <2>2, <3>1, <3>2
  <2>3. QED
    BY <2>1, <2>2
<1>5. QED
  BY <1>2, <1>3, <1>4, SeqEqual

LEMMA FlatOne ==
  ASSUME NEW S, NEW f \in [1 .. 1 -> Seq(S)]
  PROVE  FlattenSeq(f) = f[1]
<1>0. \A n \in Nat : \A e \in [1 .. n -> Seq(S)] : e \in Seq(Seq(S)) /\ Len(e) = n
  OBVIOUS
<1>1. f \in Seq(Seq(S)) /\ Len(f) = 1
  BY <1>0
<1>2. f = [i \in 1 .. 1 |-> IF i = 1 THEN f[i] ELSE f[i - 1] \o f[i]]
  OBVIOUS
<1>3. FlatOf(f, f)
  BY <1>1, <1>2 DEF FlatOf
<1>4. Len(f) # 0
  BY <1>1
<1>5. FlattenSeq(f) = f[Len(f)]
  BY <1>1, <1>3, <1>4, FlatIs
<1>6. QED
  BY <1>1, <1>5

\* What each of a sequence becomes, one after the other.
Spread(F, s) == FlattenSeq([i \in DOMAIN s |-> F[s[i]]])
Spreads(F, B, S) == F \in [B -> Seq(S)]

LEMMA SpreadTyped ==
  ASSUME NEW B, NEW S, NEW F, Spreads(F, B, S), NEW s \in Seq(B)
  PROVE  /\ [i \in DOMAIN s |-> F[s[i]]] \in Seq(Seq(S)) /\ Len([i \in DOMAIN s |-> F[s[i]]]) = Len(s)
         /\ Spread(F, s) \in Seq(S)
<1> USE DEF Spreads
<1>1. DOMAIN s = 1 .. Len(s) /\ Len(s) \in Nat /\ \A i \in 1 .. Len(s) : s[i] \in B
  BY LenProperties, ElementOfSeq
<1>2. PICK f : f = [i \in DOMAIN s |-> F[s[i]]]
  OBVIOUS
<1>3. f \in [1 .. Len(s) -> Seq(S)]
  BY <1>1, <1>2
<1>4. f \in Seq(Seq(S)) /\ Len(f) = Len(s)
  BY <1>1, <1>3, FunctionIsSeq
<1>5. FlattenSeq(f) \in Seq(S)
  BY <1>4, FlatAppend, EmptySeq
<1>6. QED
  BY <1>2, <1>4, <1>5 DEF Spread

\* Spreading is a homomorphism.
LEMMA SpreadConcat ==
  ASSUME NEW B, NEW S, NEW F, Spreads(F, B, S), NEW s \in Seq(B), NEW t \in Seq(B)
  PROVE  Spread(F, s \o t) = Spread(F, s) \o Spread(F, t)
<1> USE DEF Spreads
<1>1. /\ s \o t \in Seq(B) /\ Len(s \o t) = Len(s) + Len(t) /\ Len(s) \in Nat /\ Len(t) \in Nat
      /\ \A i \in 1 .. Len(s) + Len(t) : (s \o t)[i] = IF i <= Len(s) THEN s[i] ELSE t[i - Len(s)]
      /\ DOMAIN s = 1 .. Len(s) /\ DOMAIN t = 1 .. Len(t) /\ DOMAIN (s \o t) = 1 .. Len(s) + Len(t)
  BY ConcatProperties, LenProperties
<1>2. PICK f, g, h : /\ f = [i \in DOMAIN (s \o t) |-> F[(s \o t)[i]]]
                     /\ g = [i \in DOMAIN s |-> F[s[i]]] /\ h = [i \in DOMAIN t |-> F[t[i]]]
  OBVIOUS
<1>3. /\ f \in Seq(Seq(S)) /\ g \in Seq(Seq(S)) /\ h \in Seq(Seq(S))
      /\ Len(f) = Len(s) + Len(t) /\ Len(g) = Len(s) /\ Len(h) = Len(t)
  BY <1>1, <1>2, SpreadTyped
<1>4. \A i \in 1 .. Len(s) : f[i] = g[i]
  <2>1. ASSUME NEW i \in 1 .. Len(s) PROVE f[i] = g[i]
    <3>1. i \in 1 .. Len(s) + Len(t) /\ i <= Len(s)
      BY <1>1
    <3>2. (s \o t)[i] = s[i]
      BY <1>1, <3>1
    <3>3. QED
      BY <1>1, <1>2, <3>1, <3>2
  <2>2. QED
    BY <2>1
<1>5. \A i \in 1 .. Len(t) : f[Len(s) + i] = h[i]
  <2>1. ASSUME NEW i \in 1 .. Len(t) PROVE f[Len(s) + i] = h[i]
    <3>1. Len(s) + i \in 1 .. Len(s) + Len(t) /\ ~(Len(s) + i <= Len(s)) /\ (Len(s) + i) - Len(s) = i
      BY <1>1
    <3>2. (s \o t)[Len(s) + i] = t[i]
      BY <1>1, <3>1
    <3>3. QED
      BY <1>1, <1>2, <3>1, <3>2
  <2>2. QED
    BY <2>1
<1>6. f = g \o h
  <2>1. PICK R : R = Seq(S)
    OBVIOUS
  <2>2. f \in Seq(R) /\ g \in Seq(R) /\ h \in Seq(R)
    BY <1>3, <2>1
  <2>3. Glue(R, f, g, h)
    BY <1>3, <1>4, <1>5, <2>2 DEF Glue
  <2>4. QED
    BY <2>3, Glued
<1>7. FlattenSeq(f) = FlattenSeq(g) \o FlattenSeq(h)
  BY <1>3, <1>6, FlatConcat
<1>8. QED
  BY <1>2, <1>7 DEF Spread

LEMMA SpreadShort ==
  ASSUME NEW B, NEW S, NEW F, Spreads(F, B, S), NEW b \in B
  PROVE  Spread(F, <<>>) = <<>> /\ Spread(F, <<b>>) = F[b]
<1> USE DEF Spreads
<1>1. PICK t : t = <<b>>
  OBVIOUS
<1>2. t \in Seq(B) /\ DOMAIN t = 1 .. 1 /\ t[1] = b /\ 1 \in 1 .. 1
  BY <1>1
<1>3. [i \in DOMAIN t |-> F[t[i]]] \in [1 .. 1 -> Seq(S)]
  BY <1>2
<1>4. FlattenSeq([i \in DOMAIN t |-> F[t[i]]]) = [i \in DOMAIN t |-> F[t[i]]][1]
  BY <1>3, FlatOne
<1>5. Spread(F, t) = F[b]
  BY <1>2, <1>4 DEF Spread
<1>6. [i \in DOMAIN <<>> |-> F[<<>>[i]]] = <<>>
  OBVIOUS
<1>7. Spread(F, <<>>) = <<>>
  BY <1>6, FlatEmpty DEF Spread
<1>8. QED
  BY <1>1, <1>5, <1>7

\* Things of a kind with a number.
Numbered(B) == \A b \in B : b.id \in Nat
Choice(B, kinds) == [b \in B |-> IF b.kind \in kinds THEN <<b.id>> ELSE <<>>]

LEMMA SaidIsSpread ==
  ASSUME NEW B, Numbered(B), NEW kinds
  PROVE  /\ Spreads(Choice(B, kinds), B, Nat)
         /\ \A s \in Seq(B) : Said(s, kinds) = Spread(Choice(B, kinds), s)
<1>1. ASSUME NEW b \in B PROVE (IF b.kind \in kinds THEN <<b.id>> ELSE <<>>) \in Seq(Nat)
  <2>1. b.id \in Nat
    BY DEF Numbered
  <2>2. QED
    BY <2>1
<1>2. Spreads(Choice(B, kinds), B, Nat)
  BY <1>1 DEF Choice, Spreads
<1>3. ASSUME NEW s \in Seq(B) PROVE Said(s, kinds) = Spread(Choice(B, kinds), s)
  <2>1. ASSUME NEW i \in DOMAIN s PROVE s[i] \in B
    BY LenProperties, ElementOfSeq
  <2>2. [i \in DOMAIN s |-> IF s[i].kind \in kinds THEN <<s[i].id>> ELSE <<>>]
        = [i \in DOMAIN s |-> Choice(B, kinds)[s[i]]]
    BY <2>1 DEF Choice
  <2>3. QED
    BY <2>2 DEF Said, Spread
<1>4. QED
  BY <1>2, <1>3

\* What is said in two sequences, one after the other.
LEMMA SaidConcat ==
  ASSUME NEW B, Numbered(B), NEW s \in Seq(B), NEW t \in Seq(B), NEW kinds
  PROVE  /\ Said(s \o t, kinds) = Said(s, kinds) \o Said(t, kinds)
         /\ Said(s, kinds) \in Seq(Nat) /\ Said(t, kinds) \in Seq(Nat)
<1>1. PICK F : F = Choice(B, kinds)
  OBVIOUS
<1>2. Spreads(F, B, Nat) /\ \A r \in Seq(B) : Said(r, kinds) = Spread(F, r)
  BY <1>1, SaidIsSpread
<1>3. s \o t \in Seq(B)
  BY ConcatProperties
<1>4. Spread(F, s \o t) = Spread(F, s) \o Spread(F, t)
  BY <1>2, SpreadConcat
<1>5. Spread(F, s) \in Seq(Nat) /\ Spread(F, t) \in Seq(Nat)
  BY <1>2, SpreadTyped
<1>6. QED
  BY <1>2, <1>3, <1>4, <1>5

LEMMA SaidShort ==
  ASSUME NEW B, Numbered(B), NEW b \in B, NEW kinds
  PROVE  /\ Said(<<>>, kinds) = <<>>
         /\ Said(<<b>>, kinds) = IF b.kind \in kinds THEN <<b.id>> ELSE <<>>
<1>1. PICK F : F = Choice(B, kinds)
  OBVIOUS
<1>2. Spreads(F, B, Nat) /\ \A r \in Seq(B) : Said(r, kinds) = Spread(F, r)
  BY <1>1, SaidIsSpread
<1>3. PICK t, e : t = <<b>> /\ e = <<>>
  OBVIOUS
<1>4. t \in Seq(B) /\ e \in Seq(B)
  BY <1>3, EmptySeq
<1>5. Spread(F, e) = <<>> /\ Spread(F, t) = F[b]
  BY <1>2, <1>3, SpreadShort
<1>6. QED
  BY <1>1, <1>2, <1>3, <1>4, <1>5 DEF Choice

LEMMA SaidAppend ==
  ASSUME NEW B, Numbered(B), NEW s \in Seq(B), NEW b \in B, NEW kinds
  PROVE  /\ Said(Append(s, b), kinds) = Said(s, kinds) \o IF b.kind \in kinds THEN <<b.id>> ELSE <<>>
         /\ Said(s, kinds) \in Seq(Nat)
<1>1. PICK t : t = <<b>>
  OBVIOUS
<1>2. Append(s, b) = s \o t /\ t \in Seq(B)
  BY <1>1, AppendIsConcat
<1>3. Said(s \o t, kinds) = Said(s, kinds) \o Said(t, kinds) /\ Said(s, kinds) \in Seq(Nat)
  BY <1>2, SaidConcat
<1>4. Said(t, kinds) = IF b.kind \in kinds THEN <<b.id>> ELSE <<>>
  BY <1>1, SaidShort
<1>5. QED
  BY <1>2, <1>3, <1>4

\* The numbers said are those of the things of these kinds.
LEMMA SaidRange ==
  ASSUME NEW B, Numbered(B), NEW t \in Seq(B), NEW kinds
  PROVE  Range(Said(t, kinds)) = {b.id : b \in {c \in Range(t) : c.kind \in kinds}}
<1>1. PICK Q : Q = {s \in Seq(B) : Range(Said(s, kinds)) = {b.id : b \in {c \in Range(s) : c.kind \in kinds}}}
  OBVIOUS
<1>2. <<>> \in Q
  <2>1. Said(<<>>, kinds) = <<>>
    <3>1. [i \in DOMAIN <<>> |-> IF <<>>[i].kind \in kinds THEN << <<>>[i].id>> ELSE <<>>] = <<>>
      OBVIOUS
    <3>2. QED
      BY <3>1, FlatEmpty DEF Said
  <2>2. Range(<<>>) = {} /\ <<>> \in Seq(B)
    BY DEF Range
  <2>3. QED
    BY <1>1, <2>1, <2>2
<1>3. ASSUME NEW s \in Seq(B), NEW b \in B, s \in Q PROVE Append(s, b) \in Q
  <2>0. PICK u : u = <<b>>
    OBVIOUS
  <2>1. Append(s, b) = s \o u /\ u \in Seq(B) /\ Append(s, b) \in Seq(B)
    BY <2>0, AppendIsConcat, AppendProperties
  <2>2. Range(Append(s, b)) = Range(s) \cup {b}
    <3>1. Range(u) = {b}
      BY <2>0 DEF Range
    <3>2. QED
      BY <2>1, <3>1, RangeConcatenation
  <2>3. Said(Append(s, b), kinds) = Said(s, kinds) \o Said(u, kinds)
        /\ Said(s, kinds) \in Seq(Nat) /\ Said(u, kinds) \in Seq(Nat)
    BY <2>1, SaidConcat
  <2>4. Range(Said(Append(s, b), kinds)) = Range(Said(s, kinds)) \cup Range(Said(u, kinds))
    BY <2>3, RangeConcatenation
  <2>5. Range(Said(u, kinds)) = IF b.kind \in kinds THEN {b.id} ELSE {}
    <3>1. Range(<<b.id>>) = {b.id} /\ Range(<<>>) = {}
      BY DEF Range
    <3>2. Said(u, kinds) = IF b.kind \in kinds THEN <<b.id>> ELSE <<>>
      BY <2>0, SaidShort
    <3>3. QED
      BY <3>1, <3>2
  <2>6. Range(Said(s, kinds)) = {c.id : c \in {d \in Range(s) : d.kind \in kinds}}
    BY <1>1, <1>3
  <2>7. QED
    BY <1>1, <2>1, <2>2, <2>4, <2>5, <2>6
<1>4. QED
  BY <1>1, <1>2, <1>3, SeqClosed

-----------------------------------------------------------------------------
BlockTypes == [kind : {"text", "image", "thinking", "use", "result"}, id : Nat]
MessageTypes == [role : {"user", "assistant"}, blocks : Seq(BlockTypes)]
OpenAITypes == [role : {"user", "assistant", "tool"}, content : Seq(Nat), calls : Seq(Nat), id : Nat]
ItemTypes ==
    [kind : {"user", "assistant", "tool", "function_call", "function_call_output"},
     content : Seq(Nat), id : Nat]
AccTypes ==
    [out : Seq(OpenAITypes), content : Seq(Nat), calls : Seq(Nat), results : BOOLEAN]

\* The function Collected is defined by.
CollectOf(role, blocks, f) ==
    f = [i \in 0 .. Len(blocks) |-> IF i = 0 THEN NothingYet ELSE ConvertBlock(role, f[i - 1], blocks[i])]

LEMMA CollectUnique ==
  ASSUME NEW B, NEW bs \in Seq(B), NEW role, NEW f, NEW g, CollectOf(role, bs, f), CollectOf(role, bs, g)
  PROVE  f = g
<1>1. Len(bs) \in Nat
  OBVIOUS
<1>2. /\ DOMAIN f = 0 .. Len(bs) /\ DOMAIN g = 0 .. Len(bs)
      /\ \A i \in 0 .. Len(bs) : f[i] = IF i = 0 THEN NothingYet ELSE ConvertBlock(role, f[i - 1], bs[i])
      /\ \A i \in 0 .. Len(bs) : g[i] = IF i = 0 THEN NothingYet ELSE ConvertBlock(role, g[i - 1], bs[i])
  BY DEF CollectOf
<1>3. PICK Q : Q = {n \in 0 .. Len(bs) : f[n] = g[n]}
  OBVIOUS
<1>4. 0 \in Q
  BY <1>1, <1>2, <1>3
<1>5. ASSUME NEW n \in 0 .. Len(bs) - 1, n \in Q PROVE n + 1 \in Q
  <2>1. n + 1 \in 0 .. Len(bs) /\ (n + 1) - 1 = n /\ n + 1 # 0
    BY <1>1
  <2>2. f[n] = g[n]
    BY <1>3, <1>5
  <2>3. f[n + 1] = ConvertBlock(role, f[n], bs[n + 1]) /\ g[n + 1] = ConvertBlock(role, g[n], bs[n + 1])
    BY <1>2, <2>1
  <2>4. QED
    BY <1>3, <2>1, <2>2, <2>3
<1>6. 0 .. Len(bs) \subseteq Q
  BY <1>1, <1>4, <1>5, UpToBound
<1>7. \A i \in 0 .. Len(bs) : f[i] = g[i]
  BY <1>3, <1>6
<1>8. f = [i \in 0 .. Len(bs) |-> f[i]] /\ g = [i \in 0 .. Len(bs) |-> g[i]]
  BY <1>2 DEF CollectOf
<1>9. QED
  BY <1>7, <1>8

LEMMA CollectLonger ==
  ASSUME NEW B, NEW bs \in Seq(B), NEW b \in B, NEW role, NEW f, CollectOf(role, bs, f)
  PROVE  \E g : /\ CollectOf(role, Append(bs, b), g)
                /\ g[Len(bs) + 1] = ConvertBlock(role, f[Len(bs)], b)
<1>1. PICK n, cs : n = Len(bs) /\ cs = Append(bs, b)
  OBVIOUS
<1>2. /\ n \in Nat /\ Len(cs) = n + 1
      /\ \A i \in 1 .. n : cs[i] = bs[i]
      /\ cs[n + 1] = b
  BY <1>1, AppendProperties, LenProperties
<1>3. PICK g : g = [i \in 0 .. n + 1 |-> IF i = n + 1 THEN ConvertBlock(role, f[n], b) ELSE f[i]]
  OBVIOUS
<1>4. \A i \in 0 .. n : f[i] = IF i = 0 THEN NothingYet ELSE ConvertBlock(role, f[i - 1], bs[i])
  BY <1>1 DEF CollectOf
<1>5. ASSUME NEW i \in 0 .. n + 1
      PROVE  g[i] = IF i = 0 THEN NothingYet ELSE ConvertBlock(role, g[i - 1], cs[i])
  <2>1. CASE i = n + 1
    <3>1. i # 0 /\ i - 1 = n /\ n \in 0 .. n + 1 /\ n # n + 1
      BY <1>2, <2>1
    <3>2. g[n] = f[n] /\ g[i] = ConvertBlock(role, f[n], b)
      BY <1>3, <2>1, <3>1
    <3>3. QED
      BY <1>2, <2>1, <3>1, <3>2
  <2>2. CASE i # n + 1 /\ i # 0
    <3>1. i \in 0 .. n /\ i \in 1 .. n /\ i - 1 \in 0 .. n + 1 /\ i - 1 # n + 1
      BY <1>2, <2>2
    <3>2. g[i] = f[i] /\ g[i - 1] = f[i - 1] /\ cs[i] = bs[i]
      BY <1>2, <1>3, <2>2, <3>1
    <3>3. QED
      BY <1>4, <2>2, <3>1, <3>2
  <2>3. CASE i = 0
    <3>1. i # n + 1 /\ i \in 0 .. n
      BY <1>2, <2>3
    <3>2. QED
      BY <1>3, <1>4, <2>3, <3>1
  <2>4. QED
    BY <2>1, <2>2, <2>3
<1>6. CollectOf(role, cs, g)
  <2>1. g = [i \in 0 .. n + 1 |-> IF i = 0 THEN NothingYet ELSE ConvertBlock(role, g[i - 1], cs[i])]
    BY <1>3, <1>5
  <2>2. QED
    BY <1>2, <2>1 DEF CollectOf
<1>7. g[n + 1] = ConvertBlock(role, f[n], b)
  <2>1. n + 1 \in 0 .. n + 1
    BY <1>2
  <2>2. QED
    BY <1>3, <2>1
<1>8. QED
  BY <1>1, <1>6, <1>7

LEMMA CollectExists ==
  ASSUME NEW B, NEW cs \in Seq(B), NEW role
  PROVE  \E f : CollectOf(role, cs, f)
<1>1. PICK Q : Q = {bs \in Seq(B) : \E f : CollectOf(role, bs, f)}
  OBVIOUS
<1>2. <<>> \in Q
  <2>1. PICK f : f = [i \in 0 .. 0 |-> NothingYet]
    OBVIOUS
  <2>2. f = [i \in 0 .. Len(<<>>) |-> IF i = 0 THEN NothingYet ELSE ConvertBlock(role, f[i - 1], <<>>[i])]
    BY <2>1
  <2>3. CollectOf(role, <<>>, f)
    BY <2>2 DEF CollectOf
  <2>4. QED
    BY <1>1, <2>3
<1>3. ASSUME NEW bs \in Seq(B), NEW b \in B, bs \in Q PROVE Append(bs, b) \in Q
  BY <1>1, <1>3, CollectLonger
<1>4. Seq(B) \subseteq Q
  BY <1>2, <1>3, SeqClosed
<1>5. QED
  BY <1>1, <1>4

LEMMA CollectIs ==
  ASSUME NEW B, NEW bs \in Seq(B), NEW role, NEW f, CollectOf(role, bs, f)
  PROVE  Collected(role, bs) = f[Len(bs)]
<1>1. PICK g : g = CHOOSE h : h = [i \in 0 .. Len(bs) |-> IF i = 0 THEN NothingYet
                                                          ELSE ConvertBlock(role, h[i - 1], bs[i])]
  OBVIOUS
<1>2. Collected(role, bs) = g[Len(bs)]
  BY <1>1 DEF Collected
<1>3. CollectOf(role, bs, g)
  BY <1>1 DEF CollectOf
<1>4. QED
  BY <1>2, <1>3, CollectUnique

\* What is collected of no block, and of one more.
LEMMA CollectedEmpty == ASSUME NEW role PROVE Collected(role, <<>>) = NothingYet
<1>1. PICK e : e = <<>>
  OBVIOUS
<1>2. e \in Seq(Nat) /\ Len(e) = 0
  BY <1>1
<1>3. PICK f : CollectOf(role, e, f)
  BY <1>2, CollectExists
<1>4. f[0] = NothingYet
  BY <1>2, <1>3 DEF CollectOf
<1>5. Collected(role, e) = f[0]
  BY <1>2, <1>3, CollectIs
<1>6. QED
  BY <1>1, <1>4, <1>5

LEMMA CollectedAppend ==
  ASSUME NEW B, NEW bs \in Seq(B), NEW b \in B, NEW role
  PROVE  Collected(role, Append(bs, b)) = ConvertBlock(role, Collected(role, bs), b)
<1>1. PICK f : CollectOf(role, bs, f)
  BY CollectExists
<1>2. PICK g : CollectOf(role, Append(bs, b), g) /\ g[Len(bs) + 1] = ConvertBlock(role, f[Len(bs)], b)
  BY <1>1, CollectLonger
<1>3. Append(bs, b) \in Seq(B) /\ Len(Append(bs, b)) = Len(bs) + 1
  BY AppendProperties
<1>4. Collected(role, Append(bs, b)) = g[Len(bs) + 1]
  BY <1>2, <1>3, CollectIs
<1>5. Collected(role, bs) = f[Len(bs)]
  BY <1>1, CollectIs
<1>6. QED
  BY <1>2, <1>4, <1>5

-----------------------------------------------------------------------------
\* What is collected, field by field.
Acc(o, c, u, r) == [out |-> o, content |-> c, calls |-> u, results |-> r]

LEMMA AccRead ==
  ASSUME NEW o, NEW c, NEW u, NEW r
  PROVE  /\ Acc(o, c, u, r).out = o /\ Acc(o, c, u, r).content = c /\ Acc(o, c, u, r).calls = u
         /\ Acc(o, c, u, r).results = r
<1>1. Acc(o, c, u, r).out = o /\ Acc(o, c, u, r).content = c /\ Acc(o, c, u, r).calls = u
  BY DEF Acc
<1>2. Acc(o, c, u, r).results = r
  BY DEF Acc
<1>3. QED
  BY <1>1, <1>2

LEMMA AccContent ==
  ASSUME NEW o, NEW c, NEW u, NEW r, NEW x
  PROVE  [Acc(o, c, u, r) EXCEPT !.content = x] = Acc(o, x, u, r)
BY DEF Acc

LEMMA AccCalls ==
  ASSUME NEW o, NEW c, NEW u, NEW r, NEW x
  PROVE  [Acc(o, c, u, r) EXCEPT !.calls = x] = Acc(o, c, x, r)
BY DEF Acc

LEMMA AccOut ==
  ASSUME NEW o, NEW c, NEW u, NEW r, NEW x
  PROVE  [Acc(o, c, u, r) EXCEPT !.out = x] = Acc(x, c, u, r)
BY DEF Acc

LEMMA AccResults ==
  ASSUME NEW o, NEW c, NEW u, NEW r, NEW x
  PROVE  [Acc(o, c, u, r) EXCEPT !.results = x] = Acc(o, c, u, x)
BY DEF Acc

OutContent(a, x, y) == [a EXCEPT !.out = x, !.content = y]
OutResults(a, x, y) == [a EXCEPT !.out = x, !.results = y]

LEMMA AccOutContent ==
  ASSUME NEW o, NEW c, NEW u, NEW r, NEW x, NEW y
  PROVE  OutContent(Acc(o, c, u, r), x, y) = Acc(x, y, u, r)
<1>1. PICK a : a = Acc(o, c, u, r)
  OBVIOUS
<1>2. PICK d : d = [a EXCEPT !.out = x]
  OBVIOUS
<1>3. OutContent(a, x, y) = [d EXCEPT !.content = y]
  BY <1>2 DEF OutContent
<1>4. d = Acc(x, c, u, r)
  BY <1>1, <1>2, AccOut
<1>5. [d EXCEPT !.content = y] = Acc(x, y, u, r)
  BY <1>4, AccContent
<1>6. QED
  BY <1>1, <1>3, <1>5

LEMMA AccOutResults ==
  ASSUME NEW o, NEW c, NEW u, NEW r, NEW x, NEW y
  PROVE  OutResults(Acc(o, c, u, r), x, y) = Acc(x, c, u, y)
<1>1. PICK a : a = Acc(o, c, u, r)
  OBVIOUS
<1>2. PICK d : d = [a EXCEPT !.out = x]
  OBVIOUS
<1>3. OutResults(a, x, y) = [d EXCEPT !.results = y]
  BY <1>2 DEF OutResults
<1>4. d = Acc(x, c, u, r)
  BY <1>1, <1>2, AccOut
<1>5. [d EXCEPT !.results = y] = Acc(x, c, u, y)
  BY <1>4, AccResults
<1>6. QED
  BY <1>1, <1>3, <1>5

LEMMA TextConverts ==
  ASSUME NEW o, NEW c, NEW u, NEW r, NEW b, NEW role,
         b.kind = "text" \/ (b.kind = "image" /\ role = "user")
  PROVE  ConvertBlock(role, Acc(o, c, u, r), b) = Acc(o, Append(c, b.id), u, r)
<1>1. PICK a : a = Acc(o, c, u, r)
  OBVIOUS
<1>2. PICK x : x = Append(a.content, b.id)
  OBVIOUS
<1>3. ConvertBlock(role, a, b) = [a EXCEPT !.content = x]
  BY <1>2 DEF ConvertBlock
<1>4. a.content = c
  BY <1>1, AccRead
<1>5. [a EXCEPT !.content = x] = Acc(o, x, u, r)
  BY <1>1, AccContent
<1>6. QED
  BY <1>1, <1>2, <1>3, <1>4, <1>5

LEMMA CallConverts ==
  ASSUME NEW o, NEW c, NEW u, NEW r, NEW b, b.kind = "use"
  PROVE  ConvertBlock("assistant", Acc(o, c, u, r), b) = Acc(o, c, Append(u, b.id), r)
<1>1. PICK a : a = Acc(o, c, u, r)
  OBVIOUS
<1>2. PICK x : x = Append(a.calls, b.id)
  OBVIOUS
<1>3. ConvertBlock("assistant", a, b) = [a EXCEPT !.calls = x]
  BY <1>2 DEF ConvertBlock
<1>4. a.calls = u
  BY <1>1, AccRead
<1>5. [a EXCEPT !.calls = x] = Acc(o, c, x, r)
  BY <1>1, AccCalls
<1>6. QED
  BY <1>1, <1>2, <1>3, <1>4, <1>5

LEMMA ThoughtConverts ==
  ASSUME NEW a, NEW b, NEW role, b.kind = "thinking"
  PROVE  ConvertBlock(role, a, b) = a
BY DEF ConvertBlock

LEMMA ResultConverts ==
  ASSUME NEW o, NEW u, NEW r, NEW b, b.kind = "result"
  PROVE  ConvertBlock("user", Acc(o, <<>>, u, r), b)
         = Acc(Append(o, OpenAI("tool", <<>>, <<>>, b.id)), <<>>, u, TRUE)
<1>1. PICK a : a = Acc(o, <<>>, u, r)
  OBVIOUS
<1>2. a.content = <<>> /\ a.out = o
  BY <1>1, AccRead
<1>3. Flush(a) = a
  BY <1>2 DEF Flush
<1>4. PICK x : x = Append(a.out, OpenAI("tool", <<>>, <<>>, b.id))
  OBVIOUS
<1>5. ConvertBlock("user", a, b) = OnResult(a, b)
  BY DEF ConvertBlock
<1>6. OnResult(a, b) = OutResults(a, x, TRUE)
  BY <1>3, <1>4 DEF OnResult, OutResults
<1>7. PICK e : e = <<>>
  OBVIOUS
<1>8. OutResults(a, x, TRUE) = Acc(x, e, u, TRUE)
  <2>1. a = Acc(o, e, u, r)
    BY <1>1, <1>7
  <2>2. \A y : OutResults(a, x, y) = Acc(x, e, u, y)
    BY <2>1, AccOutResults
  <2>3. QED
    BY <2>2
<1>9. QED
  BY <1>1, <1>2, <1>4, <1>5, <1>6, <1>7, <1>8

LEMMA Flushed ==
  ASSUME NEW o, NEW c, NEW u, NEW r
  PROVE  Flush(Acc(o, c, u, r)).out = IF c = <<>> THEN o ELSE Append(o, OpenAI("user", c, <<>>, 0))
<1>1. PICK a : a = Acc(o, c, u, r)
  OBVIOUS
<1>2. a.content = c /\ a.out = o
  BY <1>1, AccRead
<1>3. CASE c = <<>>
  BY <1>1, <1>2, <1>3 DEF Flush
<1>4. CASE c # <<>>
  <2>1. PICK x : x = Append(a.out, OpenAI("user", a.content, <<>>, 0))
    OBVIOUS
  <2>2. Flush(a) = OutContent(a, x, <<>>)
    BY <1>2, <1>4, <2>1 DEF Flush, OutContent
  <2>3. OutContent(a, x, <<>>) = Acc(x, <<>>, u, r)
    <3>1. PICK e : e = <<>>
      OBVIOUS
    <3>2. OutContent(a, x, e) = Acc(x, e, u, r)
      BY <1>1, AccOutContent
    <3>3. QED
      BY <3>1, <3>2
  <2>4. Flush(a).out = x
    BY <2>2, <2>3, AccRead
  <2>5. QED
    BY <1>1, <1>2, <1>4, <2>1, <2>4
<1>5. QED
  BY <1>3, <1>4

LEMMA SaidMore ==
  ASSUME NEW B, Numbered(B), NEW s \in Seq(B), NEW b \in B, NEW kinds
  PROVE  Said(Append(s, b), kinds) = IF b.kind \in kinds THEN Append(Said(s, kinds), b.id) ELSE Said(s, kinds)
<1>1. PICK x : x = Said(s, kinds)
  OBVIOUS
<1>2. x \in Seq(Nat) /\ b.id \in Nat
  BY <1>1, SaidAppend DEF Numbered
<1>3. Append(x, b.id) = x \o <<b.id>> /\ x \o <<>> = x
  BY <1>2, AppendIsConcat, ConcatEmptySeq
<1>4. Said(Append(s, b), kinds) = x \o IF b.kind \in kinds THEN <<b.id>> ELSE <<>>
  BY <1>1, SaidAppend
<1>5. QED
  BY <1>1, <1>3, <1>4

\* Where there is nothing of these kinds, nothing is said.
LEMMA SaidNone ==
  ASSUME NEW B, Numbered(B), NEW kinds, \A b \in B : b.kind \notin kinds, NEW t \in Seq(B)
  PROVE  Said(t, kinds) = <<>>
<1>1. PICK Q : Q = {s \in Seq(B) : Said(s, kinds) = <<>>}
  OBVIOUS
<1>2. <<>> \in Q
  <2>1. [i \in DOMAIN <<>> |-> IF <<>>[i].kind \in kinds THEN << <<>>[i].id>> ELSE <<>>] = <<>>
    OBVIOUS
  <2>2. Said(<<>>, kinds) = <<>>
    BY <2>1, FlatEmpty DEF Said
  <2>3. QED
    BY <1>1, <2>2
<1>3. ASSUME NEW s \in Seq(B), NEW b \in B, s \in Q PROVE Append(s, b) \in Q
  <2>1. Said(Append(s, b), kinds) = Said(s, kinds)
    BY SaidMore
  <2>2. Append(s, b) \in Seq(B)
    BY AppendProperties
  <2>3. QED
    BY <1>1, <1>3, <2>1, <2>2
<1>4. QED
  BY <1>1, <1>2, <1>3, SeqClosed

-----------------------------------------------------------------------------
(* The messages of a history and what becomes of them: an answer is one     *)
(* message with its texts and its calls, a user's message the results, each *)
(* a message, and one with the texts.                                       *)

SaidKinds == {"text", "image"}
CallKinds == {"use", "result"}
AnswerBlocks == {b \in BlockTypes : b.kind \in {"text", "use", "thinking"}}
UserBlocks == {b \in BlockTypes : b.kind \in SaidKinds}
ResultsOf(order) == [i \in DOMAIN order |-> Block("result", order[i])]
Tools(order) == [i \in DOMAIN order |-> OpenAI("tool", <<>>, <<>>, order[i])]
Spoken(texts) == IF texts = <<>> THEN <<>> ELSE <<OpenAI("user", texts, <<>>, 0)>>

LEMMA BlocksNumbered == Numbered(BlockTypes) /\ Numbered(AnswerBlocks) /\ Numbered(UserBlocks)
BY DEF Numbered, BlockTypes, AnswerBlocks, UserBlocks

\* An answer's texts and calls are collected in their order.
LEMMA AnswerCollects ==
  ASSUME NEW t \in Seq(AnswerBlocks)
  PROVE  Collected("assistant", t) = Acc(<<>>, Said(t, SaidKinds), Said(t, CallKinds), FALSE)
<1>1. PICK Q : Q = {s \in Seq(AnswerBlocks) :
                       Collected("assistant", s) = Acc(<<>>, Said(s, SaidKinds), Said(s, CallKinds), FALSE)}
  OBVIOUS
<1>2. <<>> \in Q
  <2>1. PICK e : e = <<>>
    OBVIOUS
  <2>2. e \in Seq({}) /\ e \in Seq(AnswerBlocks)
    BY <2>1, EmptySeq
  <2>3. Said(e, SaidKinds) = <<>> /\ Said(e, CallKinds) = <<>>
    BY <2>2, SaidNone DEF Numbered
  <2>4. Collected("assistant", e) = Acc(<<>>, <<>>, <<>>, FALSE)
    BY <2>1, CollectedEmpty DEF NothingYet, Acc
  <2>5. QED
    BY <1>1, <2>1, <2>2, <2>3, <2>4
<1>3. ASSUME NEW s \in Seq(AnswerBlocks), NEW b \in AnswerBlocks, s \in Q PROVE Append(s, b) \in Q
  <2>1. PICK x, y : x = Said(s, SaidKinds) /\ y = Said(s, CallKinds)
    OBVIOUS
  <2>2. Collected("assistant", s) = Acc(<<>>, x, y, FALSE)
    BY <1>1, <1>3, <2>1
  <2>3. Collected("assistant", Append(s, b)) = ConvertBlock("assistant", Acc(<<>>, x, y, FALSE), b)
    BY <2>2, CollectedAppend
  <2>4. /\ Said(Append(s, b), SaidKinds) = IF b.kind \in SaidKinds THEN Append(x, b.id) ELSE x
        /\ Said(Append(s, b), CallKinds) = IF b.kind \in CallKinds THEN Append(y, b.id) ELSE y
    BY <2>1, SaidMore, BlocksNumbered
  <2>5. b.kind \in {"text", "use", "thinking"} /\ Append(s, b) \in Seq(AnswerBlocks)
    BY AppendProperties DEF AnswerBlocks
  <2>6. Collected("assistant", Append(s, b))
        = Acc(<<>>, Said(Append(s, b), SaidKinds), Said(Append(s, b), CallKinds), FALSE)
    <3>1. CASE b.kind = "text"
      <4>1. ConvertBlock("assistant", Acc(<<>>, x, y, FALSE), b) = Acc(<<>>, Append(x, b.id), y, FALSE)
        <5>1. PICK o, no : o = <<>> /\ no = FALSE
          OBVIOUS
        <5>2. ConvertBlock("assistant", Acc(o, x, y, no), b) = Acc(o, Append(x, b.id), y, no)
          BY <3>1, TextConverts
        <5>3. QED
          BY <5>1, <5>2
      <4>2. QED
        BY <2>3, <2>4, <3>1, <4>1 DEF SaidKinds, CallKinds
    <3>2. CASE b.kind = "use"
      <4>1. ConvertBlock("assistant", Acc(<<>>, x, y, FALSE), b) = Acc(<<>>, x, Append(y, b.id), FALSE)
        <5>1. PICK o, no : o = <<>> /\ no = FALSE
          OBVIOUS
        <5>2. ConvertBlock("assistant", Acc(o, x, y, no), b) = Acc(o, x, Append(y, b.id), no)
          BY <3>2, CallConverts
        <5>3. QED
          BY <5>1, <5>2
      <4>2. QED
        BY <2>3, <2>4, <3>2, <4>1 DEF SaidKinds, CallKinds
    <3>3. CASE b.kind = "thinking"
      BY <2>3, <2>4, <3>3, ThoughtConverts DEF SaidKinds, CallKinds
    <3>4. QED
      BY <2>5, <3>1, <3>2, <3>3
  <2>7. QED
    BY <1>1, <2>5, <2>6
<1>4. QED
  BY <1>1, <1>2, <1>3, SeqClosed

LEMMA ResultsMore ==
  ASSUME NEW o \in Seq(Nat), NEW x \in Nat
  PROVE  /\ ResultsOf(Append(o, x)) = Append(ResultsOf(o), Block("result", x))
         /\ Tools(Append(o, x)) = Append(Tools(o), OpenAI("tool", <<>>, <<>>, x))
         /\ ResultsOf(o) \in Seq(BlockTypes) /\ Tools(o) \in Seq(OpenAITypes)
         /\ Len(ResultsOf(o)) = Len(o) /\ Len(Tools(o)) = Len(o)
<1>1. PICK p, n : p = Append(o, x) /\ n = Len(o)
  OBVIOUS
<1>2. /\ n \in Nat /\ DOMAIN o = 1 .. n /\ DOMAIN p = 1 .. n + 1 /\ p[n + 1] = x
      /\ \A i \in 1 .. n : p[i] = o[i] /\ o[i] \in Nat
  BY <1>1, AppendProperties, LenProperties, ElementOfSeq
<1>3. /\ \A y \in Nat : Block("result", y) \in BlockTypes
      /\ \A y \in Nat : OpenAI("tool", <<>>, <<>>, y) \in OpenAITypes
  BY DEF Block, BlockTypes, OpenAI, OpenAITypes
<1>4. ResultsOf(o) \in [1 .. n -> BlockTypes] /\ Tools(o) \in [1 .. n -> OpenAITypes]
  BY <1>2, <1>3 DEF ResultsOf, Tools
<1>5. /\ ResultsOf(o) \in Seq(BlockTypes) /\ Tools(o) \in Seq(OpenAITypes)
      /\ Len(ResultsOf(o)) = n /\ Len(Tools(o)) = n
  BY <1>2, <1>4, FunctionIsSeq
<1>6. ResultsOf(p) = Append(ResultsOf(o), Block("result", x))
  <2>1. PICK b : b = Block("result", x) /\ b \in BlockTypes
    BY <1>3
  <2>2. /\ Append(ResultsOf(o), b) \in Seq(BlockTypes) /\ Len(Append(ResultsOf(o), b)) = n + 1
        /\ \A i \in 1 .. n : Append(ResultsOf(o), b)[i] = ResultsOf(o)[i]
        /\ Append(ResultsOf(o), b)[n + 1] = b
    BY <1>5, <2>1, AppendProperties
  <2>3. ASSUME NEW i \in 1 .. n + 1 PROVE Block("result", p[i]) = Append(ResultsOf(o), b)[i]
    <3>1. CASE i = n + 1
      BY <1>2, <2>1, <2>2, <3>1
    <3>2. CASE i # n + 1
      <4>1. i \in 1 .. n
        BY <1>2, <3>2
      <4>2. ResultsOf(o)[i] = Block("result", o[i])
        BY <1>2, <4>1 DEF ResultsOf
      <4>3. QED
        BY <1>2, <2>2, <4>1, <4>2
    <3>3. QED
      BY <3>1, <3>2
  <2>4. \A i \in 1 .. n + 1 : ResultsOf(p)[i] = Block("result", p[i])
    BY <1>2 DEF ResultsOf
  <2>5. ResultsOf(p) \in Seq(BlockTypes) /\ Len(ResultsOf(p)) = n + 1
    <3>1. \A i \in 1 .. n + 1 : p[i] \in Nat
      <4>1. ASSUME NEW i \in 1 .. n + 1 PROVE p[i] \in Nat
        BY <1>2
      <4>2. QED
        BY <4>1
    <3>2. ResultsOf(p) \in [1 .. n + 1 -> BlockTypes] /\ n + 1 \in Nat
      BY <1>2, <1>3, <3>1 DEF ResultsOf
    <3>3. QED
      BY <3>2, FunctionIsSeq
  <2>6. QED
    BY <2>1, <2>2, <2>3, <2>4, <2>5, SeqEqual
<1>7. Tools(p) = Append(Tools(o), OpenAI("tool", <<>>, <<>>, x))
  <2>1. PICK b : b = OpenAI("tool", <<>>, <<>>, x) /\ b \in OpenAITypes
    BY <1>3
  <2>2. /\ Append(Tools(o), b) \in Seq(OpenAITypes) /\ Len(Append(Tools(o), b)) = n + 1
        /\ \A i \in 1 .. n : Append(Tools(o), b)[i] = Tools(o)[i]
        /\ Append(Tools(o), b)[n + 1] = b
    BY SMTT(30), <1>5, <2>1, AppendProperties
  <2>3. ASSUME NEW i \in 1 .. n + 1 PROVE OpenAI("tool", <<>>, <<>>, p[i]) = Append(Tools(o), b)[i]
    <3>1. CASE i = n + 1
      BY <1>2, <2>1, <2>2, <3>1
    <3>2. CASE i # n + 1
      <4>1. i \in 1 .. n
        BY <1>2, <3>2
      <4>2. Tools(o)[i] = OpenAI("tool", <<>>, <<>>, o[i])
        BY <1>2, <4>1 DEF Tools
      <4>3. QED
        BY <1>2, <2>2, <4>1, <4>2
    <3>3. QED
      BY <3>1, <3>2
  <2>4. \A i \in 1 .. n + 1 : Tools(p)[i] = OpenAI("tool", <<>>, <<>>, p[i])
    BY <1>2 DEF Tools
  <2>5. Tools(p) \in Seq(OpenAITypes) /\ Len(Tools(p)) = n + 1
    <3>1. \A i \in 1 .. n + 1 : p[i] \in Nat
      <4>1. ASSUME NEW i \in 1 .. n + 1 PROVE p[i] \in Nat
        BY <1>2
      <4>2. QED
        BY <4>1
    <3>2. Tools(p) \in [1 .. n + 1 -> OpenAITypes] /\ n + 1 \in Nat
      BY <1>2, <1>3, <3>1 DEF Tools
    <3>3. QED
      BY <3>2, FunctionIsSeq
  <2>6. QED
    BY <2>1, <2>2, <2>3, <2>4, <2>5, SeqEqual
<1>8. QED
  BY <1>1, <1>5, <1>6, <1>7

LEMMA NoResults == ResultsOf(<<>>) = <<>> /\ Tools(<<>>) = <<>>
BY DEF ResultsOf, Tools

LEMMA ResultsSaid ==
  ASSUME NEW t \in Seq(Nat)
  PROVE  Said(ResultsOf(t), CallKinds) = t /\ Said(ResultsOf(t), SaidKinds) = <<>>
<1>1. PICK Q : Q = {s \in Seq(Nat) : Said(ResultsOf(s), CallKinds) = s /\ Said(ResultsOf(s), SaidKinds) = <<>>}
  OBVIOUS
<1>2. <<>> \in Q
  <2>1. PICK e : e = <<>>
    OBVIOUS
  <2>2. e \in Seq({}) /\ e \in Seq(Nat)
    BY <2>1, EmptySeq
  <2>3. Said(e, SaidKinds) = e /\ Said(e, CallKinds) = e
    BY <2>1, <2>2, SaidNone DEF Numbered
  <2>4. QED
    BY <1>1, <2>1, <2>2, <2>3, NoResults
<1>3. ASSUME NEW s \in Seq(Nat), NEW x \in Nat, s \in Q PROVE Append(s, x) \in Q
  <2>1. PICK r, b : r = ResultsOf(s) /\ b = Block("result", x)
    OBVIOUS
  <2>2. ResultsOf(Append(s, x)) = Append(r, b) /\ r \in Seq(BlockTypes)
    BY <2>1, ResultsMore
  <2>3. b \in BlockTypes /\ b.kind = "result" /\ b.id = x
    BY <2>1 DEF Block, BlockTypes
  <2>4. /\ Said(Append(r, b), CallKinds) = Append(Said(r, CallKinds), b.id)
        /\ Said(Append(r, b), SaidKinds) = Said(r, SaidKinds)
    <3>1. b.kind \in CallKinds /\ b.kind \notin SaidKinds
      BY <2>3 DEF SaidKinds, CallKinds
    <3>2. Said(Append(r, b), CallKinds) = Append(Said(r, CallKinds), b.id)
      BY <2>2, <2>3, <3>1, SaidMore, BlocksNumbered
    <3>3. Said(Append(r, b), SaidKinds) = Said(r, SaidKinds)
      BY <2>2, <2>3, <3>1, SaidMore, BlocksNumbered
    <3>4. QED
      BY <3>2, <3>3
  <2>5. Said(r, CallKinds) = s /\ Said(r, SaidKinds) = <<>>
    BY <1>1, <1>3, <2>1
  <2>6. Append(s, x) \in Seq(Nat)
    BY AppendProperties
  <2>7. QED
    BY <1>1, <2>2, <2>3, <2>4, <2>5, <2>6
<1>4. QED
  BY <1>1, <1>2, <1>3, SeqClosed

\* Results become messages of their own.
LEMMA ResultsCollect ==
  ASSUME NEW t \in Seq(Nat)
  PROVE  Collected("user", ResultsOf(t)) = Acc(Tools(t), <<>>, <<>>, Len(t) # 0)
<1>1. PICK Q : Q = {s \in Seq(Nat) : Collected("user", ResultsOf(s)) = Acc(Tools(s), <<>>, <<>>, Len(s) # 0)}
  OBVIOUS
<1>2. <<>> \in Q
  <2>1. Collected("user", ResultsOf(<<>>)) = Acc(<<>>, <<>>, <<>>, FALSE)
    BY NoResults, CollectedEmpty DEF NothingYet, Acc
  <2>2. (Len(<<>>) # 0) = FALSE /\ <<>> \in Seq(Nat)
    BY EmptySeq
  <2>3. QED
    BY <1>1, <2>1, <2>2, NoResults
<1>3. ASSUME NEW s \in Seq(Nat), NEW x \in Nat, s \in Q PROVE Append(s, x) \in Q
  <2>1. PICK r, o, b, e, f : /\ r = ResultsOf(s) /\ o = Tools(s) /\ b = Block("result", x) /\ e = <<>>
                             /\ f = (Len(s) # 0)
    OBVIOUS
  <2>2. ResultsOf(Append(s, x)) = Append(r, b) /\ r \in Seq(BlockTypes)
    BY <2>1, ResultsMore
  <2>3. b \in BlockTypes /\ b.kind = "result" /\ b.id = x
    BY <2>1 DEF Block, BlockTypes
  <2>4. Collected("user", Append(r, b)) = ConvertBlock("user", Collected("user", r), b)
    BY <2>2, <2>3, CollectedAppend
  <2>5. Collected("user", r) = Acc(o, <<>>, e, f)
    BY <1>1, <1>3, <2>1
  <2>6. ConvertBlock("user", Acc(o, <<>>, e, f), b)
        = Acc(Append(o, OpenAI("tool", <<>>, <<>>, b.id)), <<>>, e, TRUE)
    BY <2>3, ResultConverts
  <2>7. Tools(Append(s, x)) = Append(o, OpenAI("tool", <<>>, <<>>, b.id))
    BY <2>1, <2>3, ResultsMore
  <2>8. Append(s, x) \in Seq(Nat) /\ (Len(Append(s, x)) # 0) = TRUE
    BY AppendProperties, LenProperties
  <2>9. Collected("user", ResultsOf(Append(s, x))) = Acc(Tools(Append(s, x)), <<>>, <<>>, TRUE)
    BY <2>1, <2>2, <2>4, <2>5, <2>6, <2>7
  <2>10. QED
    BY <1>1, <2>8, <2>9
<1>4. QED
  BY <1>1, <1>2, <1>3, SeqClosed

LEMMA ConcatMore ==
  ASSUME NEW S, NEW s \in Seq(S), NEW t \in Seq(S), NEW e \in S
  PROVE  s \o Append(t, e) = Append(s \o t, e) /\ s \o t \in Seq(S)
<1>1. PICK u : u = <<e>>
  OBVIOUS
<1>2. u \in Seq(S) /\ s \o t \in Seq(S)
  BY <1>1, ConcatProperties
<1>3. Append(t, e) = t \o u /\ Append(s \o t, e) = (s \o t) \o u
  BY <1>1, <1>2, AppendIsConcat
<1>4. QED
  BY SMTT(30), <1>2, <1>3, ConcatAssociative

\* Texts after the results are collected in their order.
LEMMA UserCollects ==
  ASSUME NEW r \in Seq(BlockTypes), NEW o, NEW f, Collected("user", r) = Acc(o, <<>>, <<>>, f),
         NEW t \in Seq(UserBlocks)
  PROVE  Collected("user", r \o t) = Acc(o, Said(t, SaidKinds), <<>>, f)
<1>1. PICK Q : Q = {s \in Seq(UserBlocks) : Collected("user", r \o s) = Acc(o, Said(s, SaidKinds), <<>>, f)}
  OBVIOUS
<1>0. UserBlocks \subseteq BlockTypes
  BY DEF UserBlocks
<1>2. <<>> \in Q
  <2>1. PICK e : e = <<>>
    OBVIOUS
  <2>2. e \in Seq({}) /\ e \in Seq(UserBlocks) /\ r \o e = r
    BY <2>1, EmptySeq, ConcatEmptySeq
  <2>3. Said(e, SaidKinds) = <<>>
    BY <2>2, SaidNone DEF Numbered
  <2>4. QED
    BY <1>1, <2>1, <2>2, <2>3
<1>3. ASSUME NEW s \in Seq(UserBlocks), NEW b \in UserBlocks, s \in Q PROVE Append(s, b) \in Q
  <2>1. PICK x, e : x = Said(s, SaidKinds) /\ e = <<>>
    OBVIOUS
  <2>2. s \in Seq(BlockTypes) /\ b \in BlockTypes
    BY <1>0, SeqMonotonic
  <2>3. r \o Append(s, b) = Append(r \o s, b) /\ r \o s \in Seq(BlockTypes)
    BY <2>2, ConcatMore
  <2>4. Collected("user", r \o s) = Acc(o, x, e, f)
    BY <1>1, <1>3, <2>1
  <2>5. Collected("user", r \o Append(s, b)) = ConvertBlock("user", Acc(o, x, e, f), b)
    BY <2>2, <2>3, <2>4, CollectedAppend
  <2>6. b.kind = "text" \/ (b.kind = "image" /\ "user" = "user")
    BY DEF UserBlocks, SaidKinds
  <2>7. ConvertBlock("user", Acc(o, x, e, f), b) = Acc(o, Append(x, b.id), e, f)
    BY <2>6, TextConverts
  <2>8. Said(Append(s, b), SaidKinds) = Append(x, b.id) /\ Append(s, b) \in Seq(UserBlocks)
    BY <2>1, <2>6, SaidMore, BlocksNumbered, AppendProperties DEF SaidKinds
  <2>9. QED
    BY <1>1, <2>1, <2>5, <2>7, <2>8
<1>4. QED
  BY <1>1, <1>2, <1>3, SeqClosed

Answered(t) == OpenAI("assistant", Said(t, SaidKinds), Said(t, CallKinds), 0)

\* The message an answer becomes.
LEMMA AnswerConverts ==
  ASSUME NEW t \in Seq(AnswerBlocks)
  PROVE  ConvertMessage(Message("assistant", t)) = <<Answered(t)>>
<1>1. PICK m, a, x, y : /\ m = Message("assistant", t) /\ a = Collected("assistant", t)
                        /\ x = Said(t, SaidKinds) /\ y = Said(t, CallKinds)
  OBVIOUS
<1>2. m.role = "assistant" /\ m.blocks = t
  BY <1>1 DEF Message
<1>3. a = Acc(<<>>, x, y, FALSE)
  BY <1>1, AnswerCollects
<1>4. a.content = x /\ a.calls = y /\ ~a.results
  <2>1. PICK e : e = <<>>
    OBVIOUS
  <2>2. PICK no : no = FALSE
    OBVIOUS
  <2>3. a = Acc(e, x, y, no)
    BY <1>3, <2>1, <2>2
  <2>4. a.content = x /\ a.calls = y /\ a.results = no
    BY <2>3, AccRead
  <2>5. QED
    BY <2>2, <2>4
<1>5. ConvertMessage(m) = <<OpenAI("assistant", a.content, a.calls, 0)>>
  BY <1>1, <1>2, <1>4 DEF ConvertMessage
<1>6. QED
  BY <1>1, <1>4, <1>5 DEF Answered

\* The messages a user's message becomes.
LEMMA UserConverts ==
  ASSUME NEW o \in Seq(Nat), NEW t \in Seq(UserBlocks)
  PROVE  ConvertMessage(Message("user", ResultsOf(o) \o t)) = Tools(o) \o Spoken(Said(t, SaidKinds))
<1>1. PICK m, a, x, e, ts : /\ m = Message("user", ResultsOf(o) \o t) /\ a = Collected("user", ResultsOf(o) \o t)
                            /\ x = Said(t, SaidKinds) /\ e = <<>> /\ ts = Tools(o)
  OBVIOUS
<1>2. m.role = "user" /\ m.blocks = ResultsOf(o) \o t
  BY <1>1 DEF Message
<1>3. ResultsOf(o) \in Seq(BlockTypes) /\ ts \in Seq(OpenAITypes) /\ Len(ts) = Len(o)
  BY <1>1, ResultsMore
<1>4. x \in Seq(Nat)
  BY <1>1, SaidConcat, BlocksNumbered
<1>5. a = Acc(ts, x, e, Len(o) # 0)
  BY <1>1, <1>3, ResultsCollect, UserCollects
<1>6. a.content = x /\ a.calls = e /\ a.out = ts /\ a.results = (Len(o) # 0)
  BY <1>5, AccRead
<1>7. Flush(a).out = IF x = <<>> THEN ts ELSE Append(ts, OpenAI("user", x, <<>>, 0))
  BY <1>5, Flushed
<1>8. PICK w : w = OpenAI("user", x, <<>>, 0)
  OBVIOUS
<1>9. w \in OpenAITypes
  BY <1>4, <1>8, EmptySeq DEF OpenAI, OpenAITypes
<1>10. ts \o <<>> = ts /\ ts \o <<w>> = Append(ts, w)
  BY <1>3, <1>9, ConcatEmptySeq, AppendIsConcat
<1>11. CASE Len(o) # 0
  <2>1. ConvertMessage(m) = Flush(a).out
    BY <1>1, <1>2, <1>6, <1>11 DEF ConvertMessage
  <2>2. QED
    BY <1>1, <1>7, <1>8, <1>10, <2>1 DEF Spoken
<1>12. CASE Len(o) = 0
  <2>1. ts = <<>>
    BY <1>3, <1>12, EmptySeq
  <2>2. <<>> \o <<w>> = <<w>>
    BY <1>3, <1>9, <1>10, ConcatEmptySeq
  <2>3. ConvertMessage(m) = IF x = <<>> THEN <<>> ELSE <<OpenAI(m.role, a.content, a.calls, 0)>>
    BY <1>1, <1>2, <1>6, <1>12 DEF ConvertMessage
  <2>4. ConvertMessage(m) = IF x = <<>> THEN <<>> ELSE <<w>>
    BY <1>1, <1>2, <1>6, <1>8, <2>3
  <2>5. QED
    BY <1>1, <1>8, <1>10, <2>1, <2>2, <2>4 DEF Spoken
<1>13. Len(o) \in Nat
  BY LenProperties
<1>14. QED
  BY <1>11, <1>12

-----------------------------------------------------------------------------
(* The items of messages: their contents and the calls among them are those *)
(* of the messages, one after the other.                                    *)

Contents(items) == FlattenSeq([i \in DOMAIN items |-> items[i].content])
ItemKinds == {"function_call", "function_call_output"}
CallItems(c) == [i \in DOMAIN c |-> Item("function_call", <<>>, c[i])]
ContentOf == [t \in ItemTypes |-> t.content]
ItemsOf == [m \in OpenAITypes |-> ToItems(m)]

\* Spreading numbers one by one, or as nothing.
LEMMA Ones ==
  ASSUME NEW t \in Seq(Nat)
  PROVE  FlattenSeq([i \in DOMAIN t |-> <<t[i]>>]) = t /\ FlattenSeq([i \in DOMAIN t |-> <<>>]) = <<>>
<1>1. PICK F, G, e : F = [n \in Nat |-> <<n>>] /\ G = [n \in Nat |-> <<>>] /\ e = <<>>
  OBVIOUS
<1>2. Spreads(F, Nat, Nat) /\ Spreads(G, Nat, Nat)
  <2>1. \A n \in Nat : <<n>> \in Seq(Nat) /\ <<>> \in Seq(Nat)
    BY EmptySeq
  <2>2. QED
    BY <1>1, <2>1 DEF Spreads
<1>3. PICK Q : Q = {s \in Seq(Nat) : Spread(F, s) = s /\ Spread(G, s) = e}
  OBVIOUS
<1>4. <<>> \in Q
  <2>1. Spread(F, <<>>) = <<>> /\ Spread(G, <<>>) = <<>>
    BY <1>2, SpreadShort, 0 \in Nat
  <2>2. QED
    BY <1>1, <1>3, <2>1, EmptySeq
<1>5. ASSUME NEW s \in Seq(Nat), NEW x \in Nat, s \in Q PROVE Append(s, x) \in Q
  <2>1. PICK u : u = <<x>>
    OBVIOUS
  <2>2. u \in Seq(Nat) /\ Append(s, x) = s \o u /\ Append(s, x) \in Seq(Nat)
    BY <2>1, AppendIsConcat, AppendProperties
  <2>3. Spread(F, s \o u) = Spread(F, s) \o Spread(F, u) /\ Spread(G, s \o u) = Spread(G, s) \o Spread(G, u)
    <3>1. u \in Seq(Nat) /\ Spreads(F, Nat, Nat) /\ Spreads(G, Nat, Nat)
      BY <1>2, <2>2
    <3>2. Spread(F, s \o u) = Spread(F, s) \o Spread(F, u)
      BY SMTT(30), <3>1, SpreadConcat
    <3>3. Spread(G, s \o u) = Spread(G, s) \o Spread(G, u)
      BY SMTT(30), <3>1, SpreadConcat
    <3>4. QED
      BY <3>2, <3>3
  <2>4. Spread(F, u) = F[x] /\ Spread(G, u) = G[x]
    BY <1>2, <2>1, SpreadShort
  <2>5. F[x] = u /\ G[x] = e /\ e \o e = e
    BY <1>1, <2>1, ConcatEmptySeq, EmptySeq
  <2>6. QED
    BY <1>3, <1>5, <2>2, <2>3, <2>4, <2>5
<1>6. Seq(Nat) \subseteq Q
  BY <1>4, <1>5, SeqClosed
<1>7. \A i \in DOMAIN t : t[i] \in Nat
  BY LenProperties, ElementOfSeq
<1>8. [i \in DOMAIN t |-> F[t[i]]] = [i \in DOMAIN t |-> <<t[i]>>] /\ [i \in DOMAIN t |-> G[t[i]]] = [i \in DOMAIN t |-> <<>>]
  BY <1>1, <1>7
<1>9. Spread(F, t) = FlattenSeq([i \in DOMAIN t |-> <<t[i]>>]) /\ Spread(G, t) = FlattenSeq([i \in DOMAIN t |-> <<>>])
  BY <1>8 DEF Spread
<1>10. QED
  BY <1>1, <1>3, <1>6, <1>9

\* The items of calls have no content.
LEMMA CallItemsSay ==
  ASSUME NEW c \in Seq(Nat)
  PROVE  /\ CallItems(c) \in Seq(ItemTypes)
         /\ Contents(CallItems(c)) = <<>> /\ Said(CallItems(c), ItemKinds) = c
<1>1. PICK t : t = CallItems(c)
  OBVIOUS
<1>2. DOMAIN c = 1 .. Len(c) /\ Len(c) \in Nat /\ \A i \in DOMAIN c : c[i] \in Nat
  BY LenProperties, ElementOfSeq
<1>3. \A x \in Nat : /\ Item("function_call", <<>>, x) \in ItemTypes
                     /\ Item("function_call", <<>>, x).kind = "function_call"
                     /\ Item("function_call", <<>>, x).content = <<>>
                     /\ Item("function_call", <<>>, x).id = x
  BY EmptySeq DEF Item, ItemTypes
<1>4. DOMAIN t = DOMAIN c /\ \A i \in DOMAIN c : t[i] = Item("function_call", <<>>, c[i])
  BY <1>1 DEF CallItems
<1>5. t \in Seq(ItemTypes)
  <2>1. t \in [1 .. Len(c) -> ItemTypes]
    BY <1>1, <1>2, <1>3 DEF CallItems
  <2>2. QED
    BY <1>2, <2>1, FunctionIsSeq
<1>6. \A i \in DOMAIN c : t[i].kind \in ItemKinds /\ t[i].content = <<>> /\ t[i].id = c[i]
  BY <1>2, <1>3, <1>4 DEF ItemKinds
<1>7. [i \in DOMAIN t |-> t[i].content] = [i \in DOMAIN c |-> <<>>]
  BY <1>4, <1>6
<1>8. [i \in DOMAIN t |-> IF t[i].kind \in ItemKinds THEN <<t[i].id>> ELSE <<>>] = [i \in DOMAIN c |-> <<c[i]>>]
  BY <1>4, <1>6
<1>9. Contents(t) = FlattenSeq([i \in DOMAIN c |-> <<>>]) /\ Said(t, ItemKinds) = FlattenSeq([i \in DOMAIN c |-> <<c[i]>>])
  BY <1>7, <1>8 DEF Contents, Said
<1>10. QED
  BY <1>1, <1>5, <1>9, Ones

LEMMA ItemsNumbered == Numbered(ItemTypes)
BY DEF Numbered, ItemTypes

LEMMA ContentsIs ==
  ASSUME NEW s \in Seq(ItemTypes)
  PROVE  Contents(s) = Spread(ContentOf, s) /\ Spreads(ContentOf, ItemTypes, Nat)
<1>1. \A i \in DOMAIN s : s[i] \in ItemTypes
  BY LenProperties, ElementOfSeq
<1>2. [i \in DOMAIN s |-> ContentOf[s[i]]] = [i \in DOMAIN s |-> s[i].content]
  BY <1>1 DEF ContentOf
<1>3. Spreads(ContentOf, ItemTypes, Nat)
  <2>1. \A t \in ItemTypes : t.content \in Seq(Nat)
    BY DEF ItemTypes
  <2>2. QED
    BY <2>1 DEF Spreads, ContentOf
<1>4. QED
  BY <1>2, <1>3 DEF Contents, Spread

LEMMA ContentsConcat ==
  ASSUME NEW s \in Seq(ItemTypes), NEW t \in Seq(ItemTypes)
  PROVE  Contents(s \o t) = Contents(s) \o Contents(t) /\ Contents(s) \in Seq(Nat)
<1>1. s \o t \in Seq(ItemTypes)
  BY ConcatProperties
<1>2. /\ Contents(s) = Spread(ContentOf, s) /\ Contents(t) = Spread(ContentOf, t)
      /\ Contents(s \o t) = Spread(ContentOf, s \o t) /\ Spreads(ContentOf, ItemTypes, Nat)
  BY <1>1, ContentsIs
<1>3. Spread(ContentOf, s \o t) = Spread(ContentOf, s) \o Spread(ContentOf, t)
  <2>1. PICK F, B : F = ContentOf /\ B = ItemTypes
    OBVIOUS
  <2>2. Spreads(F, B, Nat) /\ s \in Seq(B) /\ t \in Seq(B)
    BY <1>2, <2>1
  <2>3. Spread(F, s \o t) = Spread(F, s) \o Spread(F, t)
    BY <2>2, SpreadConcat
  <2>4. QED
    BY <2>1, <2>3
<1>4. Spread(ContentOf, s) \in Seq(Nat)
  BY <1>2, SpreadTyped
<1>5. QED
  BY <1>2, <1>3, <1>4

LEMMA OneItem ==
  ASSUME NEW x \in ItemTypes
  PROVE  /\ <<x>> \in Seq(ItemTypes) /\ Contents(<<x>>) = x.content
         /\ Said(<<x>>, ItemKinds) = IF x.kind \in ItemKinds THEN <<x.id>> ELSE <<>>
<1>1. PICK s : s = <<x>>
  OBVIOUS
<1>2. s \in Seq(ItemTypes)
  BY <1>1
<1>3. Contents(s) = Spread(ContentOf, s) /\ Spreads(ContentOf, ItemTypes, Nat)
  BY <1>2, ContentsIs
<1>4. Spread(ContentOf, s) = ContentOf[x]
  BY <1>1, <1>3, SpreadShort
<1>5. ContentOf[x] = x.content
  BY DEF ContentOf
<1>6. Said(s, ItemKinds) = IF x.kind \in ItemKinds THEN <<x.id>> ELSE <<>>
  BY <1>1, SaidShort, ItemsNumbered
<1>7. QED
  BY <1>1, <1>2, <1>3, <1>4, <1>5, <1>6

\* The items of each kind of message.
LEMMA ToolItems ==
  ASSUME NEW m \in OpenAITypes, m.role = "tool"
  PROVE  /\ ToItems(m) \in Seq(ItemTypes) /\ Contents(ToItems(m)) = <<>>
         /\ Said(ToItems(m), ItemKinds) = <<m.id>>
<1>1. PICK x : x = Item("function_call_output", <<>>, m.id)
  OBVIOUS
<1>2. ToItems(m) = <<x>>
  BY <1>1 DEF ToItems
<1>3. x \in ItemTypes /\ x.kind \in ItemKinds /\ x.content = <<>> /\ x.id = m.id
  BY <1>1, EmptySeq DEF Item, ItemTypes, OpenAITypes, ItemKinds
<1>4. QED
  BY <1>2, <1>3, OneItem

LEMMA UserItems ==
  ASSUME NEW m \in OpenAITypes, m.role = "user"
  PROVE  /\ ToItems(m) \in Seq(ItemTypes) /\ Contents(ToItems(m)) = m.content
         /\ Said(ToItems(m), ItemKinds) = <<>>
<1>1. PICK x : x = Item("user", m.content, 0)
  OBVIOUS
<1>2. ToItems(m) = <<x>>
  BY <1>1 DEF ToItems
<1>3. x \in ItemTypes /\ x.kind \notin ItemKinds /\ x.content = m.content
  BY <1>1 DEF Item, ItemTypes, OpenAITypes, ItemKinds
<1>4. QED
  BY <1>2, <1>3, OneItem

LEMMA AnswerItems ==
  ASSUME NEW m \in OpenAITypes, m.role = "assistant"
  PROVE  /\ ToItems(m) \in Seq(ItemTypes) /\ Contents(ToItems(m)) = m.content
         /\ Said(ToItems(m), ItemKinds) = m.calls
<1>1. PICK x, s, c : /\ x = Item("assistant", m.content, 0) /\ c = CallItems(m.calls)
                     /\ s = IF m.content = <<>> /\ m.calls # <<>> THEN <<>> ELSE <<x>>
  OBVIOUS
<1>2. ToItems(m) = s \o c
  BY <1>1 DEF ToItems, CallItems
<1>3. m.content \in Seq(Nat) /\ m.calls \in Seq(Nat)
  BY DEF OpenAITypes
<1>4. x \in ItemTypes /\ x.kind \notin ItemKinds /\ x.content = m.content
  BY <1>1, <1>3 DEF Item, ItemTypes, ItemKinds
<1>5. c \in Seq(ItemTypes) /\ Contents(c) = <<>> /\ Said(c, ItemKinds) = m.calls
  BY <1>1, <1>3, CallItemsSay
<1>6. s \in Seq(ItemTypes) /\ Contents(s) = m.content /\ Said(s, ItemKinds) = <<>>
  <2>1. CASE s = <<x>>
    BY <1>4, <2>1, OneItem
  <2>2. CASE s = <<>> /\ m.content = <<>>
    <3>1. PICK e : e = <<>>
      OBVIOUS
    <3>2. e \in Seq(ItemTypes) /\ e \in Seq({}) /\ e \in Seq(Nat)
      BY <3>1, EmptySeq
    <3>3. Said(e, ItemKinds) = <<>>
      BY <3>2, SaidNone DEF Numbered
    <3>4. CallItems(e) = e
      BY <3>1 DEF CallItems
    <3>5. Contents(e) = <<>>
      BY <3>2, <3>4, CallItemsSay
    <3>6. QED
      BY <2>2, <3>1, <3>2, <3>3, <3>5
  <2>3. QED
    BY <1>1, <2>1, <2>2
<1>7. Contents(s \o c) = Contents(s) \o Contents(c)
  BY <1>5, <1>6, ContentsConcat
<1>8. Said(s \o c, ItemKinds) = Said(s, ItemKinds) \o Said(c, ItemKinds)
  <2>1. s \in Seq(ItemTypes) /\ c \in Seq(ItemTypes) /\ Numbered(ItemTypes)
    BY <1>5, <1>6, ItemsNumbered
  <2>2. QED
    BY <2>1, SaidConcat
<1>9. s \o c \in Seq(ItemTypes)
  BY <1>5, <1>6, ConcatProperties
<1>10. m.content \o <<>> = m.content /\ <<>> \o m.calls = m.calls
  BY <1>3, ConcatEmptySeq
<1>11. QED
  BY <1>2, <1>5, <1>6, <1>7, <1>8, <1>9, <1>10

LEMMA ItemsSpread ==
  /\ Spreads(ItemsOf, OpenAITypes, ItemTypes)
  /\ \A s \in Seq(OpenAITypes) : convert_messages_for_responses(s) = Spread(ItemsOf, s)
<1>1. \A m \in OpenAITypes : ToItems(m) \in Seq(ItemTypes)
  <2>1. TAKE m \in OpenAITypes
  <2>2. m.role \in {"user", "assistant", "tool"}
    BY DEF OpenAITypes
  <2>3. QED
    BY <2>2, ToolItems, UserItems, AnswerItems
<1>2. Spreads(ItemsOf, OpenAITypes, ItemTypes)
  BY <1>1 DEF ItemsOf, Spreads
<1>3. ASSUME NEW s \in Seq(OpenAITypes) PROVE convert_messages_for_responses(s) = Spread(ItemsOf, s)
  <2>1. \A i \in DOMAIN s : s[i] \in OpenAITypes
    BY LenProperties, ElementOfSeq
  <2>2. [i \in DOMAIN s |-> ItemsOf[s[i]]] = [i \in DOMAIN s |-> ToItems(s[i])]
    BY <2>1 DEF ItemsOf
  <2>3. QED
    BY <2>2 DEF convert_messages_for_responses, Spread
<1>4. QED
  BY <1>2, <1>3

\* What is in the items of messages: contents and calls.
ContentsIn(s) == Contents(convert_messages_for_responses(s))
CallsIn(s) == Said(convert_messages_for_responses(s), ItemKinds)

\* Items of two lists of messages, one after the other.
LEMMA ItemsConcat ==
  ASSUME NEW s \in Seq(OpenAITypes), NEW t \in Seq(OpenAITypes)
  PROVE  ContentsIn(s \o t) = ContentsIn(s) \o ContentsIn(t) /\ CallsIn(s \o t) = CallsIn(s) \o CallsIn(t)
<1>1. PICK x, y, z : /\ x = convert_messages_for_responses(s) /\ y = convert_messages_for_responses(t)
                     /\ z = convert_messages_for_responses(s \o t)
  OBVIOUS
<1>2. s \o t \in Seq(OpenAITypes)
  BY ConcatProperties
<1>3. x = Spread(ItemsOf, s) /\ y = Spread(ItemsOf, t) /\ z = Spread(ItemsOf, s \o t)
  BY <1>1, <1>2, ItemsSpread
<1>4. x \in Seq(ItemTypes) /\ y \in Seq(ItemTypes)
  BY <1>3, ItemsSpread, SpreadTyped
<1>5. z = x \o y
  <2>1. PICK F, B, S : F = ItemsOf /\ B = OpenAITypes /\ S = ItemTypes
    OBVIOUS
  <2>2. Spreads(F, B, S) /\ s \in Seq(B) /\ t \in Seq(B)
    BY <2>1, ItemsSpread
  <2>3. Spread(F, s \o t) = Spread(F, s) \o Spread(F, t)
    BY <2>2, SpreadConcat
  <2>4. QED
    BY <1>3, <2>1, <2>3
<1>6. Contents(z) = Contents(x) \o Contents(y)
  BY <1>4, <1>5, ContentsConcat
<1>7. Said(z, ItemKinds) = Said(x, ItemKinds) \o Said(y, ItemKinds)
  BY <1>4, <1>5, SaidConcat, ItemsNumbered
<1>8. QED
  BY <1>1, <1>6, <1>7 DEF ContentsIn, CallsIn

LEMMA OneMessage ==
  ASSUME NEW m \in OpenAITypes
  PROVE  /\ ContentsIn(<<m>>) = Contents(ToItems(m)) /\ CallsIn(<<m>>) = Said(ToItems(m), ItemKinds)
         /\ <<m>> \in Seq(OpenAITypes)
<1>1. PICK s : s = <<m>>
  OBVIOUS
<1>2. s \in Seq(OpenAITypes)
  BY <1>1
<1>3. convert_messages_for_responses(s) = ItemsOf[m]
  BY <1>1, <1>2, ItemsSpread, SpreadShort
<1>4. ItemsOf[m] = ToItems(m)
  BY DEF ItemsOf
<1>5. QED
  BY <1>1, <1>2, <1>3, <1>4 DEF ContentsIn, CallsIn

LEMMA NoMessages ==
  /\ convert_messages_for_responses(<<>>) = <<>> /\ ContentsIn(<<>>) = <<>> /\ CallsIn(<<>>) = <<>>
<1>1. PICK e : e = <<>>
  OBVIOUS
<1>2. [i \in DOMAIN e |-> ToItems(e[i])] = <<>>
  BY <1>1
<1>3. convert_messages_for_responses(e) = e
  BY <1>1, <1>2, FlatEmpty DEF convert_messages_for_responses
<1>4. Contents(e) = e
  <2>1. [i \in DOMAIN e |-> e[i].content] = <<>>
    BY <1>1
  <2>2. QED
    BY <1>1, <2>1, FlatEmpty DEF Contents
<1>5. Said(e, ItemKinds) = e
  <2>1. e \in Seq({})
    BY <1>1, EmptySeq
  <2>2. QED
    BY <1>1, <2>1, SaidNone DEF Numbered
<1>6. QED
  BY <1>1, <1>3, <1>4, <1>5 DEF ContentsIn, CallsIn

\* Results say their ids, a user's message its texts, an answer both.
LEMMA ToolsSay ==
  ASSUME NEW t \in Seq(Nat)
  PROVE  ContentsIn(Tools(t)) = <<>> /\ CallsIn(Tools(t)) = t
<1>1. PICK Q, e : e = <<>> /\ Q = {s \in Seq(Nat) : ContentsIn(Tools(s)) = e /\ CallsIn(Tools(s)) = s}
  OBVIOUS
<1>2. <<>> \in Q
  BY <1>1, NoResults, NoMessages, EmptySeq
<1>3. ASSUME NEW s \in Seq(Nat), NEW x \in Nat, s \in Q PROVE Append(s, x) \in Q
  <2>1. PICK m, u, w : m = OpenAI("tool", <<>>, <<>>, x) /\ u = <<m>> /\ w = Tools(s)
    OBVIOUS
  <2>2. m \in OpenAITypes /\ m.role = "tool" /\ m.id = x
    BY <2>1, EmptySeq DEF OpenAI, OpenAITypes
  <2>3. Tools(Append(s, x)) = Append(w, m) /\ w \in Seq(OpenAITypes)
    BY <2>1, ResultsMore
  <2>4. Append(w, m) = w \o u /\ u \in Seq(OpenAITypes)
    BY <2>1, <2>2, <2>3, AppendIsConcat
  <2>5. ContentsIn(w \o u) = ContentsIn(w) \o ContentsIn(u) /\ CallsIn(w \o u) = CallsIn(w) \o CallsIn(u)
    BY <2>3, <2>4, ItemsConcat
  <2>6. ContentsIn(u) = e /\ CallsIn(u) = <<x>>
    BY <1>1, <2>1, <2>2, OneMessage, ToolItems
  <2>7. ContentsIn(w) = e /\ CallsIn(w) = s
    BY <1>1, <1>3, <2>1
  <2>8. e \o e = e /\ s \o <<x>> = Append(s, x) /\ Append(s, x) \in Seq(Nat)
    BY <1>1, ConcatEmptySeq, EmptySeq, AppendIsConcat, AppendProperties
  <2>9. QED
    BY <1>1, <2>3, <2>4, <2>5, <2>6, <2>7, <2>8
<1>4. QED
  BY <1>1, <1>2, <1>3, SeqClosed

LEMMA SpokenSays ==
  ASSUME NEW c \in Seq(Nat)
  PROVE  ContentsIn(Spoken(c)) = c /\ CallsIn(Spoken(c)) = <<>> /\ Spoken(c) \in Seq(OpenAITypes)
<1>1. CASE c = <<>>
  BY <1>1, NoMessages, EmptySeq DEF Spoken
<1>2. CASE c # <<>>
  <2>1. PICK m : m = OpenAI("user", c, <<>>, 0)
    OBVIOUS
  <2>2. m \in OpenAITypes /\ m.role = "user" /\ m.content = c
    BY <2>1, EmptySeq DEF OpenAI, OpenAITypes
  <2>3. Spoken(c) = <<m>>
    BY <1>2, <2>1 DEF Spoken
  <2>4. QED
    BY <2>2, <2>3, OneMessage, UserItems
<1>3. QED
  BY <1>1, <1>2

LEMMA AnswerSays ==
  ASSUME NEW t \in Seq(AnswerBlocks)
  PROVE  /\ ContentsIn(<<Answered(t)>>) = Said(t, SaidKinds) /\ CallsIn(<<Answered(t)>>) = Said(t, CallKinds)
         /\ Answered(t) \in OpenAITypes /\ Answered(t).role = "assistant" /\ Answered(t).calls = Said(t, CallKinds)
         /\ Answered(t).id = 0
<1>1. PICK m, x, y : m = Answered(t) /\ x = Said(t, SaidKinds) /\ y = Said(t, CallKinds)
  OBVIOUS
<1>2. x \in Seq(Nat) /\ y \in Seq(Nat)
  BY <1>1, SaidConcat, BlocksNumbered
<1>3. m = OpenAI("assistant", x, y, 0)
  BY <1>1 DEF Answered
<1>4. m \in OpenAITypes /\ m.role = "assistant" /\ m.content = x /\ m.calls = y /\ m.id = 0
  BY <1>2, <1>3 DEF OpenAI, OpenAITypes
<1>5. QED
  BY <1>1, <1>4, OneMessage, AnswerItems

-----------------------------------------------------------------------------
(* A history is a sequence of such messages.                                *)

AnswerTurns == {Message("assistant", t) : t \in Seq(AnswerBlocks)}
UserTurns == {Message("user", ResultsOf(o) \o t) : o \in Seq(Nat), t \in Seq(UserBlocks)}
Utterances == AnswerTurns \cup UserTurns
ConvertOf == [m \in Utterances |-> ConvertMessage(m)]
BlocksOf == [m \in Utterances |-> m.blocks]
TranslationOf(h) == FlattenSeq([i \in DOMAIN h |-> ConvertMessage(h[i])])
BlocksIn(h) == FlattenSeq([i \in DOMAIN h |-> h[i].blocks])

LEMMA BlocksAreTyped ==
  /\ AnswerBlocks \subseteq BlockTypes /\ UserBlocks \subseteq BlockTypes
  /\ \A t \in Seq(AnswerBlocks) : t \in Seq(BlockTypes)
  /\ \A t \in Seq(UserBlocks) : t \in Seq(BlockTypes)
<1>1. AnswerBlocks \subseteq BlockTypes /\ UserBlocks \subseteq BlockTypes
  BY DEF AnswerBlocks, UserBlocks
<1>2. \A t \in Seq(AnswerBlocks) : t \in Seq(BlockTypes)
  BY <1>1, SeqMonotonic
<1>3. \A t \in Seq(UserBlocks) : t \in Seq(BlockTypes)
  BY <1>1, SeqMonotonic
<1>4. QED
  BY <1>1, <1>2, <1>3

LEMMA UserSays ==
  ASSUME NEW o \in Seq(Nat), NEW t \in Seq(UserBlocks)
  PROVE  /\ Said(ResultsOf(o) \o t, SaidKinds) = Said(t, SaidKinds) /\ Said(ResultsOf(o) \o t, CallKinds) = o
         /\ ResultsOf(o) \o t \in Seq(BlockTypes)
<1>1. PICK r, e : r = ResultsOf(o) /\ e = <<>>
  OBVIOUS
<1>2. r \in Seq(BlockTypes) /\ t \in Seq(BlockTypes) /\ Numbered(BlockTypes)
  BY <1>1, ResultsMore, BlocksAreTyped, BlocksNumbered
<1>3. Said(r, SaidKinds) = e /\ Said(r, CallKinds) = o
  BY <1>1, ResultsSaid
<1>4. /\ Said(r \o t, SaidKinds) = Said(r, SaidKinds) \o Said(t, SaidKinds)
      /\ Said(t, SaidKinds) \in Seq(Nat)
  BY <1>2, SaidConcat
<1>5. Said(r \o t, CallKinds) = Said(r, CallKinds) \o Said(t, CallKinds)
  BY <1>2, SaidConcat
<1>6. Said(t, CallKinds) = e
  <2>1. \A b \in UserBlocks : b.kind \notin CallKinds
    BY DEF UserBlocks, SaidKinds, CallKinds
  <2>2. QED
    BY <1>1, <2>1, SaidNone, BlocksNumbered
<1>7. e \o Said(t, SaidKinds) = Said(t, SaidKinds) /\ o \o e = o
  BY <1>1, <1>4, ConcatEmptySeq
<1>8. r \o t \in Seq(BlockTypes)
  BY <1>2, ConcatProperties
<1>9. QED
  BY <1>1, <1>3, <1>4, <1>5, <1>6, <1>7, <1>8

\* A message of a history says what its translation says.
LEMMA TurnSays ==
  ASSUME NEW m \in Utterances
  PROVE  /\ ConvertMessage(m) \in Seq(OpenAITypes) /\ m.blocks \in Seq(BlockTypes)
         /\ ContentsIn(ConvertMessage(m)) = Said(m.blocks, SaidKinds)
         /\ CallsIn(ConvertMessage(m)) = Said(m.blocks, CallKinds)
<1>1. CASE m \in AnswerTurns
  <2>1. PICK t \in Seq(AnswerBlocks) : m = Message("assistant", t)
    BY <1>1 DEF AnswerTurns
  <2>2. m.blocks = t /\ t \in Seq(BlockTypes)
    BY <2>1, BlocksAreTyped DEF Message
  <2>3. ConvertMessage(m) = <<Answered(t)>>
    BY <2>1, AnswerConverts
  <2>4. <<Answered(t)>> \in Seq(OpenAITypes)
    BY AnswerSays, OneMessage
  <2>5. QED
    BY <2>2, <2>3, <2>4, AnswerSays
<1>2. CASE m \in UserTurns
  <2>1. PICK o \in Seq(Nat), t \in Seq(UserBlocks) : m = Message("user", ResultsOf(o) \o t)
    BY <1>2 DEF UserTurns
  <2>2. PICK x, y, r, e : x = Said(t, SaidKinds) /\ y = Tools(o) /\ r = ResultsOf(o) \o t /\ e = <<>>
    OBVIOUS
  <2>3. m.blocks = r /\ r \in Seq(BlockTypes) /\ Said(r, SaidKinds) = x /\ Said(r, CallKinds) = o
    BY <2>1, <2>2, UserSays DEF Message
  <2>4. x \in Seq(Nat) /\ y \in Seq(OpenAITypes)
    BY <2>2, SaidConcat, BlocksNumbered, ResultsMore
  <2>5. PICK z : z = Spoken(x)
    OBVIOUS
  <2>6. z \in Seq(OpenAITypes) /\ ContentsIn(z) = x /\ CallsIn(z) = e
    BY <2>2, <2>4, <2>5, SpokenSays
  <2>7. ConvertMessage(m) = y \o z
    BY <2>1, <2>2, <2>5, UserConverts
  <2>8. y \o z \in Seq(OpenAITypes)
    BY <2>4, <2>6, ConcatProperties
  <2>9. ContentsIn(y \o z) = ContentsIn(y) \o ContentsIn(z) /\ CallsIn(y \o z) = CallsIn(y) \o CallsIn(z)
    BY <2>4, <2>6, ItemsConcat
  <2>10. ContentsIn(y) = e /\ CallsIn(y) = o
    BY <2>2, ToolsSay
  <2>11. e \o x = x /\ o \o e = o
    BY <2>2, <2>4, ConcatEmptySeq
  <2>12. QED
    BY <2>3, <2>6, <2>7, <2>8, <2>9, <2>10, <2>11
<1>3. QED
  BY <1>1, <1>2 DEF Utterances

LEMMA HistorySpread ==
  /\ Spreads(ConvertOf, Utterances, OpenAITypes) /\ Spreads(BlocksOf, Utterances, BlockTypes)
  /\ \A h \in Seq(Utterances) : TranslationOf(h) = Spread(ConvertOf, h) /\ BlocksIn(h) = Spread(BlocksOf, h)
<1>1. Spreads(ConvertOf, Utterances, OpenAITypes) /\ Spreads(BlocksOf, Utterances, BlockTypes)
  BY TurnSays DEF ConvertOf, BlocksOf, Spreads
<1>2. ASSUME NEW h \in Seq(Utterances) PROVE TranslationOf(h) = Spread(ConvertOf, h) /\ BlocksIn(h) = Spread(BlocksOf, h)
  <2>1. \A i \in DOMAIN h : h[i] \in Utterances
    BY LenProperties, ElementOfSeq
  <2>2. [i \in DOMAIN h |-> ConvertOf[h[i]]] = [i \in DOMAIN h |-> ConvertMessage(h[i])]
    BY <2>1 DEF ConvertOf
  <2>3. [i \in DOMAIN h |-> BlocksOf[h[i]]] = [i \in DOMAIN h |-> h[i].blocks]
    BY <2>1 DEF BlocksOf
  <2>4. QED
    BY <2>2, <2>3 DEF TranslationOf, BlocksIn, Spread
<1>3. QED
  BY <1>1, <1>2

\* One more message, one more translation.
LEMMA HistoryAppend ==
  ASSUME NEW h \in Seq(Utterances), NEW m \in Utterances
  PROVE  /\ TranslationOf(Append(h, m)) = TranslationOf(h) \o ConvertMessage(m)
         /\ BlocksIn(Append(h, m)) = BlocksIn(h) \o m.blocks
         /\ TranslationOf(h) \in Seq(OpenAITypes) /\ BlocksIn(h) \in Seq(BlockTypes)
         /\ Append(h, m) \in Seq(Utterances)
<1>1. PICK g, u : g = Append(h, m) /\ u = <<m>>
  OBVIOUS
<1>2. g = h \o u /\ u \in Seq(Utterances) /\ g \in Seq(Utterances)
  BY <1>1, AppendIsConcat, AppendProperties
<1>3. ASSUME NEW F, NEW S, Spreads(F, Utterances, S)
      PROVE  Spread(F, h \o u) = Spread(F, h) \o F[m] /\ Spread(F, h) \in Seq(S)
  <2>1. Spread(F, h \o u) = Spread(F, h) \o Spread(F, u)
    BY <1>2, <1>3, SpreadConcat
  <2>2. Spread(F, u) = F[m]
    BY <1>1, <1>3, SpreadShort
  <2>3. Spread(F, h) \in Seq(S)
    BY <1>3, SpreadTyped
  <2>4. QED
    BY <2>1, <2>2, <2>3
<1>4. Spread(ConvertOf, h \o u) = Spread(ConvertOf, h) \o ConvertOf[m] /\ Spread(ConvertOf, h) \in Seq(OpenAITypes)
  BY <1>3, HistorySpread
<1>5. Spread(BlocksOf, h \o u) = Spread(BlocksOf, h) \o BlocksOf[m] /\ Spread(BlocksOf, h) \in Seq(BlockTypes)
  BY <1>3, HistorySpread
<1>6. /\ TranslationOf(g) = Spread(ConvertOf, g) /\ BlocksIn(g) = Spread(BlocksOf, g)
      /\ TranslationOf(h) = Spread(ConvertOf, h) /\ BlocksIn(h) = Spread(BlocksOf, h)
  BY <1>2, HistorySpread
<1>7. ConvertOf[m] = ConvertMessage(m) /\ BlocksOf[m] = m.blocks
  BY DEF ConvertOf, BlocksOf
<1>8. QED
  BY <1>1, <1>2, <1>4, <1>5, <1>6, <1>7

\* Nothing said is lost, whatever the history.
LEMMA AllIsSaid ==
  ASSUME NEW g \in Seq(Utterances)
  PROVE  /\ ContentsIn(TranslationOf(g)) = Said(BlocksIn(g), SaidKinds)
         /\ CallsIn(TranslationOf(g)) = Said(BlocksIn(g), CallKinds)
<1>1. PICK Q : Q = {h \in Seq(Utterances) : /\ ContentsIn(TranslationOf(h)) = Said(BlocksIn(h), SaidKinds)
                                       /\ CallsIn(TranslationOf(h)) = Said(BlocksIn(h), CallKinds)}
  OBVIOUS
<1>2. <<>> \in Q
  <2>1. PICK e : e = <<>>
    OBVIOUS
  <2>2. [i \in DOMAIN e |-> ConvertMessage(e[i])] = <<>> /\ [i \in DOMAIN e |-> e[i].blocks] = <<>>
    BY <2>1
  <2>3. TranslationOf(e) = e /\ BlocksIn(e) = e
    BY <2>1, <2>2, FlatEmpty DEF TranslationOf, BlocksIn
  <2>4. e \in Seq({}) /\ e \in Seq(Utterances)
    BY <2>1, EmptySeq
  <2>5. Said(e, SaidKinds) = <<>> /\ Said(e, CallKinds) = <<>>
    BY <2>4, SaidNone DEF Numbered
  <2>6. ContentsIn(e) = <<>> /\ CallsIn(e) = <<>>
    BY <2>1, NoMessages
  <2>7. QED
    BY <1>1, <2>1, <2>3, <2>4, <2>5, <2>6
<1>3. ASSUME NEW h \in Seq(Utterances), NEW m \in Utterances, h \in Q PROVE Append(h, m) \in Q
  <2>1. PICK x, y, b, c : /\ x = TranslationOf(h) /\ y = ConvertMessage(m)
                          /\ b = BlocksIn(h) /\ c = m.blocks
    OBVIOUS
  <2>2. /\ TranslationOf(Append(h, m)) = x \o y /\ BlocksIn(Append(h, m)) = b \o c /\ Append(h, m) \in Seq(Utterances)
        /\ x \in Seq(OpenAITypes) /\ b \in Seq(BlockTypes)
    BY <2>1, HistoryAppend
  <2>3. /\ y \in Seq(OpenAITypes) /\ c \in Seq(BlockTypes)
        /\ ContentsIn(y) = Said(c, SaidKinds) /\ CallsIn(y) = Said(c, CallKinds)
    BY <2>1, TurnSays
  <2>4. ContentsIn(x) = Said(b, SaidKinds) /\ CallsIn(x) = Said(b, CallKinds)
    BY <1>1, <1>3, <2>1
  <2>5. ContentsIn(x \o y) = ContentsIn(x) \o ContentsIn(y) /\ CallsIn(x \o y) = CallsIn(x) \o CallsIn(y)
    BY <2>2, <2>3, ItemsConcat
  <2>6. Said(b \o c, SaidKinds) = Said(b, SaidKinds) \o Said(c, SaidKinds)
    <3>1. b \in Seq(BlockTypes) /\ c \in Seq(BlockTypes) /\ Numbered(BlockTypes)
      BY <2>2, <2>3, BlocksNumbered
    <3>2. QED
      BY <3>1, SaidConcat
  <2>7. Said(b \o c, CallKinds) = Said(b, CallKinds) \o Said(c, CallKinds)
    <3>1. b \in Seq(BlockTypes) /\ c \in Seq(BlockTypes) /\ Numbered(BlockTypes)
      BY <2>2, <2>3, BlocksNumbered
    <3>2. QED
      BY <3>1, SaidConcat
  <2>8. /\ ContentsIn(x \o y) = Said(b \o c, SaidKinds)
        /\ CallsIn(x \o y) = Said(b \o c, CallKinds)
    BY <2>3, <2>4, <2>5, <2>6, <2>7
  <2>9. QED
    BY <1>1, <2>2, <2>8
<1>4. QED
  BY <1>1, <1>2, <1>3, SeqClosed

-----------------------------------------------------------------------------
(* What a backend accepts: a result comes after the message with its call,  *)
(* with only results in between (HasCaller); an open call, one of the last  *)
(* message, has no result yet and every other call has one; ids of calls    *)
(* are at most top, so that new ones are fresh.                             *)

IsResult(T, j, id) == T[j].role = "tool" /\ T[j].id = id
NoResult(T, id) == \A j \in DOMAIN T : ~IsResult(T, j, id)
OneResult(T, id) == \E j \in DOMAIN T : IsResult(T, j, id) /\ \A k \in DOMAIN T : IsResult(T, k, id) => k = j
HasCaller(T, i) ==
  \E j \in 1 .. i - 1 : /\ T[j].role = "assistant" /\ T[i].id \in Range(T[j].calls)
                        /\ \A k \in j + 1 .. i - 1 : T[k].role = "tool"
CallFits(T, open, top, id) ==
  /\ id \in 1 .. top
  /\ id \in open => NoResult(T, id)
  /\ id \notin open => OneResult(T, id)
MessageFits(m, top) ==
  /\ m.role = "tool" => m.id \in 1 .. top
  /\ m.role # "tool" => m.id = 0
  /\ m.calls # <<>> => m.role = "assistant"

Acceptable(T, open, top) ==
  /\ \A i \in DOMAIN T : T[i].role = "tool" => HasCaller(T, i)
  /\ \A i \in DOMAIN T : \A id \in Range(T[i].calls) : CallFits(T, open, top, id)
  /\ \A i \in DOMAIN T : MessageFits(T[i], top)
  /\ open # {} => Len(T) # 0 /\ T[Len(T)].role = "assistant" /\ open = Range(T[Len(T)].calls)

LEMMA NoCalls == Range(<<>>) = {}
BY DEF Range

\* The first messages of a longer sequence have the callers they had.
LEMMA CallerStays ==
  ASSUME NEW n \in Nat, NEW T, NEW U, \A i \in 1 .. n : U[i] = T[i], NEW i \in 1 .. n, HasCaller(T, i)
  PROVE  HasCaller(U, i)
<1>1. PICK j \in 1 .. i - 1 : /\ T[j].role = "assistant" /\ T[i].id \in Range(T[j].calls)
                              /\ \A k \in j + 1 .. i - 1 : T[k].role = "tool"
  BY DEF HasCaller
<1>2. j \in 1 .. n /\ U[j] = T[j] /\ U[i] = T[i]
  OBVIOUS
<1>3. \A k \in j + 1 .. i - 1 : U[k].role = "tool"
  <2>1. TAKE k \in j + 1 .. i - 1
  <2>2. k \in 1 .. n
    BY <1>2
  <2>3. QED
    BY <1>1, <2>2
<1>4. QED
  BY <1>1, <1>2, <1>3 DEF HasCaller

\* One more message that is no result, with calls whose ids are new.
LEMMA AcceptableOne ==
  ASSUME NEW T \in Seq(OpenAITypes), NEW top \in Nat, Acceptable(T, {}, top), NEW m \in OpenAITypes, m.role # "tool",
         m.id = 0, m.calls # <<>> => m.role = "assistant",
         NEW new \in Nat, top <= new, \A id \in Range(m.calls) : id \in top + 1 .. new
  PROVE  Acceptable(Append(T, m), Range(m.calls), new)
<1>1. PICK U, n : U = Append(T, m) /\ n = Len(T)
  OBVIOUS
<1>2. /\ n \in Nat /\ DOMAIN T = 1 .. n /\ DOMAIN U = 1 .. n + 1 /\ Len(U) = n + 1 /\ U[n + 1] = m
      /\ \A i \in 1 .. n : U[i] = T[i]
  BY <1>1, AppendProperties, LenProperties
<1>3. \A i \in 1 .. n + 1 : i \in 1 .. n \/ i = n + 1
  BY <1>2
<1>4. \A i \in DOMAIN U : U[i].role = "tool" => HasCaller(U, i)
  <2>1. SUFFICES ASSUME NEW i \in 1 .. n, U[i].role = "tool" PROVE HasCaller(U, i)
    BY <1>2, <1>3
  <2>2. HasCaller(T, i)
    BY <1>2, <2>1 DEF Acceptable
  <2>3. QED
    BY <1>2, <2>2, CallerStays
<1>5. \A id \in 1 .. top : OneResult(T, id) => OneResult(U, id)
  <2>1. SUFFICES ASSUME NEW id \in 1 .. top, OneResult(T, id) PROVE OneResult(U, id)
    OBVIOUS
  <2>2. PICK j \in DOMAIN T : IsResult(T, j, id) /\ \A k \in DOMAIN T : IsResult(T, k, id) => k = j
    BY <2>1 DEF OneResult
  <2>3. \A k \in DOMAIN U : IsResult(U, k, id) => k \in 1 .. n /\ IsResult(T, k, id)
    BY <1>2, <1>3 DEF IsResult
  <2>4. IsResult(U, j, id)
    BY <1>2, <2>2 DEF IsResult
  <2>5. QED
    BY <1>2, <2>2, <2>3, <2>4 DEF OneResult
<1>6. ASSUME NEW i \in DOMAIN U, NEW id \in Range(U[i].calls) PROVE CallFits(U, Range(m.calls), new, id)
  <2>1. CASE i \in 1 .. n
    <3>1. CallFits(T, {}, top, id)
      BY <1>2, <1>6, <2>1 DEF Acceptable
    <3>2. id \in 1 .. top /\ OneResult(T, id)
      BY <3>1 DEF CallFits
    <3>3. id \notin Range(m.calls) /\ id \in 1 .. new
      BY <3>2
    <3>4. QED
      BY <1>5, <3>2, <3>3 DEF CallFits
  <2>2. CASE i = n + 1
    <3>1. id \in Range(m.calls) /\ id \in 1 .. new /\ id \notin 1 .. top /\ id # 0
      BY <1>2, <1>6, <2>2
    <3>2. NoResult(U, id)
      <4>1. SUFFICES ASSUME NEW j \in DOMAIN U, IsResult(U, j, id) PROVE FALSE
        BY DEF NoResult
      <4>2. j \in 1 .. n /\ T[j].role = "tool" /\ T[j].id = id
        BY <1>2, <1>3, <4>1 DEF IsResult
      <4>3. T[j].id \in 1 .. top
        BY <1>2, <4>2 DEF Acceptable, MessageFits
      <4>4. QED
        BY <3>1, <4>2, <4>3
    <3>3. QED
      BY <3>1, <3>2 DEF CallFits
  <2>3. QED
    BY <1>2, <1>3, <2>1, <2>2
<1>7. \A i \in DOMAIN U : MessageFits(U[i], new)
  <2>1. TAKE i \in DOMAIN U
  <2>2. CASE i \in 1 .. n
    <3>1. MessageFits(T[i], top)
      BY <1>2, <2>2 DEF Acceptable
    <3>2. QED
      BY <1>2, <2>2, <3>1 DEF MessageFits
  <2>3. CASE i = n + 1
    BY <1>2, <2>3 DEF MessageFits
  <2>4. QED
    BY <1>2, <1>3, <2>2, <2>3
<1>8. Range(m.calls) # {} => m.role = "assistant"
  BY NoCalls
<1>9. QED
  BY <1>1, <1>2, <1>4, <1>6, <1>7, <1>8 DEF Acceptable

LEMMA ToolsAre ==
  ASSUME NEW o \in Seq(Nat), NEW a \in 1 .. Len(o)
  PROVE  Tools(o)[a].role = "tool" /\ Tools(o)[a].id = o[a] /\ Tools(o)[a].calls = <<>>
<1>1. DOMAIN o = 1 .. Len(o)
  BY LenProperties
<1>2. Tools(o)[a] = OpenAI("tool", <<>>, <<>>, o[a])
  BY <1>1 DEF Tools
<1>3. QED
  BY <1>2 DEF OpenAI

\* The results of the open calls, each once.
LEMMA AcceptableTools ==
  ASSUME NEW T \in Seq(OpenAITypes), NEW top \in Nat, NEW open, Acceptable(T, open, top),
         NEW o \in Seq(Nat), open = Range(o), \A i, j \in 1 .. Len(o) : o[i] = o[j] => i = j
  PROVE  Acceptable(T \o Tools(o), {}, top)
<1>1. PICK U, n, q, V : U = T \o V /\ n = Len(T) /\ q = Len(o) /\ V = Tools(o)
  OBVIOUS
<1>2. V \in Seq(OpenAITypes) /\ Len(V) = q /\ q \in Nat /\ n \in Nat /\ DOMAIN T = 1 .. n /\ DOMAIN o = 1 .. q
  BY <1>1, ResultsMore, LenProperties
<1>3. U \in Seq(OpenAITypes) /\ Len(U) = n + q /\ \A i \in 1 .. n + q : U[i] = IF i <= n THEN T[i] ELSE V[i - n]
  <2>1. T \in Seq(OpenAITypes) /\ V \in Seq(OpenAITypes)
    BY <1>2
  <2>2. /\ T \o V \in Seq(OpenAITypes) /\ Len(T \o V) = Len(T) + Len(V)
        /\ \A i \in 1 .. Len(T) + Len(V) : (T \o V)[i] = IF i <= Len(T) THEN T[i] ELSE V[i - Len(T)]
    BY <2>1, ConcatProperties
  <2>3. QED
    BY <1>1, <1>2, <2>2
<1>4. DOMAIN U = 1 .. n + q
  BY <1>3, LenProperties
<1>5. \A i \in 1 .. n : U[i] = T[i]
  BY <1>2, <1>3
<1>6. \A a \in 1 .. q : U[n + a] = V[a] /\ n + a \in DOMAIN U
  <2>1. TAKE a \in 1 .. q
  <2>2. PICK i : i = n + a
    OBVIOUS
  <2>3. i \in 1 .. n + q /\ ~(i <= n) /\ i - n = a
    BY <1>2, <2>2
  <2>4. U[i] = V[i - n]
    BY <1>3, <2>3
  <2>5. QED
    BY <1>4, <2>2, <2>3, <2>4
<1>7. \A a \in 1 .. q : U[n + a].role = "tool" /\ U[n + a].id = o[a] /\ U[n + a].calls = <<>>
  BY <1>1, <1>2, <1>6, ToolsAre
<1>8. ASSUME NEW i \in DOMAIN U PROVE i \in 1 .. n \/ \E a \in 1 .. q : i = n + a
  <2>1. i \in 1 .. n \/ (i - n \in 1 .. q /\ i = n + (i - n))
    BY <1>2, <1>4
  <2>2. QED
    BY <2>1
<1>9. \A a \in 1 .. q : o[a] \in open
  BY <1>2 DEF Range
<1>10. \A id \in open : CallFits(T, open, top, id)
  <2>1. SUFFICES ASSUME NEW id \in open PROVE CallFits(T, open, top, id)
    OBVIOUS
  <2>2. n # 0 /\ id \in Range(T[n].calls) /\ n \in 1 .. n
    BY <1>1, <1>2, <2>1 DEF Acceptable
  <2>3. QED
    BY <1>2, <2>2 DEF Acceptable
<1>11. \A i \in DOMAIN U : U[i].role = "tool" => HasCaller(U, i)
  <2>1. SUFFICES ASSUME NEW i \in DOMAIN U, U[i].role = "tool" PROVE HasCaller(U, i)
    OBVIOUS
  <2>2. CASE i \in 1 .. n
    <3>1. HasCaller(T, i)
      BY <1>2, <1>5, <2>1, <2>2 DEF Acceptable
    <3>2. QED
      BY <1>2, <1>5, <2>2, <3>1, CallerStays
  <2>3. ASSUME NEW a \in 1 .. q, i = n + a PROVE HasCaller(U, i)
    <3>1. open # {} /\ o[a] \in open
      BY <1>9
    <3>2. n # 0 /\ T[n].role = "assistant" /\ open = Range(T[n].calls)
      BY <1>1, <3>1 DEF Acceptable
    <3>3. n \in 1 .. i - 1 /\ U[n] = T[n]
      BY <1>2, <1>5, <2>3, <3>2
    <3>4. \A k \in n + 1 .. i - 1 : U[k].role = "tool"
      <4>1. TAKE k \in n + 1 .. i - 1
      <4>2. k - n \in 1 .. q /\ n + (k - n) = k
        BY <1>2, <2>3
      <4>3. QED
        BY <1>7, <4>2
    <3>5. U[i].id = o[a]
      BY <1>7, <2>3
    <3>6. QED
      BY <3>1, <3>2, <3>3, <3>4, <3>5 DEF HasCaller
  <2>4. QED
    BY <1>8, <2>2, <2>3
<1>12. ASSUME NEW i \in DOMAIN U, NEW id \in Range(U[i].calls) PROVE CallFits(U, {}, top, id)
  <2>1. i \in 1 .. n
    <3>1. ASSUME NEW a \in 1 .. q, i = n + a PROVE FALSE
      BY <1>7, <1>12, <3>1, NoCalls
    <3>2. QED
      BY <1>8, <3>1
  <2>2. CallFits(T, open, top, id)
    BY <1>2, <1>5, <1>12, <2>1 DEF Acceptable
  <2>3. OneResult(U, id)
    <3>1. CASE id \in open
      <4>1. PICK a \in 1 .. q : o[a] = id
        BY <1>2, <3>1 DEF Range
      <4>2. IsResult(U, n + a, id) /\ n + a \in DOMAIN U
        BY <1>6, <1>7, <4>1 DEF IsResult
      <4>3. ASSUME NEW k \in DOMAIN U, IsResult(U, k, id) PROVE k = n + a
        <5>1. CASE k \in 1 .. n
          <6>1. NoResult(T, id) /\ IsResult(T, k, id)
            BY <1>5, <2>2, <3>1, <4>3, <5>1 DEF CallFits, IsResult
          <6>2. QED
            BY <1>2, <5>1, <6>1 DEF NoResult
        <5>2. ASSUME NEW b \in 1 .. q, k = n + b PROVE k = n + a
          <6>1. o[b] = id
            BY <1>7, <4>3, <5>2 DEF IsResult
          <6>2. b = a
            BY <1>1, <4>1, <6>1
          <6>3. QED
            BY <5>2, <6>2
        <5>3. QED
          BY <1>8, <5>1, <5>2
      <4>4. QED
        BY <4>2, <4>3 DEF OneResult
    <3>2. CASE id \notin open
      <4>1. PICK j \in DOMAIN T : IsResult(T, j, id) /\ \A k \in DOMAIN T : IsResult(T, k, id) => k = j
        BY <2>2, <3>2 DEF CallFits, OneResult
      <4>2. j \in DOMAIN U /\ IsResult(U, j, id)
        BY <1>2, <1>4, <1>5, <4>1 DEF IsResult
      <4>3. ASSUME NEW k \in DOMAIN U, IsResult(U, k, id) PROVE k = j
        <5>1. CASE k \in 1 .. n
          BY <1>2, <1>5, <4>1, <4>3, <5>1 DEF IsResult
        <5>2. ASSUME NEW b \in 1 .. q, k = n + b PROVE FALSE
          BY <1>7, <1>9, <3>2, <4>3, <5>2 DEF IsResult
        <5>3. QED
          BY <1>8, <5>1, <5>2
      <4>4. QED
        BY <4>2, <4>3 DEF OneResult
    <3>3. QED
      BY <3>1, <3>2
  <2>4. QED
    BY <2>2, <2>3 DEF CallFits
<1>13. \A i \in DOMAIN U : MessageFits(U[i], top)
  <2>1. TAKE i \in DOMAIN U
  <2>2. CASE i \in 1 .. n
    BY <1>2, <1>5, <2>2 DEF Acceptable
  <2>3. ASSUME NEW a \in 1 .. q, i = n + a PROVE MessageFits(U[i], top)
    <3>1. o[a] \in 1 .. top
      BY <1>9, <1>10 DEF CallFits
    <3>2. QED
      BY <1>7, <2>3, <3>1 DEF MessageFits
  <2>4. QED
    BY <1>8, <2>2, <2>3
<1>14. QED
  BY <1>1, <1>11, <1>12, <1>13 DEF Acceptable

LEMMA AcceptableMore ==
  ASSUME NEW T, NEW open, NEW top \in Nat, Acceptable(T, open, top), NEW new \in Nat, top <= new
  PROVE  Acceptable(T, open, new)
<1>1. \A id : CallFits(T, open, top, id) => CallFits(T, open, new, id)
  BY DEF CallFits
<1>2. \A m : MessageFits(m, top) => MessageFits(m, new)
  BY DEF MessageFits
<1>3. QED
  BY <1>1, <1>2 DEF Acceptable

LEMMA AcceptableSpoken ==
  ASSUME NEW T \in Seq(OpenAITypes), NEW top \in Nat, Acceptable(T, {}, top), NEW c \in Seq(Nat)
  PROVE  Acceptable(T \o Spoken(c), {}, top)
<1>1. CASE c = <<>>
  BY <1>1, ConcatEmptySeq DEF Spoken
<1>2. CASE c # <<>>
  <2>1. PICK m : m = OpenAI("user", c, <<>>, 0)
    OBVIOUS
  <2>2. m \in OpenAITypes /\ m.role = "user" /\ m.id = 0 /\ m.calls = <<>>
    BY <2>1, EmptySeq DEF OpenAI, OpenAITypes
  <2>3. Range(m.calls) = {}
    BY <2>2, NoCalls
  <2>4. Acceptable(Append(T, m), Range(m.calls), top)
    BY <2>2, <2>3, AcceptableOne
  <2>5. T \o <<m>> = Append(T, m) /\ Spoken(c) = <<m>>
    BY <1>2, <2>1, <2>2, AppendIsConcat DEF Spoken
  <2>6. QED
    BY <2>3, <2>4, <2>5
<1>3. QED
  BY <1>1, <1>2

\* Such messages satisfy what the runs check.
LEMMA AcceptableFollow ==
  ASSUME NEW top \in Nat, Acceptable(convert_anthropic_to_openai, LastCalls, top),
         convert_anthropic_to_openai \in Seq(OpenAITypes)
  PROVE  ResultsFollowTheirCalls
<1>1. PICK T, open : T = convert_anthropic_to_openai /\ open = LastCalls
  OBVIOUS
<1>2. Acceptable(T, open, top) /\ DOMAIN T = 1 .. Len(T) /\ Len(T) \in Nat
  BY <1>1, LenProperties
<1>3. PICK caller : caller = [i \in DOMAIN T |-> CHOOSE j \in 1 .. i - 1 :
                     T[j].role # "tool" /\ \A k \in j + 1 .. i - 1 : T[k].role = "tool"]
  OBVIOUS
<1>4. ASSUME NEW i \in DOMAIN T, T[i].role = "tool"
      PROVE  T[caller[i]].role = "assistant" /\ T[i].id \in Range(T[caller[i]].calls)
  <2>1. PICK j \in 1 .. i - 1 : /\ T[j].role = "assistant" /\ T[i].id \in Range(T[j].calls)
                                /\ \A k \in j + 1 .. i - 1 : T[k].role = "tool"
    BY <1>2, <1>4 DEF Acceptable, HasCaller
  <2>2. PICK c : c = caller[i]
    OBVIOUS
  <2>3. c \in 1 .. i - 1 /\ T[c].role # "tool" /\ \A k \in c + 1 .. i - 1 : T[k].role = "tool"
    <3>1. T[j].role # "tool"
      BY <2>1
    <3>2. c = CHOOSE x \in 1 .. i - 1 : T[x].role # "tool" /\ \A k \in x + 1 .. i - 1 : T[k].role = "tool"
      BY <1>3, <2>2
    <3>3. QED
      BY <2>1, <3>1, <3>2
  <2>4. i \in Int /\ j \in Int /\ c \in Int
    BY <1>2, <2>3
  <2>5. ~(c < j) /\ ~(j < c)
    <3>1. ASSUME c < j PROVE FALSE
      <4>1. j \in c + 1 .. i - 1
        BY <2>4, <3>1
      <4>2. QED
        BY <2>1, <2>3, <4>1
    <3>2. ASSUME j < c PROVE FALSE
      <4>1. c \in j + 1 .. i - 1
        BY <2>3, <2>4, <3>2
      <4>2. QED
        BY <2>1, <2>3, <4>1
    <3>3. QED
      BY <3>1, <3>2
  <2>6. c = j
    BY <2>4, <2>5
  <2>7. QED
    BY <2>1, <2>2, <2>6
<1>5. ASSUME NEW i \in DOMAIN T, NEW id \in Range(T[i].calls), NEW R, R = {j \in DOMAIN T : T[j].role = "tool" /\ T[j].id = id}
      PROVE  Cardinality(R) = IF id \in open THEN 0 ELSE 1
  <2>1. CallFits(T, open, top, id)
    BY <1>2 DEF Acceptable
  <2>2. CASE id \in open
    <3>1. R = {}
      BY <1>5, <2>1, <2>2 DEF CallFits, NoResult, IsResult
    <3>2. QED
      BY <2>2, <3>1, FS_EmptySet
  <2>3. CASE id \notin open
    <3>1. \E j \in DOMAIN T : R = {j}
      BY <1>5, <2>1, <2>3 DEF CallFits, OneResult, IsResult
    <3>2. QED
      BY <2>3, <3>1, FS_Singleton
  <2>4. QED
    BY <2>2, <2>3
<1>6. QED
  BY <1>1, <1>3, <1>4, <1>5 DEF ResultsFollowTheirCalls

-----------------------------------------------------------------------------
(* The invariant: such a history, whose translation is acceptable.          *)

RequestSpec == RequestInit /\ [][RequestNext]_requestVars

OpenIn(h) ==
  IF h = <<>> THEN {} ELSE {b.id : b \in {c \in Range(Last(h).blocks) : c.kind = "use"}}
TopOf(h) == Len(BlocksIn(h)) + IF OpenIn(h) = {} THEN 0 ELSE 1
HistoryOK(h) ==
  /\ h \in Seq(Utterances) /\ Len(h) <= MaxMessages
  /\ Acceptable(TranslationOf(h), OpenIn(h), TopOf(h))
RequestInv == HistoryOK(history)

LEMMA LastOfAppend ==
  ASSUME NEW S, NEW h \in Seq(S), NEW m \in S
  PROVE  Append(h, m) # <<>> /\ Last(Append(h, m)) = m /\ Len(Append(h, m)) = Len(h) + 1
<1>1. PICK g, n : g = Append(h, m) /\ n = Len(h)
  OBVIOUS
<1>2. n \in Nat /\ Len(g) = n + 1 /\ g[n + 1] = m
  BY <1>1, AppendProperties, LenProperties
<1>3. g # <<>>
  BY <1>2
<1>4. QED
  BY <1>1, <1>2, <1>3 DEF Last

LEMMA LengthsOf ==
  ASSUME NEW h \in Seq(Utterances), NEW m \in Utterances
  PROVE  /\ Len(BlocksIn(h)) \in Nat /\ Len(m.blocks) \in Nat
         /\ Len(BlocksIn(Append(h, m))) = Len(BlocksIn(h)) + Len(m.blocks)
         /\ TopOf(h) \in Nat
<1>1. PICK b, c : b = BlocksIn(h) /\ c = m.blocks
  OBVIOUS
<1>2. b \in Seq(BlockTypes) /\ c \in Seq(BlockTypes) /\ BlocksIn(Append(h, m)) = b \o c
  BY <1>1, HistoryAppend, TurnSays
<1>3. Len(b) \in Nat /\ Len(c) \in Nat /\ Len(b \o c) = Len(b) + Len(c)
  BY <1>2, ConcatProperties, LenProperties
<1>4. QED
  BY <1>1, <1>2, <1>3 DEF TopOf

\* A user's message has no calls.
LEMMA UsersDoNotCall ==
  ASSUME NEW o \in Seq(Nat), NEW t \in Seq(UserBlocks)
  PROVE  {b.id : b \in {c \in Range(ResultsOf(o) \o t) : c.kind = "use"}} = {}
<1>1. PICK N : N = {b \in BlockTypes : b.kind # "use"}
  OBVIOUS
<1>2. t \in Seq(N)
  <2>1. UserBlocks \subseteq N
    BY <1>1 DEF UserBlocks, SaidKinds
  <2>2. QED
    BY <2>1, SeqMonotonic
<1>3. ResultsOf(o) \in Seq(N)
  <2>1. \A x \in Nat : Block("result", x) \in N
    BY <1>1 DEF Block, BlockTypes
  <2>2. DOMAIN o = 1 .. Len(o) /\ Len(o) \in Nat /\ \A i \in DOMAIN o : o[i] \in Nat
    BY LenProperties, ElementOfSeq
  <2>3. ResultsOf(o) \in [1 .. Len(o) -> N]
    BY <2>1, <2>2 DEF ResultsOf
  <2>4. QED
    BY <2>2, <2>3, FunctionIsSeq
<1>4. PICK s : s = ResultsOf(o) \o t
  OBVIOUS
<1>5. s \in Seq(N)
  BY <1>2, <1>3, <1>4, ConcatProperties
<1>6. \A i \in DOMAIN s : s[i] \in N
  BY <1>5, LenProperties, ElementOfSeq
<1>7. \A c \in Range(s) : c.kind # "use"
  BY <1>1, <1>6 DEF Range
<1>8. QED
  BY <1>4, <1>7

LEMMA AfterUser ==
  ASSUME NEW h \in Seq(Utterances), h # <<>>, Last(h).role = "user"
  PROVE  OpenIn(h) = {}
<1>1. Last(h) \in Utterances
  <2>1. Len(h) \in Nat /\ Len(h) # 0 /\ DOMAIN h = 1 .. Len(h)
    BY EmptySeq, LenProperties
  <2>2. h[Len(h)] \in Utterances
    BY <2>1, ElementOfSeq
  <2>3. QED
    BY <2>2 DEF Last
<1>2. PICK m : m = Last(h)
  OBVIOUS
<1>3. PICK o \in Seq(Nat), t \in Seq(UserBlocks) : m = Message("user", ResultsOf(o) \o t)
  <2>1. \A t : Message("assistant", t).role = "assistant"
    BY DEF Message
  <2>2. m \notin AnswerTurns
    BY <1>2, <2>1 DEF AnswerTurns
  <2>3. m \in UserTurns
    BY <1>1, <1>2, <2>2 DEF Utterances
  <2>4. QED
    BY <2>3 DEF UserTurns
<1>4. m.blocks = ResultsOf(o) \o t
  BY <1>3 DEF Message
<1>5. QED
  BY <1>2, <1>4, UsersDoNotCall DEF OpenIn

\* A user's message: the results of all open calls, and what else is said.
LEMMA UserMessage ==
  ASSUME NEW h, HistoryOK(h), Len(h) < MaxMessages, NEW o \in Seq(Nat), OpenIn(h) = Range(o),
         \A i, j \in 1 .. Len(o) : o[i] = o[j] => i = j, NEW t \in Seq(UserBlocks)
  PROVE  HistoryOK(Append(h, Message("user", ResultsOf(o) \o t)))
<1>1. PICK m, g, x, T : /\ m = Message("user", ResultsOf(o) \o t) /\ g = Append(h, m)
                        /\ x = Said(t, SaidKinds) /\ T = TranslationOf(h)
  OBVIOUS
<1>2. h \in Seq(Utterances) /\ Acceptable(T, OpenIn(h), TopOf(h)) /\ Len(h) \in Nat /\ MaxMessages \in Nat
  BY <1>1, LenProperties, ProxyRequestsAssumption DEF HistoryOK
<1>3. m \in Utterances /\ m.blocks = ResultsOf(o) \o t
  <2>1. m \in UserTurns
    BY <1>1 DEF UserTurns
  <2>2. m.blocks = ResultsOf(o) \o t
    BY <1>1 DEF Message
  <2>3. QED
    BY <2>1, <2>2 DEF Utterances
<1>4. T \in Seq(OpenAITypes) /\ g \in Seq(Utterances) /\ TranslationOf(g) = T \o ConvertMessage(m)
  BY <1>1, <1>2, <1>3, HistoryAppend
<1>5. x \in Seq(Nat) /\ Tools(o) \in Seq(OpenAITypes) /\ Spoken(x) \in Seq(OpenAITypes)
  BY <1>1, SaidConcat, BlocksNumbered, ResultsMore, SpokenSays
<1>6. TranslationOf(g) = (T \o Tools(o)) \o Spoken(x)
  <2>1. ConvertMessage(m) = Tools(o) \o Spoken(x)
    BY <1>1, UserConverts
  <2>2. T \o (Tools(o) \o Spoken(x)) = (T \o Tools(o)) \o Spoken(x)
    <3>1. PICK y, z : y = Tools(o) /\ z = Spoken(x)
      OBVIOUS
    <3>2. T \in Seq(OpenAITypes) /\ y \in Seq(OpenAITypes) /\ z \in Seq(OpenAITypes)
      BY <1>4, <1>5, <3>1
    <3>3. (T \o y) \o z = T \o (y \o z)
      BY SMTT(30), <3>2, ConcatAssociative
    <3>4. QED
      BY <3>1, <3>3
  <2>3. QED
    BY <1>4, <2>1, <2>2
<1>7. TopOf(h) \in Nat
  BY <1>2, <1>3, LengthsOf
<1>8. Acceptable(TranslationOf(g), {}, TopOf(h))
  <2>1. PICK open, top : open = OpenIn(h) /\ top = TopOf(h)
    OBVIOUS
  <2>2. Acceptable(T \o Tools(o), {}, top)
    BY <1>2, <1>4, <1>7, <2>1, AcceptableTools
  <2>3. T \o Tools(o) \in Seq(OpenAITypes)
    BY <1>4, <1>5, ConcatProperties
  <2>4. QED
    BY <1>5, <1>6, <1>7, <2>1, <2>2, <2>3, AcceptableSpoken
<1>9. g # <<>> /\ Last(g) = m /\ Len(g) = Len(h) + 1
  BY <1>1, <1>2, <1>3, LastOfAppend
<1>10. OpenIn(g) = {}
  BY <1>3, <1>9, UsersDoNotCall DEF OpenIn
<1>11. TopOf(h) <= TopOf(g) /\ TopOf(g) \in Nat
  <2>1. /\ Len(BlocksIn(h)) \in Nat /\ Len(m.blocks) \in Nat
        /\ Len(BlocksIn(g)) = Len(BlocksIn(h)) + Len(m.blocks)
    BY <1>1, <1>2, <1>3, LengthsOf
  <2>2. TopOf(g) = Len(BlocksIn(h)) + Len(m.blocks)
    BY <1>10, <2>1 DEF TopOf
  <2>3. CASE OpenIn(h) = {}
    <3>1. TopOf(h) = Len(BlocksIn(h))
      BY <2>1, <2>3 DEF TopOf
    <3>2. QED
      BY <2>1, <2>2, <3>1
  <2>4. CASE OpenIn(h) # {}
    <3>1. Len(o) # 0 /\ Len(o) \in Nat
      BY <2>4, EmptySeq, LenProperties, NoCalls
    <3>2. PICK r : r = ResultsOf(o)
      OBVIOUS
    <3>3. r \in Seq(BlockTypes) /\ Len(r) = Len(o) /\ t \in Seq(BlockTypes)
      BY <3>2, ResultsMore, BlocksAreTyped
    <3>4. Len(m.blocks) = Len(o) + Len(t) /\ Len(t) \in Nat
      <4>1. Len(r \o t) = Len(r) + Len(t) /\ Len(t) \in Nat
        <5>1. r \in Seq(BlockTypes) /\ t \in Seq(BlockTypes)
          BY <3>3
        <5>2. Len(r \o t) = Len(r) + Len(t)
          BY <5>1, ConcatProperties
        <5>3. Len(t) \in Nat
          BY <5>1, LenProperties
        <5>4. QED
          BY <5>2, <5>3
      <4>2. QED
        BY <1>3, <3>2, <3>3, <4>1
    <3>5. TopOf(h) = Len(BlocksIn(h)) + 1
      BY <2>1, <2>4 DEF TopOf
    <3>6. QED
      BY <2>1, <2>2, <3>1, <3>4, <3>5
  <2>5. QED
    BY <2>1, <2>2, <2>3, <2>4
<1>12. Acceptable(TranslationOf(g), {}, TopOf(g))
  <2>1. PICK U, none, top, new : /\ U = TranslationOf(g) /\ none = {}
                                 /\ top = TopOf(h) /\ new = TopOf(g)
    OBVIOUS
  <2>2. Acceptable(U, none, top) /\ top \in Nat /\ new \in Nat /\ top <= new
    BY <1>7, <1>8, <1>11, <2>1
  <2>3. Acceptable(U, none, new)
    BY <2>2, AcceptableMore
  <2>4. QED
    BY <2>1, <2>3
<1>13. QED
  <2>1. Len(g) <= MaxMessages
    BY <1>2, <1>9
  <2>2. Acceptable(TranslationOf(g), OpenIn(g), TopOf(g))
    BY <1>10, <1>12
  <2>3. HistoryOK(g)
    BY <1>4, <2>1, <2>2 DEF HistoryOK
  <2>4. QED
    BY <1>1, <2>3

\* An answer, the ids of whose calls are new.
NewlyCalled(lo, hi) == {b \in AnswerBlocks : b.kind = "use" => b.id \in lo .. hi}

LEMMA FreshCalls ==
  ASSUME NEW lo \in Nat, NEW hi \in Nat, NEW t \in Seq(NewlyCalled(lo, hi))
  PROVE  /\ t \in Seq(AnswerBlocks) /\ \A id \in Range(Said(t, CallKinds)) : id \in lo .. hi
         /\ Range(Said(t, CallKinds)) = {b.id : b \in {c \in Range(t) : c.kind = "use"}}
<1>1. t \in Seq(AnswerBlocks)
  <2>1. NewlyCalled(lo, hi) \subseteq AnswerBlocks
    BY DEF NewlyCalled
  <2>2. QED
    BY <2>1, SeqMonotonic
<1>2. Range(Said(t, CallKinds)) = {b.id : b \in {c \in Range(t) : c.kind \in CallKinds}}
  BY <1>1, SaidRange, BlocksNumbered
<1>3. \A c \in Range(t) : c \in NewlyCalled(lo, hi)
  <2>1. \A i \in DOMAIN t : t[i] \in NewlyCalled(lo, hi)
    BY LenProperties, ElementOfSeq
  <2>2. QED
    BY <2>1 DEF Range
<1>4. \A c \in Range(t) : (c.kind \in CallKinds <=> c.kind = "use") /\ (c.kind = "use" => c.id \in lo .. hi)
  BY <1>3 DEF NewlyCalled, AnswerBlocks, CallKinds
<1>5. {c \in Range(t) : c.kind \in CallKinds} = {c \in Range(t) : c.kind = "use"}
  BY <1>4
<1>6. QED
  BY <1>1, <1>2, <1>4, <1>5

LEMMA AnswerMessage ==
  ASSUME NEW h, HistoryOK(h), Len(h) < MaxMessages, OpenIn(h) = {}, NEW hi \in Nat,
         NEW t \in Seq(NewlyCalled(Len(BlocksIn(h)) + 1, hi)), hi <= Len(BlocksIn(h)) + Len(t) + 1
  PROVE  HistoryOK(Append(h, Message("assistant", t)))
<1>1. PICK m, g, a, n : m = Message("assistant", t) /\ g = Append(h, m) /\ a = Answered(t) /\ n = Len(BlocksIn(h))
  OBVIOUS
<1>2. PICK T, calls : T = TranslationOf(h) /\ calls = Range(Said(t, CallKinds))
  OBVIOUS
<1>3. h \in Seq(Utterances) /\ Acceptable(T, {}, TopOf(h)) /\ Len(h) \in Nat /\ MaxMessages \in Nat
  BY <1>2, LenProperties, ProxyRequestsAssumption DEF HistoryOK
<1>4. n \in Nat
  <2>1. Message("assistant", <<>>) \in Utterances
    BY EmptySeq DEF Utterances, AnswerTurns
  <2>2. QED
    BY <1>1, <1>3, <2>1, LengthsOf
<1>5. /\ t \in Seq(AnswerBlocks) /\ \A id \in calls : id \in n + 1 .. hi
      /\ calls = {b.id : b \in {c \in Range(t) : c.kind = "use"}}
  BY <1>1, <1>2, <1>4, FreshCalls
<1>6. m \in Utterances /\ m.blocks = t
  BY <1>1, <1>5 DEF Utterances, AnswerTurns, Message
<1>7. /\ T \in Seq(OpenAITypes) /\ g \in Seq(Utterances) /\ TranslationOf(g) = T \o ConvertMessage(m)
      /\ Len(BlocksIn(g)) = n + Len(t) /\ Len(t) \in Nat
  BY <1>1, <1>2, <1>3, <1>6, HistoryAppend, LengthsOf
<1>8. a \in OpenAITypes /\ a.role = "assistant" /\ a.id = 0 /\ Range(a.calls) = calls
  BY <1>1, <1>2, <1>5, AnswerSays
<1>9. TranslationOf(g) = Append(T, a)
  <2>1. ConvertMessage(m) = <<a>>
    BY <1>1, <1>5, AnswerConverts
  <2>2. T \o <<a>> = Append(T, a)
    BY <1>7, <1>8, AppendIsConcat
  <2>3. QED
    BY <1>7, <2>1, <2>2
<1>10. g # <<>> /\ Last(g) = m /\ Len(g) = Len(h) + 1
  BY <1>1, <1>3, <1>6, LastOfAppend
<1>11. OpenIn(g) = calls
  BY <1>5, <1>6, <1>10 DEF OpenIn
<1>12. TopOf(h) = n /\ TopOf(g) \in Nat /\ n <= TopOf(g) /\ (calls # {} => hi <= TopOf(g))
  BY <1>1, <1>4, <1>7, <1>11 DEF TopOf
<1>13. \A id \in calls : id \in n + 1 .. TopOf(g)
  BY <1>4, <1>5, <1>12
<1>14. Acceptable(Append(T, a), calls, TopOf(g))
  <2>1. PICK new : new = TopOf(g)
    OBVIOUS
  <2>2. Acceptable(T, {}, n) /\ n <= new /\ new \in Nat /\ \A id \in Range(a.calls) : id \in n + 1 .. new
    BY <1>3, <1>8, <1>12, <1>13, <2>1
  <2>3. a.role # "tool" /\ (a.calls # <<>> => a.role = "assistant")
    BY <1>8
  <2>4. Acceptable(Append(T, a), Range(a.calls), new)
    BY <1>4, <1>7, <1>8, <2>2, <2>3, AcceptableOne
  <2>5. QED
    BY <1>8, <2>1, <2>4
<1>15. QED
  <2>1. Len(g) <= MaxMessages
    BY <1>3, <1>10
  <2>2. Acceptable(TranslationOf(g), OpenIn(g), TopOf(g))
    BY <1>9, <1>11, <1>14
  <2>3. HistoryOK(g)
    BY <1>7, <2>1, <2>2 DEF HistoryOK
  <2>4. QED
    BY <1>1, <2>3

-----------------------------------------------------------------------------
(* Each turn appends such a message.                                        *)

LEMMA HereIs ==
  /\ LastCalls = OpenIn(history) /\ NumBlocks = Len(BlocksIn(history))
  /\ convert_anthropic_to_openai = TranslationOf(history) /\ Blocks = BlocksIn(history)
BY DEF LastCalls, OpenIn, NumBlocks, Blocks, BlocksIn, convert_anthropic_to_openai, TranslationOf

LEMMA NumBlocksIsNumber == RequestInv => NumBlocks \in Nat
<1>1. SUFFICES ASSUME RequestInv PROVE NumBlocks \in Nat
  OBVIOUS
<1>2. Message("assistant", <<>>) \in Utterances
  BY EmptySeq DEF Utterances, AnswerTurns
<1>3. QED
  BY <1>1, <1>2, HereIs, LengthsOf DEF RequestInv, HistoryOK

LEMMA SpokenBlocks ==
  ASSUME NEW kinds \in UserKinds, NEW n \in Nat
  PROVE  [i \in DOMAIN kinds |-> Block(kinds[i], n + i)] \in Seq(UserBlocks)
<1>1. PICK q \in 0 .. 2 : kinds \in [1 .. q -> {"text", "image"}]
  BY DEF UserKinds
<1>2. \A i \in 1 .. q : Block(kinds[i], n + i) \in UserBlocks
  <2>1. TAKE i \in 1 .. q
  <2>2. kinds[i] \in {"text", "image"} /\ n + i \in Nat
    BY <1>1
  <2>3. QED
    BY <2>2 DEF Block, UserBlocks, BlockTypes, SaidKinds
<1>3. [i \in DOMAIN kinds |-> Block(kinds[i], n + i)] \in [1 .. q -> UserBlocks] /\ q \in Nat
  BY <1>1, <1>2
<1>4. QED
  BY <1>3, FunctionIsSeq

LEMMA UserTurnStep ==
  ASSUME RequestInv, NEW kinds \in UserKinds, UserTurn(kinds)
  PROVE  RequestInv'
<1>1. PICK t, e : t = [i \in DOMAIN kinds |-> Block(kinds[i], NumBlocks + i)] /\ e = <<>>
  OBVIOUS
<1>2. t \in Seq(UserBlocks)
  BY <1>1, NumBlocksIsNumber, SpokenBlocks
<1>3. HistoryOK(history) /\ Len(history) < MaxMessages /\ OpenIn(history) = {}
  BY HereIs DEF RequestInv, UserTurn
<1>4. e \in Seq(Nat) /\ Range(e) = {} /\ Len(e) = 0 /\ ResultsOf(e) = <<>>
  BY <1>1, EmptySeq, NoCalls, NoResults
<1>5. ResultsOf(e) \o t = t
  BY <1>2, <1>4, ConcatEmptySeq
<1>6. history' = Append(history, Message("user", t))
  BY <1>1 DEF UserTurn
<1>7. HistoryOK(Append(history, Message("user", ResultsOf(e) \o t)))
  <2>1. \A i, j \in 1 .. Len(e) : e[i] = e[j] => i = j
    BY <1>4
  <2>2. QED
    BY <1>2, <1>3, <1>4, <2>1, UserMessage
<1>8. HistoryOK(history')
  BY <1>5, <1>6, <1>7
<1>9. QED
  BY <1>8 DEF RequestInv, HistoryOK

\* An order of the open calls has each of them once.
LEMMA OrdersAre ==
  ASSUME NEW S, IsFiniteSet(S), NEW order \in SetToSeqs(S)
  PROVE  /\ order \in Seq(S) /\ Range(order) = S
         /\ \A i, j \in 1 .. Len(order) : order[i] = order[j] => i = j
<1>1. PICK n : n = Cardinality(S)
  OBVIOUS
<1>2. n \in Nat
  BY <1>1, FS_CardinalityType
<1>3. order \in [1 .. n -> S] /\ \A i, j \in 1 .. n : i # j => order[i] # order[j]
  BY <1>1 DEF SetToSeqs
<1>4. order \in Seq(S) /\ Len(order) = n
  BY <1>2, <1>3, FunctionIsSeq
<1>5. order \in Injection(1 .. n, S)
  BY <1>3 DEF Injection, IsInjective
<1>6. IsFiniteSet(1 .. n) /\ Cardinality(1 .. n) = n
  BY <1>2, FS_Interval, 1 \in Int
<1>7. order \in Surjection(1 .. n, S)
  BY <1>1, <1>5, <1>6, FS_Injection
<1>8. Range(order) = S
  BY <1>3, <1>7 DEF Surjection, Range
<1>9. QED
  BY <1>3, <1>4, <1>8

LEMMA OpenIsFinite ==
  ASSUME NEW h \in Seq(Utterances)
  PROVE  IsFiniteSet(OpenIn(h)) /\ OpenIn(h) \subseteq Nat
<1>1. CASE h = <<>>
  BY <1>1, FS_EmptySet DEF OpenIn
<1>2. CASE h # <<>>
  <2>1. PICK m : m = Last(h)
    OBVIOUS
  <2>2. m \in Utterances
    <3>1. Len(h) \in Nat /\ Len(h) # 0 /\ DOMAIN h = 1 .. Len(h)
      BY <1>2, EmptySeq, LenProperties
    <3>2. h[Len(h)] \in Utterances
      BY <3>1, ElementOfSeq
    <3>3. QED
      BY <2>1, <3>2 DEF Last
  <2>3. PICK b : b = m.blocks
    OBVIOUS
  <2>4. b \in Seq(BlockTypes)
    BY <2>2, <2>3, TurnSays
  <2>5. DOMAIN b = 1 .. Len(b) /\ Len(b) \in Nat /\ \A i \in DOMAIN b : b[i] \in BlockTypes
    BY <2>4, LenProperties, ElementOfSeq
  <2>6. IsFiniteSet(DOMAIN b)
    BY <2>5, FS_Interval, 1 \in Int
  <2>7. PICK D, I, f : D = DOMAIN b /\ I = {b[i].id : i \in DOMAIN b} /\ f = [i \in DOMAIN b |-> b[i].id]
    OBVIOUS
  <2>8. IsFiniteSet(I)
    <3>1. f \in Surjection(D, I)
      BY <2>7 DEF Surjection
    <3>2. QED
      BY <2>6, <2>7, <3>1, FS_Surjection
  <2>9. OpenIn(h) \subseteq I /\ I \subseteq Nat
    <3>1. OpenIn(h) \subseteq I
      BY <1>2, <2>1, <2>3, <2>7 DEF OpenIn, Range
    <3>2. I \subseteq Nat
      BY <2>5, <2>7 DEF BlockTypes
    <3>3. QED
      BY <3>1, <3>2
  <2>10. QED
    BY <2>8, <2>9, FS_Subset
<1>3. QED
  BY <1>1, <1>2

LEMMA ToolResultsStep ==
  ASSUME RequestInv, NEW kinds \in UserKinds, NEW order \in SetToSeqs(LastCalls), ToolResults(order, kinds)
  PROVE  RequestInv'
<1>1. PICK t : t = [i \in DOMAIN kinds |-> Block(kinds[i], NumBlocks + i)]
  OBVIOUS
<1>2. t \in Seq(UserBlocks)
  BY <1>1, NumBlocksIsNumber, SpokenBlocks
<1>3. HistoryOK(history) /\ Len(history) < MaxMessages /\ LastCalls = OpenIn(history)
  BY HereIs DEF RequestInv, ToolResults
<1>4. IsFiniteSet(LastCalls) /\ LastCalls \subseteq Nat
  BY <1>3, OpenIsFinite DEF HistoryOK
<1>5. order \in Seq(LastCalls) /\ Range(order) = LastCalls /\ \A i, j \in 1 .. Len(order) : order[i] = order[j] => i = j
  BY <1>4, OrdersAre
<1>6. order \in Seq(Nat)
  BY <1>4, <1>5, SeqMonotonic
<1>7. history' = Append(history, Message("user", ResultsOf(order) \o t))
  BY <1>1 DEF ToolResults, ResultsOf
<1>8. HistoryOK(Append(history, Message("user", ResultsOf(order) \o t)))
  BY <1>2, <1>3, <1>5, <1>6, UserMessage
<1>9. QED
  BY <1>7, <1>8 DEF RequestInv, HistoryOK

LEMMA AnswerTurnStep ==
  ASSUME RequestInv, NEW text \in BOOLEAN, NEW calls \in 0 .. 2, AnswerTurn(text, calls)
  PROVE  RequestInv'
<1>1. PICK n, a, c : /\ n = NumBlocks /\ a = (IF text THEN NumBlocks + 1 ELSE 0)
                     /\ c = [i \in 1 .. calls |-> NumBlocks + 1 + i]
  OBVIOUS
<1>2. PICK hi, F : hi = n + calls + 1 /\ F = NewlyCalled(n + 1, hi)
  OBVIOUS
<1>3. n \in Nat /\ hi \in Nat /\ calls \in Nat /\ n = Len(BlocksIn(history))
  BY <1>1, <1>2, NumBlocksIsNumber, HereIs
<1>4. PICK s, u : /\ s = (IF a = 0 THEN <<>> ELSE <<Block("text", a)>>)
                  /\ u = [i \in DOMAIN c |-> Block("use", c[i])]
  OBVIOUS
<1>5. s \in Seq(F)
  <2>1. CASE a = 0
    BY <1>4, <2>1, EmptySeq
  <2>2. CASE a # 0
    <3>1. a \in Nat
      BY <1>1, <1>3
    <3>2. Block("text", a) \in F
      BY <1>2, <3>1 DEF NewlyCalled, Block, AnswerBlocks, BlockTypes
    <3>3. QED
      BY <1>4, <2>2, <3>2
  <2>3. QED
    BY <2>1, <2>2
<1>6. u \in Seq(F) /\ Len(u) = calls
  <2>1. \A i \in 1 .. calls : c[i] \in n + 1 .. hi /\ c[i] \in Nat
    BY <1>1, <1>2, <1>3
  <2>2. \A x \in Nat : x \in n + 1 .. hi => Block("use", x) \in F
    BY <1>2 DEF NewlyCalled, Block, AnswerBlocks, BlockTypes
  <2>3. u \in [1 .. calls -> F]
    BY <1>1, <1>4, <2>1, <2>2
  <2>4. QED
    BY <1>3, <2>3, FunctionIsSeq
<1>7. PICK t : t = s \o u
  OBVIOUS
<1>8. t \in Seq(F) /\ Len(t) = Len(s) + calls /\ Len(s) \in Nat
  BY <1>5, <1>6, <1>7, ConcatProperties, LenProperties
<1>9. hi <= n + Len(t) + 1
  BY <1>2, <1>3, <1>8
<1>10. history' = Append(history, Message("assistant", t))
  BY <1>1, <1>4, <1>7 DEF AnswerTurn, AnthropicBlocks
<1>11. HistoryOK(history) /\ Len(history) < MaxMessages /\ OpenIn(history) = {}
  BY AfterUser DEF RequestInv, AnswerTurn, HistoryOK
<1>12. HistoryOK(Append(history, Message("assistant", t)))
  BY <1>2, <1>3, <1>8, <1>9, <1>11, AnswerMessage
<1>13. QED
  BY <1>10, <1>12 DEF RequestInv, HistoryOK

LEMMA ForeignTurnStep ==
  ASSUME RequestInv, NEW kinds \in ForeignKinds, ForeignTurn(kinds)
  PROVE  RequestInv'
<1>1. PICK q \in 1 .. 3 : kinds \in [1 .. q -> {"thinking", "text", "use"}]
  BY DEF ForeignKinds
<1>2. PICK n, hi, F : n = NumBlocks /\ hi = n + q /\ F = NewlyCalled(n + 1, hi)
  OBVIOUS
<1>3. n \in Nat /\ hi \in Nat /\ q \in Nat /\ n = Len(BlocksIn(history))
  BY <1>2, NumBlocksIsNumber, HereIs
<1>4. PICK t : t = [i \in DOMAIN kinds |-> Block(kinds[i], n + i)]
  OBVIOUS
<1>5. t \in Seq(F) /\ Len(t) = q
  <2>1. \A i \in 1 .. q : Block(kinds[i], n + i) \in F
    <3>1. TAKE i \in 1 .. q
    <3>2. kinds[i] \in {"thinking", "text", "use"} /\ n + i \in n + 1 .. hi /\ n + i \in Nat
      BY <1>1, <1>2, <1>3
    <3>3. QED
      BY <1>2, <3>2 DEF NewlyCalled, Block, AnswerBlocks, BlockTypes
  <2>2. t \in [1 .. q -> F]
    BY <1>1, <1>4, <2>1
  <2>3. QED
    BY <1>3, <2>2, FunctionIsSeq
<1>6. hi <= n + Len(t) + 1
  BY <1>2, <1>3, <1>5
<1>7. history' = Append(history, Message("assistant", t))
  BY <1>2, <1>4 DEF ForeignTurn
<1>8. HistoryOK(history) /\ Len(history) < MaxMessages /\ OpenIn(history) = {}
  BY AfterUser DEF RequestInv, ForeignTurn, HistoryOK
<1>9. HistoryOK(Append(history, Message("assistant", t)))
  BY <1>2, <1>3, <1>5, <1>6, <1>8, AnswerMessage
<1>10. QED
  BY <1>7, <1>9 DEF RequestInv, HistoryOK

LEMMA RequestStarts == RequestInit => RequestInv
<1>1. SUFFICES ASSUME history = <<>> PROVE RequestInv
  BY DEF RequestInit
<1>2. PICK e : e = <<>>
  OBVIOUS
<1>3. [i \in DOMAIN e |-> ConvertMessage(e[i])] = <<>>
  BY <1>2
<1>4. TranslationOf(e) = e
  BY <1>2, <1>3, FlatEmpty DEF TranslationOf
<1>5. OpenIn(e) = {} /\ DOMAIN e = {}
  BY <1>2 DEF OpenIn
<1>6. Acceptable(e, {}, TopOf(e))
  BY <1>5 DEF Acceptable
<1>7. e \in Seq(Utterances) /\ Len(e) <= MaxMessages
  BY <1>2, EmptySeq, ProxyRequestsAssumption
<1>8. QED
  BY <1>1, <1>2, <1>4, <1>5, <1>6, <1>7 DEF RequestInv, HistoryOK

\* Histories of any length, of messages of any number of blocks, are
\* acceptable to a backend after every turn.
THEOREM RequestInvariance == RequestSpec => []RequestInv
<1>1. RequestInit => RequestInv
  BY RequestStarts
<1>2. RequestInv /\ [RequestNext]_requestVars => RequestInv'
  <2>1. SUFFICES ASSUME RequestInv, [RequestNext]_requestVars PROVE RequestInv'
    OBVIOUS
  <2>2. CASE \E kinds \in UserKinds : UserTurn(kinds)
    BY <2>1, <2>2, UserTurnStep
  <2>3. CASE \E kinds \in UserKinds : \E order \in SetToSeqs(LastCalls) : ToolResults(order, kinds)
    BY <2>1, <2>3, ToolResultsStep
  <2>4. CASE \E text \in BOOLEAN, calls \in 0 .. 2 : AnswerTurn(text, calls)
    BY <2>1, <2>4, AnswerTurnStep
  <2>5. CASE \E kinds \in ForeignKinds : ForeignTurn(kinds)
    BY <2>1, <2>5, ForeignTurnStep
  <2>6. CASE UNCHANGED requestVars
    <3>1. history' = history
      BY <2>6 DEF requestVars
    <3>2. QED
      BY <2>1, <3>1 DEF RequestInv, HistoryOK
  <2>7. QED
    BY <2>1, <2>2, <2>3, <2>4, <2>5, <2>6 DEF RequestNext
<1>3. QED
  BY <1>1, <1>2, PTL DEF RequestSpec

LEMMA TranslationIsTyped == RequestInv => RequestTypeOK
<1>1. SUFFICES ASSUME RequestInv PROVE RequestTypeOK
  OBVIOUS
<1>2. PICK T, top : T = convert_anthropic_to_openai /\ top = TopOf(history)
  OBVIOUS
<1>3. history \in Seq(Utterances) /\ Acceptable(T, LastCalls, top) /\ Len(history) <= MaxMessages
  BY <1>1, <1>2, HereIs DEF RequestInv, HistoryOK
<1>4. T \in Seq(OpenAITypes)
  <2>1. Message("assistant", <<>>) \in Utterances
    BY EmptySeq DEF Utterances, AnswerTurns
  <2>2. QED
    BY <1>2, <1>3, <2>1, HereIs, HistoryAppend
<1>5. \A i \in DOMAIN T : T[i] \in OpenAITypes /\ MessageFits(T[i], top)
  BY <1>3, <1>4, LenProperties, ElementOfSeq DEF Acceptable
<1>6. \A m \in Range(T) : m \in OpenAITypes /\ MessageFits(m, top)
  BY <1>5 DEF Range
<1>7. \A m \in Range(T) : /\ m.role \in {"user", "assistant", "tool"} /\ (m.id # 0 <=> m.role = "tool")
                          /\ (m.calls # <<>> => m.role = "assistant")
  <2>1. TAKE m \in Range(T)
  <2>2. m \in OpenAITypes /\ MessageFits(m, top)
    BY <1>6
  <2>3. m.role \in {"user", "assistant", "tool"}
    BY <2>2 DEF OpenAITypes
  <2>4. CASE m.role = "tool"
    BY <2>2, <2>3, <2>4 DEF MessageFits
  <2>5. CASE m.role # "tool"
    BY <2>2, <2>3, <2>5 DEF MessageFits
  <2>6. QED
    BY <2>4, <2>5
<1>8. QED
  BY <1>2, <1>3, <1>7 DEF RequestTypeOK

\* However users, backends and other models take turns, the results of tool calls follow the message that
\* made them, each call answered has one, and texts, images, calls and results reach the Responses API as
\* they were said (convert_anthropic_to_openai, convert_messages_for_responses).
THEOREM HistoryTranslated == RequestSpec => []HistoryIsTranslated
<1>1. ASSUME RequestInv PROVE HistoryIsTranslated
  <2>1. history \in Seq(Utterances) /\ TopOf(history) \in Nat
    <3>1. Message("assistant", <<>>) \in Utterances
      BY EmptySeq DEF Utterances, AnswerTurns
    <3>2. history \in Seq(Utterances)
      BY <1>1 DEF RequestInv, HistoryOK
    <3>3. QED
      BY <3>1, <3>2, LengthsOf
  <2>2. PICK T : T = convert_anthropic_to_openai
    OBVIOUS
  <2>3. T \in Seq(OpenAITypes)
    <3>1. Message("assistant", <<>>) \in Utterances
      BY EmptySeq DEF Utterances, AnswerTurns
    <3>2. QED
      BY <2>1, <2>2, <3>1, HereIs, HistoryAppend
  <2>4. ResultsFollowTheirCalls
    <3>1. Acceptable(convert_anthropic_to_openai, LastCalls, TopOf(history))
      BY <1>1, HereIs DEF RequestInv, HistoryOK
    <3>2. QED
      BY <2>1, <2>2, <2>3, <3>1, AcceptableFollow
  <2>5. NothingSaidIsLost
    <3>1. ContentsIn(T) = Said(Blocks, SaidKinds) /\ CallsIn(T) = Said(Blocks, CallKinds)
      BY <2>1, <2>2, AllIsSaid, HereIs
    <3>2. QED
      BY <2>2, <3>1 DEF NothingSaidIsLost, ContentsIn, CallsIn, Contents, SaidKinds, CallKinds, ItemKinds
  <2>6. QED
    BY <1>1, <2>4, <2>5, TranslationIsTyped DEF HistoryIsTranslated
<1>2. QED
  BY <1>1, RequestInvariance, PTL
=============================================================================
