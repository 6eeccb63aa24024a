-------------------------- MODULE ProxyLifecycleProofs --------------------------
(***************************************************************************)
(* Proofs about ProxyLifecycle for any set of commands, proxies, ports,    *)
(* templates and command lines, and any bounds.                            *)
(***************************************************************************)
EXTENDS ProxyLifecycle, WellFoundedInduction, TLAPS

\* The parts of the inductive invariant that no run checks by themselves.

\* Where a command is, by what it has settled.
Pruning == {"prune", "rmdirs"}
Looking == {"read", "reuse", "adopt", "persist"}
Installing == {"write", "register"}
Starting == {"spawn", "poll", "probe", "mark", "fail", "unwrite", "unregister"}
Waiting == {"poll", "probe", "mark", "fail"}
Stopping == {"kill", "detach", "clear"}
Deleting == {"remove", "rmdir", "killDeleted"}
Points == {"idle", "ended"} \cup Pruning \cup Looking \cup Installing \cup Starting
            \cup Stopping \cup Deleting

Locals == [template : Templates \cup {None}, me : Ids \cup {None}, port : Ports \cup {None},
           child : Pids \cup {None}, seen : Entry \cup {None},
           cands : SUBSET (Ids \X Ports), doomed : SUBSET Ids, kill : BOOLEAN]

\* A server that was started as proxy i, with this template and port.
Names(p, i, t, n) ==
    server[p] # None /\ server[p].id = i /\ server[p].template = t /\ server[p].port = n

\* What a command has settled when it gets somewhere.
Settles(c) ==
    /\ pc[c] \notin {"idle", "ended"} => req[c] # None
    /\ pc[c] \in Pruning => req[c].op \in {"create", "start", "clean"}
    /\ pc[c] \in Pruning /\ req[c].op # "clean" => loc[c].template # None
    /\ pc[c] \in Pruning \cup Looking \cup Installing /\ req[c].op \in {"configure", "start"} =>
          req[c].name # None
    /\ pc[c] \in Looking => req[c].op \in {"create", "start"} /\ loc[c].template # None
    /\ pc[c] \in {"reuse", "adopt", "persist"} \cup Installing \cup Starting \cup Stopping \cup Deleting =>
          loc[c].me # None
    /\ pc[c] \in Installing \cup Starting => loc[c].template # None /\ loc[c].port # None
    /\ pc[c] \in Installing => req[c].op \in {"create", "configure", "start"}
    /\ pc[c] \in Starting => req[c].op \in {"create", "start"}
    /\ pc[c] \in Stopping \cup {"remove", "killDeleted"} => loc[c].seen # None
    /\ pc[c] = "rmdir" /\ loc[c].kill => loc[c].seen # None

PlacesOK ==
    /\ pc \in [Calls -> Points] /\ loc \in [Calls -> Locals]
    /\ DOMAIN req = Calls /\ manual \in Nat /\ faults \in Nat
    /\ \A c \in Calls : Settles(c)

\* What a command remembers of servers stays true: they keep their identity.
LocalsNameServers ==
    \A c \in Calls :
        /\ pc[c] \in Waiting =>
              loc[c].child # None /\ Names(loc[c].child, loc[c].me, loc[c].template, loc[c].port)
        /\ pc[c] \in Stopping \cup Deleting /\ loc[c].seen # None /\ loc[c].seen.pid # None =>
              Names(loc[c].seen.pid, loc[c].me, loc[c].seen.template, loc[c].seen.port)

Starts(p) == server[p] # None /\ server[p].phase \in {"booting", "valid"}

Unshared(c) == \A i \in Registered \ {loc[c].me} : ~Routable(i, loc[c].seen.port)

\* A command nothing interfered with is alone: what it has checked holds on.
Alone(c) ==
    /\ \A d \in Calls \ {c} : d \in Idle
    /\ \A p \in Pids : Starts(p) => pc[c] \in Waiting /\ p = loc[c].child
    /\ pc[c] = "kill" /\ ~req[c].force => Unshared(c)
    /\ pc[c] \in {"rmdir", "killDeleted"} /\ loc[c].kill => Unshared(c)
    /\ pc[c] = "killDeleted" => loc[c].kill
    /\ pc[c] \in Installing \cup {"spawn"} /\ req[c].op # "configure" => ~InUse(loc[c].port)
    /\ pc[c] \in {"poll", "probe", "mark"} =>
          /\ Serving(loc[c].port) \subseteq {loc[c].child}
          /\ server[loc[c].child].phase # "signalled"
          /\ server[loc[c].child].phase \in {"valid", "listening"} => file[loc[c].me] # None
    /\ pc[c] = "mark" => loc[c].child \in Serving(loc[c].port)

QuietAlone == \A c \in quiet : Alone(c)

Inv == TypeOK /\ PlacesOK /\ EntryNamesItsServer /\ LocalsNameServers /\ QuietAlone
-----------------------------------------------------------------------------
(* The first free port exists.                                             *)

LessThan == {pair \in Nat \X Nat : pair[1] < pair[2]}

\* The library's well-ordering of Nat, as a relation.
LEMMA LessThanIsWellFounded == IsWellFoundedOn(LessThan, Nat)
  BY NatLessThanWellFounded, Zenon DEF OpToRel, LessThan

\* Min of a set that is not empty is one of its members.
LEMMA MinIsMember == ASSUME NEW S \in SUBSET Nat, S # {} PROVE Min(S) \in S
<1>1. PICK x \in S : \A y \in S : ~(<<y, x>> \in LessThan)
  BY LessThanIsWellFounded, WFMin
<1>2. ASSUME NEW y \in S PROVE x <= y
  <2>1. x \in Nat /\ y \in Nat
    OBVIOUS
  <2>2. <<y, x>> \in Nat \X Nat
    BY <2>1
  <2>3. ~(y < x)
    BY <1>1, <2>2 DEF LessThan
  <2>4. QED
    BY <2>1, <2>3
<1>3. QED
  BY <1>2 DEF Min

-----------------------------------------------------------------------------
(* Type correctness.                                                       *)

Beginning(c, r) == Create(c, r) \/ Configure(c, r) \/ Start(c, r) \/ Stop(c, r) \/ Delete(c, r) \/ Clean(c, r)

\* No locals are locals.
LEMMA NoLocalsTyped == NoLocals \in Locals
  BY DEF NoLocals, Locals

\* Only c moves.
MovesOnly(c) ==
    /\ \A d \in Calls \ {c} : pc'[d] = pc[d] /\ loc'[d] = loc[d] /\ req'[d] = req[d]
    /\ pc' = [d \in Calls |-> pc'[d]] /\ loc' = [d \in Calls |-> loc'[d]] /\ DOMAIN req' = Calls
    /\ manual' \in Nat /\ faults' \in Nat /\ quiet' \subseteq quiet \cup {c}

\* A command moves no other.
LEMMA OthersStay == ASSUME PlacesOK, NEW c \in Calls, Command(c) PROVE MovesOnly(c)
<1> USE DEF MovesOnly, PlacesOK, Goto, End, Local, Fault, bounds
<1>1. ASSUME NEW r \in Requests, Beginning(c, r)
      PROVE  MovesOnly(c)
  <2>1. PICK q, to, locals : Begin(c, q, to, locals)
    BY <1>1 DEF Beginning, Create, Configure, Start, Stop, Delete, Clean
  <2>2. QED
    BY <2>1 DEF Begin
<1>2. CASE Abort(c) \/ Prune(c)
  BY <1>2 DEF Abort, Prune
<1>12. ASSUME NEW i \in Ids, RemoveOverlay(c, i)
      PROVE  MovesOnly(c)
  <2>1. manual' \in Nat /\ faults' \in Nat
    BY <1>12 DEF RemoveOverlay
  <2>2. /\ loc' = Local(c, "doomed", loc[c].doomed \ {i})
        /\ Goto(c, AfterPrune(c, loc[c].doomed \ {i}))
        /\ UNCHANGED <<registry, server, req, quiet>>
    BY <1>12 DEF RemoveOverlay
  <2> HIDE DEF AfterPrune
  <2>3. QED
    BY <2>1, <2>2
<1>3. CASE ReadRegistry(c)
  <2>1. PICK i, pairs : loc' = [loc EXCEPT ![c].me = i, ![c].cands = pairs]
    BY <1>3 DEF ReadRegistry
  <2>2. Goto(c, "reuse") /\ UNCHANGED <<registry, file, server, req, quiet, bounds>>
    BY <1>3 DEF ReadRegistry
  <2>3. QED
    BY <2>1, <2>2
<1>4. ASSUME NEW i \in Ids, NEW n \in Ports, TryReuse(c, i, n)
      PROVE  MovesOnly(c)
  BY <1>4 DEF TryReuse
<1>5. CASE NoReuse(c) \/ PersistReuse(c) \/ Adopt(c) \/ PickPort(c) \/ WriteFile(c)
  BY <1>5 DEF NoReuse, PersistReuse, Adopt, PickPort, WriteFile
<1>6. CASE RegisterStarting(c) \/ RegisterConfigured(c) \/ Spawn(c) \/ Poll(c) \/ Probe(c) \/ MarkHealthy(c)
  BY <1>6 DEF RegisterStarting, RegisterConfigured, Spawn, Poll, Probe, MarkHealthy
<1>7. CASE Timeout(c) \/ TerminateChild(c) \/ RemoveFile(c) \/ RemoveFailed(c)
  BY <1>7 DEF Timeout, TerminateChild, RemoveFile, RemoveFailed
<1>8. CASE KillStopped(c) \/ Detach(c) \/ ClearPid(c) \/ RemoveEntry(c)
  BY <1>8 DEF KillStopped, Detach, ClearPid, RemoveEntry
<1>9. CASE RemoveDirectory(c) \/ KillDeleted(c)
  BY <1>9 DEF RemoveDirectory, KillDeleted
<1>10. \/ \E r \in Requests : Beginning(c, r)
       \/ Abort(c) \/ Prune(c) \/ \E i \in Ids : RemoveOverlay(c, i)
       \/ ReadRegistry(c) \/ \E i \in Ids, n \in Ports : TryReuse(c, i, n)
       \/ NoReuse(c) \/ PersistReuse(c) \/ Adopt(c) \/ PickPort(c) \/ WriteFile(c)
       \/ RegisterStarting(c) \/ RegisterConfigured(c) \/ Spawn(c) \/ Poll(c) \/ Probe(c)
       \/ MarkHealthy(c) \/ Timeout(c) \/ TerminateChild(c) \/ RemoveFile(c) \/ RemoveFailed(c)
       \/ KillStopped(c) \/ Detach(c) \/ ClearPid(c) \/ RemoveEntry(c)
       \/ RemoveDirectory(c) \/ KillDeleted(c)
  BY DEF Command, Beginning
<1>11. QED
  BY <1>1, <1>2, <1>3, <1>4, <1>5, <1>6, <1>7, <1>8, <1>9, <1>10, <1>12

\* A field of the locals is set to a value it can have.
LEMMA LocalsUpdate ==
  ASSUME NEW x \in Locals
  PROVE  /\ \A v \in Templates \cup {None} : [x EXCEPT !.template = v] \in Locals
         /\ \A v \in Ids \cup {None} : [x EXCEPT !.me = v] \in Locals
         /\ \A v \in Ports \cup {None} : [x EXCEPT !.port = v] \in Locals
         /\ \A v \in Pids \cup {None} : [x EXCEPT !.child = v] \in Locals
         /\ \A v \in Entry \cup {None} : [x EXCEPT !.seen = v] \in Locals
         /\ \A v \in SUBSET (Ids \X Ports) : [x EXCEPT !.cands = v] \in Locals
         /\ \A v \in SUBSET Ids : [x EXCEPT !.doomed = v] \in Locals
         /\ \A v \in BOOLEAN : [x EXCEPT !.kill = v] \in Locals
  BY DEF Locals

Typed == TypeOK /\ PlacesOK

\* A command starts in its place with what it needs.
LEMMA BeginningPlaces ==
  ASSUME Typed, NEW c \in Calls, NEW r \in Requests, Beginning(c, r)
  PROVE  pc'[c] \in Points /\ loc'[c] \in Locals /\ Settles(c)' /\ req'[c] \in Request
<1>0. /\ r \in Request /\ r # None /\ r.op \in Ops
      /\ r.name \in Ids \cup {None} /\ r.template \in Templates \cup {None}
      /\ r.port \in Ports \cup {None}
  BY ProxyLifecycleAssumption, RecordAssumption DEF Request
<1>1. ASSUME NEW q, NEW to, NEW locals, Begin(c, q, to, locals)
      PROVE pc'[c] = to /\ loc'[c] = locals /\ req'[c] = q
  BY <1>1 DEF Begin, Goto, Typed, PlacesOK, TypeOK
<1>2. NoLocals \in Locals
  BY NoLocalsTyped
<1>3. CASE Create(c, r)
  <2>1. r.op = "create" /\ r.template \in Templates
    BY <1>0, <1>3, ProxyLifecycleAssumption DEF Create
  <2>2. pc'[c] = "prune" /\ loc'[c] = [NoLocals EXCEPT !.template = r.template] /\ req'[c] = r
    BY <1>1, <1>3 DEF Create
  <2>3. loc'[c] \in Locals
    BY <2>1, <2>2 DEF NoLocals, Locals
  <2>5. loc'[c].template # None
    BY <2>1, <2>2, ProxyLifecycleAssumption DEF NoLocals
  <2>4. QED
    BY <1>0, <2>1, <2>2, <2>3, <2>5 DEF Settles, Points, Pruning, Looking, Installing, Starting,
        Stopping, Deleting
<1>4. CASE Configure(c, r)
  <2>1. r.op = "configure" /\ r.template \in Templates /\ r.name \in Ids
    BY <1>0, <1>4, ProxyLifecycleAssumption DEF Configure
  <2>2. PICK n : /\ n = (IF r.port # None THEN r.port ELSE DefaultPort[r.template])
                 /\ pc'[c] = "write" /\ req'[c] = r
                 /\ loc'[c] = [NoLocals EXCEPT !.template = r.template, !.me = r.name, !.port = n]
    BY ZenonT(40), <1>1, <1>4 DEF Configure
  <2>3. n \in Ports
    BY <1>0, <2>1, <2>2, ProxyLifecycleAssumption
  <2>4. loc'[c] \in Locals
    BY <2>1, <2>2, <2>3 DEF NoLocals, Locals
  <2>6. loc'[c].template # None /\ loc'[c].me # None /\ loc'[c].port # None
    BY <2>1, <2>2, <2>3, ProxyLifecycleAssumption DEF NoLocals
  <2>5. QED
    BY <1>0, <2>1, <2>2, <2>4, <2>6, ProxyLifecycleAssumption DEF Settles, Points, Pruning, Looking, Installing, Starting,
        Stopping, Deleting
<1>5. CASE Start(c, r)
  <2>1. r.name \in Ids /\ r.op = "start"
    BY <1>0, <1>5, ProxyLifecycleAssumption DEF Start
  <2>2. file[r.name] \in Config
    BY <1>5, <2>1 DEF Start, Typed, TypeOK
  <2>3. file[r.name].template \in Templates /\ file[r.name].port \in Ports
    BY <2>2 DEF Config
  <2>4. /\ pc'[c] = "prune" /\ req'[c] = [r EXCEPT !.port = file[r.name].port]
        /\ loc'[c] = [NoLocals EXCEPT !.template = file[r.name].template]
    BY <1>1, <1>5 DEF Start
  <2>5. req'[c] \in Request /\ req'[c].op = "start" /\ req'[c].name \in Ids
    BY <1>0, <2>1, <2>3, <2>4 DEF Request
  <2>6. loc'[c] \in Locals
    BY <2>3, <2>4 DEF NoLocals, Locals
  <2>8. loc'[c].template # None
    BY <2>3, <2>4, ProxyLifecycleAssumption DEF NoLocals
  <2>7. QED
    BY <2>4, <2>5, <2>6, <2>8, ProxyLifecycleAssumption, RecordAssumption DEF Settles, Points, Pruning, Looking, Installing, Starting,
        Stopping, Deleting
<1>6. CASE Stop(c, r)
  <2>1. r.name \in Ids /\ registry[r.name] \in Entry
    BY <1>0, <1>6, ProxyLifecycleAssumption DEF Stop, Typed, TypeOK
  <2>2. /\ pc'[c] = "kill" /\ req'[c] = r
        /\ loc'[c] = [NoLocals EXCEPT !.me = r.name, !.seen = registry[r.name]]
    BY <1>1, <1>6 DEF Stop
  <2>3. loc'[c] \in Locals
    BY <2>1, <2>2 DEF NoLocals, Locals
  <2>5. loc'[c].me # None /\ loc'[c].seen # None
    BY <2>1, <2>2, ProxyLifecycleAssumption, RecordAssumption DEF NoLocals
  <2>4. QED
    BY <1>0, <2>1, <2>2, <2>3, <2>5 DEF Settles, Points, Pruning, Looking, Installing, Starting,
        Stopping, Deleting
<1>7. CASE Delete(c, r)
  <2>1. r.name \in Ids /\ registry[r.name] \in Entry \cup {None}
    BY <1>0, <1>7, ProxyLifecycleAssumption DEF Delete, Typed, TypeOK
  <2>2. /\ pc'[c] = (IF registry[r.name] # None THEN "remove" ELSE "rmdir") /\ req'[c] = r
        /\ loc'[c] = [NoLocals EXCEPT !.me = r.name, !.seen = registry[r.name]]
    BY <1>1, <1>7 DEF Delete
  <2>3. loc'[c] \in Locals
    BY <2>1, <2>2 DEF NoLocals, Locals
  <2>5. loc'[c].me # None /\ loc'[c].kill = FALSE /\ loc'[c].seen = registry[r.name]
    BY <2>1, <2>2, ProxyLifecycleAssumption DEF NoLocals
  <2>4. QED
    BY <1>0, <2>1, <2>2, <2>3, <2>5 DEF Settles, Points, Pruning, Looking, Installing, Starting,
        Stopping, Deleting
<1>8. CASE Clean(c, r)
  <2>1. pc'[c] = "prune" /\ req'[c] = r /\ r.op = "clean" /\ loc'[c] = NoLocals
    BY <1>1, <1>8 DEF Clean
  <2>2. QED
    BY <1>0, <1>2, <2>1 DEF Settles, Points, Pruning, Looking, Installing, Starting,
        Stopping, Deleting
<1>9. QED
  BY <1>3, <1>4, <1>5, <1>6, <1>7, <1>8 DEF Beginning

\* Where a command gets in a step of its own.
Places(c) == pc'[c] \in Points /\ loc'[c] \in Locals /\ Settles(c)' /\ req'[c] \in Request \cup {None}

\* A command that ends has settled nothing.
LEMMA EndPlaces == ASSUME Typed, NEW c \in Calls, End(c) PROVE Places(c)
  BY NoLocalsTyped DEF Typed, PlacesOK, End, Goto, Places, Settles, Points, Pruning, Looking,
     Installing, Starting, Stopping, Deleting

\* Pruning leads on to the rest of create and start, or to the end of clean.
LEMMA PruningPlaces ==
  ASSUME Typed, NEW c \in Calls, Prune(c) \/ \E i \in Ids : RemoveOverlay(c, i) PROVE Places(c)
<1>1. PICK left \in SUBSET Ids : /\ loc' = Local(c, "doomed", left) /\ Goto(c, AfterPrune(c, left))
                                 /\ UNCHANGED req /\ pc[c] \in Pruning
  <2>1. CASE Prune(c)
    BY <2>1 DEF Prune, Stale, Registered, Pruning
  <2>2. ASSUME NEW i \in Ids, RemoveOverlay(c, i)
        PROVE \E left \in SUBSET Ids : /\ loc' = Local(c, "doomed", left) /\ Goto(c, AfterPrune(c, left))
                                       /\ UNCHANGED req /\ pc[c] \in Pruning
    <3>1. loc[c].doomed \ {i} \in SUBSET Ids
      BY DEF Typed, PlacesOK, Locals
    <3>2. QED
      BY <2>2, <3>1 DEF RemoveOverlay, Pruning
  <2>3. QED
    BY <2>1, <2>2
<1>2. loc[c] \in Locals /\ loc'[c] = [loc[c] EXCEPT !.doomed = left] /\ req'[c] = req[c]
  BY <1>1 DEF Typed, PlacesOK, Local
<1>3. loc'[c] \in Locals
  BY <1>2, LocalsUpdate
<1>4. pc'[c] = AfterPrune(c, left) /\ Settles(c)
  BY <1>1 DEF Typed, PlacesOK, Goto
<1>5. loc'[c].template = loc[c].template
  BY <1>2 DEF Locals
<1>6. Settles(c)' /\ pc'[c] \in Points
  BY <1>1, <1>2, <1>4, <1>5 DEF Settles, AfterPrune, Points, Pruning, Looking,
     Installing, Starting, Stopping, Deleting
<1>7. QED
  BY <1>2, <1>3, <1>6 DEF Places, Typed, TypeOK

\* A command that looks for a proxy settles on an id, and then on a port.
LEMMA LookingPlaces ==
  ASSUME Typed, NEW c \in Calls,
         \/ ReadRegistry(c) \/ NoReuse(c) \/ PersistReuse(c) \/ Adopt(c) \/ PickPort(c)
         \/ \E i \in Ids, n \in Ports : TryReuse(c, i, n)
  PROVE  Places(c)
<1>0. loc[c] \in Locals /\ Settles(c) /\ req[c] \in Request \cup {None}
  BY DEF Typed, TypeOK, PlacesOK
<1>1. CASE ReadRegistry(c)
  <2>1. req[c].op \in {"create", "start"} /\ loc[c].template # None /\ req[c].name \in Ids \cup {None}
    BY <1>0, <1>1 DEF ReadRegistry, Settles, Looking, Request
  <2>2. PICK i \in Ids, s \in SUBSET (Ids \X Ports) :
           loc' = [loc EXCEPT ![c].me = i, ![c].cands = s]
    <3> DEFINE wanted == IF req[c].name # None THEN {req[c].name} ELSE Ids
               cands == IF req[c].url THEN {} ELSE
                      {i \in wanted \cap Registered : registry[i].template = loc[c].template}
               pairs == {<<j, registry[j].port>> : j \in cands}
    <3>1. PICK i \in IF req[c].name # None THEN wanted ELSE Ids \ Registered :
              loc' = [loc EXCEPT ![c].me = i, ![c].cands = pairs]
      BY <1>1 DEF ReadRegistry
    <3>2. i \in Ids
      BY <2>1, <3>1
    <3>3. \A j \in cands : j \in Ids /\ registry[j].port \in Ports
      BY <2>1 DEF Registered, Typed, TypeOK, Entry
    <3>4. pairs \in SUBSET (Ids \X Ports)
      BY <3>3
    <3>5. QED
      BY <3>1, <3>2, <3>4
  <2>3. loc'[c] = [loc[c] EXCEPT !.me = i, !.cands = s]
    BY <2>2 DEF Typed, PlacesOK
  <2>4. loc'[c] \in Locals
    BY <1>0, <2>3 DEF Locals
  <2>5. loc'[c].me = i /\ loc'[c].template = loc[c].template
    BY <1>0, <2>3 DEF Locals
  <2>6. pc'[c] = "reuse" /\ req'[c] = req[c] /\ pc[c] = "read"
    BY <1>1 DEF ReadRegistry, Goto, Typed, PlacesOK
  <2>7. QED
    BY <1>0, <2>1, <2>4, <2>5, <2>6, ProxyLifecycleAssumption DEF Places, Settles, Points, Pruning,
       Looking, Installing, Starting, Stopping, Deleting
<1>2. ASSUME NEW i \in Ids, NEW n \in Ports, TryReuse(c, i, n) PROVE Places(c)
  <2>1. req'[c] = req[c] /\ pc[c] = "reuse" /\ pc'[c] \in {"reuse", "persist"}
    BY <1>2 DEF TryReuse, Goto, Typed, PlacesOK
  <2>2. CASE loc' = Local(c, "me", i)
    <3>1. loc'[c] = [loc[c] EXCEPT !.me = i]
      BY <2>2 DEF Local, Typed, PlacesOK
    <3>2. loc'[c] \in Locals /\ loc'[c].me = i /\ loc'[c].template = loc[c].template
      BY <1>0, <3>1 DEF Locals
    <3>3. QED
      BY <1>0, <2>1, <3>2, ProxyLifecycleAssumption DEF Places, Settles, Points, Pruning,
         Looking, Installing, Starting, Stopping, Deleting
  <2>3. CASE loc' = Local(c, "cands", loc[c].cands \ {<<i, n>>})
    <3>1. loc'[c] = [loc[c] EXCEPT !.cands = loc[c].cands \ {<<i, n>>}]
      BY <2>3 DEF Local, Typed, PlacesOK
    <3>2. loc'[c] \in Locals /\ loc'[c].me = loc[c].me /\ loc'[c].template = loc[c].template
      BY <1>0, <3>1 DEF Locals
    <3>3. QED
      BY <1>0, <2>1, <3>2 DEF Places, Settles, Points, Pruning,
         Looking, Installing, Starting, Stopping, Deleting
  <2>4. QED
    BY <1>2, <2>2, <2>3 DEF TryReuse
<1>3. CASE NoReuse(c)
  <2>1. pc[c] = "reuse" /\ pc'[c] = "adopt" /\ UNCHANGED <<req, loc>>
    BY <1>3 DEF NoReuse, Goto, Typed, PlacesOK
  <2>2. QED
    BY <1>0, <2>1 DEF Places, Settles, Points, Pruning, Looking, Installing, Starting, Stopping, Deleting
<1>4. CASE PersistReuse(c) \/ Adopt(c)
  BY <1>4, EndPlaces DEF PersistReuse, Adopt
<1>5. CASE PickPort(c)
  <2> DEFINE free == {n \in Ports : ~InUse(n) /\ IF req[c].port # None THEN n = Target(c)
                                                                       ELSE n >= Target(c)}
  <2>1. CASE free = {}
    BY <1>5, <2>1, EndPlaces DEF PickPort
  <2>2. CASE free # {}
    <3>1. PICK n \in Ports : loc' = Local(c, "port", n)
      <4>1. free \in SUBSET Nat
        BY ProxyLifecycleAssumption
      <4>2. Min(free) \in free
        BY <2>2, <4>1, MinIsMember
      <4>3. Min(free) \in Ports
        BY <4>2
      <4>4. QED
        BY <1>5, <2>2, <4>3 DEF PickPort
    <3>2. /\ pc[c] = "adopt" /\ pc'[c] = (IF req[c].op = "start" THEN "register" ELSE "write")
          /\ UNCHANGED req
      BY <1>5, <2>2 DEF PickPort, Goto, Typed, PlacesOK
    <3>3. loc'[c] = [loc[c] EXCEPT !.port = n]
      BY <3>1 DEF Local, Typed, PlacesOK
    <3>4. /\ loc'[c] \in Locals /\ loc'[c].port = n /\ loc'[c].me = loc[c].me
          /\ loc'[c].template = loc[c].template
      BY <1>0, <3>3 DEF Locals
    <3>5. QED
      BY <1>0, <3>2, <3>4, ProxyLifecycleAssumption DEF Places, Settles, Points, Pruning,
         Looking, Installing, Starting, Stopping, Deleting
  <2>3. QED
    BY <2>1, <2>2
<1>6. QED
  BY <1>1, <1>2, <1>3, <1>4, <1>5

\* Steps that change no local variable.
LEMMA StayingPlaces ==
  ASSUME Typed, NEW c \in Calls,
         \/ WriteFile(c) \/ RegisterStarting(c) \/ Poll(c) \/ Probe(c) \/ Timeout(c)
         \/ TerminateChild(c) \/ RemoveFile(c)
  PROVE  Places(c)
<1>1. loc[c] \in Locals /\ Settles(c) /\ req[c] \in Request \cup {None}
  BY DEF Typed, TypeOK, PlacesOK
<1>2. UNCHANGED <<req, loc>>
  BY DEF WriteFile, RegisterStarting, Poll, Probe, Timeout, TerminateChild, RemoveFile
<1>3. \/ pc[c] = "write" /\ pc'[c] = "register"
      \/ pc[c] = "register" /\ pc'[c] = "spawn" /\ req[c].op # "configure"
      \/ /\ pc[c] \in {"poll", "probe", "fail", "unwrite"}
         /\ pc'[c] \in {"poll", "probe", "fail", "mark", "unwrite", "unregister"}
  BY DEF WriteFile, RegisterStarting, Poll, Probe, Timeout, TerminateChild, RemoveFile, Goto,
         Typed, PlacesOK
<1>4. QED
  BY <1>1, <1>2, <1>3 DEF Places, Settles, Points, Pruning, Looking, Installing, Starting,
     Stopping, Deleting

\* A last step leaves no locals.
LEMMA EndingPlaces ==
  ASSUME Typed, NEW c \in Calls,
         \/ Abort(c) \/ RegisterConfigured(c) \/ MarkHealthy(c) \/ RemoveFailed(c)
         \/ Detach(c) \/ ClearPid(c) \/ KillDeleted(c)
  PROVE  Places(c)
  BY EndPlaces DEF Abort, RegisterConfigured, MarkHealthy, RemoveFailed, Detach, ClearPid, KillDeleted

\* What stop and delete settled stays until they end.
LEMMA LastPlaces ==
  ASSUME Typed, NEW c \in Calls,
         Spawn(c) \/ KillStopped(c) \/ RemoveEntry(c) \/ RemoveDirectory(c)
  PROVE  Places(c)
<1>1. loc[c] \in Locals /\ Settles(c) /\ req[c] \in Request \cup {None}
  BY DEF Typed, TypeOK, PlacesOK
<1>2. CASE Spawn(c)
  <2>1. PICK p \in Pids : loc' = Local(c, "child", p)
    BY <1>2 DEF Spawn
  <2>2. pc[c] = "spawn" /\ pc'[c] = "poll" /\ UNCHANGED req
    BY <1>2 DEF Spawn, Goto, Typed, PlacesOK
  <2>3. loc'[c] = [loc[c] EXCEPT !.child = p]
    BY <2>1 DEF Local, Typed, PlacesOK
  <2>4. /\ loc'[c] \in Locals /\ loc'[c].me = loc[c].me /\ loc'[c].port = loc[c].port
        /\ loc'[c].template = loc[c].template
    BY <1>1, <2>3 DEF Locals
  <2>5. QED
    BY <1>1, <2>2, <2>4 DEF Places, Settles, Points, Pruning, Looking, Installing, Starting,
       Stopping, Deleting
<1>3. CASE KillStopped(c)
  <2>1. CASE End(c)
    BY <2>1, EndPlaces
  <2>2. CASE UNCHANGED <<loc, req>> /\ pc[c] = "kill" /\ pc'[c] \in {"detach", "clear"}
    BY <1>1, <2>2 DEF Places, Settles, Points, Pruning, Looking, Installing, Starting,
       Stopping, Deleting
  <2>3. QED
    BY <1>3, <2>1, <2>2 DEF KillStopped, Goto, Typed, PlacesOK
<1>4. CASE RemoveEntry(c)
  <2>1. PICK kill \in BOOLEAN : loc' = Local(c, "kill", kill)
    BY <1>4 DEF RemoveEntry
  <2>2. pc[c] = "remove" /\ pc'[c] = "rmdir" /\ UNCHANGED req
    BY <1>4 DEF RemoveEntry, Goto, Typed, PlacesOK
  <2>3. loc'[c] = [loc[c] EXCEPT !.kill = kill]
    BY <2>1 DEF Local, Typed, PlacesOK
  <2>4. loc'[c] \in Locals /\ loc'[c].me = loc[c].me /\ loc'[c].seen = loc[c].seen
    BY <1>1, <2>3 DEF Locals
  <2>5. QED
    BY <1>1, <2>2, <2>4 DEF Places, Settles, Points, Pruning, Looking, Installing, Starting,
       Stopping, Deleting
<1>5. CASE RemoveDirectory(c)
  <2>1. CASE End(c)
    BY <2>1, EndPlaces
  <2>2. CASE /\ UNCHANGED <<loc, req>> /\ pc[c] = "rmdir" /\ pc'[c] = "killDeleted" /\ loc[c].kill
    BY <1>1, <2>2 DEF Places, Settles, Points, Pruning, Looking, Installing, Starting,
       Stopping, Deleting
  <2>3. QED
    BY <1>5, <2>1, <2>2 DEF RemoveDirectory, Goto, Typed, PlacesOK
<1>6. QED
  BY <1>2, <1>3, <1>4, <1>5

\* Every command keeps to its places.
LEMMA CommandPlaces == ASSUME Typed, NEW c \in Calls, Command(c) PROVE PlacesOK'
<1>1. Places(c)
  BY BeginningPlaces, PruningPlaces, LookingPlaces, StayingPlaces, EndingPlaces, LastPlaces
     DEF Command, Beginning, Places
<1>2. MovesOnly(c)
  BY OthersStay DEF Typed
<1>3. ASSUME NEW d \in Calls PROVE pc'[d] \in Points /\ loc'[d] \in Locals /\ Settles(d)'
  <2>1. CASE d = c
    BY <1>1, <2>1 DEF Places
  <2>2. CASE d # c
    BY <1>2, <2>2 DEF MovesOnly, Typed, PlacesOK, Settles
  <2>3. QED
    BY <2>1, <2>2
<1>4. pc' \in [Calls -> Points] /\ loc' \in [Calls -> Locals]
  BY <1>2, <1>3 DEF MovesOnly
<1>5. QED
  BY <1>2, <1>3, <1>4 DEF PlacesOK, MovesOnly

-----------------------------------------------------------------------------
(* What a step does to the servers and to the entries.                     *)

\* A server keeps its identity, and a pid its server.
ServersStay ==
    /\ server' \in [Pids -> Process \cup {None}]
    /\ \A p \in Pids : server[p] # None =>
          /\ server'[p] # None
          /\ server'[p].id = server[p].id /\ server'[p].template = server[p].template
          /\ server'[p].port = server[p].port

Serves(p) == server[p] # None /\ server[p].phase \in {"listening", "signalled"}

NoneIsServed == \A p \in Pids : Serves(p)' => Serves(p)

\* A phase is set.
LEMMA PhaseStep ==
  ASSUME TypeOK, NEW p \in Pids, server[p] # None,
         NEW h \in {"booting", "valid", "listening", "signalled", "dead"},
         server' = [server EXCEPT ![p].phase = h]
  PROVE  /\ ServersStay
         /\ \A q \in Pids \ {p} : server'[q] = server[q]
         /\ server'[p].phase = h
         /\ (h \in {"listening", "signalled"} => Serves(p)) => NoneIsServed
<1>1. server[p] \in Process
  BY DEF TypeOK
<1>2. /\ [server[p] EXCEPT !.phase = h] \in Process
      /\ [server[p] EXCEPT !.phase = h].id = server[p].id
      /\ [server[p] EXCEPT !.phase = h].template = server[p].template
      /\ [server[p] EXCEPT !.phase = h].port = server[p].port
      /\ [server[p] EXCEPT !.phase = h].phase = h
  BY <1>1 DEF Process
<1>3. server' = [q \in Pids |-> IF q = p THEN [server[p] EXCEPT !.phase = h] ELSE server[q]]
  BY DEF TypeOK
<1>4. ServersStay
  BY <1>1, <1>2, <1>3, RecordAssumption DEF ServersStay, TypeOK
<1>5. (\A q \in Pids \ {p} : server'[q] = server[q]) /\ server'[p].phase = h
  BY <1>2, <1>3
<1>6. (h \in {"listening", "signalled"} => Serves(p)) => NoneIsServed
  BY <1>5 DEF NoneIsServed, Serves
<1>7. QED
  BY <1>4, <1>5, <1>6

\* A signal makes no server serve and touches no other.
LEMMA SignalStep ==
  ASSUME TypeOK, NEW p \in Pids, server[p] # None, Signal(p)
  PROVE  /\ ServersStay /\ NoneIsServed
         /\ \A q \in Pids \ {p} : server'[q] = server[q]
<1> DEFINE h == IF server[p].phase = "listening" THEN "signalled" ELSE
                IF server[p].phase = "signalled" THEN server[p].phase ELSE "dead"
<1>1. server' = [server EXCEPT ![p].phase = h]
  BY DEF Signal
<1>2. h \in {"signalled", "dead"} /\ (h = "signalled" => Serves(p))
  BY DEF Serves
<1> HIDE DEF h
<1>3. QED
  BY <1>1, <1>2, PhaseStep

\* The process a command stops is one that runs on the port of the entry it
\* read, or has the entry's pid.
LEMMA StopStep ==
  ASSUME TypeOK, PlacesOK, LocalsNameServers, NEW c \in Calls, StopProcess(c),
         pc[c] \in Stopping \cup Deleting, loc[c].seen # None
  PROVE  /\ ServersStay /\ NoneIsServed
         /\ \A p \in Pids : server'[p] # server[p] =>
              /\ server[p] # None /\ server[p].port = loc[c].seen.port
              /\ loc[c].seen.pid = None => req[c].killAdopted
              /\ loc[c].seen.pid # None => server[p].id = loc[c].me
<1>1. loc[c].seen \in Entry
  BY DEF PlacesOK, Locals
<1>2. CASE Victims(c) = {}
  BY <1>2 DEF StopProcess, ServersStay, NoneIsServed, Serves, TypeOK
<1>3. CASE Victims(c) # {}
  <2>1. PICK p \in Victims(c) : Signal(p)
    BY <1>3 DEF StopProcess
  <2>2. CASE loc[c].seen.pid # None
    <3>1. p = loc[c].seen.pid /\ p \in Pids
      BY <1>1, <2>1, <2>2 DEF Victims, Entry
    <3>2. server[p] # None /\ server[p].port = loc[c].seen.port /\ server[p].id = loc[c].me
      BY <2>2, <3>1 DEF LocalsNameServers, Names
    <3>3. QED
      BY <2>1, <2>2, <3>1, <3>2, SignalStep
  <2>3. CASE loc[c].seen.pid = None
    <3>1. p \in Serving(loc[c].seen.port) /\ req[c].killAdopted
      BY <2>1, <2>3 DEF Victims, Found
    <3>2. p \in Pids /\ server[p] # None /\ server[p].port = loc[c].seen.port
      BY <3>1 DEF Serving
    <3>3. QED
      BY <2>1, <2>3, <3>1, <3>2, SignalStep
  <2>4. QED
    BY <2>2, <2>3
<1>4. QED
  BY <1>2, <1>3

\* What a command spawns is a server.
LEMMA ChildTyped ==
  ASSUME PlacesOK, NEW c \in Calls, pc[c] = "spawn"
  PROVE  [id |-> loc[c].me, template |-> loc[c].template, port |-> loc[c].port, phase |-> "booting"]
            \in Process
<1>1. loc[c].me # None /\ loc[c].template # None /\ loc[c].port # None
  BY DEF PlacesOK, Settles, Starting
<1>2. loc[c].me \in Ids /\ loc[c].template \in Templates /\ loc[c].port \in Ports
  BY <1>1 DEF PlacesOK, Locals
<1>3. QED
  BY <1>2 DEF Process

\* A command stops a server or starts one; it makes none serve.
LEMMA CommandServers ==
  ASSUME TypeOK, PlacesOK, LocalsNameServers, NEW c \in Calls, Command(c)
  PROVE  ServersStay /\ NoneIsServed
<1>1. Settles(c)
  BY DEF PlacesOK
<1>2. CASE Spawn(c)
  <2>1. PICK p \in Pids :
          /\ server[p] = None
          /\ server' = [server EXCEPT ![p] = [id |-> loc[c].me, template |-> loc[c].template,
                                              port |-> loc[c].port, phase |-> "booting"]]
    BY <1>2 DEF Spawn
  <2>3. [id |-> loc[c].me, template |-> loc[c].template, port |-> loc[c].port, phase |-> "booting"]
           \in Process
    BY <1>2, ChildTyped DEF Spawn
  <2>4. ServersStay
    BY <2>1, <2>3 DEF ServersStay, TypeOK
  <2>5. NoneIsServed
    BY <2>1 DEF NoneIsServed, Serves, TypeOK
  <2>6. QED
    BY <2>4, <2>5
<1>3. CASE TerminateChild(c)
  <2>1. loc[c].child \in Pids /\ server[loc[c].child] # None
    BY <1>3 DEF TerminateChild, LocalsNameServers, Names, Waiting, PlacesOK, Locals
  <2>2. server' = [server EXCEPT ![loc[c].child].phase = "dead"]
    BY <1>3 DEF TerminateChild
  <2>3. QED
    BY <2>1, <2>2, PhaseStep
<1>4. CASE KillStopped(c) \/ KillDeleted(c)
  <2>1. loc[c].seen # None /\ StopProcess(c) /\ pc[c] \in Stopping \cup Deleting
    BY <1>1, <1>4 DEF KillStopped, KillDeleted, Settles, Stopping, Deleting
  <2>2. QED
    BY <2>1, StopStep
<1>5. CASE ~(Spawn(c) \/ TerminateChild(c) \/ KillStopped(c) \/ KillDeleted(c))
  <2>1. UNCHANGED server
    BY <1>5 DEF Command, Create, Configure, Start, Stop, Delete, Clean, Begin, Abort, Prune,
       RemoveOverlay, ReadRegistry, TryReuse, NoReuse, PersistReuse, Adopt, PickPort, WriteFile,
       RegisterStarting, RegisterConfigured, Poll, Probe, MarkHealthy, Timeout, RemoveFile,
       RemoveFailed, Detach, ClearPid, RemoveEntry, RemoveDirectory
  <2>2. QED
    BY <2>1 DEF ServersStay, NoneIsServed, Serves, TypeOK
<1>6. QED
  BY <1>2, <1>3, <1>4, <1>5

\* What a step of c, or of the machine, leaves of the entry of i: none, one
\* without a pid, the same server, the child of c, or what c took from it.
EntryFate(i) ==
    \/ registry'[i] = None
    \/ registry'[i] \in Entry /\ registry'[i].pid = None
    \/ /\ registry[i] # None /\ registry'[i] \in Entry
       /\ registry'[i].pid = registry[i].pid /\ registry'[i].port = registry[i].port
       /\ registry'[i].template = registry[i].template
    \/ \E c \in Calls : i = loc[c].me /\ pc[c] = "mark" /\ registry'[i] = NewEntry(c, loc[c].child, "healthy")
    \/ \E c \in Calls : i = loc[c].me /\ pc[c] = "rmdir" /\ registry'[i] = loc[c].seen

EntryFates ==
    /\ registry' = [i \in Ids |-> registry'[i]]
    /\ \A i \in Ids : EntryFate(i)
    /\ file' \in [Ids -> Config \cup {None}]

\* An entry that is replaced and one that is left alone.
LEMMA EntryReplaced ==
  ASSUME TypeOK, NEW i, NEW e, registry' = [registry EXCEPT ![i] = e], UNCHANGED file,
         i \in Ids => EntryFate(i)
  PROVE  EntryFates
<1>1. ASSUME NEW j \in Ids, j # i PROVE EntryFate(j)
  BY <1>1 DEF EntryFate, TypeOK
<1>2. QED
  BY <1>1 DEF EntryFates, TypeOK

\* No entry is written.
LEMMA EntriesUnchanged ==
  ASSUME TypeOK, UNCHANGED registry, file' \in [Ids -> Config \cup {None}] PROVE EntryFates
  BY DEF EntryFates, EntryFate, TypeOK

\* What an installing or starting command registers is an entry with the pid it gives.
LEMMA NewEntryTyped ==
  ASSUME PlacesOK, NEW c \in Calls, pc[c] \in Installing \cup Starting, NEW p \in Pids \cup {None},
         NEW how \in {"configured", "starting", "healthy", "stopped"}
  PROVE  NewEntry(c, p, how) \in Entry /\ NewEntry(c, p, how).pid = p
<1>1. loc[c].template \in Templates /\ loc[c].port \in Ports
  BY DEF PlacesOK, Settles, Locals, Installing, Starting
<1>2. QED
  BY <1>1 DEF NewEntry, Entry

\* Every entry a command writes has one of these fates.
LEMMA CommandEntries ==
  ASSUME TypeOK, PlacesOK, LocalsNameServers, NEW c \in Calls, Command(c)
  PROVE  EntryFates
<1>1. loc[c] \in Locals /\ Settles(c) /\ req[c] \in Request \cup {None}
  BY DEF TypeOK, PlacesOK
<1>2. CASE Prune(c)
  BY <1>2 DEF Prune, EntryFates, EntryFate, TypeOK
<1>3. CASE PersistReuse(c)
  <2>1. CASE loc[c].me \in Registered
    <3>1. registry[loc[c].me] \in Entry /\ registry[loc[c].me] # None
      BY <2>1 DEF Registered, TypeOK
    <3>2. registry' = [registry EXCEPT ![loc[c].me] = [registry[loc[c].me] EXCEPT !.status = "healthy"]]
      BY <1>3, <2>1 DEF PersistReuse
    <3>3. /\ [registry[loc[c].me] EXCEPT !.status = "healthy"] \in Entry
          /\ [registry[loc[c].me] EXCEPT !.status = "healthy"].pid = registry[loc[c].me].pid
          /\ [registry[loc[c].me] EXCEPT !.status = "healthy"].port = registry[loc[c].me].port
          /\ [registry[loc[c].me] EXCEPT !.status = "healthy"].template = registry[loc[c].me].template
      BY <3>1 DEF Entry
    <3>4. EntryFate(loc[c].me)
      BY <2>1, <3>1, <3>2, <3>3 DEF EntryFate, TypeOK, Registered
    <3>5. UNCHANGED file
      BY <1>3 DEF PersistReuse
    <3>6. QED
      BY <3>2, <3>4, <3>5, EntryReplaced
  <2>2. CASE loc[c].me \notin Registered
    BY <1>3, <2>2, EntriesUnchanged DEF PersistReuse, TypeOK
  <2>3. QED
    BY <2>1, <2>2
<1>4. CASE Adopt(c)
  <2>1. PICK i :
          registry' = [registry EXCEPT ![i] = [template |-> loc[c].template, port |-> Target(c),
                                               pid |-> None, aged |-> FALSE, status |-> "healthy"]]
    BY <1>4 DEF Adopt
  <2>2. loc[c].template \in Templates
    BY <1>1, <1>4 DEF Adopt, Settles, Looking, Locals
  <2>3. Target(c) \in Ports
    BY <1>1, <1>4, <2>2, ProxyLifecycleAssumption DEF Adopt, Target, Settles, Request
  <2>4. [template |-> loc[c].template, port |-> Target(c), pid |-> None, aged |-> FALSE,
         status |-> "healthy"] \in Entry
    BY <2>2, <2>3 DEF Entry
  <2>5. i \in Ids => EntryFate(i)
    BY <2>1, <2>4 DEF EntryFate, TypeOK
  <2>6. UNCHANGED file
    BY <1>4 DEF Adopt
  <2>7. QED
    BY <2>1, <2>5, <2>6, EntryReplaced
<1>5. CASE RegisterStarting(c)
  <2>1. NewEntry(c, None, "starting") \in Entry /\ NewEntry(c, None, "starting").pid = None
    BY <1>5, NewEntryTyped DEF RegisterStarting, Installing
  <2>2. registry' = [registry EXCEPT ![loc[c].me] = NewEntry(c, None, "starting")] /\ UNCHANGED file
    BY <1>5 DEF RegisterStarting
  <2>3. loc[c].me \in Ids => EntryFate(loc[c].me)
    BY <2>1, <2>2 DEF EntryFate, TypeOK
  <2>4. QED
    BY <2>2, <2>3, EntryReplaced
<1>6. CASE RegisterConfigured(c)
  <2>1. NewEntry(c, None, "configured") \in Entry /\ NewEntry(c, None, "configured").pid = None
    BY <1>6, NewEntryTyped DEF RegisterConfigured, Installing
  <2>2. CASE registry' = [registry EXCEPT ![loc[c].me] = NewEntry(c, None, "configured")] /\ UNCHANGED file
    <3>1. loc[c].me \in Ids => EntryFate(loc[c].me)
      BY <2>1, <2>2 DEF EntryFate, TypeOK
    <3>2. QED
      BY <2>2, <3>1, EntryReplaced
  <2>3. CASE UNCHANGED registry /\ file' = [file EXCEPT ![loc[c].me] = None]
    BY <2>3, EntriesUnchanged DEF TypeOK
  <2>4. QED
    BY <1>6, <2>2, <2>3 DEF RegisterConfigured
<1>7. CASE MarkHealthy(c)
  <2>1. registry' = [registry EXCEPT ![loc[c].me] = NewEntry(c, loc[c].child, "healthy")] /\ UNCHANGED file
    BY <1>7 DEF MarkHealthy
  <2>2. loc[c].me \in Ids => EntryFate(loc[c].me)
    BY <1>7, <2>1 DEF EntryFate, TypeOK, MarkHealthy
  <2>3. QED
    BY <2>1, <2>2, EntryReplaced
<1>8. CASE RemoveFailed(c) \/ Detach(c) \/ RemoveEntry(c)
  <2>1. registry' = [registry EXCEPT ![loc[c].me] = None] /\ UNCHANGED file
    BY <1>8 DEF RemoveFailed, Detach, RemoveEntry
  <2>2. loc[c].me \in Ids => EntryFate(loc[c].me)
    BY <2>1 DEF EntryFate, TypeOK
  <2>3. QED
    BY <2>1, <2>2, EntryReplaced
<1>9. CASE ClearPid(c)
  <2>1. registry' = [i \in Ids |->
          IF i \in Registered /\ (i = loc[c].me \/ registry[i].port = loc[c].seen.port)
          THEN [registry[i] EXCEPT !.pid = None, !.status = "stopped"] ELSE registry[i]]
    BY <1>9 DEF ClearPid
  <2>2. ASSUME NEW i \in Registered
        PROVE /\ [registry[i] EXCEPT !.pid = None, !.status = "stopped"] \in Entry
              /\ [registry[i] EXCEPT !.pid = None, !.status = "stopped"].pid = None
    <3>1. registry[i] \in Entry
      BY DEF Registered, TypeOK
    <3>2. QED
      BY <3>1 DEF Entry
  <2>3. \A i \in Ids : EntryFate(i)
    BY <2>1, <2>2 DEF EntryFate, TypeOK
  <2>4. UNCHANGED file
    BY <1>9 DEF ClearPid
  <2>5. QED
    BY <2>1, <2>3, <2>4 DEF EntryFates, TypeOK
<1>10. CASE RemoveDirectory(c)
  <2>1. CASE UNCHANGED registry
    <3>1. file' \in [Ids -> Config \cup {None}]
      BY <1>10 DEF RemoveDirectory, TypeOK
    <3>2. QED
      BY <2>1, <3>1, EntriesUnchanged
  <2>2. CASE ~UNCHANGED registry
    <3>1. registry' = [registry EXCEPT ![loc[c].me] = loc[c].seen] /\ UNCHANGED file /\ pc[c] = "rmdir"
      BY <1>10, <2>2 DEF RemoveDirectory
    <3>2. loc[c].me \in Ids => EntryFate(loc[c].me)
      BY <3>1 DEF EntryFate, TypeOK
    <3>3. QED
      BY <3>1, <3>2, EntryReplaced
  <2>3. QED
    BY <2>1, <2>2
<1>11. CASE WriteFile(c)
  <2>1. loc[c].template \in Templates /\ loc[c].port \in Ports
    BY <1>1, <1>11 DEF WriteFile, Settles, Installing, Locals
  <2>2. [template |-> loc[c].template, port |-> loc[c].port] \in Config
    BY <2>1 DEF Config
  <2>3. UNCHANGED registry /\ file' \in [Ids -> Config \cup {None}]
    BY <1>11, <2>2 DEF WriteFile, TypeOK
  <2>4. QED
    BY <2>3, EntriesUnchanged
<1>12. CASE RemoveFile(c)
  BY <1>12, EntriesUnchanged DEF RemoveFile, TypeOK
<1>13. ASSUME NEW i \in Ids, RemoveOverlay(c, i) PROVE EntryFates
  BY <1>13, EntriesUnchanged DEF RemoveOverlay, TypeOK
<1>14. CASE ~(\/ Prune(c) \/ PersistReuse(c) \/ Adopt(c) \/ RegisterStarting(c) \/ RegisterConfigured(c)
              \/ MarkHealthy(c) \/ RemoveFailed(c) \/ Detach(c) \/ RemoveEntry(c) \/ ClearPid(c)
              \/ RemoveDirectory(c) \/ WriteFile(c) \/ RemoveFile(c) \/ \E i \in Ids : RemoveOverlay(c, i))
  <2>1. UNCHANGED <<registry, file>>
    BY <1>14 DEF Command, Create, Configure, Start, Stop, Delete, Clean, Begin, Abort, ReadRegistry,
       TryReuse, NoReuse, PickPort, Poll, Probe, Spawn, Timeout, TerminateChild, KillStopped, KillDeleted
  <2>2. QED
    BY <2>1, EntriesUnchanged DEF TypeOK
<1>15. QED
  BY <1>2, <1>3, <1>4, <1>5, <1>6, <1>7, <1>8, <1>9, <1>10, <1>11, <1>12, <1>13, <1>14

\* The machine moves no command.
LEMMA MachineMoves ==
  ASSUME PlacesOK, Machine
  PROVE  /\ UNCHANGED <<pc, req, loc>> /\ (quiet' = quiet \/ quiet' = {})
         /\ manual' \in Nat /\ faults' \in Nat
<1> USE DEF PlacesOK, Fault, bounds
<1>1. ASSUME NEW p \in Pids, Validate(p) \/ Listen(p) \/ Terminate(p) \/ Exit(p)
      PROVE  /\ UNCHANGED <<pc, req, loc>> /\ (quiet' = quiet \/ quiet' = {})
             /\ manual' \in Nat /\ faults' \in Nat
  BY <1>1 DEF Validate, Listen, Terminate, Exit
<1>2. ASSUME NEW p \in Pids, NEW t \in Templates, NEW n \in Ports, StartByHand(p, t, n)
      PROVE  /\ UNCHANGED <<pc, req, loc>> /\ (quiet' = quiet \/ quiet' = {})
             /\ manual' \in Nat /\ faults' \in Nat
  BY <1>2 DEF StartByHand
<1>3. ASSUME NEW i \in Ids, Age(i)
      PROVE  /\ UNCHANGED <<pc, req, loc>> /\ (quiet' = quiet \/ quiet' = {})
             /\ manual' \in Nat /\ faults' \in Nat
  BY <1>3 DEF Age
<1>4. QED
  BY <1>1, <1>2, <1>3 DEF Machine

OneServer == \A n \in Ports : \A p, q \in Serving(n) : p = q

\* A server begins to serve only on a port nobody serves.
LEMMA MachineServers == ASSUME TypeOK, Machine PROVE ServersStay /\ OneServer'
<1>1. ASSUME NEW p \in Pids, server[p] # None,
             NEW h \in {"booting", "valid", "listening", "signalled", "dead"},
             server' = [server EXCEPT ![p].phase = h],
             h \in {"listening", "signalled"} => Serves(p) \/ ~InUse(server[p].port)
      PROVE  ServersStay /\ OneServer'
  <2>1. /\ ServersStay /\ \A q \in Pids \ {p} : server'[q] = server[q]
        /\ server'[p].phase = h
    BY <1>1, PhaseStep
  <2>2. QED
    BY <1>1, <2>1 DEF OneServer, Serving, Serves, InUse, ServersStay, TypeOK
<1>2. ASSUME NEW p \in Pids, Validate(p) \/ Listen(p) \/ Terminate(p) \/ Exit(p)
      PROVE ServersStay /\ OneServer'
  <2>1. CASE Validate(p)
    <3>1. PICK h \in {"valid", "dead"} : server' = [server EXCEPT ![p].phase = h]
      BY <2>1 DEF Validate
    <3>2. server[p] # None
      BY <2>1 DEF Validate
    <3>3. QED
      BY <1>1, <3>1, <3>2
  <2>2. CASE Listen(p)
    <3>1. PICK h : /\ server' = [server EXCEPT ![p].phase = h] /\ server[p] # None
                   /\ h = IF InUse(server[p].port) THEN "dead" ELSE "listening"
      BY <2>2 DEF Listen
    <3>2. QED
      BY <1>1, <3>1
  <2>3. CASE Terminate(p) \/ Exit(p)
    <3>1. server' = [server EXCEPT ![p].phase = "dead"] /\ server[p] # None
      BY <2>3 DEF Terminate, Exit
    <3>2. QED
      BY <1>1, <3>1
  <2>4. QED
    BY <1>2, <2>1, <2>2, <2>3
<1>3. ASSUME NEW p \in Pids, NEW t \in Templates, NEW n \in Ports, StartByHand(p, t, n)
      PROVE ServersStay /\ OneServer'
  <2>1. [id |-> None, template |-> t, port |-> n, phase |-> "listening"] \in Process
    BY DEF Process
  <2>2. /\ server[p] = None /\ ~InUse(n)
        /\ server' = [server EXCEPT ![p] =
                         [id |-> None, template |-> t, port |-> n, phase |-> "listening"]]
    BY <1>3 DEF StartByHand
  <2>3. ServersStay
    BY <2>1, <2>2 DEF ServersStay, TypeOK
  <2>4. OneServer'
    BY <2>2 DEF OneServer, Serving, InUse, TypeOK
  <2>5. QED
    BY <2>3, <2>4
<1>4. ASSUME NEW i \in Ids, Age(i) PROVE ServersStay /\ OneServer'
  BY <1>4 DEF Age, ServersStay, OneServer, Serving, TypeOK
<1>5. QED
  BY <1>2, <1>3, <1>4 DEF Machine

\* Entries only age by themselves.
LEMMA MachineEntries == ASSUME TypeOK, Machine PROVE EntryFates /\ UNCHANGED file
<1>1. UNCHANGED file
  BY DEF Machine, Validate, Listen, Terminate, Exit, StartByHand, Age
<1>2. ASSUME NEW i \in Ids, Age(i) PROVE EntryFates
  <2>1. registry[i] \in Entry /\ registry[i] # None
    BY <1>2 DEF Age, TypeOK
  <2>2. registry' = [registry EXCEPT ![i] = [registry[i] EXCEPT !.aged = TRUE]]
    BY <1>2 DEF Age
  <2>3. /\ [registry[i] EXCEPT !.aged = TRUE] \in Entry
        /\ [registry[i] EXCEPT !.aged = TRUE].pid = registry[i].pid
        /\ [registry[i] EXCEPT !.aged = TRUE].port = registry[i].port
        /\ [registry[i] EXCEPT !.aged = TRUE].template = registry[i].template
    BY <2>1 DEF Entry
  <2>4. EntryFate(i)
    BY <2>1, <2>2, <2>3 DEF EntryFate, TypeOK
  <2>5. QED
    BY <1>1, <2>2, <2>4, EntryReplaced
<1>3. CASE UNCHANGED registry
  BY <1>1, <1>3, EntriesUnchanged DEF TypeOK
<1>4. QED
  BY <1>1, <1>2, <1>3 DEF Machine, Validate, Listen, Terminate, Exit, StartByHand

-----------------------------------------------------------------------------
(* Entries and commands name the servers they are about.                   *)

\* A server keeps its identity.
LEMMA NamesStay ==
  ASSUME ServersStay, NEW p \in Pids, NEW i, NEW t, NEW n, Names(p, i, t, n)
  PROVE  Names(p, i, t, n)'
  BY DEF ServersStay, Names

\* A command remembers the child it spawned and the entry it found.
LEMMA LocalsStayNamed ==
  ASSUME Typed, EntryNamesItsServer, LocalsNameServers, NEW c \in Calls, Command(c), ServersStay
  PROVE  LocalsNameServers'
<1>0. MovesOnly(c) /\ loc[c] \in Locals /\ Typed
  BY OthersStay DEF Typed, PlacesOK
<1> DEFINE ChildNamed(d) == pc[d] \in Waiting =>
              loc[d].child # None /\ Names(loc[d].child, loc[d].me, loc[d].template, loc[d].port)
           SeenNamed(d) ==
              pc[d] \in Stopping \cup Deleting /\ loc[d].seen # None /\ loc[d].seen.pid # None =>
                 Names(loc[d].seen.pid, loc[d].me, loc[d].seen.template, loc[d].seen.port)
<1>1. ASSUME NEW d \in Calls, pc'[d] = pc[d] \/ (pc[d] \in Waiting /\ pc'[d] \in Waiting)
                \/ (pc[d] \in Stopping \cup Deleting /\ pc'[d] \in Stopping \cup Deleting),
             \/ loc'[d] = loc[d]
             \/ /\ loc'[d].me = loc[d].me /\ loc'[d].template = loc[d].template
                /\ loc'[d].port = loc[d].port /\ loc'[d].child = loc[d].child
                /\ loc'[d].seen = loc[d].seen
      PROVE  ChildNamed(d)' /\ SeenNamed(d)'
  <2>0. /\ loc'[d].me = loc[d].me /\ loc'[d].template = loc[d].template
        /\ loc'[d].port = loc[d].port /\ loc'[d].child = loc[d].child
    BY <1>1
  <2>1. loc[d] \in Locals
    BY DEF Typed, PlacesOK
  <2>2. ChildNamed(d) /\ SeenNamed(d)
    BY DEF LocalsNameServers
  <2>3. pc'[d] \in Waiting => pc[d] \in Waiting
    BY <1>1 DEF Waiting, Stopping, Deleting
  <2>4. pc'[d] \in Stopping \cup Deleting => pc[d] \in Stopping \cup Deleting
    BY <1>1 DEF Waiting, Stopping, Deleting
  <2>5. ChildNamed(d)'
    <3>1. SUFFICES ASSUME pc'[d] \in Waiting
                   PROVE  loc'[d].child # None /\ Names(loc[d].child, loc[d].me, loc[d].template, loc[d].port)'
      OBVIOUS
    <3>2. /\ loc[d].child \in Pids /\ loc[d].child # None
          /\ Names(loc[d].child, loc[d].me, loc[d].template, loc[d].port)
      BY <2>1, <2>2, <2>3, <3>1 DEF Locals
    <3>3. loc'[d].child # None
      BY <2>0, <3>2
    <3>4. Names(loc[d].child, loc[d].me, loc[d].template, loc[d].port)'
      BY <2>0, <3>2 DEF ServersStay, Names
    <3>5. QED
      BY <3>3, <3>4
  <2>6. SeenNamed(d)'
    <3>1. SUFFICES ASSUME pc'[d] \in Stopping \cup Deleting, loc'[d].seen # None, loc'[d].seen.pid # None
                   PROVE  Names(loc[d].seen.pid, loc[d].me, loc[d].seen.template, loc[d].seen.port)'
      OBVIOUS
    <3>2. loc'[d].seen = loc[d].seen /\ loc'[d].me = loc[d].me
      BY <1>1
    <3>3. loc[d].seen.pid \in Pids
      BY <2>1, <3>1, <3>2 DEF Locals, Entry
    <3>4. Names(loc[d].seen.pid, loc[d].me, loc[d].seen.template, loc[d].seen.port)
      BY <2>2, <2>4, <3>1, <3>2
    <3>5. QED
      BY <3>2, <3>3, <3>4 DEF ServersStay, Names
  <2>7. QED
    BY <2>5, <2>6
<1>2. ASSUME NEW d \in Calls, d # c PROVE ChildNamed(d)' /\ SeenNamed(d)'
  BY <1>0, <1>1, <1>2 DEF MovesOnly
<1>3. CASE pc'[c] \notin Waiting \cup Stopping \cup Deleting
  BY <1>2, <1>3 DEF LocalsNameServers
<1>4. CASE Spawn(c)
  <2>1. PICK p \in Pids :
          /\ server[p] = None
          /\ server' = [server EXCEPT ![p] = [id |-> loc[c].me, template |-> loc[c].template,
                                              port |-> loc[c].port, phase |-> "booting"]]
          /\ loc' = Local(c, "child", p)
    BY <1>4 DEF Spawn
  <2>2. loc'[c] = [loc[c] EXCEPT !.child = p]
    BY <2>1 DEF Local, Typed, PlacesOK
  <2>3. /\ loc'[c].child = p /\ loc'[c].me = loc[c].me /\ loc'[c].template = loc[c].template
        /\ loc'[c].port = loc[c].port
    BY <1>0, <2>2 DEF Locals
  <2>8. [id |-> loc[c].me, template |-> loc[c].template, port |-> loc[c].port, phase |-> "booting"]
           # None
    BY <1>4, ChildTyped, RecordAssumption DEF Spawn, Typed
  <2>4. Names(p, loc[c].me, loc[c].template, loc[c].port)'
    BY <2>1, <2>3, <2>8 DEF Names, Typed, TypeOK
  <2>5. ChildNamed(c)'
    BY <2>3, <2>4, ProxyLifecycleAssumption DEF Names
  <2>6. SeenNamed(c)'
    BY <1>4 DEF Spawn, Goto, Typed, PlacesOK, Stopping, Deleting
  <2>7. QED
    BY <1>2, <2>5, <2>6 DEF LocalsNameServers
<1>5. ASSUME NEW r \in Requests, Stop(c, r) \/ Delete(c, r) PROVE LocalsNameServers'
  <2>1. /\ r.name \in Ids /\ loc'[c] = [NoLocals EXCEPT !.me = r.name, !.seen = registry[r.name]]
        /\ pc'[c] \in Stopping \cup Deleting /\ UNCHANGED server
    <3>1. r \in Request /\ r.name # None
      BY <1>5, ProxyLifecycleAssumption DEF Stop, Delete
    <3>2. QED
      BY <1>5, <3>1 DEF Stop, Delete, Begin, Goto, Request, Stopping, Deleting, Typed, PlacesOK
  <2>2. loc'[c].me = r.name /\ loc'[c].seen = registry[r.name]
    BY <2>1 DEF NoLocals
  <2>3. SeenNamed(c)'
    <3>1. SUFFICES ASSUME registry[r.name] # None, registry[r.name].pid # None
                   PROVE  Names(registry[r.name].pid, r.name, registry[r.name].template,
                                registry[r.name].port)
      BY <2>1, <2>2 DEF Names
    <3>2. r.name \in Registered
      BY <2>1, <3>1 DEF Registered
    <3>3. QED
      BY <3>1, <3>2 DEF EntryNamesItsServer, Names
  <2>4. ChildNamed(c)'
    BY <2>1 DEF Waiting, Stopping, Deleting
  <2>5. QED
    BY <1>2, <2>3, <2>4 DEF LocalsNameServers
<1>6. CASE /\ pc'[c] \in Waiting \cup Stopping \cup Deleting
           /\ ~Spawn(c) /\ ~\E r \in Requests : Stop(c, r) \/ Delete(c, r)
  <2>1. Poll(c) \/ Probe(c) \/ Timeout(c) \/ KillStopped(c) \/ RemoveEntry(c) \/ RemoveDirectory(c)
    <3>1. /\ pc \in [Calls -> Points]
          /\ \A to \in {"prune", "rmdirs", "read", "reuse", "adopt", "persist", "write", "register",
                        "spawn", "unwrite", "unregister", "ended"} :
                to \notin Waiting \cup Stopping \cup Deleting
      BY DEF Typed, PlacesOK, Waiting, Stopping, Deleting
    <3>2. \A r \in Requests : ~(Create(c, r) \/ Configure(c, r) \/ Start(c, r) \/ Clean(c, r))
      BY <1>6, <3>1 DEF Create, Configure, Start, Clean, Begin, Goto
    <3>3. ~(\/ Abort(c) \/ Prune(c) \/ \E i \in Ids : RemoveOverlay(c, i))
      BY <1>6, <3>1 DEF Abort, Prune, RemoveOverlay, AfterPrune, End, Goto
    <3>4. ~(ReadRegistry(c) \/ NoReuse(c) \/ PersistReuse(c) \/ Adopt(c) \/ PickPort(c) \/ WriteFile(c))
      BY <1>6, <3>1 DEF ReadRegistry, NoReuse, PersistReuse, Adopt, PickPort, WriteFile, End, Goto
    <3>5. ~\E i \in Ids, n \in Ports : TryReuse(c, i, n)
      BY <1>6, <3>1 DEF TryReuse, Goto
    <3>6. ~(RegisterStarting(c) \/ RegisterConfigured(c) \/ MarkHealthy(c) \/ TerminateChild(c)
              \/ RemoveFile(c) \/ RemoveFailed(c) \/ Detach(c) \/ ClearPid(c) \/ KillDeleted(c))
      BY <1>6, <3>1 DEF RegisterStarting, RegisterConfigured, MarkHealthy, TerminateChild, RemoveFile,
         RemoveFailed, Detach, ClearPid, KillDeleted, End, Goto
    <3>7. QED
      BY <1>6, <3>2, <3>3, <3>4, <3>5, <3>6 DEF Command
  <2>2. CASE Poll(c) \/ Probe(c) \/ Timeout(c)
    <3>1. pc[c] \in Waiting /\ pc'[c] \in Waiting /\ UNCHANGED loc
      BY <2>2 DEF Poll, Probe, Timeout, Goto, Waiting, Typed, PlacesOK
    <3>2. QED
      BY <1>1, <1>2, <3>1 DEF LocalsNameServers
  <2>3. CASE RemoveEntry(c)
    <3>1. pc[c] \in Deleting /\ pc'[c] \in Deleting /\ \E k \in BOOLEAN : loc' = Local(c, "kill", k)
      BY <2>3 DEF RemoveEntry, Goto, Deleting, Typed, PlacesOK
    <3>2. PICK k \in BOOLEAN : loc'[c] = [loc[c] EXCEPT !.kill = k]
      BY <3>1 DEF Local, Typed, PlacesOK
    <3>3. /\ loc'[c].me = loc[c].me /\ loc'[c].template = loc[c].template
          /\ loc'[c].port = loc[c].port /\ loc'[c].child = loc[c].child /\ loc'[c].seen = loc[c].seen
      BY <1>0, <3>2 DEF Locals
    <3>4. ChildNamed(c)' /\ SeenNamed(c)'
      BY <1>1, <3>1, <3>3
    <3>5. QED
      BY <1>2, <3>4 DEF LocalsNameServers
  <2>4. CASE KillStopped(c) \/ RemoveDirectory(c)
    <3>1. pc'[c] = "ended" \/ (pc[c] \in Stopping \cup Deleting /\ UNCHANGED loc)
      BY <2>4 DEF KillStopped, RemoveDirectory, End, Goto, Stopping, Deleting, Typed, PlacesOK
    <3>2. pc[c] \in Stopping \cup Deleting /\ pc'[c] \in Stopping \cup Deleting /\ UNCHANGED loc
      BY <1>6, <2>4, <3>1 DEF KillStopped, RemoveDirectory, End, Goto, Stopping, Deleting, Waiting,
         Typed, PlacesOK
    <3>3. QED
      BY <1>1, <1>2, <3>2 DEF LocalsNameServers
  <2>5. QED
    BY <2>1, <2>2, <2>3, <2>4
<1>7. QED
  BY <1>3, <1>4, <1>5, <1>6

\* Whatever writes an entry, it is an entry and names its server.
LEMMA EntriesStayNamed ==
  ASSUME Typed, EntryNamesItsServer, LocalsNameServers, EntryFates, ServersStay
  PROVE  registry' \in [Ids -> Entry \cup {None}] /\ EntryNamesItsServer'
<1> DEFINE Good(i, e) == \/ e = None
                         \/ /\ e \in Entry
                            /\ e.pid # None => /\ e.pid \in Pids
                                               /\ Names(e.pid, i, e.template, e.port)
<1>1. ASSUME NEW i \in Ids PROVE Good(i, registry'[i])
  <2>1. CASE registry'[i] = None \/ (registry'[i] \in Entry /\ registry'[i].pid = None)
    BY <2>1
  <2>2. CASE /\ registry[i] # None /\ registry'[i] \in Entry
             /\ registry'[i].pid = registry[i].pid /\ registry'[i].port = registry[i].port
             /\ registry'[i].template = registry[i].template
    <3>1. registry[i].pid # None => Names(registry[i].pid, i, registry[i].template, registry[i].port)
      BY <2>2 DEF EntryNamesItsServer, Registered, Names
    <3>2. registry'[i].pid \in Pids \cup {None}
      BY <2>2 DEF Entry
    <3>3. QED
      BY <2>2, <3>1, <3>2
  <2>3. ASSUME NEW c \in Calls, i = loc[c].me, pc[c] = "mark",
               registry'[i] = NewEntry(c, loc[c].child, "healthy")
        PROVE Good(i, registry'[i])
    <3>1. /\ loc[c].child # None /\ loc[c].child \in Pids
          /\ Names(loc[c].child, i, loc[c].template, loc[c].port)
      BY <2>3 DEF LocalsNameServers, Waiting, Typed, PlacesOK, Locals
    <3>2. NewEntry(c, loc[c].child, "healthy") \in Entry
      BY <2>3, <3>1, NewEntryTyped DEF Starting, Typed
    <3>3. QED
      BY <2>3, <3>1, <3>2 DEF NewEntry
  <2>4. ASSUME NEW c \in Calls, i = loc[c].me, pc[c] = "rmdir", registry'[i] = loc[c].seen
        PROVE Good(i, registry'[i])
    <3>1. loc[c].seen \in Entry \cup {None}
      BY DEF Typed, PlacesOK, Locals
    <3>2. CASE loc[c].seen = None
      BY <2>4, <3>2
    <3>3. CASE loc[c].seen # None
      <4>1. loc[c].seen.pid \in Pids \cup {None}
        BY <3>1, <3>3 DEF Entry
      <4>2. loc[c].seen.pid # None =>
              Names(loc[c].seen.pid, loc[c].me, loc[c].seen.template, loc[c].seen.port)
        BY <2>4, <3>3 DEF LocalsNameServers, Deleting
      <4>3. QED
        BY <2>4, <3>1, <3>3, <4>1, <4>2
    <3>4. QED
      BY <3>2, <3>3
  <2>5. QED
    BY <2>1, <2>2, <2>3, <2>4 DEF EntryFates, EntryFate
<1>2. registry' \in [Ids -> Entry \cup {None}]
  BY <1>1 DEF EntryFates
<1>3. ASSUME NEW i \in Ids, registry'[i] # None, registry'[i].pid # None
      PROVE  /\ server'[registry'[i].pid] # None /\ server'[registry'[i].pid].id = i
             /\ server'[registry'[i].pid].template = registry'[i].template
             /\ server'[registry'[i].pid].port = registry'[i].port
  BY <1>1, <1>3 DEF ServersStay, Names
<1>4. QED
  BY <1>2, <1>3 DEF EntryNamesItsServer, Registered

\* Without the promise to undisturbed commands.
Sound == Typed /\ EntryNamesItsServer /\ LocalsNameServers

\* A step of a command keeps entries and locals sound.
LEMMA CommandSound == ASSUME Sound, NEW c \in Calls, Command(c) PROVE Sound'
<1> USE DEF Sound
<1>1. PlacesOK' /\ ServersStay /\ NoneIsServed /\ EntryFates /\ MovesOnly(c)
  BY CommandPlaces, CommandServers, CommandEntries, OthersStay DEF Typed
<1>2. registry' \in [Ids -> Entry \cup {None}] /\ EntryNamesItsServer'
  BY <1>1, EntriesStayNamed
<1>3. LocalsNameServers'
  BY <1>1, LocalsStayNamed
<1>4. \A d \in Calls : req'[d] \in Request \cup {None}
  <2>1. Places(c) \/ \E r \in Requests : Beginning(c, r) /\ req'[c] \in Request
    BY BeginningPlaces, PruningPlaces, LookingPlaces, StayingPlaces, EndingPlaces, LastPlaces
       DEF Command, Beginning
  <2>2. QED
    BY <1>1, <2>1 DEF Places, MovesOnly, Typed, TypeOK
<1>5. \A n \in Ports : \A p, q \in Serving(n)' : p = q
  BY <1>1 DEF NoneIsServed, Serves, ServersStay, Serving, Typed, TypeOK
<1>6. quiet' \subseteq Calls
  BY <1>1 DEF MovesOnly, Typed, TypeOK
<1>7. TypeOK'
  BY <1>1, <1>2, <1>4, <1>5, <1>6 DEF TypeOK, EntryFates, ServersStay
<1>8. QED
  BY <1>1, <1>2, <1>3, <1>7 DEF Typed

\* So does a step of the machine.
LEMMA MachineSound == Sound /\ Machine => Sound'
<1> SUFFICES ASSUME Sound, Machine PROVE Sound'
  OBVIOUS
<1> USE DEF Sound
<1>1. /\ UNCHANGED <<pc, req, loc>> /\ (quiet' = quiet \/ quiet' = {})
      /\ manual' \in Nat /\ faults' \in Nat
  BY MachineMoves DEF Typed
<1>2. ServersStay /\ OneServer' /\ EntryFates
  BY MachineServers, MachineEntries DEF Typed
<1>3. registry' \in [Ids -> Entry \cup {None}] /\ EntryNamesItsServer'
  BY <1>2, EntriesStayNamed
<1>4. PlacesOK'
  BY <1>1 DEF Typed, PlacesOK, Settles
<1>5. TypeOK'
  BY <1>1, <1>2, <1>3 DEF Typed, TypeOK, EntryFates, ServersStay, OneServer
<1>6. LocalsNameServers'
  <2>1. ASSUME NEW c \in Calls, pc[c] \in Waiting
        PROVE  loc[c].child # None /\ Names(loc[c].child, loc[c].me, loc[c].template, loc[c].port)'
    <3>1. /\ loc[c].child \in Pids /\ loc[c].child # None
          /\ Names(loc[c].child, loc[c].me, loc[c].template, loc[c].port)
      BY <2>1 DEF LocalsNameServers, Typed, PlacesOK, Locals
    <3>2. QED
      BY <1>1, <1>2, <3>1 DEF ServersStay, Names
  <2>2. ASSUME NEW c \in Calls, pc[c] \in Stopping \cup Deleting, loc[c].seen # None, loc[c].seen.pid # None
        PROVE  Names(loc[c].seen.pid, loc[c].me, loc[c].seen.template, loc[c].seen.port)'
    <3>1. loc[c].seen.pid \in Pids
      BY <2>2 DEF Typed, PlacesOK, Locals, Entry
    <3>2. Names(loc[c].seen.pid, loc[c].me, loc[c].seen.template, loc[c].seen.port)
      BY <2>2 DEF LocalsNameServers
    <3>3. QED
      BY <1>1, <1>2, <3>1, <3>2 DEF ServersStay, Names
  <2>3. QED
    BY <1>1, <2>1, <2>2 DEF LocalsNameServers
<1>7. QED
  BY <1>3, <1>4, <1>5, <1>6 DEF Typed

\* What Init says of the proxies that are there, by which of them run.
InitialMachine(known, up, pidOf) ==
    /\ \A i, j \in up : i # j => pidOf[i] # pidOf[j] /\ SettledAt[i].port # SettledAt[j].port
    /\ registry = [i \in Ids |-> IF i \notin known THEN None ELSE
          [template |-> SettledAt[i].template, port |-> SettledAt[i].port, aged |-> FALSE,
           pid |-> IF i \in up THEN pidOf[i] ELSE None,
           status |-> IF i \in up THEN "healthy" ELSE "configured"]]
    /\ server = [p \in Pids |-> IF \A i \in up : pidOf[i] # p THEN None ELSE
          LET i == CHOOSE i \in up : pidOf[i] = p
          IN  [id |-> i, template |-> SettledAt[i].template, port |-> SettledAt[i].port,
               phase |-> "listening"]]
    /\ file = [i \in Ids |-> IF i \in known THEN SettledAt[i] ELSE None]

\* The proxies a machine starts with are sound.
LEMMA InitSound == Init => Sound
<1> SUFFICES ASSUME Init PROVE Sound
  OBVIOUS
<1>0. PICK known \in SUBSET Settled : \E up \in SUBSET known : \E pidOf \in [up -> Pids] :
          InitialMachine(known, up, pidOf)
  BY DEF Init, InitialMachine
<1>01. PICK up \in SUBSET known : \E pidOf \in [up -> Pids] : InitialMachine(known, up, pidOf)
  BY <1>0
<1>02. PICK pidOf \in [up -> Pids] : InitialMachine(known, up, pidOf)
  BY <1>01
<1>1. /\ \A i, j \in up : i # j => pidOf[i] # pidOf[j] /\ SettledAt[i].port # SettledAt[j].port
      /\ registry = [i \in Ids |-> IF i \notin known THEN None ELSE
            [template |-> SettledAt[i].template, port |-> SettledAt[i].port, aged |-> FALSE,
             pid |-> IF i \in up THEN pidOf[i] ELSE None,
             status |-> IF i \in up THEN "healthy" ELSE "configured"]]
      /\ server = [p \in Pids |-> IF \A i \in up : pidOf[i] # p THEN None ELSE
            LET i == CHOOSE i \in up : pidOf[i] = p
            IN  [id |-> i, template |-> SettledAt[i].template, port |-> SettledAt[i].port,
                 phase |-> "listening"]]
      /\ file = [i \in Ids |-> IF i \in known THEN SettledAt[i] ELSE None]
  BY <1>02 DEF InitialMachine
<1>2. ASSUME NEW i \in known
      PROVE i \in Ids /\ SettledAt[i] \in Config /\ SettledAt[i].template \in Templates
                      /\ SettledAt[i].port \in Ports
  BY ProxyLifecycleAssumption DEF Config
<1>3. registry \in [Ids -> Entry \cup {None}]
  <2>1. ASSUME NEW i \in known
        PROVE [template |-> SettledAt[i].template, port |-> SettledAt[i].port, aged |-> FALSE,
               pid |-> IF i \in up THEN pidOf[i] ELSE None,
               status |-> IF i \in up THEN "healthy" ELSE "configured"] \in Entry
    BY <1>2 DEF Entry
  <2>2. QED
    BY <1>1, <2>1
<1>4. file \in [Ids -> Config \cup {None}]
  BY <1>1, <1>2
<1>5. ASSUME NEW p \in Pids
      PROVE  \/ server[p] = None
             \/ \E i \in up : /\ pidOf[i] = p
                              /\ server[p] = [id |-> i, template |-> SettledAt[i].template,
                                              port |-> SettledAt[i].port, phase |-> "listening"]
  BY <1>1
<1>6. server \in [Pids -> Process \cup {None}]
  <2>1. ASSUME NEW i \in up
        PROVE [id |-> i, template |-> SettledAt[i].template, port |-> SettledAt[i].port,
               phase |-> "listening"] \in Process
    BY <1>2 DEF Process
  <2>2. \A p \in Pids : server[p] \in Process \cup {None}
    BY ZenonT(40), <1>5, <2>1
  <2>3. QED
    BY <1>1, <2>2
<1>7. ASSUME NEW i \in up
      PROVE  /\ server[pidOf[i]] # None
             /\ server[pidOf[i]] = [id |-> i, template |-> SettledAt[i].template,
                                    port |-> SettledAt[i].port, phase |-> "listening"]
  <2>1. \A j \in up : pidOf[j] = pidOf[i] => j = i
    BY <1>1
  <2>2. server[pidOf[i]] # None
    BY <1>1, <1>2, RecordAssumption DEF Process
  <2>3. QED
    BY <1>5, <2>1, <2>2
<1>8. OneServer
  BY <1>1, <1>5 DEF OneServer, Serving
<1>9. EntryNamesItsServer
  <2>1. ASSUME NEW i \in Ids, registry[i] # None, registry[i].pid # None
        PROVE  /\ server[registry[i].pid] # None /\ server[registry[i].pid].id = i
               /\ server[registry[i].pid].template = registry[i].template
               /\ server[registry[i].pid].port = registry[i].port
    <3>1. i \in up /\ registry[i].pid = pidOf[i] /\ registry[i].template = SettledAt[i].template
            /\ registry[i].port = SettledAt[i].port
      BY <1>1, <2>1
    <3>2. server[pidOf[i]] = [id |-> i, template |-> SettledAt[i].template,
                              port |-> SettledAt[i].port, phase |-> "listening"]
      BY <1>7, <3>1
    <3>3. pidOf[i] \in Pids /\ server[pidOf[i]].id = i
            /\ server[pidOf[i]].template = SettledAt[i].template
            /\ server[pidOf[i]].port = SettledAt[i].port
      BY <3>1, <3>2
    <3>4. server[pidOf[i]] # None
      BY <1>7, <3>1
    <3>5. QED
      BY <3>1, <3>3, <3>4
  <2>2. QED
    BY <2>1 DEF EntryNamesItsServer, Registered
<1>10. TypeOK
  BY <1>3, <1>4, <1>6, <1>8 DEF Init, TypeOK, OneServer
<1>11. PlacesOK /\ LocalsNameServers
  BY NoLocalsTyped DEF Init, PlacesOK, LocalsNameServers, Settles, Points, Pruning, Looking,
     Installing, Starting, Stopping, Deleting, Waiting
<1>12. QED
  BY <1>9, <1>10, <1>11 DEF Sound, Typed

-----------------------------------------------------------------------------
(* A command nothing interferes with.                                      *)

\* Only a beginning command starts to be undisturbed; the others are idle.
LEMMA QuietStays ==
  ASSUME Sound, QuietAlone, NEW c \in Calls, Command(c), NEW d \in quiet'
  PROVE  /\ d = c /\ \A e \in Calls \ {c} : e \in Idle'
         /\ \/ c \in quiet /\ ~\E r \in Requests : Beginning(c, r)
            \/ /\ \E r \in Requests : Beginning(c, r)
               /\ \A p \in Pids : ~Starts(p)
<1>1. MovesOnly(c) /\ pc \in [Calls -> Points]
  BY OthersStay DEF Sound, Typed, PlacesOK
<1>2. ASSUME NEW r \in Requests, Beginning(c, r)
      PROVE  d = c /\ Idle = Calls /\ \A p \in Pids : ~Starts(p)
  <2>1. PICK q, to, locals : Begin(c, q, to, locals)
    BY <1>2 DEF Beginning, Create, Configure, Start, Stop, Delete, Clean
  <2>2. QED
    BY <2>1 DEF Begin, Starts
<1>3. CASE \E r \in Requests : Beginning(c, r)
  BY <1>1, <1>2, <1>3 DEF MovesOnly, Idle
<1>4. CASE ~\E r \in Requests : Beginning(c, r)
  <2>1. quiet' \subseteq quiet /\ c \notin Idle
    BY <1>4 DEF Beginning, Idle, Command, Abort, Prune, RemoveOverlay, ReadRegistry, TryReuse, NoReuse,
       PersistReuse, Adopt, PickPort, WriteFile, RegisterStarting, RegisterConfigured, Spawn, Poll,
       Probe, MarkHealthy, Timeout, TerminateChild, RemoveFile, RemoveFailed, KillStopped, Detach,
       ClearPid, RemoveEntry, RemoveDirectory, KillDeleted, End
  <2>2. d = c /\ \A e \in Calls \ {c} : e \in Idle
    BY <2>1 DEF QuietAlone, Alone
  <2>3. QED
    BY <1>1, <1>4, <2>1, <2>2 DEF MovesOnly, Idle
<1>5. QED
  BY <1>3, <1>4

\* Only Spawn starts a server, and what a command stops no longer starts.
LEMMA StartsStay ==
  ASSUME Sound, NEW c \in Calls, Command(c), ~Spawn(c), NEW p \in Pids, Starts(p)'
  PROVE  Starts(p)
<1>1. CASE TerminateChild(c)
  <2>1. loc[c].child \in Pids /\ server[loc[c].child] # None
    BY <1>1 DEF Sound, TerminateChild, LocalsNameServers, Names, Waiting, Typed, PlacesOK, Locals
  <2>2. server' = [server EXCEPT ![loc[c].child].phase = "dead"]
    BY <1>1 DEF TerminateChild
  <2>3. /\ \A q \in Pids \ {loc[c].child} : server'[q] = server[q]
        /\ server'[loc[c].child].phase = "dead"
    BY <2>1, <2>2, PhaseStep DEF Sound, Typed
  <2>4. QED
    BY <2>3 DEF Starts
<1>2. CASE KillStopped(c) \/ KillDeleted(c)
  <2>1. StopProcess(c) /\ loc[c].seen # None /\ pc[c] \in Stopping \cup Deleting
    BY <1>2 DEF KillStopped, KillDeleted, Sound, Typed, PlacesOK, Settles, Stopping, Deleting
  <2>2. CASE Victims(c) = {}
    BY <2>1, <2>2 DEF StopProcess, Starts
  <2>3. CASE Victims(c) # {}
    <3>1. PICK q \in Victims(c) : Signal(q)
      BY <2>1, <2>3 DEF StopProcess
    <3>2. q \in Pids /\ server[q] # None
      <4>1. loc[c].seen \in Entry
        BY <2>1 DEF Sound, Typed, PlacesOK, Locals
      <4>2. CASE loc[c].seen.pid # None
        BY <2>1, <3>1, <4>1, <4>2 DEF Victims, Entry, Sound, LocalsNameServers, Names
      <4>3. CASE loc[c].seen.pid = None
        BY <3>1, <4>3 DEF Victims, Found, Serving
      <4>4. QED
        BY <4>2, <4>3
    <3>3. PICK h \in {"signalled", "dead"} : server' = [server EXCEPT ![q].phase = h]
      <4>1. CASE server[q].phase = "listening"
        BY <3>1, <4>1 DEF Signal
      <4>2. CASE server[q].phase = "signalled"
        BY <3>1, <4>2 DEF Signal
      <4>3. CASE server[q].phase \notin {"listening", "signalled"}
        BY <3>1, <4>3 DEF Signal
      <4>4. QED
        BY <4>1, <4>2, <4>3
    <3>4. /\ \A r \in Pids \ {q} : server'[r] = server[r]
          /\ server'[q].phase = h
      BY <3>2, <3>3, PhaseStep DEF Sound, Typed
    <3>5. QED
      BY <3>4 DEF Starts
  <2>4. QED
    BY <2>2, <2>3
<1>3. CASE ~(TerminateChild(c) \/ KillStopped(c) \/ KillDeleted(c))
  <2>1. UNCHANGED server
    BY <1>3 DEF Command, Create, Configure, Start, Stop, Delete, Clean, Begin, Abort, Prune,
       RemoveOverlay, ReadRegistry, TryReuse, NoReuse, PersistReuse, Adopt, PickPort, WriteFile,
       RegisterStarting, RegisterConfigured, Poll, Probe, MarkHealthy, Timeout, RemoveFile,
       RemoveFailed, Detach, ClearPid, RemoveEntry, RemoveDirectory
  <2>2. QED
    BY <2>1 DEF Starts
<1>4. QED
  BY <1>1, <1>2, <1>3

\* Where nothing is promised, nothing breaks.
Calm == {"ended", "detach", "clear", "remove", "fail", "unwrite", "unregister"} \cup Pruning \cup Looking

\* A command that gets to such a place is alone there.
LEMMA CalmAlone ==
  ASSUME NEW c \in Calls, pc'[c] \in Calm, \A e \in Calls \ {c} : e \in Idle',
         \A p \in Pids : Starts(p)' => pc'[c] \in Waiting /\ p = loc'[c].child
  PROVE  Alone(c)'
  BY DEF Alone, Calm, Pruning, Looking, Installing

\* A command begins alone: what it refuses to touch is not there.
LEMMA BeginningAlone ==
  ASSUME Sound, NEW c \in Calls, NEW r \in Requests, Beginning(c, r), \A e \in Calls \ {c} : e \in Idle',
         \A p \in Pids : ~Starts(p)
  PROVE  Alone(c)'
<1>0. /\ r \in Request /\ r # None /\ r.op \in Ops
      /\ r.op \notin {"create", "clean"} => r.name \in Ids
  BY ProxyLifecycleAssumption, RecordAssumption DEF Request
<1>1. ASSUME NEW q, NEW to, NEW locals, Begin(c, q, to, locals)
      PROVE  /\ pc'[c] = to /\ loc'[c] = locals /\ req'[c] = q
             /\ UNCHANGED <<registry, file, server>> /\ \A p \in Pids : ~Starts(p)'
  BY <1>1 DEF Begin, Goto, Sound, Typed, PlacesOK, Starts
<1>2. CASE Create(c, r) \/ Start(c, r) \/ Clean(c, r)
  <2>1. pc'[c] = "prune" /\ \A p \in Pids : ~Starts(p)'
    BY <1>1, <1>2 DEF Create, Start, Clean
  <2>2. QED
    BY <2>1, CalmAlone DEF Calm, Pruning
<1>3. CASE Configure(c, r)
  <2>1. pc'[c] = "write" /\ req'[c].op = "configure" /\ \A p \in Pids : ~Starts(p)'
    BY <1>1, <1>3 DEF Configure
  <2>2. QED
    BY <2>1 DEF Alone, Installing, Waiting
<1>4. CASE Stop(c, r)
  <2>1. /\ pc'[c] = "kill" /\ req'[c] = r /\ UNCHANGED registry /\ \A p \in Pids : ~Starts(p)'
        /\ loc'[c] = [NoLocals EXCEPT !.me = r.name, !.seen = registry[r.name]]
    BY <1>1, <1>4 DEF Stop
  <2>2. loc'[c].me = r.name /\ loc'[c].seen = registry[r.name]
    BY <2>1 DEF NoLocals
  <2>3. ~r.force => Unshared(c)'
    BY <1>4, <2>1, <2>2 DEF Stop, Unshared, Registered, Routable
  <2>4. QED
    BY <2>1, <2>3 DEF Alone, Installing, Waiting
<1>5. CASE Delete(c, r)
  <2>1. /\ pc'[c] \in {"remove", "rmdir"} /\ \A p \in Pids : ~Starts(p)'
        /\ loc'[c] = [NoLocals EXCEPT !.me = r.name, !.seen = registry[r.name]]
    BY <1>1, <1>5 DEF Delete
  <2>2. loc'[c].kill = FALSE
    BY <2>1 DEF NoLocals
  <2>3. QED
    BY <2>1, <2>2 DEF Alone, Installing, Waiting
<1>6. QED
  BY <1>2, <1>3, <1>4, <1>5 DEF Beginning

\* A command that is undisturbed stays so in a step of its own.
LEMMA OngoingAlone ==
  ASSUME Sound, QuietAlone, NEW c \in Calls, Command(c), c \in quiet, c \in quiet',
         ~\E r \in Requests : Beginning(c, r), \A e \in Calls \ {c} : e \in Idle'
  PROVE  Alone(c)'
<1>0. /\ Alone(c) /\ loc[c] \in Locals /\ pc[c] \in Points
      /\ Settles(c) /\ TypeOK
  BY DEF QuietAlone, Sound, Typed, PlacesOK
<1>1. ~End(c)
  BY DEF End
<1>2. ASSUME ~Spawn(c), pc[c] \notin Waiting \/ (pc'[c] \in Waiting /\ loc'[c] = loc[c])
      PROVE \A p \in Pids : Starts(p)' => pc'[c] \in Waiting /\ p = loc'[c].child
  BY <1>0, <1>2, StartsStay DEF Alone
<1>3. CASE Prune(c) \/ ReadRegistry(c) \/ NoReuse(c) \/ KillStopped(c)
            \/ (\E i \in Ids : RemoveOverlay(c, i)) \/ (\E i \in Ids, n \in Ports : TryReuse(c, i, n))
  <2>1. pc[c] \notin Waiting /\ pc'[c] \in Calm /\ ~Spawn(c)
    <3>1. pc \in [Calls -> Points]
      BY DEF Sound, Typed, PlacesOK
    <3>2. CASE Prune(c)
      BY <3>1, <3>2 DEF Prune, AfterPrune, Goto, Calm, Pruning, Looking, Waiting, Spawn
    <3>3. CASE \E i \in Ids : RemoveOverlay(c, i)
      BY <3>1, <3>3 DEF RemoveOverlay, AfterPrune, Goto, Calm, Pruning, Looking, Waiting, Spawn
    <3>4. CASE ReadRegistry(c) \/ NoReuse(c)
      BY <3>1, <3>4 DEF ReadRegistry, NoReuse, Goto, Calm, Pruning, Looking, Waiting, Spawn
    <3>5. CASE KillStopped(c)
      BY <1>1, <3>1, <3>5 DEF KillStopped, Goto, Calm, Pruning, Looking, Waiting, Spawn
    <3>6. CASE \E i \in Ids, n \in Ports : TryReuse(c, i, n)
      BY <3>1, <3>6 DEF TryReuse, Goto, Calm, Pruning, Looking, Waiting, Spawn
    <3>7. QED
      BY <1>3, <3>2, <3>3, <3>4, <3>5, <3>6
  <2>2. QED
    BY <1>2, <2>1, CalmAlone
<1>4. CASE PickPort(c)
  <2> DEFINE free == {n \in Ports : ~InUse(n) /\ IF req[c].port # None THEN n = Target(c)
                                                                       ELSE n >= Target(c)}
  <2>1. /\ free # {} /\ loc' = Local(c, "port", Min(free)) /\ UNCHANGED <<server, req>>
        /\ Goto(c, IF req[c].op = "start" THEN "register" ELSE "write") /\ pc[c] = "adopt"
    BY <1>1, <1>4 DEF PickPort
  <2>2. free \in SUBSET Nat
    BY ProxyLifecycleAssumption
  <2>3. Min(free) \in free
    BY <2>1, <2>2, MinIsMember
  <2>4. loc'[c] = [loc[c] EXCEPT !.port = Min(free)]
    BY <2>1 DEF Local, Sound, Typed, PlacesOK
  <2>5. loc'[c].port = Min(free) /\ ~InUse(Min(free))
    <3> HIDE DEF free
    <3>1. loc'[c].port = Min(free)
      BY <1>0, <2>4 DEF Locals
    <3> USE DEF free
    <3>2. QED
      BY <2>3, <3>1
  <2>6. ~InUse(loc[c].port)'
    BY <2>1, <2>5 DEF InUse, Serving
  <2>7. pc'[c] \in Installing /\ pc[c] \notin Waiting /\ ~Spawn(c)
    BY <2>1 DEF Goto, Installing, Waiting, Spawn, Sound, Typed, PlacesOK
  <2>8. \A p \in Pids : Starts(p)' => pc'[c] \in Waiting /\ p = loc'[c].child
    BY <1>2, <2>7
  <2>9. QED
    BY <2>6, <2>7, <2>8 DEF Alone, Installing
<1>5. CASE WriteFile(c) \/ RegisterStarting(c)
  <2>1. /\ pc[c] \in Installing /\ pc'[c] \in Installing \cup {"spawn"} /\ UNCHANGED <<server, req, loc>>
        /\ ~Spawn(c) /\ pc[c] \notin Waiting
    BY <1>5 DEF WriteFile, RegisterStarting, Goto, Installing, Waiting, Spawn, Sound, Typed, PlacesOK
  <2>2. req[c].op # "configure" => ~InUse(loc[c].port)
    BY <1>0, <2>1 DEF Alone
  <2>3. \A p \in Pids : Starts(p)' => pc'[c] \in Waiting /\ p = loc'[c].child
    BY <1>2, <2>1
  <2>4. QED
    BY <2>1, <2>2, <2>3 DEF Alone, Installing, InUse, Serving
<1>6. CASE Spawn(c)
  <2>1. PICK p \in Pids :
          /\ server[p] = None
          /\ server' = [server EXCEPT ![p] = [id |-> loc[c].me, template |-> loc[c].template,
                                              port |-> loc[c].port, phase |-> "booting"]]
          /\ loc' = Local(c, "child", p)
    BY <1>6 DEF Spawn
  <2>2. pc[c] = "spawn" /\ pc'[c] = "poll" /\ UNCHANGED req
    BY <1>6 DEF Spawn, Goto, Sound, Typed, PlacesOK
  <2>3. loc'[c] = [loc[c] EXCEPT !.child = p]
    BY <2>1 DEF Local, Sound, Typed, PlacesOK
  <2>4. loc'[c].child = p /\ loc'[c].port = loc[c].port
    BY <1>0, <2>3 DEF Locals
  <2>5. /\ \A q \in Pids \ {p} : server'[q] = server[q]
        /\ server'[p].phase = "booting"
    BY <1>0, <2>1 DEF TypeOK
  <2>6. Serving(loc[c].port) = {} /\ \A q \in Pids : ~Starts(q)
    BY <1>0, <2>2 DEF Alone, Starting, Settles, InUse, Waiting
  <2>7. Serving(loc[c].port)' = {}
    BY <2>2, <2>4, <2>5, <2>6 DEF Serving
  <2>8. \A q \in Pids : Starts(q)' => q = p
    BY <2>5, <2>6 DEF Starts
  <2>9. QED
    BY <2>2, <2>4, <2>5, <2>7, <2>8, <1>6 DEF Alone, Waiting, Installing, Serving
<1>7. CASE Poll(c) \/ Probe(c) \/ Timeout(c)
  <2>1. /\ pc[c] \in {"poll", "probe"} /\ pc'[c] \in {"poll", "probe", "mark", "fail"}
        /\ UNCHANGED <<server, loc, req, file>> /\ ~Spawn(c)
        /\ pc'[c] = "mark" => Healthy(loc[c].template, loc[c].port, loc[c].me)
    BY <1>7 DEF Poll, Probe, Timeout, Goto, Spawn, Sound, Typed, PlacesOK
  <2>2. pc'[c] = "mark" => loc[c].child \in Serving(loc[c].port)
    BY <1>0, <2>1 DEF Healthy, Alone
  <2>3. \A p \in Pids : Starts(p)' => pc'[c] \in Waiting /\ p = loc'[c].child
    BY <1>2, <2>1 DEF Waiting
  <2>4. QED
    BY <1>0, <2>1, <2>2, <2>3 DEF Alone, Installing, Serving
<1>8. CASE TerminateChild(c)
  <2>1. loc[c].child \in Pids /\ server[loc[c].child] # None /\ pc[c] = "fail"
    BY <1>8 DEF Sound, TerminateChild, LocalsNameServers, Names, Waiting, Typed, PlacesOK, Locals
  <2>2. server' = [server EXCEPT ![loc[c].child].phase = "dead"] /\ pc'[c] \in {"unwrite", "unregister"}
    BY <1>8 DEF TerminateChild, Goto, Sound, Typed, PlacesOK
  <2>3. /\ \A q \in Pids \ {loc[c].child} : server'[q] = server[q]
        /\ server'[loc[c].child].phase = "dead"
    BY <2>1, <2>2, <1>0, PhaseStep
  <2>4. \A p \in Pids : ~Starts(p)'
    BY <1>0, <2>3 DEF Starts, Alone
  <2>5. QED
    BY <2>2, <2>4, CalmAlone DEF Calm
<1>9. CASE RemoveFile(c)
  <2>1. pc[c] \notin Waiting /\ pc'[c] \in Calm /\ ~Spawn(c)
    BY <1>9 DEF RemoveFile, Goto, Calm, Waiting, Spawn, Sound, Typed, PlacesOK
  <2>2. QED
    BY <1>2, <2>1, CalmAlone
<1>10. CASE RemoveEntry(c)
  <2>1. /\ registry' = [registry EXCEPT ![loc[c].me] = None] /\ UNCHANGED <<server, req>>
        /\ pc[c] = "remove" /\ pc'[c] = "rmdir"
        /\ loc' = Local(c, "kill", Unshared(c))
    BY <1>10 DEF RemoveEntry, Goto, Unshared, Sound, Typed, PlacesOK
  <2>2. loc'[c] = [loc[c] EXCEPT !.kill = Unshared(c)]
    BY <2>1 DEF Local, Sound, Typed, PlacesOK
  <2>3. loc'[c].me = loc[c].me /\ loc'[c].seen = loc[c].seen /\ loc'[c].kill = Unshared(c)
    BY <1>0, <2>2 DEF Locals
  <2>4. \A i \in Ids \ {loc[c].me} : registry'[i] = registry[i]
    BY <1>0, <2>1 DEF TypeOK
  <2>5. loc'[c].kill => Unshared(c)'
    BY <2>3, <2>4 DEF Unshared, Registered, Routable
  <2>6. \A p \in Pids : Starts(p)' => pc'[c] \in Waiting /\ p = loc'[c].child
    BY <1>2, <2>1 DEF Waiting, Spawn
  <2>7. QED
    BY <2>1, <2>5, <2>6 DEF Alone, Installing
<1>11. CASE RemoveDirectory(c)
  <2>1. /\ pc[c] = "rmdir" /\ pc'[c] = "killDeleted" /\ UNCHANGED <<server, req, loc, registry>>
        /\ loc[c].kill
    BY <1>1, <1>11 DEF RemoveDirectory, Goto, Sound, Typed, PlacesOK
  <2>2. Unshared(c)'
    BY <1>0, <2>1 DEF Alone, Unshared, Registered, Routable
  <2>3. \A p \in Pids : Starts(p)' => pc'[c] \in Waiting /\ p = loc'[c].child
    BY <1>2, <2>1 DEF Waiting, Spawn
  <2>4. QED
    BY <2>1, <2>2, <2>3 DEF Alone, Installing
<1>12. ~(\/ Abort(c) \/ PersistReuse(c) \/ Adopt(c) \/ RegisterConfigured(c) \/ MarkHealthy(c)
         \/ RemoveFailed(c) \/ Detach(c) \/ ClearPid(c) \/ KillDeleted(c))
  BY <1>1 DEF Abort, PersistReuse, Adopt, RegisterConfigured, MarkHealthy, RemoveFailed, Detach,
     ClearPid, KillDeleted
<1>13. QED
  BY <1>3, <1>4, <1>5, <1>6, <1>7, <1>8, <1>9, <1>10, <1>11, <1>12 DEF Command, Beginning

\* A step of the machine disturbs no command, or ends its being undisturbed.
LEMMA MachineAlone == ASSUME Sound, QuietAlone, Machine PROVE QuietAlone'
<1>0. UNCHANGED <<pc, req, loc>> /\ (quiet' = quiet \/ quiet' = {}) /\ TypeOK
  BY MachineMoves DEF Sound, Typed
<1> SUFFICES ASSUME NEW c \in quiet, quiet' = quiet PROVE Alone(c)'
  BY <1>0 DEF QuietAlone
<1>1. Alone(c) /\ c \in Calls /\ Idle' = Idle /\ loc[c] \in Locals
  BY <1>0 DEF QuietAlone, Sound, Typed, TypeOK, PlacesOK, Idle
<1>2. ASSUME NEW p \in Pids, server[p] # None, UNCHANGED <<registry, file>>,
             NEW h \in {"valid", "listening", "dead"}, server' = [server EXCEPT ![p].phase = h],
             server[p].phase \in {"booting", "valid", "signalled"}, h # "dead" => Starts(p),
             h = "valid" => file[server[p].id] # None,
             h = "listening" => server[p].phase = "valid"
      PROVE  Alone(c)'
  <2>1. /\ ServersStay /\ \A q \in Pids \ {p} : server'[q] = server[q]
        /\ server'[p].phase = h /\ server'[p] # None /\ server'[p].port = server[p].port
    BY <1>0, <1>2, PhaseStep DEF ServersStay
  <2>2. \A q \in Pids : Starts(q)' => Starts(q)
    BY <1>2, <2>1 DEF Starts
  <2>3. UNCHANGED <<pc, req, loc, registry, file>>
    BY <1>0, <1>2
  <2>4. (\A d \in Calls \ {c} : d \in Idle')
        /\ (\A q \in Pids : Starts(q)' => pc'[c] \in Waiting /\ q = loc'[c].child)
    BY <1>1, <2>2, <2>3 DEF Alone
  <2>5. /\ pc'[c] = "kill" /\ ~req'[c].force => Unshared(c)'
        /\ pc'[c] \in {"rmdir", "killDeleted"} /\ loc'[c].kill => Unshared(c)'
        /\ pc'[c] = "killDeleted" => loc'[c].kill
    BY <1>1, <2>3 DEF Alone, Unshared, Registered, Routable
  <2>6. pc'[c] \in Installing \cup {"spawn"} /\ req'[c].op # "configure" => ~InUse(loc[c].port)'
    <3>1. SUFFICES ASSUME pc[c] \in Installing \cup {"spawn"}, req[c].op # "configure",
                          NEW q \in Pids, q \in Serving(loc[c].port)'
                   PROVE  q \in Serving(loc[c].port)
      BY <1>1, <2>3 DEF Alone, InUse, Serving
    <3>2. q # p \/ h = "dead"
      BY <1>1, <1>2, <3>1 DEF Alone, Installing, Waiting
    <3>3. QED
      BY <2>1, <2>3, <3>1, <3>2 DEF Serving
  <2>7. pc'[c] \in {"poll", "probe", "mark"} =>
          /\ Serving(loc[c].port)' \subseteq {loc'[c].child}
          /\ server'[loc'[c].child].phase # "signalled"
          /\ server'[loc'[c].child].phase \in {"valid", "listening"} => file'[loc'[c].me] # None
    <3>1. SUFFICES ASSUME pc[c] \in {"poll", "probe", "mark"}
                   PROVE  /\ Serving(loc[c].port)' \subseteq {loc[c].child}
                          /\ server'[loc[c].child].phase # "signalled"
                          /\ server'[loc[c].child].phase \in {"valid", "listening"} => file[loc[c].me] # None
      BY <2>3
    <3>2. /\ loc[c].child \in Pids /\ server[loc[c].child] # None
          /\ server[loc[c].child].id = loc[c].me
      BY <1>1, <3>1 DEF Sound, LocalsNameServers, Names, Waiting, Locals
    <3>3. h # "dead" => p = loc[c].child
      BY <1>1, <1>2 DEF Alone
    <3>4. Serving(loc[c].port)' \subseteq {loc[c].child}
      BY <1>1, <2>1, <2>3, <3>1, <3>3 DEF Alone, Serving
    <3>5. /\ server'[loc[c].child].phase # "signalled"
          /\ server'[loc[c].child].phase \in {"valid", "listening"} => file[loc[c].me] # None
      BY <1>1, <1>2, <2>1, <3>1, <3>2, <3>3 DEF Alone
    <3>6. QED
      BY <3>4, <3>5
  <2>8. pc'[c] = "mark" => loc[c].child \in Serving(loc[c].port)'
    <3>1. SUFFICES ASSUME pc[c] = "mark" PROVE loc[c].child \in Serving(loc[c].port)'
      BY <2>3
    <3>2. loc[c].child \in Serving(loc[c].port) /\ server[loc[c].child].phase # "signalled"
      BY <1>1, <3>1 DEF Alone
    <3>3. p # loc[c].child
      BY <1>2, <3>2 DEF Serving
    <3>4. QED
      BY <2>1, <2>3, <3>2, <3>3 DEF Serving
  <2>9. QED
    BY <2>3, <2>4, <2>5, <2>6, <2>7, <2>8 DEF Alone
<1>3. ASSUME NEW p \in Pids, Validate(p) \/ Listen(p) \/ Terminate(p) \/ Exit(p) PROVE Alone(c)'
  <2>1. CASE Validate(p)
    <3>1. PICK h \in {"valid", "dead"} : /\ server' = [server EXCEPT ![p].phase = h]
                                         /\ h = "valid" => file[server[p].id] # None
      BY <2>1 DEF Validate
    <3>2. server[p] # None /\ server[p].phase = "booting" /\ UNCHANGED <<registry, file>>
      BY <2>1 DEF Validate
    <3>3. QED
      BY <1>2, <3>1, <3>2 DEF Starts
  <2>2. CASE Listen(p)
    <3>1. PICK h \in {"listening", "dead"} : server' = [server EXCEPT ![p].phase = h]
      BY <2>2 DEF Listen
    <3>2. server[p] # None /\ server[p].phase = "valid" /\ UNCHANGED <<registry, file>>
      BY <2>2 DEF Listen
    <3>3. QED
      BY <1>2, <3>1, <3>2 DEF Starts
  <2>3. CASE Terminate(p)
    <3>1. /\ server' = [server EXCEPT ![p].phase = "dead"] /\ UNCHANGED <<registry, file>>
          /\ server[p] # None /\ server[p].phase = "signalled"
      BY <2>3 DEF Terminate
    <3>2. QED
      BY <1>2, <3>1
  <2>4. CASE Exit(p)
    BY <2>4 DEF Exit
  <2>5. QED
    BY <1>3, <2>1, <2>2, <2>3, <2>4
<1>4. ASSUME NEW p \in Pids, NEW t \in Templates, NEW n \in Ports, StartByHand(p, t, n) PROVE Alone(c)'
  BY <1>4 DEF StartByHand
<1>5. ASSUME NEW i \in Ids, Age(i) PROVE Alone(c)'
  <2>1. registry[i] \in Entry /\ registry' = [registry EXCEPT ![i] = [registry[i] EXCEPT !.aged = TRUE]]
        /\ registry[i] # None /\ UNCHANGED <<file, server>>
    BY <1>0, <1>5 DEF Age, TypeOK
  <2>2. /\ [registry[i] EXCEPT !.aged = TRUE].port = registry[i].port
        /\ [registry[i] EXCEPT !.aged = TRUE].status = registry[i].status
    BY <2>1 DEF Entry
  <2>3. \A j \in Ids : registry[j] = None => registry'[j] = None
    BY <1>0, <2>1 DEF TypeOK
  <2>4. \A j \in Ids : registry'[j] # None => registry'[j].port = registry[j].port
                                             /\ registry'[j].status = registry[j].status
    BY <1>0, <2>1, <2>2 DEF TypeOK
  <2>5. Unshared(c) => Unshared(c)'
    BY <1>0, <2>3, <2>4 DEF Unshared, Registered, Routable
  <2>6. QED
    BY <1>0, <1>1, <2>1, <2>5 DEF Alone, Starts, InUse, Serving
<1>6. QED
  BY <1>3, <1>4, <1>5 DEF Machine

\* The promise to undisturbed commands is kept by every step.
LEMMA QuietStep == Sound /\ QuietAlone /\ [Next]_vars => QuietAlone'
<1> SUFFICES ASSUME Sound, QuietAlone, [Next]_vars PROVE QuietAlone'
  OBVIOUS
<1>1. CASE Machine
  BY <1>1, MachineAlone
<1>2. ASSUME NEW c \in Calls, Command(c) PROVE QuietAlone'
  <2>1. SUFFICES ASSUME NEW d \in quiet' PROVE Alone(d)'
    BY DEF QuietAlone
  <2>2. /\ d = c /\ \A e \in Calls \ {c} : e \in Idle'
        /\ \/ c \in quiet /\ ~\E r \in Requests : Beginning(c, r)
           \/ /\ \E r \in Requests : Beginning(c, r)
              /\ \A p \in Pids : ~Starts(p)
    BY <1>2, QuietStays
  <2>3. QED
    BY <1>2, <2>2, BeginningAlone, OngoingAlone
<1>3. CASE UNCHANGED vars
  BY <1>3 DEF vars, bounds, QuietAlone, Alone, Idle, Starts, Unshared, Registered, Routable, InUse, Serving
<1>4. QED
  BY <1>1, <1>2, <1>3 DEF Next

-----------------------------------------------------------------------------
(* The invariant.                                                          *)

\* Every machine starts with it.
LEMMA InitInv == Init => Inv
  BY InitSound DEF Init, Inv, Sound, Typed, QuietAlone

\* Every step keeps it.
LEMMA InvStep == Inv /\ [Next]_vars => Inv'
<1> SUFFICES ASSUME Inv, [Next]_vars PROVE Inv'
  OBVIOUS
<1>1. Sound /\ QuietAlone
  BY DEF Inv, Sound, Typed
<1>2. QuietAlone'
  BY <1>1, QuietStep
<1>3. Sound'
  <2>1. CASE Machine
    BY <1>1, <2>1, MachineSound
  <2>2. ASSUME NEW c \in Calls, Command(c) PROVE Sound'
    BY <1>1, <2>2, CommandSound
  <2>3. CASE UNCHANGED vars
    BY <1>1, <2>3 DEF vars, bounds, Sound, Typed, TypeOK, PlacesOK, Settles, Serving, EntryNamesItsServer,
       Registered, LocalsNameServers, Names
  <2>4. QED
    BY <2>1, <2>2, <2>3 DEF Next
<1>4. QED
  BY <1>2, <1>3 DEF Inv, Sound, Typed

\* The inductive invariant holds of every run, whatever the commands, the proxies and the
\* servers users start, stop or lose meanwhile.
THEOREM Invariance == Spec => []Inv
<1>1. QED
  BY InitInv, InvStep, PTL DEF Spec

\* A port has one server, and an entry with a pid describes the server that has it: create
\* and start replace the entry of an id whatever they find there, stop, delete and clean clear
\* it, and a pid is written only by the command that spawned the process.
THEOREM EntriesSound == Spec => []EntriesAreSound
<1>1. Inv => EntriesAreSound
  BY DEF Inv, EntriesAreSound
<1>2. QED
  BY <1>1, Invariance, PTL

-----------------------------------------------------------------------------
(* What the commands may do to servers.                                    *)

\* The steps that signal, by who takes them.
LEMMA SignalledBy ==
  ASSUME Inv, Next, NEW p \in Pids, server[p] # None, server'[p] # server[p],
         server'[p].phase = "signalled"
  PROVE  \E c \in Calls : KillStopped(c) \/ KillDeleted(c)
<1>0. TypeOK /\ LocalsNameServers /\ PlacesOK
  BY DEF Inv
<1>1. CASE Machine
  <2>1. ASSUME NEW q \in Pids, NEW h \in {"valid", "listening", "dead"}, server[q] # None,
               server' = [server EXCEPT ![q].phase = h]
        PROVE FALSE
    BY <1>0, <2>1, PhaseStep
  <2>2. ASSUME NEW q \in Pids, Validate(q) \/ Listen(q) \/ Terminate(q) \/ Exit(q)
        PROVE FALSE
    <3>1. \E h \in {"valid", "listening", "dead"} : server' = [server EXCEPT ![q].phase = h]
      <4>1. CASE Validate(q)
        BY <4>1 DEF Validate
      <4>2. CASE Listen(q)
        BY <4>2 DEF Listen
      <4>3. CASE Terminate(q) \/ Exit(q)
        BY <4>3 DEF Terminate, Exit
      <4>4. QED
        BY <2>2, <4>1, <4>2, <4>3
    <3>2. server[q] # None
      BY <2>2 DEF Validate, Listen, Terminate, Exit
    <3>3. QED
      BY <2>1, <3>1, <3>2
  <2>3. ASSUME NEW q \in Pids, NEW t \in Templates, NEW n \in Ports, StartByHand(q, t, n)
        PROVE FALSE
    BY <1>0, <2>3 DEF StartByHand, TypeOK
  <2>4. ASSUME NEW i \in Ids, Age(i) PROVE FALSE
    BY <2>4 DEF Age
  <2>5. QED
    BY <1>1, <2>2, <2>3, <2>4 DEF Machine
<1>2. ASSUME NEW c \in Calls, Command(c), ~(KillStopped(c) \/ KillDeleted(c)) PROVE FALSE
  <2>1. CASE Spawn(c)
    BY <1>0, <2>1 DEF Spawn, TypeOK
  <2>2. CASE TerminateChild(c)
    <3>1. loc[c].child \in Pids /\ server[loc[c].child] # None
      BY <1>0, <2>2 DEF TerminateChild, LocalsNameServers, Names, Waiting, PlacesOK, Locals
    <3>2. server' = [server EXCEPT ![loc[c].child].phase = "dead"]
      BY <2>2 DEF TerminateChild
    <3>3. QED
      BY <1>0, <3>1, <3>2, PhaseStep
  <2>3. CASE ~(Spawn(c) \/ TerminateChild(c))
    BY <1>2, <2>3 DEF Command, Create, Configure, Start, Stop, Delete, Clean, Begin, Abort, Prune,
       RemoveOverlay, ReadRegistry, TryReuse, NoReuse, PersistReuse, Adopt, PickPort, WriteFile,
       RegisterStarting, RegisterConfigured, Poll, Probe, MarkHealthy, Timeout, RemoveFile,
       RemoveFailed, Detach, ClearPid, RemoveEntry, RemoveDirectory
  <2>4. QED
    BY <2>1, <2>2, <2>3
<1>3. QED
  BY <1>1, <1>2 DEF Next

\* What a command that stops a process knows of it.
LEMMA KillStep ==
  ASSUME Inv, NEW c \in Calls, KillStopped(c) \/ KillDeleted(c), NEW p \in Pids, server'[p] # server[p]
  PROVE  /\ pc[c] \in {"kill", "killDeleted"}
         /\ server[p] # None /\ server[p].port = loc[c].seen.port
         /\ server[p].id = None => req[c].killAdopted
<1>1. pc[c] \in {"kill", "killDeleted"} /\ StopProcess(c)
  BY DEF KillStopped, KillDeleted
<1>2. loc[c].seen # None /\ loc[c].me # None /\ pc[c] \in Stopping \cup Deleting
  BY <1>1 DEF Inv, PlacesOK, Settles, Stopping, Deleting
<1>3. /\ server[p] # None /\ server[p].port = loc[c].seen.port
      /\ loc[c].seen.pid = None => req[c].killAdopted
      /\ loc[c].seen.pid # None => server[p].id = loc[c].me
  BY <1>1, <1>2, StopStep DEF Inv
<1>4. QED
  BY <1>1, <1>2, <1>3

\* A server started by hand is signalled only by a command that asks for it: one that read an
\* entry with a pid finds the server that was started for its own proxy.
LEMMA ForeignSpared ==
  ASSUME Inv, [Next]_vars
  PROVE  \A p \in Pids : server[p] # None /\ server[p].id = None /\ server'[p].phase = "signalled"
            => \/ server[p].phase = "signalled"
               \/ \E c \in Calls : pc[c] \in {"kill", "killDeleted"} /\ req[c].killAdopted
<1>1. SUFFICES ASSUME NEW p \in Pids, server[p] # None, server[p].id = None,
                      server'[p].phase = "signalled", server[p].phase # "signalled"
               PROVE  \E c \in Calls : pc[c] \in {"kill", "killDeleted"} /\ req[c].killAdopted
  OBVIOUS
<1>2. server'[p] # server[p] /\ Next
  BY <1>1 DEF vars
<1>3. PICK c \in Calls : KillStopped(c) \/ KillDeleted(c)
  BY <1>1, <1>2, SignalledBy
<1>4. QED
  BY <1>1, <1>2, <1>3, KillStep

\* Only the command that moves ends, and what it adopts answered to no id.
LEMMA MoverSteps ==
  ASSUME Inv, Next, NEW c \in Calls, pc'[c] # pc[c] PROVE Command(c)
<1>1. ~Machine
  BY MachineMoves DEF Inv
<1>2. ASSUME NEW d \in Calls, Command(d), d # c PROVE FALSE
  BY <1>2, OthersStay DEF Inv, MovesOnly
<1>3. QED
  BY <1>1, <1>2 DEF Next

\* Adoption is decided and done in one step under the registry's lock.
LEMMA AdoptionIsFresh ==
  ASSUME Inv, [Next]_vars
  PROVE  \A c \in Calls, i \in Ids :
            pc[c] = "adopt" /\ pc'[c] = "ended" /\ registry'[i] # registry[i]
              => At(registry'[i].template, registry'[i].port) \ {i} = {}
<1>1. SUFFICES ASSUME NEW c \in Calls, NEW i \in Ids, pc[c] = "adopt", pc'[c] = "ended",
                      registry'[i] # registry[i]
               PROVE  At(registry'[i].template, registry'[i].port) = {}
  OBVIOUS
<1>2. Command(c)
  BY <1>1, MoverSteps DEF vars
<1>3. Adopt(c)
  <2>1. ~\E r \in Requests : Beginning(c, r)
    BY <1>1 DEF Beginning, Create, Configure, Start, Stop, Delete, Clean, Begin
  <2>2. \/ Abort(c) \/ Adopt(c) \/ PickPort(c) \/ NoReuse(c)
    BY <1>1, <1>2, <2>1 DEF Command, Beginning, Prune, RemoveOverlay, ReadRegistry, TryReuse,
       PersistReuse, WriteFile, RegisterStarting, RegisterConfigured, Spawn, Poll, Probe, MarkHealthy,
       Timeout, TerminateChild, RemoveFile, RemoveFailed, KillStopped, Detach, ClearPid, RemoveEntry,
       RemoveDirectory, KillDeleted
  <2>3. QED
    BY <1>1, <2>2 DEF Abort, PickPort, NoReuse
<1>4. PICK j : registry' = [registry EXCEPT ![j] = [template |-> loc[c].template, port |-> Target(c),
                                               pid |-> None, aged |-> FALSE, status |-> "healthy"]]
  BY <1>3 DEF Adopt
<1>5. registry'[i] = [template |-> loc[c].template, port |-> Target(c),
                      pid |-> None, aged |-> FALSE, status |-> "healthy"]
  BY <1>1, <1>4 DEF Inv, TypeOK
<1>6. At(loc[c].template, Target(c)) = {}
  BY <1>3 DEF Adopt, Adoptable
<1>7. QED
  BY <1>5, <1>6

\* A command that was alone signals only what it saw unshared.
LEMMA SharedKept ==
  ASSUME Inv, [Next]_vars
  PROVE  \A c \in quiet, p \in Pids :
            pc[c] \in {"kill", "killDeleted"} /\ pc'[c] # pc[c] /\ ~req[c].force /\ server'[p] # server[p]
              => \A i \in Registered \ {loc[c].me} : ~Routable(i, server[p].port)
<1>1. SUFFICES ASSUME NEW c \in quiet, NEW p \in Pids, pc[c] \in {"kill", "killDeleted"},
                      pc'[c] # pc[c], ~req[c].force, server'[p] # server[p]
               PROVE  \A i \in Registered \ {loc[c].me} : ~Routable(i, server[p].port)
  OBVIOUS
<1>2. c \in Calls /\ Alone(c)
  BY DEF Inv, TypeOK, QuietAlone
<1>3. Command(c)
  BY <1>1, <1>2, MoverSteps DEF vars
<1>4. KillStopped(c) \/ KillDeleted(c)
  <2>1. ~\E r \in Requests : Beginning(c, r)
    BY <1>1 DEF Beginning, Create, Configure, Start, Stop, Delete, Clean, Begin
  <2>2. ~Abort(c)
    BY <1>1 DEF Abort
  <2>3. QED
    BY <1>1, <1>3, <2>1, <2>2 DEF Command, Beginning, Prune, RemoveOverlay, ReadRegistry, TryReuse,
       NoReuse, PersistReuse, Adopt, PickPort, WriteFile, RegisterStarting, RegisterConfigured, Spawn,
       Poll, Probe, MarkHealthy, Timeout, TerminateChild, RemoveFile, RemoveFailed, Detach, ClearPid,
       RemoveEntry, RemoveDirectory
<1>5. server[p].port = loc[c].seen.port
  BY <1>1, <1>2, <1>4, KillStep
<1>6. Unshared(c)
  BY <1>1, <1>2 DEF Alone
<1>7. QED
  BY <1>5, <1>6 DEF Unshared

\* No command signals a server it has no claim on, and no two proxies claim one server.
THEOREM ServersSpared == Spec => ServersAreSpared
<1>1. Inv /\ [Next]_vars =>
        [\A p \in Pids : server[p] # None /\ server[p].id = None /\ server'[p].phase = "signalled"
            => \/ server[p].phase = "signalled"
               \/ \E c \in Calls : pc[c] \in {"kill", "killDeleted"} /\ req[c].killAdopted]_vars
  BY ForeignSpared
<1>2. Inv /\ [Next]_vars =>
        [\A c \in Calls, i \in Ids :
            pc[c] = "adopt" /\ pc'[c] = "ended" /\ registry'[i] # registry[i]
              => At(registry'[i].template, registry'[i].port) \ {i} = {}]_vars
  BY AdoptionIsFresh
<1>3. Inv /\ [Next]_vars =>
        [\A c \in quiet, p \in Pids :
            pc[c] \in {"kill", "killDeleted"} /\ pc'[c] # pc[c] /\ ~req[c].force /\ server'[p] # server[p]
              => \A i \in Registered \ {loc[c].me} : ~Routable(i, server[p].port)]_vars
  BY SharedKept
<1>4. QED
  BY <1>1, <1>2, <1>3, Invariance, PTL
     DEF Spec, ServersAreSpared, SparesForeign, AdoptedOnce, SharedServerKept

\* A start that was alone and reports success has its own child on the port it registers, and
\* the proxy's file is there, though it only asked who answers on that port.
THEOREM StartServed == Spec => StartedIsServed
<1>1. Inv /\ [Next]_vars =>
        [\A c \in quiet : pc[c] = "mark" /\ pc'[c] = "ended" /\ registry' # registry
            => /\ loc[c].child \in Serving(loc[c].port)
               /\ file[loc[c].me] # None]_vars
  <2>1. ASSUME Inv, NEW c \in quiet, pc[c] = "mark"
        PROVE  loc[c].child \in Serving(loc[c].port) /\ file[loc[c].me] # None
    <3>1. Alone(c)
      BY <2>1 DEF Inv, QuietAlone
    <3>2. loc[c].child \in Serving(loc[c].port) /\ server[loc[c].child].phase # "signalled"
      BY <2>1, <3>1 DEF Alone
    <3>3. server[loc[c].child].phase = "listening"
      BY <3>2 DEF Serving
    <3>4. QED
      BY <2>1, <3>1, <3>2, <3>3 DEF Alone
  <2>2. QED
    BY <2>1
<1>2. QED
  BY <1>1, Invariance, PTL DEF Spec, StartedIsServed

================================================================================
