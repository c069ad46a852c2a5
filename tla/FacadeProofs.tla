----------------------------- MODULE FacadeProofs -----------------------------
(***************************************************************************)
(* What TLAPS proves of Facade, for any bridges, threads and bounds, with  *)
(* or without restarts and requests given up: the types, that the shared   *)
(* connection has one transaction at a time, that what a client was told   *)
(* is sent is stored, that all of it implements the abstract inbox, and    *)
(* that a thread blocked in /subscribe is woken.                           *)
(*                                                                         *)
(* CallsInv says who works for whom and at which stage, StoreInv what the  *)
(* connection and its handlers hold of the database.  Each is inductive    *)
(* relative to the other.                                                  *)
(***************************************************************************)
EXTENDS Facade, DataLemmas

-----------------------------------------------------------------------------
(* The invariants.                                                         *)

\* A request as its client made it.
IsRequest(r) ==
    /\ r \in Request /\ r.client \in Clients /\ r.kind # "register"
    /\ IF r.kind = "send" THEN r.target \in Agents ELSE r.limit \in Limits

\* The stages that only a send, and those that only a read goes through.
Fits(r, where) ==
    /\ where \in {"insert", "notify"} => r.kind = "send"
    /\ where \in {"select", "clear", "wait", "poll", "consume"} => r.kind \in Reading

\* A handler works for the client that waits for it, and for that one alone
\* unless the client has given up.
CallsInv ==
    /\ stage \in [Handlers -> Stages]
    /\ request \in [Handlers -> Request \cup {NoRequest}]
    /\ live \in [Handlers -> BOOLEAN]
    /\ phase \in [Bridges -> {"idle", "register", "call", "await",
                              "notify", "clear", "wait", "consume", "reread"}]
    /\ asked \in [Bridges -> Request \cup {NoRequest}]
    /\ \A c \in Clients : IF phase[c] = "idle" THEN asked[c] = NoRequest
                          ELSE IsRequest(asked[c]) /\ asked[c].client = c
    /\ \A l \in Locals : phase[l] = "notify" => asked[l].target \in Agents
    /\ \A x \in Handlers :
        IF stage[x] = "free" THEN request[x] = NoRequest /\ ~ live[x]
        ELSE /\ IsRequest(request[x]) /\ Fits(request[x], stage[x])
             /\ live[x] => phase[request[x].client] = "await"
    /\ \A x, y \in Handlers :
        live[x] /\ live[y] /\ x # y => request[x].client # request[y].client

\* The requests the facade has still to serve for nobody.
QueueInv ==
    \A r \in queue : /\ r \in Request /\ r.client \in Clients \cap Flaky
                     /\ r.kind = "register" \/ IsRequest(r)

\* The connection sees what is committed and the rows of its transaction.
Extends(log, committed) ==
    Len(committed) <= Len(log) /\ \A m \in 1..Len(committed) : log[m] = committed[m]

\* What a handler holds is committed, unless it is about to be.
StoreInv ==
    /\ IsDatabase(disk) /\ IsDatabase(view)
    /\ tx \in Handlers \cup {Nobody}
    /\ OneTransaction
    /\ Extends(view.log, disk.log)
    /\ signal \subseteq Agents
    /\ DOMAIN rows = Handlers /\ rows = [x \in Handlers |-> rows[x]]
    /\ \A x \in Handlers :
        /\ rows[x] \subseteq 1..Len(IF stage[x] = "commit" THEN view.log ELSE disk.log)
        /\ stage[x] = "free" => rows[x] = {}
    /\ sent \in [Clients -> SUBSET (1..Len(disk.log))]
    /\ ended \in [Bridges -> SUBSET (1..Len(disk.log))]

\* Nobody is not at work.
LEMMA NobodyRests ==
    /\ Nobody \notin Handlers /\ Nobody \notin Bridges
    /\ Clients \subseteq Bridges /\ Locals \subseteq Bridges /\ Clients \cap Locals = {}
BY FacadeAssumption DEF Handlers, Bridges

\* No request is none.
LEMMA NoneIsNoRequest == NoRequest \notin Request
BY DEF NoRequest, Request, Reading, Polling

\* No request sends nothing; the second read of a long poll is for its client.
LEMMA NoneSends == NoRequest.kind = "none"
BY DEF NoRequest

\* The fields of a request to read.
LEMMA ReadsFor ==
    ASSUME NEW c, NEW kind, NEW n
    PROVE  ReadRequest(c, kind, n).client = c /\ ReadRequest(c, kind, n).kind = kind
BY DEF ReadRequest

\* The kinds of request there are.
LEMMA RequestTypes ==
    ASSUME NEW c \in Clients
    PROVE  /\ \A a \in Agents : IsRequest(SendRequest(c, a)) /\ SendRequest(c, a).client = c
           /\ \A kind \in Reading, n \in Limits :
                IsRequest(ReadRequest(c, kind, n)) /\ ReadRequest(c, kind, n).client = c
                /\ ReadRequest(c, kind, n).kind = kind
<1>1. c \in Bridges
  BY NobodyRests
<1>2. \A a \in Agents : IsRequest(SendRequest(c, a)) /\ SendRequest(c, a).client = c
  BY <1>1 DEF IsRequest, Request, SendRequest
<1>3. ASSUME NEW kind \in Reading, NEW n \in Limits
      PROVE  IsRequest(ReadRequest(c, kind, n)) /\ ReadRequest(c, kind, n).client = c
                /\ ReadRequest(c, kind, n).kind = kind
  BY <1>1, <1>3, FacadeAssumption DEF IsRequest, Request, ReadRequest, Reading, Polling
<1> QED
  BY <1>2, <1>3

-----------------------------------------------------------------------------
(* Who works for whom.                                                     *)

\* A handler goes from one stage of its request to another.
LEMMA MoveKeepsCalls ==
    ASSUME CallsInv, NEW x \in Handlers, NEW where \in Stages \ {"free"}, Goto(x, where),
           stage[x] # "free", Fits(request[x], where), UNCHANGED <<request, live, phase, asked>>
    PROVE  CallsInv'
<1>1. stage' \in [Handlers -> Stages] /\ stage'[x] = where
      /\ \A y \in Handlers \ {x} : stage'[y] = stage[y]
  BY DEF CallsInv, Goto
<1> QED
  BY <1>1 DEF CallsInv

\* A handler answers: it is free, and so is the client if it has waited.
LEMMA AnswerKeepsCalls ==
    ASSUME CallsInv, NEW x \in Handlers, NEW what, Answer(x, what), stage[x] # "free"
    PROVE  CallsInv'
<1> DEFINE c == request[x].client
<1>1. /\ stage' \in [Handlers -> Stages] /\ stage'[x] = "free"
      /\ request'[x] = NoRequest /\ ~ live'[x]
      /\ request' \in [Handlers -> Request \cup {NoRequest}] /\ live' \in [Handlers -> BOOLEAN]
      /\ \A y \in Handlers \ {x} :
            stage'[y] = stage[y] /\ request'[y] = request[y] /\ live'[y] = live[y]
  BY DEF CallsInv, Answer, Goto, Stages
<1>2. c \in Clients /\ c \in Bridges /\ c \notin Locals
  BY NobodyRests DEF CallsInv, IsRequest
<1>3. CASE live[x]
  <2>1. /\ phase' = [phase EXCEPT ![c] = "idle"]
        /\ asked' = [asked EXCEPT ![c] = NoRequest]
    BY <1>3 DEF Answer
  <2>2. \A y \in Handlers \ {x} : live[y] => request[y].client # c
    BY <1>3 DEF CallsInv
  <2> HIDE DEF c
  <2> QED
    BY <1>1, <1>2, <2>1, <2>2 DEF CallsInv
<1>4. CASE ~ live[x]
  BY <1>1, <1>4 DEF Answer, CallsInv
<1> QED
  BY <1>3, <1>4

\* A handler's step.
LEMMA HandlerKeepsCalls ==
    ASSUME CallsInv, NEW x \in Handlers, HandlerStep(x)
    PROVE  CallsInv'
<1>0. stage[x] # "free" =>
        IsRequest(request[x]) /\ Fits(request[x], stage[x])
  BY DEF CallsInv
<1>1. CASE Begin(x)
  <2> DEFINE where == IF request[x].kind = "send" THEN "insert" ELSE "select"
  <2>1. where \in Stages \ {"free"} /\ stage[x] # "free" /\ Goto(x, where)
        /\ UNCHANGED <<request, live, phase, asked>>
    BY <1>1 DEF Begin, Stages, clients
  <2>2. Fits(request[x], where)
    BY <1>0, <2>1 DEF Fits, IsRequest, Request
  <2> HIDE DEF where
  <2> QED
    BY <2>1, <2>2, MoveKeepsCalls
<1>2. CASE Insert(x) \/ Select(x)
  <2>1. Goto(x, "commit") /\ stage[x] # "free" /\ UNCHANGED <<request, live, phase, asked>>
    BY <1>2 DEF Insert, Select, clients
  <2> QED
    BY <2>1, MoveKeepsCalls DEF Stages, Fits
<1>3. CASE Commit(x)
  <2> DEFINE where == CASE request[x].kind = "send" -> "notify"
                        [] request[x].kind = "subscribe" /\ rows[x] # {} -> "clear"
                        [] request[x].kind = "subscribe" /\ rows[x] = {} -> "wait"
                        [] OTHER -> "reply"
  <2>1. Goto(x, where) /\ stage[x] # "free" /\ UNCHANGED <<request, live, phase, asked>>
    BY <1>3 DEF Commit, clients
  <2>2. where \in Stages \ {"free"} /\ Fits(request[x], where)
    BY DEF Stages, Fits, Reading, Polling
  <2> HIDE DEF where
  <2> QED
    BY <2>1, <2>2, MoveKeepsCalls
<1>4. CASE Notify(x) \/ Clear(x)
  <2>1. Goto(x, "reply") /\ stage[x] # "free" /\ UNCHANGED <<request, live, phase, asked>>
    BY <1>4 DEF Notify, Clear, clients
  <2> QED
    BY <2>1, MoveKeepsCalls DEF Stages, Fits
<1>5. CASE Probe(x) \/ Poll(x)
  <2>1. PICK where \in {"consume", "poll"} : Goto(x, where)
    BY <1>5 DEF Probe, Poll
  <2>2. stage[x] \in {"wait", "poll"} /\ UNCHANGED <<request, live, phase, asked>>
    BY <1>5 DEF Probe, Poll, clients
  <2>3. Fits(request[x], where) /\ where \in Stages \ {"free"} /\ stage[x] # "free"
    BY <1>0, <2>2 DEF Fits, Stages
  <2> QED
    BY <2>1, <2>2, <2>3, MoveKeepsCalls
<1>6. CASE Consume(x)
  <2> DEFINE r == ReadRequest(request[x].client, "reread", request[x].limit)
  <2>1. /\ stage[x] = "consume" /\ stage' = [stage EXCEPT ![x] = "begin"]
        /\ request' = [request EXCEPT ![x] = r]
        /\ UNCHANGED <<live, phase, asked>>
    BY <1>6 DEF Consume, Goto, clients
  <2>2. request[x].client \in Clients /\ request[x].limit \in Limits
    BY <1>0, <2>1 DEF IsRequest, Fits, Reading, Polling
  <2>3. IsRequest(r) /\ r.client = request[x].client
    BY <2>2, RequestTypes DEF Reading, Polling
  <2>4. Fits(r, "begin") /\ r \in Request
    BY <2>3 DEF Fits, IsRequest
  <2> HIDE DEF r
  <2> QED
    BY <2>1, <2>3, <2>4 DEF CallsInv, Stages
<1>7. CASE BeginFails(x) \/ Rollback(x) \/ Timeout(x) \/ Reply(x)
  <2>1. stage[x] # "free" /\ \E what \in {"nothing", "sent", "read"} : Answer(x, what)
    BY <1>7 DEF BeginFails, Rollback, Timeout, Reply
  <2> QED
    BY <2>1, AnswerKeepsCalls
<1> QED
  BY <1>1, <1>2, <1>3, <1>4, <1>5, <1>6, <1>7 DEF HandlerStep

\* A client's step.
LEMMA ClientKeepsCalls ==
    ASSUME FacadeAssumption, CallsInv, NEW c \in Clients, ClientStep(c)
    PROVE  CallsInv'
<1>0. c \in Bridges /\ c \notin Locals
  BY NobodyRests
<1>1. CASE Call(c)
  <2>1. PICK r \in Requests(c) : asked' = [asked EXCEPT ![c] = r]
    BY <1>1 DEF Call
  <2>2. IsRequest(r) /\ r.client = c /\ r \in Request
    BY FacadeAssumption, RequestTypes DEF Requests, IsRequest, Reading, Polling
  <2>3. phase[c] = "idle" /\ phase' = [phase EXCEPT ![c] = "register"]
        /\ UNCHANGED <<stage, request, live>>
    BY <1>1 DEF Call, handlers
  <2> QED
    BY <1>0, <2>1, <2>2, <2>3 DEF CallsInv
<1>2. CASE Register(c) \/ RegisterFails(c) \/ (GiveUp(c) /\ phase[c] = "register")
  <2>1. phase[c] = "register" /\ phase' = [phase EXCEPT ![c] = "call"]
        /\ UNCHANGED <<stage, request, live, asked>>
    BY <1>2 DEF Register, Enrol, RegisterFails, GiveUp, handlers
  <2> QED
    BY <1>0, <2>1 DEF CallsInv
<1>3. CASE GiveUp(c) /\ phase[c] # "register"
  <2>1. /\ phase' = [phase EXCEPT ![c] = "idle"]
        /\ asked' = [asked EXCEPT ![c] = NoRequest]
        /\ UNCHANGED <<stage, request>>
        /\ live' = [x \in Handlers |-> live[x] /\ request[x].client # c]
    BY <1>3 DEF GiveUp
  <2>2. /\ live' \in [Handlers -> BOOLEAN]
        /\ \A x \in Handlers : live'[x] => live[x] /\ request[x].client # c
    BY <2>1
  <2>3. \A x \in Handlers : stage[x] # "free" => request[x].client \in Bridges
    BY NobodyRests DEF CallsInv, IsRequest
  <2>4. \A x \in Handlers : live'[x] => phase'[request[x].client] = "await"
    BY <2>1, <2>2, <2>3 DEF CallsInv
  <2> QED
    BY <1>0, <2>1, <2>2, <2>4 DEF CallsInv
<1>4. ASSUME NEW x \in Handlers, Accept(c, x)
      PROVE  CallsInv'
  <2>1. /\ phase[c] = "call" /\ phase' = [phase EXCEPT ![c] = "await"]
        /\ stage[x] = "free" /\ stage' = [stage EXCEPT ![x] = "begin"]
        /\ request' = [request EXCEPT ![x] = asked[c]]
        /\ live' = [live EXCEPT ![x] = TRUE]
        /\ asked' = asked
    BY <1>4 DEF Accept, Starts
  <2>2. IsRequest(asked[c]) /\ asked[c].client = c /\ asked[c] \in Request
    BY <2>1 DEF CallsInv, IsRequest
  <2>3. Fits(asked[c], "begin")
    BY DEF Fits
  <2>4. \A y \in Handlers : live[y] => request[y].client # c
    BY <2>1 DEF CallsInv
  <2>5. /\ stage' \in [Handlers -> Stages]
        /\ request' \in [Handlers -> Request \cup {NoRequest}]
        /\ live' \in [Handlers -> BOOLEAN]
        /\ stage'[x] = "begin" /\ request'[x] = asked[c] /\ live'[x]
        /\ \A y \in Handlers \ {x} :
              stage'[y] = stage[y] /\ request'[y] = request[y] /\ live'[y] = live[y]
    BY <2>1, <2>2 DEF CallsInv, Stages
  <2>6. /\ phase' \in [Bridges -> {"idle", "register", "call", "await",
                                   "notify", "clear", "wait", "consume", "reread"}]
        /\ phase'[c] = "await" /\ \A b \in Bridges \ {c} : phase'[b] = phase[b]
    BY <1>0, <2>1 DEF CallsInv
  <2>7. \A d \in Clients : IF phase'[d] = "idle" THEN asked'[d] = NoRequest
                           ELSE IsRequest(asked'[d]) /\ asked'[d].client = d
    BY <2>1, <2>6, NobodyRests DEF CallsInv
  <2>8. ASSUME NEW y \in Handlers
        PROVE  IF stage'[y] = "free" THEN request'[y] = NoRequest /\ ~ live'[y]
               ELSE /\ IsRequest(request'[y]) /\ Fits(request'[y], stage'[y])
                    /\ live'[y] => phase'[request'[y].client] = "await"
    <3>1. CASE y = x
      BY <2>2, <2>3, <2>5, <2>6, <3>1
    <3>2. CASE y # x
      <4>1. IsRequest(request[y]) => request[y].client \in Bridges
        BY NobodyRests DEF IsRequest
      <4> QED
        BY <2>4, <2>5, <2>6, <3>2, <4>1 DEF CallsInv
    <3> QED
      BY <3>1, <3>2
  <2>9. \A y, z \in Handlers :
            live'[y] /\ live'[z] /\ y # z => request'[y].client # request'[z].client
    BY <2>2, <2>4, <2>5 DEF CallsInv
  <2>10. \A l \in Locals : phase'[l] = "notify" => asked'[l].target \in Agents
    BY <1>0, <2>1, <2>6, NobodyRests DEF CallsInv
  <2>11. asked' \in [Bridges -> Request \cup {NoRequest}]
    BY <2>1 DEF CallsInv
  <2> QED
    BY <2>5, <2>6, <2>7, <2>8, <2>9, <2>10, <2>11 DEF CallsInv
<1> QED
  BY <1>1, <1>2, <1>3, <1>4 DEF ClientStep

\* A request that was given up is registered or begun.
LEMMA LateKeepsCalls ==
    ASSUME CallsInv, QueueInv, NEW r \in queue,
           RegisterLate(r) \/ \E x \in Handlers : ServeLate(r, x)
    PROVE  CallsInv'
<1>1. CASE RegisterLate(r)
  BY <1>1 DEF RegisterLate, Enrol, handlers, CallsInv
<1>2. ASSUME NEW x \in Handlers, ServeLate(r, x)
      PROVE  CallsInv'
  <2>1. Starts(r, x, FALSE) /\ UNCHANGED <<phase, asked>> /\ IsRequest(r) /\ r \in Request
    BY <1>2 DEF ServeLate, QueueInv
  <2>2. /\ stage' = [stage EXCEPT ![x] = "begin"] /\ request' = [request EXCEPT ![x] = r]
        /\ live' = [live EXCEPT ![x] = FALSE]
    BY <2>1 DEF Starts
  <2>3. Fits(r, "begin")
    BY DEF Fits
  <2> QED
    BY <2>1, <2>2, <2>3 DEF CallsInv, Stages
<1> QED
  BY <1>1, <1>2

\* A local bridge's step.
LEMMA LocalKeepsCalls ==
    ASSUME CallsInv, StoreInv, NEW l \in Locals, LocalStep(l)
    PROVE  CallsInv'
<1>0. l \in Bridges /\ l \notin Clients
  BY NobodyRests
<1>1. /\ UNCHANGED <<stage, request, live>>
      /\ \E where \in {"idle", "clear", "wait", "consume", "reread", "notify"} :
            /\ phase' = [phase EXCEPT ![l] = where]
            /\ \/ asked' = asked /\ where # "notify"
               \/ asked' = [asked EXCEPT ![l] = NoRequest] /\ where # "notify"
               \/ \E a \in disk.agents : asked' = [asked EXCEPT ![l] = SendRequest(l, a)]
  BY DEF LocalStep, LocalSend, LocalNotify, LocalRead, LocalProbe, LocalClear, LocalEnds, Holds, handlers
<1>2. \A a \in disk.agents :
        SendRequest(l, a) \in Request /\ SendRequest(l, a).target \in Agents
  BY <1>0 DEF StoreInv, IsDatabase, SendRequest, Request
<1>3. PICK where \in {"idle", "clear", "wait", "consume", "reread", "notify"} :
          /\ phase' = [phase EXCEPT ![l] = where]
          /\ \/ asked' = asked /\ where # "notify"
             \/ asked' = [asked EXCEPT ![l] = NoRequest] /\ where # "notify"
             \/ \E a \in disk.agents : asked' = [asked EXCEPT ![l] = SendRequest(l, a)]
  BY <1>1
<1>4. /\ asked' \in [Bridges -> Request \cup {NoRequest}]
      /\ \A b \in Bridges \ {l} : asked'[b] = asked[b]
      /\ where = "notify" => asked'[l].target \in Agents
  BY <1>0, <1>2, <1>3 DEF CallsInv
<1>5. /\ phase' \in [Bridges -> {"idle", "register", "call", "await",
                                 "notify", "clear", "wait", "consume", "reread"}]
      /\ phase'[l] = where /\ \A b \in Bridges \ {l} : phase'[b] = phase[b]
  BY <1>0, <1>3 DEF CallsInv
<1>6. \A x \in Handlers : stage[x] # "free" => request[x].client \in Bridges \ {l}
  BY <1>0, NobodyRests DEF CallsInv, IsRequest
<1>7. Clients \subseteq Bridges \ {l} /\ Locals \subseteq Bridges
  BY <1>0, NobodyRests
<1> QED
  BY <1>1, <1>4, <1>5, <1>6, <1>7 DEF CallsInv

\* A restart of the facade.
LEMMA DeathKeepsCalls ==
    ASSUME CallsInv, Die
    PROVE  CallsInv'
BY DEF CallsInv, Die, Stages, Bridges

\* Every step keeps who works for whom.
LEMMA CallsStep ==
    ASSUME CallsInv, StoreInv, QueueInv, [Next]_vars
    PROVE  CallsInv'
<1>1. CASE UNCHANGED vars
  BY <1>1 DEF vars, CallsInv
<1> QED
  BY <1>1, HandlerKeepsCalls, ClientKeepsCalls, LateKeepsCalls, LocalKeepsCalls, DeathKeepsCalls,
     FacadeAssumption DEF Next

\* Only a client that gives up puts a request in the queue.
LEMMA QueueStep ==
    ASSUME CallsInv, QueueInv, [Next]_vars
    PROVE  QueueInv'
<1>1. ASSUME queue' \subseteq queue
      PROVE  QueueInv'
  BY <1>1 DEF QueueInv
<1>2. ASSUME NEW c \in Clients, ClientStep(c)
      PROVE  QueueInv'
  <2>1. CASE GiveUp(c) /\ queue' # queue
    <3>1. PICK r : /\ r = (IF phase[c] = "register" THEN RegisterRequest(c) ELSE asked[c])
                   /\ queue' = queue \cup {r}
                   /\ phase[c] \in {"register", "call"} /\ c \in Clients \cap Flaky
      BY <2>1 DEF GiveUp
    <3>2. IsRequest(asked[c]) /\ asked[c].client = c
      BY <3>1 DEF CallsInv
    <3>3. /\ RegisterRequest(c) \in Request
          /\ RegisterRequest(c).kind = "register" /\ RegisterRequest(c).client = c
      BY NobodyRests DEF RegisterRequest, Request
    <3>4. r \in Request /\ r.client = c /\ (r.kind = "register" \/ IsRequest(r))
      BY <3>1, <3>2, <3>3 DEF IsRequest
    <3> QED
      BY <3>1, <3>4 DEF QueueInv
  <2>2. CASE queue' = queue
    BY <1>1, <2>2
  <2> QED
    BY <1>2, <2>1, <2>2 DEF ClientStep, Call, Register, RegisterFails, Accept
<1>3. ASSUME NEW x \in Handlers, HandlerStep(x)
      PROVE  queue' = queue
  BY <1>3 DEF HandlerStep, Begin, BeginFails, Insert, Rollback, Select, Commit, Notify, Clear,
     Probe, Poll, Consume, Timeout, Reply, Answer, clients
<1>4. ASSUME NEW l \in Locals, LocalStep(l)
      PROVE  queue' = queue
  BY <1>4 DEF LocalStep, LocalSend, LocalNotify, LocalRead, LocalProbe, LocalClear, LocalEnds
<1> QED
  BY <1>1, <1>2, <1>3, <1>4 DEF Next, RegisterLate, ServeLate, Die, vars

-----------------------------------------------------------------------------
(* What is committed, and what is in the open transaction.                 *)

\* The stages between BEGIN and COMMIT or ROLLBACK.
Within == {"insert", "select", "commit"}

\* The fields of a database.
LEMMA DatabaseFields ==
    ASSUME NEW people, NEW log, NEW unread
    PROVE  /\ Database(people, log, unread).agents = people
           /\ Database(people, log, unread).log = log
           /\ Database(people, log, unread).unread = unread
BY DEF Database

\* A database of the right parts.
LEMMA DatabaseIs ==
    ASSUME NEW people \in SUBSET Agents, NEW log \in Seq(Row), NEW unread \in SUBSET (1..Len(log))
    PROVE  IsDatabase(Database(people, log, unread))
<1> DEFINE db == Database(people, log, unread)
<1>1. db.agents = people /\ db.log = log /\ db.unread = unread
  BY DatabaseFields
<1>2. db = Database(db.agents, db.log, db.unread)
  BY <1>1
<1> HIDE DEF db
<1>3. IsDatabase(db)
  BY <1>1, <1>2 DEF IsDatabase
<1> QED
  BY <1>3 DEF db

\* A row goes to the end of the log, and nothing else in it changes.
LEMMA RowAppended ==
    ASSUME NEW log \in Seq(Row), NEW from \in Agents, NEW to \in Agents
    PROVE  LET longer == Append(log, [sender |-> from, recipient |-> to])
           IN  /\ longer \in Seq(Row)
               /\ Len(log) \in Nat /\ Len(longer) = Len(log) + 1
               /\ \A m \in 1..Len(log) : longer[m] = log[m]
               /\ longer[Len(log) + 1] = [sender |-> from, recipient |-> to]
<1> DEFINE row == [sender |-> from, recipient |-> to]
<1>1. row \in Row
  BY DEF Row
<1> HIDE DEF row
<1>2. /\ Append(log, row) \in Seq(Row)
      /\ Len(log) \in Nat /\ Len(Append(log, row)) = Len(log) + 1
      /\ \A m \in 1..Len(log) : Append(log, row)[m] = log[m]
      /\ Append(log, row)[Len(log) + 1] = row
  BY <1>1
<1> QED
  BY <1>2 DEF row

\* The logs are sequences of rows, the one committed no longer than the other.
LEMMA LogTypes ==
    ASSUME StoreInv
    PROVE  /\ disk.log \in Seq(Row) /\ view.log \in Seq(Row)
           /\ Len(disk.log) \in Nat /\ Len(view.log) \in Nat
           /\ Len(disk.log) <= Len(view.log)
           /\ 1..Len(disk.log) \subseteq 1..Len(view.log)
           /\ disk.agents \subseteq Agents /\ view.agents \subseteq Agents
           /\ disk.unread \subseteq 1..Len(disk.log) /\ view.unread \subseteq 1..Len(view.log)
BY DEF StoreInv, IsDatabase, Extends

\* A log extends itself.
LEMMA ExtendsItself ==
    ASSUME NEW log \in Seq(Row)
    PROVE  Extends(log, log)
BY DEF Extends

\* A row at its end leaves a log an extension of what it extended.
LEMMA LongerExtends ==
    ASSUME NEW committed \in Seq(Row), NEW log \in Seq(Row), Extends(log, committed),
           NEW longer \in Seq(Row), Len(longer) = Len(log) + 1,
           \A m \in 1..Len(log) : longer[m] = log[m]
    PROVE  Extends(longer, committed)
<1>1. Len(committed) \in Nat /\ Len(log) \in Nat /\ Len(committed) <= Len(log)
  BY LenProperties DEF Extends
<1>2. ASSUME NEW m \in 1..Len(committed)
      PROVE  longer[m] = committed[m]
  <2>1. m \in 1..Len(log)
    BY <1>1
  <2> QED
    BY <2>1 DEF Extends
<1>3. Len(committed) <= Len(longer)
  BY <1>1
<1> QED
  BY <1>2, <1>3 DEF Extends

\* While no row is committed or discarded, a handler that moves outside of the
\* transaction keeps the store as it is.
LEMMA MoveKeepsStore ==
    ASSUME StoreInv, UNCHANGED store, NEW x \in Handlers,
           stage[x] \notin Within, stage'[x] \notin Within,
           \A y \in Handlers \ {x} : stage'[y] = stage[y] /\ rows'[y] = rows[y],
           rows' = [y \in Handlers |-> rows'[y]],
           rows'[x] \subseteq 1..Len(disk.log), stage'[x] = "free" => rows'[x] = {},
           signal' \subseteq Agents,
           sent' \in [Clients -> SUBSET (1..Len(disk.log))],
           ended' \in [Bridges -> SUBSET (1..Len(disk.log))]
    PROVE  StoreInv'
<1>1. disk' = disk /\ view' = view /\ tx' = tx
  BY DEF store
<1>2. OneTransaction'
  BY <1>1 DEF StoreInv, OneTransaction, Within
<1>3. \A y \in Handlers :
        /\ rows'[y] \subseteq 1..Len(IF stage'[y] = "commit" THEN view'.log ELSE disk'.log)
        /\ stage'[y] = "free" => rows'[y] = {}
  BY <1>1 DEF StoreInv, Within
<1>4. DOMAIN rows' = Handlers
  OBVIOUS
<1> QED
  BY <1>1, <1>2, <1>3, <1>4 DEF StoreInv

\* What a handler does when it answers.
LEMMA AnswerEffect ==
    ASSUME CallsInv, StoreInv, NEW x \in Handlers, NEW what, Answer(x, what),
           stage[x] \notin {"free", "commit"}
    PROVE  /\ stage'[x] = "free" /\ rows'[x] = {}
           /\ \A y \in Handlers \ {x} : stage'[y] = stage[y] /\ rows'[y] = rows[y]
           /\ rows' = [y \in Handlers |-> rows'[y]]
           /\ sent' \in [Clients -> SUBSET (1..Len(disk.log))]
           /\ ended' \in [Bridges -> SUBSET (1..Len(disk.log))]
<1> DEFINE c == request[x].client
<1>1. c \in Clients /\ c \in Bridges
  BY NobodyRests DEF CallsInv, IsRequest
<1>2. rows[x] \subseteq 1..Len(disk.log)
  BY DEF StoreInv
<1>3. stage'[x] = "free" /\ \A y \in Handlers \ {x} : stage'[y] = stage[y]
  BY DEF Answer, Goto, CallsInv
<1>4. /\ rows'[x] = {} /\ rows' = [y \in Handlers |-> rows'[y]]
      /\ \A y \in Handlers \ {x} : rows'[y] = rows[y]
  BY DEF Answer, StoreInv
<1>5. ended' = [ended EXCEPT ![c] = IF what = "read" THEN @ \cup rows[x] ELSE @]
  BY DEF Answer
<1>6. sent' = sent \/ sent' = [sent EXCEPT ![c] = IF what = "sent" THEN @ \cup rows[x] ELSE @]
  BY DEF Answer
<1> HIDE DEF c
<1>7. sent' \in [Clients -> SUBSET (1..Len(disk.log))]
  BY <1>1, <1>2, <1>6 DEF StoreInv
<1>8. ended' \in [Bridges -> SUBSET (1..Len(disk.log))]
  BY <1>1, <1>2, <1>5 DEF StoreInv
<1> QED
  BY <1>3, <1>4, <1>7, <1>8

\* A handler's step outside of the transaction.
LEMMA OutsideKeepsStore ==
    ASSUME CallsInv, StoreInv, NEW x \in Handlers,
           \/ BeginFails(x) \/ Timeout(x) \/ Reply(x)
           \/ Notify(x) \/ Clear(x) \/ Probe(x) \/ Poll(x) \/ Consume(x)
    PROVE  StoreInv'
<1>1. CASE BeginFails(x) \/ Timeout(x) \/ Reply(x)
  <2>1. /\ stage[x] \notin {"free", "commit"} /\ stage[x] \notin Within
        /\ \E what \in {"nothing", "sent", "read"} : Answer(x, what)
        /\ UNCHANGED <<store, signal>>
    BY <1>1 DEF BeginFails, Timeout, Reply, Within
  <2>2. signal' \subseteq Agents
    BY <2>1 DEF StoreInv
  <2> QED
    BY <2>1, <2>2, AnswerEffect, MoveKeepsStore DEF Within
<1>2. CASE Notify(x) \/ Clear(x) \/ Probe(x) \/ Poll(x) \/ Consume(x)
  <2>1. /\ UNCHANGED store /\ UNCHANGED <<rows, sent, ended>>
        /\ stage[x] \in {"notify", "clear", "wait", "poll", "consume"}
        /\ \E where \in {"reply", "consume", "poll", "begin"} : Goto(x, where)
    BY <1>2 DEF Notify, Clear, Probe, Poll, Consume, clients
  <2>2. /\ stage'[x] \in {"reply", "consume", "poll", "begin"}
        /\ \A y \in Handlers \ {x} : stage'[y] = stage[y]
    BY <2>1 DEF Goto, CallsInv
  <2>3. stage[x] = "notify" => request[x].target \in Agents
    BY DEF CallsInv, IsRequest, Fits
  <2>4. signal' \subseteq Agents
    BY <1>2, <2>3 DEF Notify, Clear, Probe, Poll, Consume, StoreInv
  <2>5. rows[x] \subseteq 1..Len(disk.log) /\ rows' = [y \in Handlers |-> rows'[y]]
    BY <2>1 DEF StoreInv
  <2> QED
    BY <2>1, <2>2, <2>4, <2>5, MoveKeepsStore DEF Within, StoreInv
<1> QED
  BY <1>1, <1>2

\* A handler's step in the transaction: nobody else is in it.
LEMMA InsideKeepsStore ==
    ASSUME FacadeAssumption, CallsInv, StoreInv, NEW x \in Handlers,
           Begin(x) \/ Insert(x) \/ Select(x) \/ Commit(x) \/ Rollback(x)
    PROVE  StoreInv'
<1>0. /\ \A y \in Handlers : tx = y <=> stage[y] \in Within
      /\ tx = Nobody => view = disk
      /\ Nobody \notin Handlers
  BY NobodyRests DEF StoreInv, OneTransaction, Within
<1>1. CASE Begin(x)
  <2>1. /\ UNCHANGED <<disk, view, signal, rows, sent, ended>> /\ tx = Nobody /\ tx' = x
        /\ stage[x] = "begin" /\ stage'[x] \in {"insert", "select"}
        /\ \A y \in Handlers \ {x} : stage'[y] = stage[y]
    BY <1>1 DEF Begin, Goto, clients, CallsInv
  <2>2. OneTransaction'
    BY <1>0, <2>1 DEF OneTransaction, Within
  <2> QED
    BY <2>1, <2>2 DEF StoreInv
<1>2. CASE Insert(x)
  <2> DEFINE longer == Append(view.log, [sender |-> For(x), recipient |-> request[x].target])
  <2>1. /\ UNCHANGED <<disk, tx, signal, sent, ended>>
        /\ view' = Database(view.agents, longer, view.unread \cup {Len(view.log) + 1})
        /\ rows' = [rows EXCEPT ![x] = {Len(view.log) + 1}]
        /\ stage[x] = "insert" /\ stage'[x] = "commit"
        /\ \A y \in Handlers \ {x} : stage'[y] = stage[y]
        /\ For(x) \in Agents /\ request[x].target \in Agents
    BY <1>2, LogTypes DEF Insert, Goto, clients, CallsInv
  <2>2. /\ longer \in Seq(Row) /\ Len(longer) = Len(view.log) + 1
        /\ \A m \in 1..Len(view.log) : longer[m] = view.log[m]
    BY <2>1, LogTypes, RowAppended
  <2> HIDE DEF longer
  <2>3. view'.log = longer
    BY <2>1, DatabaseFields
  <2>4. IsDatabase(view')
    <3>1. view.unread \cup {Len(view.log) + 1} \in SUBSET (1..Len(longer))
      BY <2>2, LogTypes
    <3> QED
      BY <2>1, <2>2, <3>1, LogTypes, DatabaseIs
  <2>5. Extends(view'.log, disk'.log)
    <3>1. Extends(view.log, disk.log)
      BY DEF StoreInv
    <3>2. Extends(longer, disk.log)
      BY <2>2, <3>1, LogTypes, LongerExtends
    <3> QED
      BY <2>1, <2>3, <3>2
  <2>6. OneTransaction'
    BY <1>0, <2>1 DEF OneTransaction, Within
  <2>7. \A y \in Handlers \ {x} : stage'[y] # "commit"
    BY <1>0, <2>1 DEF Within
  <2>8. \A y \in Handlers :
          /\ rows'[y] \subseteq 1..Len(IF stage'[y] = "commit" THEN view'.log ELSE disk'.log)
          /\ stage'[y] = "free" => rows'[y] = {}
    <3>1. {Len(view.log) + 1} \subseteq 1..Len(longer)
      BY <2>2, LogTypes
    <3> QED
      BY <2>1, <2>3, <2>7, <3>1 DEF StoreInv
  <2>9. DOMAIN rows' = Handlers /\ rows' = [y \in Handlers |-> rows'[y]]
    BY <2>1, ZenonT(30) DEF StoreInv
  <2> QED
    BY <2>1, <2>4, <2>5, <2>6, <2>8, <2>9 DEF StoreInv
<1>3. CASE Select(x)
  <2>1. /\ UNCHANGED <<disk, tx, signal, sent, ended>>
        /\ view' = Database(view.agents, view.log, view.unread \ Selected(x))
        /\ rows' = [rows EXCEPT ![x] = Selected(x)]
        /\ stage[x] = "select" /\ stage'[x] = "commit"
        /\ \A y \in Handlers \ {x} : stage'[y] = stage[y]
    BY <1>3 DEF Select, Goto, clients, CallsInv
  <2>2. Selected(x) \subseteq 1..Len(view.log)
    BY LogTypes DEF Selected, Oldest, UnreadIn
  <2>3. view'.log = view.log
    BY <2>1, DatabaseFields
  <2>4. IsDatabase(view')
    BY <2>1, LogTypes, DatabaseIs
  <2>5. OneTransaction'
    BY <1>0, <2>1 DEF OneTransaction, Within
  <2>6. \A y \in Handlers :
          /\ rows'[y] \subseteq 1..Len(IF stage'[y] = "commit" THEN view'.log ELSE disk'.log)
          /\ stage'[y] = "free" => rows'[y] = {}
    BY <2>1, <2>2, <2>3 DEF StoreInv
  <2>7. DOMAIN rows' = Handlers /\ rows' = [y \in Handlers |-> rows'[y]]
    BY <2>1 DEF StoreInv
  <2> QED
    BY <2>1, <2>3, <2>4, <2>5, <2>6, <2>7 DEF StoreInv
<1>4. CASE Commit(x)
  <2>1. /\ disk' = view /\ view' = view /\ tx' = Nobody
        /\ UNCHANGED <<signal, rows, sent, ended>>
        /\ stage[x] = "commit" /\ stage'[x] \in {"notify", "clear", "wait", "reply"}
        /\ \A y \in Handlers \ {x} : stage'[y] = stage[y]
    BY <1>4 DEF Commit, Goto, clients, CallsInv
  <2>2. OneTransaction'
    BY <1>0, <2>1 DEF OneTransaction, Within
  <2>3. \A y \in Handlers :
          /\ rows'[y] \subseteq 1..Len(IF stage'[y] = "commit" THEN view'.log ELSE disk'.log)
          /\ stage'[y] = "free" => rows'[y] = {}
    BY <2>1, LogTypes DEF StoreInv
  <2>4. Extends(view.log, view.log)
    BY LogTypes, ExtendsItself
  <2>5. /\ sent \in [Clients -> SUBSET (1..Len(view.log))]
        /\ ended \in [Bridges -> SUBSET (1..Len(view.log))]
    BY LogTypes DEF StoreInv
  <2> QED
    BY <2>1, <2>2, <2>3, <2>4, <2>5 DEF StoreInv
<1>5. CASE Rollback(x)
  <2>1. /\ disk' = disk /\ view' = disk /\ tx' = Nobody /\ signal' = signal
        /\ stage[x] = "insert" /\ Answer(x, "nothing")
    BY <1>5 DEF Rollback
  <2>2. /\ stage'[x] = "free" /\ rows'[x] = {}
        /\ \A y \in Handlers \ {x} : stage'[y] = stage[y] /\ rows'[y] = rows[y]
        /\ rows' = [y \in Handlers |-> rows'[y]]
        /\ sent' \in [Clients -> SUBSET (1..Len(disk.log))]
        /\ ended' \in [Bridges -> SUBSET (1..Len(disk.log))]
    BY <2>1, AnswerEffect
  <2>3. OneTransaction'
    BY <1>0, <2>1, <2>2 DEF OneTransaction, Within
  <2>4. \A y \in Handlers :
          /\ rows'[y] \subseteq 1..Len(IF stage'[y] = "commit" THEN view'.log ELSE disk'.log)
          /\ stage'[y] = "free" => rows'[y] = {}
    BY <1>0, <2>1, <2>2 DEF StoreInv, Within
  <2>5. Extends(disk.log, disk.log) /\ DOMAIN rows' = Handlers
    BY <2>2, LogTypes, ExtendsItself
  <2> QED
    BY <2>1, <2>2, <2>3, <2>4, <2>5 DEF StoreInv
<1> QED
  BY <1>1, <1>2, <1>3, <1>4, <1>5

\* A registration adds no message, and is committed unless a transaction is open.
LEMMA EnrolEffect ==
    ASSUME StoreInv, NEW agent, Enrol(agent)
    PROVE  /\ view'.log = view.log /\ view'.unread = view.unread
           /\ disk'.log = disk.log /\ disk'.unread = disk.unread
           /\ tx' = tx /\ (tx = Nobody \/ disk' = disk)
<1>1. /\ view'.log = view.log /\ view'.unread = view.unread
      /\ disk' = IF tx = Nobody THEN view' ELSE disk
      /\ tx' = tx
  BY DatabaseFields DEF Enrol
<1>2. tx = Nobody => view = disk
  BY DEF StoreInv, OneTransaction
<1> QED
  BY <1>1, <1>2

LEMMA EnrolKeepsStore ==
    ASSUME StoreInv, NEW agent \in Agents, Enrol(agent),
           UNCHANGED <<signal, stage, rows, sent, ended>>
    PROVE  StoreInv'
<1>1. /\ view' = Database(view.agents \cup {agent}, view.log, view.unread)
      /\ disk' = IF tx = Nobody THEN view' ELSE disk
      /\ tx' = tx
  BY DEF Enrol
<1>2. IsDatabase(view') /\ view'.log = view.log
  BY <1>1, LogTypes, DatabaseIs, DatabaseFields
<1>3. IsDatabase(disk') /\ disk'.log = disk.log
  BY <1>1, <1>2 DEF StoreInv, OneTransaction
<1>4. OneTransaction'
  BY <1>1 DEF StoreInv, OneTransaction
<1> QED
  BY <1>1, <1>2, <1>3, <1>4 DEF StoreInv

\* To begin a request touches no database.
LEMMA StartsKeepsStore ==
    ASSUME CallsInv, StoreInv, NEW r, NEW x \in Handlers, NEW waits, Starts(r, x, waits),
           UNCHANGED store, UNCHANGED <<signal, rows, sent, ended>>
    PROVE  StoreInv'
<1>1. /\ stage[x] = "free" /\ stage'[x] = "begin"
      /\ \A y \in Handlers \ {x} : stage'[y] = stage[y]
  BY DEF Starts, CallsInv
<1>2. rows[x] \subseteq 1..Len(disk.log) /\ rows' = [y \in Handlers |-> rows'[y]]
  BY <1>1 DEF StoreInv
<1> QED
  BY <1>1, <1>2, MoveKeepsStore DEF Within, StoreInv

\* A client's step: only a registration reaches the database.
LEMMA ClientKeepsStore ==
    ASSUME FacadeAssumption, CallsInv, StoreInv, NEW c \in Clients, ClientStep(c)
    PROVE  StoreInv'
<1>1. CASE Call(c) \/ GiveUp(c) \/ RegisterFails(c)
  BY <1>1 DEF Call, GiveUp, RegisterFails, store, handlers, StoreInv, OneTransaction
<1>2. CASE Register(c)
  <2>1. Enrol(Owner[c]) /\ UNCHANGED <<signal, stage, rows, sent, ended>>
    BY <1>2 DEF Register, handlers
  <2>2. Owner[c] \in Agents
    BY FacadeAssumption DEF Bridges
  <2> QED
    BY <2>1, <2>2, EnrolKeepsStore
<1>3. ASSUME NEW x \in Handlers, Accept(c, x)
      PROVE  StoreInv'
  BY <1>3, StartsKeepsStore DEF Accept
<1> QED
  BY <1>1, <1>2, <1>3 DEF ClientStep

\* So does a request that was given up.
LEMMA LateKeepsStore ==
    ASSUME CallsInv, StoreInv, QueueInv, NEW r \in queue,
           RegisterLate(r) \/ \E x \in Handlers : ServeLate(r, x)
    PROVE  StoreInv'
<1>1. CASE RegisterLate(r)
  <2>1. Enrol(Owner[r.client]) /\ UNCHANGED <<signal, stage, rows, sent, ended>>
    BY <1>1 DEF RegisterLate, handlers
  <2>2. Owner[r.client] \in Agents
    BY FacadeAssumption, NobodyRests DEF QueueInv
  <2> QED
    BY <2>1, <2>2, EnrolKeepsStore
<1>2. ASSUME NEW x \in Handlers, ServeLate(r, x)
      PROVE  StoreInv'
  BY <1>2, StartsKeepsStore DEF ServeLate
<1> QED
  BY <1>1, <1>2

\* A local bridge's step: its transaction excludes the facade's.
LEMMA LocalKeepsStore ==
    ASSUME FacadeAssumption, CallsInv, StoreInv, NEW l \in Locals, LocalStep(l)
    PROVE  StoreInv'
<1>0. l \in Bridges /\ Owner[l] \in Agents
  BY FacadeAssumption DEF Bridges
<1>1. CASE LocalNotify(l) \/ LocalProbe(l) \/ LocalClear(l) \/ LocalEnds(l)
  <2>1. signal' \subseteq Agents
    BY <1>1 DEF LocalNotify, LocalProbe, LocalClear, LocalEnds, CallsInv, StoreInv
  <2>2. UNCHANGED store /\ UNCHANGED <<stage, rows, sent, ended>>
    BY <1>1 DEF LocalNotify, LocalProbe, LocalClear, LocalEnds, handlers
  <2> QED
    BY <2>1, <2>2 DEF store, StoreInv, OneTransaction
<1>2. ASSUME NEW db, IsDatabase(db), Writes(db), Len(disk.log) <= Len(db.log),
             UNCHANGED <<signal, stage, rows, sent>>,
             ended' \in [Bridges -> SUBSET (1..Len(db.log))]
      PROVE  StoreInv'
  <2>1. disk' = db /\ view' = db /\ tx' = tx /\ tx = Nobody /\ db.log \in Seq(Row)
    BY <1>2 DEF Writes, IsDatabase
  <2>2. 1..Len(disk.log) \subseteq 1..Len(db.log)
    BY <1>2, <2>1, LogTypes
  <2>3. OneTransaction'
    BY <1>2, <2>1 DEF StoreInv, OneTransaction
  <2>4. \A x \in Handlers : stage[x] # "commit"
    BY <2>1, NobodyRests DEF StoreInv, OneTransaction
  <2>5. \A x \in Handlers :
          /\ rows'[x] \subseteq 1..Len(IF stage'[x] = "commit" THEN view'.log ELSE disk'.log)
          /\ stage'[x] = "free" => rows'[x] = {}
    BY <1>2, <2>1, <2>2, <2>4 DEF StoreInv
  <2>6. Extends(view'.log, disk'.log)
    BY <2>1, ExtendsItself
  <2>7. sent' \in [Clients -> SUBSET (1..Len(db.log))]
    BY <1>2, <2>2 DEF StoreInv
  <2> QED
    BY <1>2, <2>1, <2>3, <2>5, <2>6, <2>7 DEF StoreInv
<1>3. CASE LocalSend(l)
  <2>1. PICK a \in disk.agents :
            Writes(Database(disk.agents \cup {Owner[l]},
                            Append(disk.log, [sender |-> Owner[l], recipient |-> a]),
                            disk.unread \cup {Len(disk.log) + 1}))
    BY <1>3 DEF LocalSend
  <2> DEFINE longer == Append(disk.log, [sender |-> Owner[l], recipient |-> a])
             db == Database(disk.agents \cup {Owner[l]}, longer,
                            disk.unread \cup {Len(disk.log) + 1})
  <2>2. longer \in Seq(Row) /\ Len(longer) = Len(disk.log) + 1 /\ Len(disk.log) \in Nat
    BY <1>0, LogTypes, RowAppended
  <2> HIDE DEF longer
  <2>3. IsDatabase(db) /\ db.log = longer
    BY <1>0, <2>2, LogTypes, DatabaseIs, DatabaseFields
  <2>4. Writes(db)
    BY <2>1 DEF longer
  <2> HIDE DEF db
  <2>5. UNCHANGED <<signal, stage, rows, sent, ended>>
    BY <1>3 DEF LocalSend, handlers
  <2>6. Len(disk.log) <= Len(db.log) /\ 1..Len(disk.log) \subseteq 1..Len(db.log)
    BY <2>2, <2>3
  <2>7. ended' \in [Bridges -> SUBSET (1..Len(db.log))]
    BY <2>5, <2>6 DEF StoreInv
  <2> QED
    BY <1>2, <2>3, <2>4, <2>5, <2>6, <2>7
<1>4. CASE LocalRead(l)
  <2>1. PICK ms \in SUBSET disk.unread :
            /\ Writes(Database(disk.agents \cup {Owner[l]}, disk.log, disk.unread \ ms))
            /\ ended' = [ended EXCEPT ![l] = @ \cup ms]
    BY <1>4 DEF LocalRead, Oldest, UnreadIn
  <2> DEFINE db == Database(disk.agents \cup {Owner[l]}, disk.log, disk.unread \ ms)
  <2>2. IsDatabase(db) /\ db.log = disk.log
    BY <1>0, LogTypes, DatabaseIs, DatabaseFields
  <2> HIDE DEF db
  <2>3. UNCHANGED <<signal, stage, rows, sent>>
    BY <1>4 DEF LocalRead, handlers
  <2>4. ended' \in [Bridges -> SUBSET (1..Len(db.log))]
    BY <1>0, <2>1, <2>2, LogTypes DEF StoreInv
  <2>5. Writes(db) /\ Len(disk.log) <= Len(db.log)
    BY <2>1, <2>2, LogTypes DEF db
  <2> QED
    BY <1>2, <2>2, <2>3, <2>4, <2>5
<1> QED
  BY <1>1, <1>3, <1>4 DEF LocalStep

\* A restart: the open transaction is gone, and what was read is lost.
LEMMA DeathKeepsStore ==
    ASSUME StoreInv, Die
    PROVE  StoreInv'
<1>1. /\ disk' = disk /\ view' = disk /\ tx' = Nobody /\ UNCHANGED <<signal, sent>>
      /\ \A x \in Handlers : stage'[x] = "free" /\ rows'[x] = {}
      /\ rows' = [x \in Handlers |-> {}]
      /\ ended' = [c \in Bridges |-> Taken(c)]
  BY DEF Die
<1>2. OneTransaction'
  BY <1>1, NobodyRests DEF OneTransaction
<1>3. \A x \in Handlers : Held(x) \subseteq 1..Len(disk.log)
  BY DEF Held, StoreInv
<1>4. \A c \in Bridges : Taken(c) \subseteq 1..Len(disk.log)
  BY <1>3 DEF Taken, StoreInv
<1>5. Extends(disk.log, disk.log)
  BY LogTypes, ExtendsItself
<1>6. DOMAIN rows' = Handlers /\ rows' = [x \in Handlers |-> rows'[x]]
  BY <1>1
<1> QED
  BY <1>1, <1>2, <1>4, <1>5, <1>6 DEF StoreInv

\* Every step keeps the transaction and what is in it.
LEMMA StoreStep ==
    ASSUME CallsInv, StoreInv, QueueInv, [Next]_vars
    PROVE  StoreInv'
<1>1. CASE UNCHANGED vars
  BY <1>1 DEF vars, StoreInv, OneTransaction
<1>2. ASSUME NEW x \in Handlers, HandlerStep(x)
      PROVE  StoreInv'
  BY <1>2, OutsideKeepsStore, InsideKeepsStore, FacadeAssumption DEF HandlerStep
<1> QED
  BY <1>1, <1>2, ClientKeepsStore, LateKeepsStore, LocalKeepsStore, DeathKeepsStore,
     FacadeAssumption DEF Next

\* Who works for whom and what is where: inductive together.
Sound == CallsInv /\ StoreInv /\ QueueInv

\* Calls and storage are sound in every reachable state.
LEMMA SoundFacade == Spec => []Sound
<1>1. Init => CallsInv
  BY NobodyRests DEF Init, CallsInv, Stages
<1>2. Init => StoreInv
  <2> SUFFICES ASSUME Init PROVE StoreInv
    OBVIOUS
  <2>1. disk = Database({}, <<>>, {}) /\ view = disk /\ <<>> \in Seq(Row) /\ Len(<<>>) = 0
    BY DEF Init
  <2>2. IsDatabase(disk) /\ disk.log = <<>>
    <3>1. {} \in SUBSET Agents /\ {} \in SUBSET (1..Len(<<>>))
      OBVIOUS
    <3>2. disk.agents = {} /\ disk.log = <<>> /\ disk.unread = {}
      BY <2>1, DatabaseFields
    <3>3. disk = Database(disk.agents, disk.log, disk.unread)
      BY <2>1, <3>2
    <3> QED
      BY <2>1, <3>1, <3>2, <3>3 DEF IsDatabase
  <2>3. Extends(disk.log, disk.log)
    BY <2>1, <2>2, ExtendsItself
  <2>4. OneTransaction
    BY NobodyRests DEF Init, OneTransaction
  <2> QED
    BY <2>1, <2>2, <2>3, <2>4 DEF Init, StoreInv
<1>3. Init => QueueInv
  BY DEF Init, QueueInv
<1>4. Sound /\ [Next]_vars => Sound'
  BY CallsStep, StoreStep, QueueStep DEF Sound
<1> QED
  BY <1>1, <1>2, <1>3, <1>4, PTL DEF Spec, Sound

\* The database, the transaction, the handlers and the clients keep their shape,
\* and a handler at work has the request of a client.
THEOREM TypeCorrect == Spec => []TypeOK
<1>1. ASSUME Sound
      PROVE  TypeOK
  <2>1. \A x \in Handlers : rows[x] \subseteq 1..Len(view.log)
    BY <1>1, LogTypes DEF Sound, StoreInv
  <2>2. \A c \in Clients : phase[c] = "idle" <=> asked[c] = NoRequest
    BY <1>1, NoneIsNoRequest DEF Sound, CallsInv, IsRequest
  <2>3. rows \in [Handlers -> SUBSET (1..Len(view.log))]
    BY <1>1, <2>1 DEF Sound, StoreInv
  <2>4. queue \subseteq Request
    BY <1>1 DEF Sound, QueueInv
  <2> QED
    BY <1>1, <2>2, <2>3, <2>4 DEF TypeOK, Sound, CallsInv, StoreInv, IsRequest
<1> QED
  BY <1>1, SoundFacade, PTL

\* The shared connection has the transaction of one handler at a time, and none
\* is ended by another one; a /register within it goes down with it or is committed.
THEOREM OneAtATime == Spec => []OneTransaction
<1>1. Sound => OneTransaction
  BY DEF Sound, StoreInv
<1> QED
  BY <1>1, SoundFacade, PTL

-----------------------------------------------------------------------------
(* What the open transaction adds to what is committed.                    *)

\* A read that has selected these rows takes the oldest.
Takes(db, a, ms) ==
    /\ ms \subseteq UnreadIn(db, a)
    /\ \A m \in ms, k \in UnreadIn(db, a) \ ms : m < k

\* Apart from registrations, the transaction has the one row or the one read of
\* its handler.
PendingInv ==
    \A x \in Handlers :
        /\ stage[x] \in {"insert", "select"} => view.log = disk.log /\ view.unread = disk.unread
        /\ stage[x] = "commit" =>
              IF request[x].kind = "send"
              THEN /\ view.log = Append(disk.log,
                                        [sender |-> For(x), recipient |-> request[x].target])
                   /\ view.unread = disk.unread \cup {Len(disk.log) + 1}
                   /\ rows[x] = {Len(disk.log) + 1}
              ELSE /\ view.log = disk.log
                   /\ view.unread = disk.unread \ rows[x]
                   /\ Takes(disk, For(x), rows[x])

\* What ORDER BY ... LIMIT selects can be taken.
LEMMA OldestTakes ==
    ASSUME StoreInv, NEW a, NEW n \in Nat
    PROVE  Takes(disk, a, Oldest(UnreadIn(disk, a), n))
<1>1. UnreadIn(disk, a) \in SUBSET (1..Len(disk.log)) /\ Len(disk.log) \in Nat
  BY LogTypes DEF UnreadIn
<1> QED
  BY <1>1, PrefixIsOlder DEF Takes, Oldest

\* While a handler is within its transaction, nobody else is.
LEMMA Alone ==
    ASSUME StoreInv, NEW x \in Handlers, stage[x] \in Within
    PROVE  tx = x /\ tx # Nobody /\ \A y \in Handlers \ {x} : stage[y] \notin Within
BY NobodyRests DEF StoreInv, OneTransaction, Within

\* Between transactions the connection sees what is committed.
LEMMA NobodyWithin ==
    ASSUME StoreInv, tx = Nobody
    PROVE  view = disk /\ \A x \in Handlers : stage[x] \notin Within
BY NobodyRests DEF StoreInv, OneTransaction, Within

\* When a handler ends up outside of the transaction and the others are not in
\* it, or nothing has changed for them, there is nothing to show.
LEMMA OutsidePends ==
    ASSUME PendingInv, NEW x \in Handlers, stage'[x] \notin Within,
           \A y \in Handlers \ {x} :
              /\ stage'[y] = stage[y]
              /\ \/ stage[y] \notin Within
                 \/ request'[y] = request[y] /\ rows'[y] = rows[y] /\ UNCHANGED <<disk, view>>
    PROVE  PendingInv'
BY DEF PendingInv, Within, For, Takes

\* A handler's step keeps the open transaction to its one row or one read.
LEMMA HandlerPends ==
    ASSUME Sound, PendingInv, NEW x \in Handlers, HandlerStep(x)
    PROVE  PendingInv'
<1>0. CallsInv /\ StoreInv
  BY DEF Sound
<1>1. CASE Begin(x)
  <2>1. /\ UNCHANGED <<disk, view, request, rows>> /\ tx = Nobody
        /\ stage'[x] \in {"insert", "select"}
        /\ \A y \in Handlers \ {x} : stage'[y] = stage[y]
    BY <1>0, <1>1 DEF Begin, Goto, clients, CallsInv
  <2> QED
    BY <1>0, <2>1, NobodyWithin DEF PendingInv, Within
<1>2. CASE Insert(x)
  <2> DEFINE longer == Append(view.log, [sender |-> For(x), recipient |-> request[x].target])
             more == view.unread \cup {Len(view.log) + 1}
  <2>1. /\ disk' = disk /\ request' = request
        /\ view' = Database(view.agents, longer, more)
        /\ rows'[x] = {Len(view.log) + 1}
        /\ stage[x] = "insert" /\ stage'[x] = "commit"
        /\ \A y \in Handlers \ {x} : stage'[y] = stage[y]
    BY <1>0, <1>2 DEF Insert, Goto, clients, CallsInv, StoreInv
  <2>2. request[x].kind = "send"
    BY <1>0, <2>1 DEF CallsInv, Fits
  <2>3. view.log = disk.log /\ view.unread = disk.unread
    BY <2>1 DEF PendingInv
  <2>4. \A y \in Handlers \ {x} : stage[y] \notin Within
    BY <1>0, <2>1, Alone DEF Within
  <2>5. view'.log = longer /\ view'.unread = more
    <3> HIDE DEF longer, more
    <3> QED
      BY <2>1, DatabaseFields
  <2>6. For(x)' = For(x)
    BY <2>1 DEF For
  <2>7. /\ view'.log = Append(disk'.log, [sender |-> For(x)', recipient |-> request'[x].target])
        /\ view'.unread = disk'.unread \cup {Len(disk'.log) + 1}
        /\ rows'[x] = {Len(disk'.log) + 1}
    BY <2>1, <2>3, <2>5, <2>6
  <2> HIDE DEF longer, more
  <2>8. request'[x].kind = "send" /\ stage'[x] = "commit"
    BY <2>1, <2>2
  <2>9. \A y \in Handlers \ {x} : stage'[y] \notin Within
    BY <2>1, <2>4
  <2> QED
    BY <2>7, <2>8, <2>9 DEF PendingInv, Within
<1>3. CASE Select(x)
  <2>1. /\ disk' = disk /\ request' = request
        /\ view' = Database(view.agents, view.log, view.unread \ Selected(x))
        /\ rows'[x] = Selected(x)
        /\ stage[x] = "select" /\ stage'[x] = "commit"
        /\ \A y \in Handlers \ {x} : stage'[y] = stage[y]
    BY <1>0, <1>3 DEF Select, Goto, clients, CallsInv, StoreInv
  <2>2. request[x].kind # "send" /\ request[x].limit \in Nat
    BY <1>0, <2>1 DEF CallsInv, Fits, Reading, Polling, IsRequest, Request
  <2>3. view.log = disk.log /\ view.unread = disk.unread
    BY <2>1 DEF PendingInv
  <2>4. \A y \in Handlers \ {x} : stage[y] \notin Within
    BY <1>0, <2>1, Alone DEF Within
  <2>5. Takes(disk, For(x), Selected(x))
    BY <1>0, <2>2, <2>3, OldestTakes DEF Selected, UnreadIn
  <2>6. view'.log = disk.log /\ view'.unread = disk.unread \ Selected(x)
    BY <2>1, <2>3, DatabaseFields
  <2>7. For(x)' = For(x)
    BY <2>1 DEF For
  <2>8. Takes(disk', For(x)', rows'[x])
    BY <2>1, <2>5, <2>7
  <2> QED
    BY <2>1, <2>2, <2>4, <2>6, <2>8, ZenonT(60) DEF PendingInv, Within
<1>4. CASE Commit(x) \/ Rollback(x)
  <2>1. /\ stage[x] \in Within /\ stage'[x] \notin Within
        /\ \A y \in Handlers \ {x} : stage'[y] = stage[y]
    BY <1>0, <1>4 DEF Commit, Rollback, Answer, Goto, CallsInv, Within
  <2> QED
    BY <1>0, <2>1, Alone, OutsidePends
<1>5. CASE \/ BeginFails(x) \/ Timeout(x) \/ Reply(x)
           \/ Notify(x) \/ Clear(x) \/ Probe(x) \/ Poll(x) \/ Consume(x)
  <2>1. /\ stage'[x] \notin Within /\ UNCHANGED <<disk, view>>
        /\ \A y \in Handlers \ {x} :
              stage'[y] = stage[y] /\ request'[y] = request[y] /\ rows'[y] = rows[y]
    BY <1>0, <1>5 DEF BeginFails, Timeout, Reply, Answer, Notify, Clear, Probe, Poll, Consume,
       Goto, store, CallsInv, StoreInv, Within
  <2> QED
    BY <2>1, OutsidePends
<1> QED
  BY <1>1, <1>2, <1>3, <1>4, <1>5 DEF HandlerStep

\* Every step keeps the open transaction to one row or one read.
LEMMA PendingStep ==
    ASSUME Sound, PendingInv, [Next]_vars
    PROVE  PendingInv'
<1>0. CallsInv /\ StoreInv
  BY DEF Sound
<1>1. CASE UNCHANGED vars
  BY <1>1 DEF vars, PendingInv, For, Takes
<1>2. ASSUME UNCHANGED <<stage, request, rows>>, tx = Nobody
      PROVE  PendingInv'
  BY <1>0, <1>2, NobodyWithin DEF PendingInv, Within
<1>3. ASSUME NEW c \in Clients, ClientStep(c)
      PROVE  PendingInv'
  <2>1. CASE Call(c) \/ GiveUp(c) \/ RegisterFails(c)
    <3>1. UNCHANGED <<disk, view, stage, request, rows>>
      BY <2>1 DEF Call, GiveUp, RegisterFails, store, handlers
    <3> QED
      BY <3>1 DEF PendingInv, For, Takes
  <2>2. CASE Register(c)
    <3>1. CASE tx = Nobody
      <4>1. UNCHANGED <<stage, request, rows>>
        BY <2>2 DEF Register, Enrol, handlers
      <4> QED
        BY <1>2, <3>1, <4>1
    <3>2. CASE tx # Nobody
      <4>1. disk' = disk /\ UNCHANGED <<stage, request, rows>>
            /\ view'.log = view.log /\ view'.unread = view.unread
        BY <2>2, <3>2, DatabaseFields DEF Register, Enrol, handlers
      <4> QED
        BY <4>1 DEF PendingInv, For, Takes
    <3> QED
      BY <3>1, <3>2
  <2>3. ASSUME NEW x \in Handlers, Accept(c, x)
        PROVE  PendingInv'
    <3>1. /\ stage'[x] \notin Within /\ UNCHANGED <<disk, view, rows>>
          /\ \A y \in Handlers \ {x} : stage'[y] = stage[y] /\ request'[y] = request[y]
      BY <1>0, <2>3 DEF Accept, Starts, store, CallsInv, Within
    <3> QED
      BY <3>1, OutsidePends
  <2> QED
    BY <1>3, <2>1, <2>2, <2>3 DEF ClientStep
<1>4. ASSUME NEW l \in Locals, LocalStep(l)
      PROVE  PendingInv'
  <2>1. CASE LocalSend(l) \/ LocalRead(l)
    BY <1>2, <2>1 DEF LocalSend, LocalRead, Writes, handlers
  <2>2. CASE LocalNotify(l) \/ LocalProbe(l) \/ LocalClear(l) \/ LocalEnds(l)
    BY <2>2 DEF LocalNotify, LocalProbe, LocalClear, LocalEnds, store, handlers, PendingInv, For, Takes
  <2> QED
    BY <1>4, <2>1, <2>2 DEF LocalStep
<1>5. CASE Die
  BY <1>5 DEF Die, PendingInv
<1>6. ASSUME NEW r \in queue, RegisterLate(r)
      PROVE  PendingInv'
  <2>1. /\ UNCHANGED <<stage, request, rows>> /\ (tx = Nobody \/ disk' = disk)
        /\ view'.log = view.log /\ view'.unread = view.unread
    BY <1>0, <1>6, EnrolEffect DEF RegisterLate, handlers
  <2> QED
    BY <1>2, <2>1 DEF PendingInv, For, Takes
<1>7. ASSUME NEW r \in queue, NEW x \in Handlers, ServeLate(r, x)
      PROVE  PendingInv'
  <2>1. UNCHANGED <<disk, view, rows>>
    BY <1>7 DEF ServeLate, store
  <2>2. /\ stage'[x] \notin Within
        /\ \A y \in Handlers \ {x} : stage'[y] = stage[y] /\ request'[y] = request[y]
    BY <1>0, <1>7 DEF ServeLate, Starts, CallsInv, Within
  <2> QED
    BY <2>1, <2>2, OutsidePends
<1> QED
  BY <1>1, <1>3, <1>4, <1>5, <1>6, <1>7, HandlerPends DEF Next

\* What the open transaction holds, in every reachable state.
LEMMA PendingFacade == Spec => []PendingInv
<1>1. Init => PendingInv
  BY DEF Init, PendingInv
<1> QED
  BY <1>1, PendingStep, SoundFacade, PTL DEF Spec

-----------------------------------------------------------------------------
(* What a step is to the inbox.                                            *)

Same ==
    /\ disk'.log = disk.log /\ disk'.unread = disk.unread
    /\ \A c \in Bridges : Taken(c)' = Taken(c)

\* Bridge b stores a message for a.
Posts(b, a) ==
    /\ disk'.log = Append(disk.log, [sender |-> Owner[b], recipient |-> a])
    /\ disk'.unread = disk.unread \cup {Len(disk.log) + 1}
    /\ \A c \in Bridges : Taken(c)' = Taken(c)

\* Bridge b takes these messages.
Reads(b, ms) ==
    /\ Takes(disk, Owner[b], ms)
    /\ disk'.log = disk.log /\ disk'.unread = disk.unread \ ms
    /\ Taken(b)' = Taken(b) \cup ms
    /\ \A c \in Bridges \ {b} : Taken(c)' = Taken(c)

\* What the handlers hold is all that matters of them.
LEMMA TakenKeeps ==
    ASSUME ended' = ended,
           \A x \in Handlers :
              /\ Held(x)' = Held(x)
              /\ request'[x].client = request[x].client \/ Held(x) = {}
    PROVE  \A c \in Bridges : Taken(c)' = Taken(c)
<1> SUFFICES ASSUME NEW c \in Bridges, NEW m
             PROVE  m \in Taken(c)' <=> m \in Taken(c)
  OBVIOUS
<1> QED
  BY DEF Taken

\* A handler that answers passes on what it holds.
LEMMA AnswerTaken ==
    ASSUME CallsInv, StoreInv, NEW x \in Handlers, NEW what, Answer(x, what), stage[x] # "free",
           Held(x) = IF what = "read" THEN rows[x] ELSE {}
    PROVE  \A c \in Bridges : Taken(c)' = Taken(c)
<1> DEFINE b == request[x].client
<1>1. b \in Bridges
  BY NobodyRests DEF CallsInv, IsRequest
<1>2. /\ stage'[x] = "free" /\ rows'[x] = {}
      /\ \A y \in Handlers \ {x} :
            stage'[y] = stage[y] /\ rows'[y] = rows[y] /\ request'[y] = request[y]
  BY DEF Answer, Goto, CallsInv, StoreInv
<1>3. ended' = [ended EXCEPT ![b] = @ \cup Held(x)]
  BY <1>1 DEF Answer, StoreInv
<1>4. Held(x)' = {} /\ \A y \in Handlers \ {x} : Held(y)' = Held(y)
  BY <1>2 DEF Held
<1>5. ended'[b] = ended[b] \cup Held(x) /\ \A c \in Bridges \ {b} : ended'[c] = ended[c]
  BY <1>1, <1>3 DEF StoreInv
<1> SUFFICES ASSUME NEW c \in Bridges, NEW m
             PROVE  m \in Taken(c)' <=> m \in Taken(c)
  OBVIOUS
<1>6. m \in Taken(c) <=>
          m \in ended[c] \/ \E y \in Handlers : request[y].client = c /\ m \in Held(y)
  BY DEF Taken
<1>7. m \in Taken(c)' <=>
          m \in ended'[c] \/ \E y \in Handlers : request'[y].client = c /\ m \in Held(y)'
  BY DEF Taken
<1> HIDE DEF b
<1>8. (\E y \in Handlers : request'[y].client = c /\ m \in Held(y)')
        <=> \E y \in Handlers \ {x} : request[y].client = c /\ m \in Held(y)
  BY <1>2, <1>4
<1>9. CASE c = b
  BY <1>5, <1>6, <1>7, <1>8, <1>9 DEF b
<1>10. CASE c # b
  BY <1>5, <1>6, <1>7, <1>8, <1>10 DEF b
<1> QED
  BY <1>9, <1>10

\* A handler's step.
LEMMA HandlerKinds ==
    ASSUME Sound, PendingInv, NEW x \in Handlers, HandlerStep(x),
           NEW b, b = request[x].client, NEW ms, ms = rows[x]
    PROVE  \/ Same
           \/ \E a \in Agents : Posts(b, a)
           \/ Reads(b, ms)
<1>0. /\ CallsInv /\ StoreInv
      /\ stage[x] # "free" => IsRequest(request[x]) /\ Fits(request[x], stage[x])
  BY DEF Sound, CallsInv
<1>1. CASE BeginFails(x) \/ Rollback(x) \/ Timeout(x) \/ Reply(x)
  <2>1. /\ disk' = disk /\ stage[x] # "free"
        /\ \E what \in {"nothing", "sent", "read"} :
              Answer(x, what) /\ Held(x) = IF what = "read" THEN rows[x] ELSE {}
    <3>1. CASE BeginFails(x) \/ Rollback(x) \/ Timeout(x)
      BY <3>1 DEF BeginFails, Rollback, Timeout, Held, store
    <3>2. CASE Reply(x)
      <4>1. disk' = disk /\ stage[x] = "reply"
            /\ Answer(x, IF request[x].kind = "send" THEN "sent" ELSE "read")
        BY <3>2 DEF Reply, store
      <4>2. request[x].kind = "send" \/ request[x].kind \in Reading
        BY <1>0, <4>1 DEF IsRequest, Request
      <4> QED
        BY <4>1, <4>2 DEF Held, Reading, Polling
    <3> QED
      BY <1>1, <3>1, <3>2
  <2> QED
    BY <1>0, <2>1, AnswerTaken DEF Same
<1>2. CASE Commit(x)
  <2>1. /\ disk' = view /\ UNCHANGED <<request, rows, ended>>
        /\ stage[x] = "commit"
        /\ stage'[x] = (CASE request[x].kind = "send" -> "notify"
                          [] request[x].kind = "subscribe" /\ rows[x] # {} -> "clear"
                          [] request[x].kind = "subscribe" /\ rows[x] = {} -> "wait"
                          [] OTHER -> "reply")
        /\ \A y \in Handlers \ {x} : stage'[y] = stage[y]
    BY <1>0, <1>2 DEF Commit, Goto, clients, CallsInv
  <2>2. Held(x) = {} /\ \A y \in Handlers \ {x} : Held(y)' = Held(y)
    BY <2>1 DEF Held
  <2>3. CASE request[x].kind = "send"
    <3>1. Held(x)' = {}
      BY <2>1, <2>3 DEF Held
    <3>2. \A c \in Bridges : Taken(c)' = Taken(c)
      BY <2>1, <2>2, <3>1, TakenKeeps
    <3>3. PICK a \in Agents : a = request[x].target
      BY <1>0, <2>1, <2>3 DEF IsRequest
    <3>4. Posts(b, a)
      BY <2>1, <2>3, <3>2, <3>3 DEF PendingInv, Posts, For
    <3> QED
      BY <3>4
  <2>4. CASE request[x].kind # "send"
    <3>1. request[x].kind \in Reading
      BY <1>0, <2>1, <2>4 DEF IsRequest, Request
    <3>2. Held(x)' = ms
      BY <2>1, <2>4, <3>1 DEF Held
    <3>3. Taken(b)' = Taken(b) \cup ms /\ \A c \in Bridges \ {b} : Taken(c)' = Taken(c)
      <4>1. ASSUME NEW c, NEW m
            PROVE  /\ m \in Taken(c) <=>
                        m \in ended[c] \/ \E y \in Handlers : request[y].client = c /\ m \in Held(y)
                   /\ m \in Taken(c)' <=>
                        m \in ended[c] \/ \E y \in Handlers : request[y].client = c /\ m \in Held(y)'
        BY <2>1 DEF Taken
      <4>2. ASSUME NEW m
            PROVE  m \in Taken(b)' <=> m \in Taken(b) \cup ms
        BY <2>2, <3>2, <4>1
      <4>3. ASSUME NEW c \in Bridges \ {b}, NEW m
            PROVE  m \in Taken(c)' <=> m \in Taken(c)
        BY <2>2, <4>1
      <4> QED
        BY <4>2, <4>3
    <3>4. Reads(b, ms)
      BY <2>1, <2>4, <3>3 DEF PendingInv, Reads, For
    <3> QED
      BY <3>4
  <2> QED
    BY <2>3, <2>4
<1>3. CASE \/ Begin(x) \/ Insert(x) \/ Select(x)
           \/ Notify(x) \/ Clear(x) \/ Probe(x) \/ Poll(x) \/ Consume(x)
  <2>1. /\ UNCHANGED <<disk, ended>>
        /\ \A y \in Handlers \ {x} :
              stage'[y] = stage[y] /\ request'[y] = request[y] /\ rows'[y] = rows[y]
    BY <1>0, <1>3 DEF Begin, Insert, Select, Notify, Clear, Probe, Poll, Consume, Goto, store,
       clients, CallsInv, StoreInv
  <2>2. \A y \in Handlers \ {x} : Held(y)' = Held(y)
    BY <2>1 DEF Held
  <2>3. CASE Clear(x)
    <3>1. request' = request /\ rows' = rows /\ stage[x] = "clear" /\ stage'[x] = "reply"
      BY <1>0, <2>3 DEF Clear, Goto, CallsInv
    <3>2. Held(x)' = Held(x)
      BY <3>1 DEF Held
    <3> QED
      BY <2>1, <2>2, <3>1, <3>2, TakenKeeps DEF Same
  <2>4. CASE Notify(x)
    <3>1. request' = request /\ stage[x] = "notify"
      BY <2>4 DEF Notify
    <3>2. request[x].kind = "send"
      BY <1>0, <3>1 DEF Fits
    <3>3. Held(x)' = {} /\ Held(x) = {}
      BY <3>1, <3>2 DEF Held, Reading, Polling
    <3> QED
      BY <2>1, <2>2, <3>3, TakenKeeps DEF Same
  <2>5. CASE Begin(x) \/ Insert(x) \/ Select(x) \/ Probe(x) \/ Poll(x) \/ Consume(x)
    <3>1. /\ stage[x] \in {"begin", "insert", "select", "wait", "poll", "consume"}
          /\ stage'[x] \in {"insert", "select", "commit", "consume", "poll", "begin"}
      BY <1>0, <2>5 DEF Begin, Insert, Select, Probe, Poll, Consume, Goto, CallsInv
    <3>2. Held(x)' = {} /\ Held(x) = {}
      BY <3>1 DEF Held
    <3> QED
      BY <2>1, <2>2, <3>2, TakenKeeps DEF Same
  <2> QED
    BY <1>3, <2>3, <2>4, <2>5
<1> QED
  BY <1>1, <1>2, <1>3 DEF HandlerStep

\* Whatever a step does to requests, stages and signals, this is what it does to
\* the messages.
LEMMA StepKinds ==
    ASSUME Sound, PendingInv, [Next]_vars
    PROVE  \/ Same
           \/ \E b \in Bridges, a \in Agents : Posts(b, a)
           \/ \E b \in Bridges, ms \in SUBSET disk.unread : Reads(b, ms)
<1> DEFINE Goal == \/ Same
                   \/ \E b \in Bridges, a \in Agents : Posts(b, a)
                   \/ \E b \in Bridges, ms \in SUBSET disk.unread : Reads(b, ms)
<1>0. CallsInv /\ StoreInv
  BY DEF Sound
<1>1. ASSUME UNCHANGED <<stage, request, rows, ended>>
      PROVE  \A c \in Bridges : Taken(c)' = Taken(c)
  BY <1>1, TakenKeeps DEF Held
<1>2. CASE UNCHANGED vars
  BY <1>1, <1>2 DEF vars, Same
<1>3. ASSUME NEW x \in Handlers, HandlerStep(x)
      PROVE  Goal
  <2>1. stage[x] # "free"
    BY <1>3 DEF HandlerStep, Begin, BeginFails, Insert, Rollback, Select, Commit, Notify, Clear,
       Probe, Poll, Consume, Timeout, Reply
  <2>2. PICK b \in Bridges : b = request[x].client
    BY <1>0, <2>1, NobodyRests DEF CallsInv, IsRequest
  <2>3. PICK ms : ms = rows[x]
    OBVIOUS
  <2>4. Reads(b, ms) => ms \in SUBSET disk.unread
    BY DEF Reads, Takes, UnreadIn
  <2> QED
    BY <1>3, <2>2, <2>3, <2>4, HandlerKinds
<1>4. ASSUME NEW c \in Clients, ClientStep(c)
      PROVE  Same
  <2>1. CASE Call(c) \/ GiveUp(c) \/ RegisterFails(c)
    <3>1. UNCHANGED <<disk, stage, request, rows, ended>>
      BY <2>1 DEF Call, GiveUp, RegisterFails, store, handlers
    <3> QED
      BY <1>1, <3>1 DEF Same
  <2>2. CASE Register(c)
    <3>1. /\ UNCHANGED <<stage, request, rows, ended>>
          /\ view'.log = view.log /\ view'.unread = view.unread
          /\ disk' = IF tx = Nobody THEN view' ELSE disk
      BY <2>2, DatabaseFields DEF Register, Enrol, handlers
    <3>2. tx = Nobody => view = disk
      BY <1>0, NobodyWithin
    <3> QED
      BY <1>1, <3>1, <3>2 DEF Same
  <2>3. ASSUME NEW x \in Handlers, Accept(c, x)
        PROVE  Same
    <3>1. /\ UNCHANGED <<disk, rows, ended>> /\ stage[x] = "free" /\ stage'[x] = "begin"
          /\ \A y \in Handlers \ {x} : stage'[y] = stage[y] /\ request'[y] = request[y]
      BY <1>0, <2>3 DEF Accept, Starts, store, CallsInv
    <3>2. Held(x)' = {} /\ Held(x) = {} /\ \A y \in Handlers \ {x} : Held(y)' = Held(y)
      BY <3>1 DEF Held
    <3> QED
      BY <3>1, <3>2, TakenKeeps DEF Same
  <2> QED
    BY <1>4, <2>1, <2>2, <2>3 DEF ClientStep
<1>5. ASSUME NEW l \in Locals, LocalStep(l)
      PROVE  Goal
  <2>0. l \in Bridges
    BY NobodyRests
  <2>1. CASE LocalNotify(l) \/ LocalProbe(l) \/ LocalClear(l) \/ LocalEnds(l)
    <3>1. UNCHANGED <<disk, stage, request, rows, ended>>
      BY <2>1 DEF LocalNotify, LocalProbe, LocalClear, LocalEnds, store, handlers
    <3> QED
      BY <1>1, <3>1 DEF Same
  <2>2. CASE LocalSend(l)
    <3>1. PICK a \in disk.agents :
              disk' = Database(disk.agents \cup {Owner[l]},
                               Append(disk.log, [sender |-> Owner[l], recipient |-> a]),
                               disk.unread \cup {Len(disk.log) + 1})
      BY <2>2 DEF LocalSend, Writes
    <3>2. /\ disk'.log = Append(disk.log, [sender |-> Owner[l], recipient |-> a])
          /\ disk'.unread = disk.unread \cup {Len(disk.log) + 1}
      <4> DEFINE longer == Append(disk.log, [sender |-> Owner[l], recipient |-> a])
                 more == disk.unread \cup {Len(disk.log) + 1}
             people == disk.agents \cup {Owner[l]}
      <4>1. disk' = Database(people, longer, more)
        BY <3>1
      <4> HIDE DEF longer, more, people
      <4>2. disk'.log = longer /\ disk'.unread = more
        BY <4>1, DatabaseFields
      <4> QED
        BY <4>2 DEF longer, more
    <3>3. UNCHANGED <<stage, request, rows, ended>>
      BY <2>2 DEF LocalSend, handlers
    <3>4. Posts(l, a) /\ a \in Agents
      BY <1>0, <1>1, <3>2, <3>3, LogTypes DEF Posts
    <3> QED
      BY <2>0, <3>4
  <2>3. CASE LocalRead(l)
    <3>1. PICK n \in Limits :
              /\ disk' = Database(disk.agents \cup {Owner[l]}, disk.log,
                                  disk.unread \ Oldest(UnreadIn(disk, Owner[l]), n))
              /\ ended' = [ended EXCEPT ![l] = @ \cup Oldest(UnreadIn(disk, Owner[l]), n)]
      BY <2>3 DEF LocalRead, Writes
    <3>0. PICK ms : ms = Oldest(UnreadIn(disk, Owner[l]), n)
      OBVIOUS
    <3>2. Takes(disk, Owner[l], ms)
      BY <1>0, <3>0, FacadeAssumption, OldestTakes
    <3>3. ms \in SUBSET disk.unread
      BY <3>0 DEF Oldest, UnreadIn
    <3>4. disk'.log = disk.log /\ disk'.unread = disk.unread \ ms
      BY <3>0, <3>1, DatabaseFields
    <3>5. UNCHANGED <<stage, request, rows>>
      BY <2>3 DEF LocalRead, handlers
    <3>6. ended'[l] = ended[l] \cup ms /\ \A c \in Bridges \ {l} : ended'[c] = ended[c]
      BY <1>0, <2>0, <3>0, <3>1 DEF StoreInv
    <3>7. Taken(l)' = Taken(l) \cup ms /\ \A c \in Bridges \ {l} : Taken(c)' = Taken(c)
      BY <3>5, <3>6 DEF Taken, Held
    <3> QED
      BY <2>0, <3>2, <3>3, <3>4, <3>7 DEF Reads
  <2> QED
    BY <1>5, <2>1, <2>2, <2>3 DEF LocalStep
<1>6. CASE Die
  <2>1. /\ disk' = disk /\ ended' = [c \in Bridges |-> Taken(c)]
        /\ \A x \in Handlers : rows'[x] = {}
    BY <1>6 DEF Die
  <2>2. \A x \in Handlers : Held(x)' = {}
    BY <2>1 DEF Held
  <2>3. \A c \in Bridges : Taken(c)' = ended'[c]
    BY <2>2 DEF Taken
  <2> QED
    BY <2>1, <2>3 DEF Same
<1>7. ASSUME NEW r \in queue, RegisterLate(r)
      PROVE  Same
  <2>1. /\ UNCHANGED <<stage, request, rows, ended>>
        /\ disk'.log = disk.log /\ disk'.unread = disk.unread
    BY <1>0, <1>7, EnrolEffect DEF RegisterLate, handlers
  <2> QED
    BY <1>1, <2>1 DEF Same
<1>8. ASSUME NEW r \in queue, NEW x \in Handlers, ServeLate(r, x)
      PROVE  Same
  <2>1. UNCHANGED <<disk, rows, ended>>
    BY <1>8 DEF ServeLate, store
  <2>2. /\ stage[x] = "free" /\ stage'[x] = "begin"
        /\ \A y \in Handlers \ {x} : stage'[y] = stage[y] /\ request'[y] = request[y]
    BY <1>0, <1>8 DEF ServeLate, Starts, CallsInv
  <2>3. Held(x)' = {} /\ Held(x) = {} /\ \A y \in Handlers \ {x} : Held(y)' = Held(y)
    BY <2>1, <2>2 DEF Held
  <2> QED
    BY <2>1, <2>2, <2>3, TakenKeeps DEF Same
<1> QED
  BY <1>2, <1>3, <1>4, <1>5, <1>6, <1>7, <1>8 DEF Next

-----------------------------------------------------------------------------
(* The refinement.                                                         *)

\* The rows name agents.
LEMMA RowRecipients == \A row \in Row : row.recipient \in Agents
BY DEF Row

\* Every step of the facade, its clients and the local bridges is a step of the
\* abstract inbox, or invisible there.
LEMMA StepRefines ==
    ASSUME Sound, PendingInv, [Next]_vars
    PROVE  [Promise!Next]_(Promise!vars)
<1> DEFINE posted == [m \in 1..Len(disk.log) |-> disk.log[m].recipient]
           taken == [c \in Bridges |-> Taken(c)]
<1>0. StoreInv /\ disk.log \in Seq(Row) /\ disk.unread \subseteq 1..Len(disk.log)
  BY LogTypes DEF Sound
<1>1. CASE Same
  BY <1>1 DEF Same, Promise!vars
<1>2. ASSUME NEW b \in Bridges, NEW a \in Agents, Posts(b, a)
      PROVE  Promise!Post(a)
  <2>1. Owner[b] \in Agents
    BY FacadeAssumption
  <2>2. /\ disk'.log \in Seq(Row) /\ Len(disk'.log) = Len(disk.log) + 1
        /\ \A m \in 1..Len(disk.log) : disk'.log[m] = disk.log[m]
        /\ disk'.log[Len(disk.log) + 1] = [sender |-> Owner[b], recipient |-> a]
    BY <1>0, <1>2, <2>1, RowAppended DEF Posts
  <2>3. disk'.log[Len(disk.log) + 1].recipient = a
    BY <2>2
  <2>4. posted' = Append(posted, a)
    BY <1>0, <2>2, <2>3, RowRecipients, RecipientsGrow
  <2>5. Len(posted) = Len(disk.log)
    BY <1>0, RowRecipients, RecipientsAre
  <2>6. taken' = taken /\ disk'.unread = disk.unread \cup {Len(posted) + 1}
    BY <1>2, <2>5 DEF Posts
  <2> QED
    BY <2>4, <2>6 DEF Promise!Post
<1>3. ASSUME NEW b \in Bridges, NEW ms \in SUBSET disk.unread, Reads(b, ms)
      PROVE  Promise!Take(b, ms) /\ ms \in SUBSET Promise!Unread(Owner[b])
  <2>1. Promise!Unread(Owner[b]) = UnreadIn(disk, Owner[b])
    BY <1>0 DEF Promise!Unread, UnreadIn
  <2>2. taken' = [taken EXCEPT ![b] = @ \cup ms]
    BY <1>3 DEF Reads
  <2>3. posted' = posted /\ disk'.unread = disk.unread \ ms /\ Takes(disk, Owner[b], ms)
    BY <1>3 DEF Reads
  <2> QED
    BY <2>1, <2>2, <2>3 DEF Promise!Take, Takes
<1> QED
  BY <1>1, <1>2, <1>3, StepKinds DEF Promise!Next

\* The handlers on the shared connection, abandoned requests, restarts and the
\* local bridges on the same file implement the inbox of module Inbox.
THEOREM FacadeImplementsInbox == Spec => AsInbox
<1>1. Init => Promise!Init
  <2> SUFFICES ASSUME Init PROVE Promise!Init
    OBVIOUS
  <2>1. disk.log = <<>> /\ disk.unread = {} /\ Len(<<>>) = 0
    BY DatabaseFields DEF Init
  <2>2. [m \in 1..Len(disk.log) |-> disk.log[m].recipient] = <<>>
    BY <2>1
  <2>3. \A c \in Bridges : Taken(c) = {}
    BY DEF Init, Taken, Held
  <2> QED
    BY <2>1, <2>2, <2>3 DEF Promise!Init
<1> QED
  BY <1>1, StepRefines, SoundFacade, PendingFacade, PTL DEF Spec, AsInbox, Promise!Spec

-----------------------------------------------------------------------------
(* What a client was told is sent.                                         *)

\* What is inductive: the handler that is about to tell has the client's row.
SentInv ==
    /\ SentIsStored
    /\ \A x \in Handlers :
          request[x].kind = "send" /\ stage[x] \in {"notify", "reply"} =>
              \A m \in rows[x] : disk.log[m].sender = For(x)

\* No committed row ever changes.
LEMMA RowsStay ==
    ASSUME Sound, PendingInv, [Next]_vars
    PROVE  /\ \A m \in 1..Len(disk.log) : m \in 1..Len(disk'.log) /\ disk'.log[m] = disk.log[m]
           /\ Len(disk.log) \in Nat
<1>0. StoreInv /\ disk.log \in Seq(Row) /\ Len(disk.log) \in Nat
  BY LogTypes DEF Sound
<1>1. ASSUME NEW b \in Bridges, NEW a \in Agents, Posts(b, a)
      PROVE  \A m \in 1..Len(disk.log) : m \in 1..Len(disk'.log) /\ disk'.log[m] = disk.log[m]
  <2>1. Owner[b] \in Agents
    BY FacadeAssumption
  <2>2. /\ Len(disk'.log) = Len(disk.log) + 1
        /\ \A m \in 1..Len(disk.log) : disk'.log[m] = disk.log[m]
    BY <1>0, <1>1, <2>1, RowAppended DEF Posts
  <2> QED
    BY <1>0, <2>2
<1> QED
  BY <1>0, <1>1, StepKinds DEF Same, Reads

\* A step that tells nobody and brings no handler of a send past its commit.
LEMMA TellsNobody ==
    ASSUME Sound, PendingInv, SentInv, [Next]_vars, sent' = sent,
           \A x \in Handlers :
              request'[x].kind = "send" /\ stage'[x] \in {"notify", "reply"} =>
                  /\ stage[x] \in {"notify", "reply"}
                  /\ request'[x] = request[x] /\ rows'[x] = rows[x]
    PROVE  SentInv'
<1>1. SentIsStored'
  BY RowsStay DEF SentInv, SentIsStored
<1>2. ASSUME NEW x \in Handlers, request'[x].kind = "send", stage'[x] \in {"notify", "reply"},
             NEW m \in rows'[x]
      PROVE  disk'.log[m].sender = For(x)'
  <2>1. rows[x] \subseteq 1..Len(disk.log) /\ rows'[x] = rows[x]
    BY <1>2 DEF Sound, StoreInv
  <2> QED
    BY <1>2, <2>1, RowsStay DEF SentInv, For
<1> QED
  BY <1>1, <1>2 DEF SentInv

\* A handler's step that tells a client that its message is sent has the row.
LEMMA HandlerTells ==
    ASSUME Sound, PendingInv, SentInv, NEW x \in Handlers, HandlerStep(x)
    PROVE  SentInv'
<1>0. /\ CallsInv /\ StoreInv /\ [Next]_vars
      /\ stage[x] # "free" => IsRequest(request[x]) /\ Fits(request[x], stage[x])
  BY DEF Sound, CallsInv, Next
<1>1. CASE Begin(x) \/ Insert(x) \/ Select(x) \/ Probe(x) \/ Poll(x) \/ Consume(x)
  <2>1. /\ sent' = sent /\ stage'[x] \notin {"notify", "reply"}
        /\ \A y \in Handlers \ {x} :
              stage'[y] = stage[y] /\ request'[y] = request[y] /\ rows'[y] = rows[y]
    BY <1>0, <1>1 DEF Begin, Insert, Select, Probe, Poll, Consume, Goto, clients, CallsInv,
       StoreInv
  <2> QED
    BY <1>0, <2>1, TellsNobody
<1>2. CASE Notify(x) \/ Clear(x)
  <2>1. /\ UNCHANGED <<sent, request, rows>>
        /\ stage[x] = "notify" \/ stage[x] = "clear"
        /\ \A y \in Handlers \ {x} : stage'[y] = stage[y]
    BY <1>0, <1>2 DEF Notify, Clear, Goto, clients, CallsInv
  <2>2. stage[x] = "clear" => request[x].kind # "send"
    BY <1>0 DEF Fits, Reading, Polling
  <2> QED
    BY <1>0, <2>1, <2>2, TellsNobody
<1>3. ASSUME NEW what, Answer(x, what)
      PROVE  /\ \A y \in Handlers \ {x} :
                    stage'[y] = stage[y] /\ request'[y] = request[y] /\ rows'[y] = rows[y]
             /\ stage'[x] = "free"
             /\ sent' = sent \/ sent' = [sent EXCEPT ![request[x].client] =
                                           IF what = "sent" THEN @ \cup rows[x] ELSE @]
  BY <1>0, <1>3 DEF Answer, Goto, CallsInv, StoreInv
<1>4. CASE BeginFails(x) \/ Rollback(x) \/ Timeout(x) \/ (Reply(x) /\ request[x].kind # "send")
  <2>1. Answer(x, "nothing") \/ Answer(x, "read")
    BY <1>4 DEF BeginFails, Rollback, Timeout, Reply
  <2>2. sent' = sent \/ sent' = [sent EXCEPT ![request[x].client] = @]
    BY <1>3, <2>1
  <2>3. sent' = sent
    BY <1>0, <2>2 DEF StoreInv
  <2>4. \A y \in Handlers :
            request'[y].kind = "send" /\ stage'[y] \in {"notify", "reply"} =>
                /\ stage[y] \in {"notify", "reply"}
                /\ request'[y] = request[y] /\ rows'[y] = rows[y]
    BY <1>3, <2>1
  <2> QED
    BY <1>0, <2>3, <2>4, TellsNobody
<1>5. CASE Reply(x) /\ request[x].kind = "send"
  <2>1. stage[x] = "reply" /\ Answer(x, "sent") /\ UNCHANGED disk
    BY <1>5 DEF Reply, store
  <2>2. PICK c \in Clients : c = request[x].client
    BY <1>0, <2>1 DEF IsRequest
  <2>3. sent' = sent \/ sent' = [sent EXCEPT ![c] = @ \cup rows[x]]
    BY <1>3, <2>1, <2>2
  <2>4. \A m \in rows[x] : m \in 1..Len(disk.log) /\ disk.log[m].sender = Owner[c]
    BY <1>0, <1>5, <2>1, <2>2 DEF StoreInv, SentInv, For
  <2>5. SentIsStored'
    BY <1>0, <2>1, <2>3, <2>4 DEF SentInv, SentIsStored, StoreInv
  <2>6. ASSUME NEW y \in Handlers, request'[y].kind = "send", stage'[y] \in {"notify", "reply"},
               NEW m \in rows'[y]
        PROVE  disk'.log[m].sender = For(y)'
    BY <1>3, <2>1, <2>6 DEF SentInv, For
  <2> QED
    BY <2>5, <2>6 DEF SentInv
<1>6. CASE Commit(x)
  <2>1. /\ disk' = view /\ UNCHANGED <<sent, request, rows>> /\ stage[x] = "commit"
        /\ \A y \in Handlers \ {x} : stage'[y] = stage[y]
        /\ stage'[x] = (CASE request[x].kind = "send" -> "notify"
                          [] request[x].kind = "subscribe" /\ rows[x] # {} -> "clear"
                          [] request[x].kind = "subscribe" /\ rows[x] = {} -> "wait"
                          [] OTHER -> "reply")
    BY <1>0, <1>6 DEF Commit, Goto, clients, CallsInv
  <2>2. CASE request[x].kind # "send"
    BY <1>0, <2>1, <2>2, TellsNobody
  <2>3. CASE request[x].kind = "send"
    <3>1. /\ disk'.log = Append(disk.log, [sender |-> For(x), recipient |-> request[x].target])
          /\ rows[x] = {Len(disk.log) + 1}
      BY <2>1, <2>3 DEF PendingInv
    <3>2. request[x].target \in Agents /\ For(x) \in Agents
      BY <1>0, <2>1, <2>3, NobodyRests, FacadeAssumption DEF IsRequest, For
    <3>3. disk'.log[Len(disk.log) + 1] = [sender |-> For(x), recipient |-> request[x].target]
      BY <1>0, <3>1, <3>2, LogTypes, RowAppended
    <3>4. disk'.log[Len(disk.log) + 1].sender = For(x)
      BY <3>3
    <3>5. SentIsStored'
      BY <1>0, <2>1, RowsStay DEF SentInv, SentIsStored
    <3>6. ASSUME NEW y \in Handlers, request'[y].kind = "send", stage'[y] \in {"notify", "reply"},
                 NEW m \in rows'[y]
          PROVE  disk'.log[m].sender = For(y)'
      <4>1. CASE y = x
        BY <2>1, <3>1, <3>4, <3>6, <4>1 DEF For
      <4>2. CASE y # x
        <5>1. rows[y] \subseteq 1..Len(disk.log) /\ stage'[y] = stage[y]
          BY <1>0, <2>1, <3>6, <4>2 DEF StoreInv
        <5> QED
          BY <1>0, <2>1, <3>6, <5>1, RowsStay DEF SentInv, For
      <4> QED
        BY <4>1, <4>2
    <3> QED
      BY <3>5, <3>6 DEF SentInv
  <2> QED
    BY <2>2, <2>3
<1> QED
  BY <1>1, <1>2, <1>4, <1>5, <1>6 DEF HandlerStep

\* Every step keeps what clients were told true.
LEMMA SentStep ==
    ASSUME Sound, PendingInv, SentInv, [Next]_vars
    PROVE  SentInv'
<1>0. CallsInv /\ StoreInv
  BY DEF Sound
<1>1. CASE UNCHANGED vars
  BY <1>1, TellsNobody DEF vars
<1>2. ASSUME NEW c \in Clients, ClientStep(c)
      PROVE  SentInv'
  <2>1. CASE Call(c) \/ GiveUp(c) \/ Register(c) \/ RegisterFails(c)
    <3>1. UNCHANGED <<stage, request, rows, sent>>
      BY <2>1 DEF Call, GiveUp, Register, Enrol, RegisterFails, handlers
    <3> QED
      BY <3>1, TellsNobody
  <2>2. ASSUME NEW x \in Handlers, Accept(c, x)
        PROVE  SentInv'
    <3>1. /\ UNCHANGED <<rows, sent>> /\ stage'[x] = "begin"
          /\ \A y \in Handlers \ {x} : stage'[y] = stage[y] /\ request'[y] = request[y]
      BY <1>0, <2>2 DEF Accept, Starts, CallsInv
    <3> QED
      BY <3>1, TellsNobody
  <2> QED
    BY <1>2, <2>1, <2>2 DEF ClientStep
<1>3. ASSUME NEW l \in Locals, LocalStep(l)
      PROVE  SentInv'
  <2>1. UNCHANGED <<stage, request, rows, sent>>
    BY <1>3 DEF LocalStep, LocalSend, LocalNotify, LocalRead, LocalProbe, LocalClear, LocalEnds, handlers
  <2> QED
    BY <2>1, TellsNobody
<1>4. CASE Die
  <2>1. sent' = sent /\ \A x \in Handlers : stage'[x] = "free"
    BY <1>4 DEF Die
  <2> QED
    BY <2>1, TellsNobody
<1>5. ASSUME NEW r \in queue, RegisterLate(r)
      PROVE  SentInv'
  <2>1. UNCHANGED <<stage, request, rows, sent>>
    BY <1>5 DEF RegisterLate, handlers
  <2> QED
    BY <2>1, TellsNobody
<1>6. ASSUME NEW r \in queue, NEW x \in Handlers, ServeLate(r, x)
      PROVE  SentInv'
  <2>1. UNCHANGED <<rows, sent>>
    BY <1>6 DEF ServeLate
  <2>2. /\ stage'[x] = "begin"
        /\ \A y \in Handlers \ {x} : stage'[y] = stage[y] /\ request'[y] = request[y]
    BY <1>0, <1>6 DEF ServeLate, Starts, CallsInv
  <2> QED
    BY <2>1, <2>2, TellsNobody
<1> QED
  BY <1>1, <1>2, <1>3, <1>4, <1>5, <1>6, HandlerTells DEF Next

\* A client is told that its message is sent only when the row is on disk, and
\* it stays there though the facade dies right after (store.py send_message).
THEOREM ToldIsStored == Spec => []SentIsStored
<1>1. Init => SentInv
  BY DEF Init, SentInv, SentIsStored
<1>2. SentInv => SentIsStored
  BY DEF SentInv
<1> QED
  BY <1>1, <1>2, SentStep, SoundFacade, PendingFacade, PTL DEF Spec

-----------------------------------------------------------------------------
(* A thread blocked in /subscribe is woken.                                *)

Blocked == {"wait", "poll", "consume"}

\* The thread works for the only bridge of its agent, which never gives up.
ForOnlyBridge(t) == For(t) \notin {Owner[c] : c \in (Bridges \ {request[t].client}) \cup Flaky}

\* A client that never gives up waits for its handler; only the loop sends; the
\* row a sender is about to signal is for the agent it will signal; a read finds
\* nothing only if there is nothing.
Honest(x) ==
    /\ stage[x] # "free" /\ request[x].client \notin Flaky => live[x]
    /\ request[x].kind = "send" => x = Loop
    /\ stage[x] = "notify" => \A m \in rows[x] : disk.log[m].recipient = request[x].target
    /\ stage[x] = "commit" /\ request[x].kind # "send" /\ rows[x] = {} =>
          UnreadIn(disk, For(x)) = {}

HonestInv == \A x \in Handlers : Honest(x)

\* The signal of a is there, or the sender of m is about to write it, or died.
Covered(a, m) ==
    \/ a \in signal
    \/ stage[Loop] = "notify" /\ rows[Loop] = {m}
    \/ \E l \in Locals :
          phase[l] = "notify" /\ asked[l].target = a /\ disk.log[m].sender = Owner[l]
    \/ disk.log[m].sender \in {Owner[l] : l \in Locals \cap Flaky}

\* BlockedIsWoken with the local sender that is about to signal named: any other
\* that is about to would not do, for it may die before.
CoverInv ==
    \A t \in Threads : stage[t] \in Blocked /\ ForOnlyBridge(t) =>
        \A m \in UnreadIn(disk, For(t)) : Covered(For(t), m)

\* A step that moves one handler, and leaves the database alone or is a step of
\* that handler in its transaction.
LEMMA OneMoves ==
    ASSUME Sound, PendingInv, HonestInv, [Next]_vars, NEW x \in Handlers, Honest(x)',
           \A y \in Handlers \ {x} :
              /\ stage'[y] = stage[y] /\ request'[y] = request[y]
              /\ rows'[y] = rows[y] /\ live'[y] = live[y],
           stage[x] \in Within \/ disk' = disk
    PROVE  HonestInv'
<1> SUFFICES ASSUME NEW y \in Handlers \ {x}
             PROVE  Honest(y)'
  BY DEF HonestInv
<1>0. Honest(y) /\ StoreInv
  BY DEF HonestInv, Sound
<1>1. ASSUME stage'[y] = "notify", NEW m \in rows'[y]
      PROVE  disk'.log[m].recipient = request'[y].target
  <2>1. m \in 1..Len(disk.log)
    BY <1>0, <1>1 DEF StoreInv
  <2> QED
    BY <1>0, <1>1, <2>1, RowsStay DEF Honest
<1>2. stage'[y] = "commit" => disk' = disk
  BY <1>0, Alone DEF Within
<1>3. For(y)' = For(y)
  BY DEF For
<1> QED
  BY <1>0, <1>1, <1>2, <1>3 DEF Honest, UnreadIn

\* A handler's step keeps what the handlers know of their requests.
LEMMA HandlerIsHonest ==
    ASSUME Sound, PendingInv, HonestInv, NEW x \in Handlers, HandlerStep(x)
    PROVE  HonestInv'
<1>0. /\ CallsInv /\ StoreInv /\ [Next]_vars /\ Honest(x)
      /\ stage[x] # "free" => IsRequest(request[x]) /\ Fits(request[x], stage[x])
  BY DEF Sound, CallsInv, Next, HonestInv
<1>1. CASE Begin(x) \/ Insert(x) \/ Notify(x) \/ Clear(x) \/ Probe(x) \/ Poll(x)
  <2>1. /\ UNCHANGED <<disk, live, request>> /\ stage[x] # "free"
        /\ stage'[x] \in {"insert", "select", "commit", "reply", "consume", "poll"}
        /\ stage'[x] = "commit" => stage[x] = "insert"
        /\ \A y \in Handlers \ {x} : stage'[y] = stage[y] /\ rows'[y] = rows[y]
    BY <1>0, <1>1 DEF Begin, Insert, Notify, Clear, Probe, Poll, Goto, clients, store,
       CallsInv, StoreInv
  <2>2. stage[x] = "insert" => request[x].kind = "send"
    BY <1>0 DEF Fits
  <2>3. Honest(x)'
    BY <1>0, <2>1, <2>2 DEF Honest
  <2> QED
    BY <1>0, <2>1, <2>3, OneMoves
<1>2. CASE Select(x)
  <2>1. /\ UNCHANGED <<disk, live, request>>
        /\ stage[x] = "select" /\ stage'[x] = "commit" /\ rows'[x] = Selected(x)
        /\ \A y \in Handlers \ {x} : stage'[y] = stage[y] /\ rows'[y] = rows[y]
    BY <1>0, <1>2 DEF Select, Goto, clients, CallsInv, StoreInv
  <2>2. UnreadIn(view, For(x)) = UnreadIn(disk, For(x))
    BY <2>1 DEF PendingInv, UnreadIn
  <2>3. Selected(x) = {} => UnreadIn(disk, For(x)) = {}
    <3>1. UnreadIn(view, For(x)) \in SUBSET Nat
      BY <1>0, LogTypes DEF UnreadIn
    <3>2. request[x].limit \in Nat \ {0}
      BY <1>0, <2>1, FacadeAssumption DEF IsRequest, Fits, Reading, Polling
    <3> QED
      BY <2>2, <3>1, <3>2, PrefixIsThere DEF Selected, Oldest
  <2>4. For(x)' = For(x)
    BY <2>1 DEF For
  <2>5. Honest(x)'
    BY <1>0, <2>1, <2>3, <2>4 DEF Honest
  <2> QED
    BY <1>0, <2>1, <2>5, OneMoves
<1>3. CASE Commit(x)
  <2>1. /\ disk' = view /\ UNCHANGED <<live, request, rows>> /\ stage[x] = "commit"
        /\ stage'[x] \in {"notify", "clear", "wait", "reply"}
        /\ stage'[x] = "notify" => request[x].kind = "send"
        /\ \A y \in Handlers \ {x} : stage'[y] = stage[y]
    BY <1>0, <1>3 DEF Commit, Goto, clients, CallsInv
  <2>2. ASSUME request[x].kind = "send", NEW m \in rows[x]
        PROVE  disk'.log[m].recipient = request[x].target
    <3>1. /\ disk'.log = Append(disk.log, [sender |-> For(x), recipient |-> request[x].target])
          /\ m = Len(disk.log) + 1
      BY <2>1, <2>2 DEF PendingInv
    <3>2. request[x].target \in Agents /\ For(x) \in Agents
      BY <1>0, <2>1, <2>2, NobodyRests, FacadeAssumption DEF IsRequest, For
    <3>3. disk'.log[m] = [sender |-> For(x), recipient |-> request[x].target]
      BY <1>0, <3>1, <3>2, LogTypes, RowAppended
    <3> QED
      BY <3>3
  <2>3. Honest(x)'
    BY <1>0, <2>1, <2>2 DEF Honest
  <2>4. stage[x] \in Within
    BY <2>1 DEF Within
  <2> QED
    BY <1>0, <2>1, <2>3, <2>4, OneMoves
<1>4. CASE Consume(x)
  <2>1. /\ disk' = disk /\ UNCHANGED <<live, rows>>
        /\ stage[x] = "consume" /\ stage'[x] = "begin"
        /\ request'[x] = ReadRequest(request[x].client, "reread", request[x].limit)
        /\ \A y \in Handlers \ {x} : stage'[y] = stage[y] /\ request'[y] = request[y]
    BY <1>0, <1>4 DEF Consume, Goto, clients, store, CallsInv
  <2>2. request'[x].client = request[x].client /\ request'[x].kind = "reread"
    BY <2>1, ReadsFor
  <2>3. Honest(x)'
    BY <1>0, <2>1, <2>2 DEF Honest
  <2> QED
    BY <1>0, <2>1, <2>3, OneMoves
<1>5. CASE BeginFails(x) \/ Rollback(x) \/ Timeout(x) \/ Reply(x)
  <2>1. disk' = disk /\ \E what \in {"nothing", "sent", "read"} : Answer(x, what)
    BY <1>5 DEF BeginFails, Rollback, Timeout, Reply, store
  <2>2. /\ stage'[x] = "free" /\ request'[x] = NoRequest
        /\ \A y \in Handlers \ {x} :
              /\ stage'[y] = stage[y] /\ request'[y] = request[y]
              /\ rows'[y] = rows[y] /\ live'[y] = live[y]
    BY <1>0, <2>1 DEF Answer, Goto, CallsInv, StoreInv
  <2>3. Honest(x)'
    BY <2>2, NoneSends DEF Honest
  <2> QED
    BY <1>0, <2>1, <2>2, <2>3, OneMoves
<1> QED
  BY <1>1, <1>2, <1>3, <1>4, <1>5 DEF HandlerStep

\* Every step keeps handlers and clients honest with each other.
LEMMA HonestStep ==
    ASSUME Sound, PendingInv, HonestInv, [Next]_vars
    PROVE  HonestInv'
<1>0. CallsInv /\ StoreInv
  BY DEF Sound
<1>1. CASE UNCHANGED vars
  BY <1>1 DEF vars, HonestInv, Honest, UnreadIn, For
<1>2. ASSUME UNCHANGED <<stage, request, rows>>,
             \A x \in Handlers : request[x].client \notin Flaky => live'[x] = live[x],
             \/ disk'.log = disk.log /\ disk'.unread = disk.unread
             \/ tx = Nobody
      PROVE  HonestInv'
  <2> SUFFICES ASSUME NEW x \in Handlers
               PROVE  Honest(x)'
    BY DEF HonestInv
  <2>1. Honest(x)
    BY DEF HonestInv
  <2>2. stage[x] = "notify" => \A m \in rows[x] : disk'.log[m] = disk.log[m]
    BY <1>0, RowsStay DEF StoreInv
  <2>3. stage[x] = "commit" => UnreadIn(disk, For(x))' = UnreadIn(disk, For(x))
    <3>1. ASSUME stage[x] = "commit"
          PROVE  tx # Nobody
      BY <1>0, <3>1, Alone DEF Within
    <3> QED
      BY <1>2, <3>1 DEF UnreadIn, For
  <2> QED
    BY <1>2, <2>1, <2>2, <2>3 DEF Honest, UnreadIn, For
<1>3. ASSUME NEW c \in Clients, ClientStep(c)
      PROVE  HonestInv'
  <2>1. CASE Call(c) \/ GiveUp(c) \/ RegisterFails(c)
    <3>1. UNCHANGED <<disk, stage, request, rows>>
      BY <2>1 DEF Call, GiveUp, RegisterFails, store, handlers
    <3>2. \A x \in Handlers : request[x].client \notin Flaky => live'[x] = live[x]
      BY <1>0, <2>1 DEF Call, GiveUp, RegisterFails, handlers, CallsInv
    <3> QED
      BY <1>2, <3>1, <3>2
  <2>2. CASE Register(c)
    <3>1. UNCHANGED <<stage, request, rows, live>> /\ (tx = Nobody \/ disk' = disk)
      BY <2>2 DEF Register, Enrol, handlers
    <3> QED
      BY <1>2, <3>1
  <2>3. ASSUME NEW x \in Handlers, Accept(c, x)
        PROVE  HonestInv'
    <3>1. /\ UNCHANGED <<disk, rows>>
          /\ stage'[x] = "begin" /\ live'[x] /\ request'[x] = asked[c]
          /\ x \in Threads <=> asked[c].kind = "subscribe"
          /\ \A y \in Handlers \ {x} :
                stage'[y] = stage[y] /\ request'[y] = request[y] /\ live'[y] = live[y]
      BY <1>0, <2>3 DEF Accept, Starts, store, CallsInv
    <3>2. Honest(x)'
      BY <3>1 DEF Honest, Handlers
    <3> QED
      BY <3>1, <3>2, OneMoves
  <2> QED
    BY <1>3, <2>1, <2>2, <2>3 DEF ClientStep
<1>4. ASSUME NEW l \in Locals, LocalStep(l)
      PROVE  HonestInv'
  <2>1. UNCHANGED <<stage, request, rows, live>> /\ (tx = Nobody \/ disk' = disk)
    BY <1>4 DEF LocalStep, LocalSend, LocalNotify, LocalRead, LocalProbe, LocalClear, LocalEnds, Writes,
       handlers, store
  <2> QED
    BY <1>2, <2>1
<1>5. CASE Die
  <2>1. \A x \in Handlers : stage'[x] = "free" /\ request'[x] = NoRequest
    BY <1>5 DEF Die
  <2> QED
    BY <2>1, NoneSends DEF HonestInv, Honest
<1>6. ASSUME NEW r \in queue, RegisterLate(r)
      PROVE  HonestInv'
  <2>1. UNCHANGED <<stage, request, rows, live>> /\ (tx = Nobody \/ disk' = disk)
    BY <1>0, <1>6, EnrolEffect DEF RegisterLate, handlers
  <2> QED
    BY <1>2, <2>1
<1>7. ASSUME NEW r \in queue, NEW x \in Handlers, ServeLate(r, x)
      PROVE  HonestInv'
  <2>1. UNCHANGED <<disk, rows>> /\ r.client \in Flaky
    BY <1>7 DEF ServeLate, store, Sound, QueueInv
  <2>2. /\ stage'[x] = "begin" /\ request'[x] = r
        /\ x \in Threads <=> r.kind = "subscribe"
        /\ \A y \in Handlers \ {x} :
              stage'[y] = stage[y] /\ request'[y] = request[y] /\ live'[y] = live[y]
    BY <1>0, <1>7 DEF ServeLate, Starts, CallsInv
  <2>3. Honest(x)'
    BY <2>1, <2>2 DEF Honest, Handlers
  <2> QED
    BY <2>1, <2>2, <2>3, OneMoves
<1> QED
  BY <1>1, <1>3, <1>4, <1>5, <1>6, <1>7, HandlerIsHonest DEF Next

\* What a step has to keep for a message that was there.
LEMMA KeepsCover ==
    ASSUME Sound, PendingInv, CoverInv, [Next]_vars, NEW t \in Threads,
           stage[t] \in Blocked, ForOnlyBridge(t),
           NEW a, a = For(t), NEW m \in UnreadIn(disk, a),
           a \in signal => a \in signal',
           stage[Loop] = "notify" /\ rows[Loop] = {m} =>
              a \in signal' \/ (stage'[Loop] = "notify" /\ rows'[Loop] = {m}),
           \A l \in Locals : phase[l] = "notify" /\ asked[l].target = a =>
              \/ a \in signal' \/ l \in Flaky
              \/ phase'[l] = "notify" /\ asked'[l].target = a
    PROVE  Covered(a, m)'
<1>1. Covered(a, m)
  BY DEF CoverInv
<1>2. disk'.log[m] = disk.log[m]
  <2>1. m \in 1..Len(disk.log)
    BY LogTypes DEF Sound, UnreadIn
  <2> QED
    BY <2>1, RowsStay
<1> QED
  BY <1>1, <1>2 DEF Covered

\* Only the client it works for can speak for the agent of such a thread.
LEMMA NobodyElse ==
    ASSUME Sound, HonestInv, NEW t \in Threads, stage[t] \in Blocked, ForOnlyBridge(t)
    PROVE  /\ \A l \in Locals : Owner[l] # For(t)
           /\ \A x \in Handlers \ {t} : stage[x] # "free" => For(x) # For(t)
<1> DEFINE c == request[t].client
<1>0. CallsInv /\ t \in Handlers
  BY DEF Sound, Handlers
<1>1. c \in Clients /\ c \in Bridges /\ stage[t] # "free"
  BY <1>0, NobodyRests DEF Blocked, CallsInv, IsRequest
<1>2. c \notin Flaky
  BY <1>1, FacadeAssumption DEF ForOnlyBridge, For
<1>3. live[t]
  BY <1>0, <1>1, <1>2 DEF HonestInv, Honest
<1>4. \A l \in Locals : Owner[l] # For(t)
  BY <1>1, NobodyRests DEF ForOnlyBridge
<1>5. ASSUME NEW x \in Handlers \ {t}, stage[x] # "free", For(x) = For(t)
      PROVE  FALSE
  <2>1. request[x].client \in Bridges
    BY <1>0, <1>5, NobodyRests DEF CallsInv, IsRequest
  <2>2. request[x].client = c
    BY <1>5, <2>1 DEF ForOnlyBridge, For
  <2>3. live[x]
    BY <1>2, <1>5, <2>2 DEF HonestInv, Honest
  <2> QED
    BY <1>0, <1>3, <1>5, <2>2, <2>3 DEF CallsInv
<1> QED
  BY <1>4, <1>5

\* A handler leaves the calls of the local bridges alone.
LEMMA HandlerSparesLocals ==
    ASSUME Sound, NEW x \in Handlers, HandlerStep(x)
    PROVE  \A l \in Locals : phase'[l] = phase[l] /\ asked'[l] = asked[l]
<1>0. CallsInv
  BY DEF Sound
<1>1. CASE UNCHANGED clients
  BY <1>1 DEF clients
<1>2. ASSUME stage[x] # "free", NEW what, Answer(x, what)
      PROVE  \A l \in Locals : phase'[l] = phase[l] /\ asked'[l] = asked[l]
  <2>1. request[x].client \notin Locals
    BY <1>0, <1>2, NobodyRests DEF CallsInv, IsRequest
  <2> QED
    BY <1>0, <1>2, <2>1, NobodyRests DEF Answer, CallsInv
<1>3. CASE BeginFails(x) \/ Rollback(x) \/ Timeout(x) \/ Reply(x)
  BY <1>2, <1>3 DEF BeginFails, Rollback, Timeout, Reply
<1> QED
  BY <1>1, <1>3 DEF HandlerStep, Begin, Insert, Select, Commit, Notify, Clear, Probe, Poll, Consume

\* A handler's step leaves every blocked thread covered.
LEMMA HandlerCovers ==
    ASSUME Sound, PendingInv, HonestInv, CoverInv, NEW x \in Handlers, HandlerStep(x),
           NEW t \in Threads, stage'[t] \in Blocked, ForOnlyBridge(t)',
           NEW a, a = For(t)', NEW m \in UnreadIn(disk', a)
    PROVE  Covered(a, m)'
<1>0. /\ CallsInv /\ StoreInv /\ [Next]_vars /\ t \in Handlers /\ Loop \in Handlers /\ t # Loop
      /\ Honest(x) /\ PendingInv
      /\ stage[x] # "free" => IsRequest(request[x]) /\ Fits(request[x], stage[x])
  BY FacadeAssumption DEF Sound, CallsInv, Next, HonestInv, Handlers
<1>1. \A l \in Locals : phase'[l] = phase[l] /\ asked'[l] = asked[l]
  BY HandlerSparesLocals
<1>2. ASSUME stage[t] \in Blocked, request'[t].client = request[t].client,
             m \in UnreadIn(disk, a), a \in signal => a \in signal',
             stage[Loop] = "notify" /\ rows[Loop] = {m} =>
                a \in signal' \/ (stage'[Loop] = "notify" /\ rows'[Loop] = {m})
      PROVE  Covered(a, m)'
  <2>1. ForOnlyBridge(t) /\ a = For(t)
    BY <1>2 DEF ForOnlyBridge, For
  <2> QED
    BY <1>0, <1>1, <1>2, <2>1, KeepsCover
<1>3. CASE Commit(x)
  <2>1. /\ disk' = view /\ UNCHANGED <<signal, request, rows>> /\ stage[x] = "commit"
        /\ stage' = [stage EXCEPT ![x] = stage'[x]]
        /\ request[x].kind = "send" => stage'[x] = "notify"
        /\ stage'[x] = "wait" => rows[x] = {}
    BY <1>0, <1>3 DEF Commit, Goto, clients, CallsInv
  <2>2. CASE request[x].kind = "send"
    <3>1. x = Loop /\ stage'[Loop] = "notify" /\ stage[t] = stage'[t]
      BY <1>0, <2>1, <2>2 DEF Honest, CallsInv
    <3>2. /\ view.unread = disk.unread \cup {Len(disk.log) + 1}
          /\ rows[Loop] = {Len(disk.log) + 1}
      BY <1>0, <2>1, <2>2, <3>1 DEF PendingInv
    <3>3. CASE m = Len(disk.log) + 1
      BY <2>1, <3>1, <3>2, <3>3 DEF Covered
    <3>4. CASE m # Len(disk.log) + 1
      <4>1. m \in disk.unread /\ m \in 1..Len(disk.log)
        BY <1>0, <2>1, <3>2, <3>4, LogTypes DEF UnreadIn
      <4>2. m \in UnreadIn(disk, a)
        BY <1>0, <4>1, RowsStay DEF UnreadIn
      <4> QED
        BY <1>2, <2>1, <3>1, <4>2
    <3> QED
      BY <3>3, <3>4
  <2>3. CASE request[x].kind # "send"
    <3>1. view.log = disk.log /\ view.unread = disk.unread \ rows[x]
      BY <1>0, <2>1, <2>3 DEF PendingInv
    <3>2. m \in UnreadIn(disk, a)
      BY <2>1, <3>1 DEF UnreadIn
    <3>3. x # t
      <4>1. ASSUME x = t
            PROVE  stage'[t] = "wait"
        BY <1>0, <1>3, <4>1 DEF Commit, Goto, Blocked, CallsInv
      <4>2. ASSUME x = t
            PROVE  UnreadIn(disk, a) = {}
        BY <1>0, <2>1, <2>3, <4>1, <4>2 DEF Honest, For
      <4> QED
        BY <3>2, <4>2
    <3> QED
      BY <1>0, <1>2, <2>1, <3>2, <3>3 DEF CallsInv
  <2> QED
    BY <2>2, <2>3
<1>4. CASE Notify(x)
  <2>1. /\ disk' = disk /\ UNCHANGED <<request, rows>> /\ stage[x] = "notify"
        /\ signal' = signal \cup {request[x].target}
        /\ stage' = [stage EXCEPT ![x] = "reply"]
    BY <1>4 DEF Notify, Goto, clients, store
  <2>2. x = Loop
    BY <1>0, <2>1 DEF Fits, Honest
  <2>3. rows[x] = {m} => a = request[x].target
    BY <1>0, <2>1 DEF Honest, UnreadIn
  <2> QED
    BY <1>0, <1>2, <2>1, <2>2, <2>3 DEF CallsInv
<1>5. CASE Clear(x) \/ Consume(x)
  <2>1. /\ disk' = disk /\ UNCHANGED rows /\ stage[x] \in {"clear", "consume"}
        /\ signal' = signal \ {For(x)}
        /\ stage'[x] \in {"reply", "begin"}
        /\ \A y \in Handlers \ {x} : stage'[y] = stage[y] /\ request'[y] = request[y]
    BY <1>0, <1>5 DEF Clear, Consume, Goto, store, CallsInv
  <2>2. x # t
    BY <2>1 DEF Blocked
  <2>3. stage[t] \in Blocked /\ request'[t].client = request[t].client
    BY <1>0, <2>1, <2>2
  <2>4. ForOnlyBridge(t) /\ a = For(t)
    BY <2>3 DEF ForOnlyBridge, For
  <2>5. For(x) # a
    BY <2>1, <2>2, <2>3, <2>4, NobodyElse
  <2> QED
    BY <1>0, <1>2, <2>1, <2>3, <2>5
<1>6. CASE \/ Begin(x) \/ BeginFails(x) \/ Insert(x) \/ Rollback(x) \/ Select(x)
           \/ Probe(x) \/ Poll(x) \/ Timeout(x) \/ Reply(x)
  <2>1. /\ UNCHANGED <<disk, signal>> /\ stage[x] # "notify"
        /\ stage'[x] \in Blocked => stage[x] \in Blocked /\ request'[x] = request[x]
        /\ \A y \in Handlers \ {x} :
              stage'[y] = stage[y] /\ request'[y] = request[y] /\ rows'[y] = rows[y]
    BY <1>0, <1>6 DEF Begin, BeginFails, Insert, Rollback, Select, Probe, Poll, Timeout, Reply,
       Answer, Goto, store, clients, CallsInv, StoreInv, Blocked
  <2> QED
    BY <1>0, <1>2, <2>1
<1> QED
  BY <1>3, <1>4, <1>5, <1>6 DEF HandlerStep

\* So does a client's step: it moves no thread into or out of /subscribe.
LEMMA ClientCovers ==
    ASSUME Sound, PendingInv, HonestInv, CoverInv, NEW c \in Clients, ClientStep(c),
           NEW t \in Threads, stage'[t] \in Blocked, ForOnlyBridge(t)',
           NEW a, a = For(t)', NEW m \in UnreadIn(disk', a)
    PROVE  Covered(a, m)'
<1>0. CallsInv /\ StoreInv /\ [Next]_vars /\ t \in Handlers /\ Loop \in Handlers
  BY DEF Sound, Next, Handlers
<1>1. signal' = signal /\ rows' = rows
  BY DEF ClientStep, Call, GiveUp, Register, Enrol, RegisterFails, Accept, Starts, handlers
<1>2. \A l \in Locals : phase'[l] = phase[l] /\ asked'[l] = asked[l]
  <2>1. c \notin Locals /\ \A l \in Locals : l \in Bridges /\ l # c
    BY NobodyRests
  <2> QED
    BY <1>0, <2>1 DEF ClientStep, Call, GiveUp, Register, Enrol, RegisterFails, Accept, Starts, CallsInv
<1>3. UnreadIn(disk', a) = UnreadIn(disk, a)
  <2>1. CASE Register(c)
    <3>1. /\ view'.log = view.log /\ view'.unread = view.unread
          /\ disk' = IF tx = Nobody THEN view' ELSE disk
      BY <2>1, DatabaseFields DEF Register, Enrol
    <3> QED
      BY <1>0, <3>1, NobodyWithin DEF UnreadIn
  <2>2. CASE disk' = disk
    BY <2>2
  <2> QED
    BY <2>1, <2>2 DEF ClientStep, Call, GiveUp, RegisterFails, Accept, Starts, store
<1>4. \A x \in Handlers : \/ stage'[x] = stage[x] /\ request'[x] = request[x]
                          \/ stage[x] = "free" /\ stage'[x] = "begin"
  BY <1>0 DEF ClientStep, Call, GiveUp, Register, Enrol, RegisterFails, Accept, Starts, handlers, CallsInv
<1>5. stage[t] \in Blocked /\ request'[t] = request[t]
  BY <1>0, <1>4 DEF Blocked
<1>6. ForOnlyBridge(t) /\ a = For(t)
  BY <1>5 DEF ForOnlyBridge, For
<1> QED
  BY <1>0, <1>1, <1>2, <1>3, <1>4, <1>5, <1>6, KeepsCover

\* And so does a request that was given up.
LEMMA LateCovers ==
    ASSUME Sound, PendingInv, HonestInv, CoverInv, NEW r \in queue,
           RegisterLate(r) \/ \E x \in Handlers : ServeLate(r, x),
           NEW t \in Threads, stage'[t] \in Blocked, ForOnlyBridge(t)',
           NEW a, a = For(t)', NEW m \in UnreadIn(disk', a)
    PROVE  Covered(a, m)'
<1>0. CallsInv /\ StoreInv /\ [Next]_vars /\ t \in Handlers /\ Loop \in Handlers
  BY DEF Sound, Next, Handlers
<1>1. /\ UNCHANGED <<signal, rows, phase, asked>>
      /\ disk'.log = disk.log /\ disk'.unread = disk.unread
  BY <1>0, EnrolEffect DEF RegisterLate, ServeLate, store, handlers
<1>2. \A x \in Handlers : \/ stage'[x] = stage[x] /\ request'[x] = request[x]
                          \/ stage[x] = "free" /\ stage'[x] = "begin"
  BY <1>0 DEF RegisterLate, ServeLate, Starts, handlers, CallsInv
<1>3. stage[t] \in Blocked /\ request'[t] = request[t] /\ m \in UnreadIn(disk, a)
  BY <1>0, <1>1, <1>2 DEF Blocked, UnreadIn
<1>4. ForOnlyBridge(t) /\ a = For(t)
  BY <1>3 DEF ForOnlyBridge, For
<1> QED
  BY <1>0, <1>1, <1>2, <1>3, <1>4, KeepsCover

\* And a local bridge's: it signals what it sends, unless it dies, and takes
\* the signal of its own agent alone.
LEMMA LocalCovers ==
    ASSUME Sound, PendingInv, HonestInv, CoverInv, NEW l \in Locals, LocalStep(l),
           NEW t \in Threads, stage'[t] \in Blocked, ForOnlyBridge(t)',
           NEW a, a = For(t)', NEW m \in UnreadIn(disk', a)
    PROVE  Covered(a, m)'
<1>0. CallsInv /\ StoreInv /\ [Next]_vars /\ t \in Handlers /\ l \in Bridges
  BY NobodyRests DEF Sound, Next, Handlers
<1>1. UNCHANGED <<stage, request, rows>>
  BY DEF LocalStep, LocalSend, LocalNotify, LocalRead, LocalProbe, LocalClear, LocalEnds, handlers
<1>2. /\ stage[t] \in Blocked /\ ForOnlyBridge(t) /\ a = For(t)
      /\ Owner[l] # a
  BY <1>1, NobodyElse DEF ForOnlyBridge, For
<1>3. ASSUME m \in UnreadIn(disk, a), a \in signal => a \in signal',
             \A k \in Locals \ {l} : phase'[k] = phase[k] /\ asked'[k] = asked[k],
             phase[l] = "notify" /\ asked[l].target = a => a \in signal' \/ l \in Flaky
      PROVE  Covered(a, m)'
  BY <1>0, <1>1, <1>2, <1>3, KeepsCover
<1>4. \A k \in Locals \ {l} : phase'[k] = phase[k] /\ asked'[k] = asked[k]
  BY <1>0, NobodyRests DEF LocalStep, LocalSend, LocalNotify, LocalRead, LocalProbe, LocalClear, LocalEnds,
     Holds, CallsInv
<1>5. CASE LocalSend(l)
  <2>1. PICK to \in disk.agents :
            /\ disk' = Database(disk.agents \cup {Owner[l]},
                                Append(disk.log, [sender |-> Owner[l], recipient |-> to]),
                                disk.unread \cup {Len(disk.log) + 1})
            /\ asked' = [asked EXCEPT ![l] = SendRequest(l, to)]
    BY <1>5 DEF LocalSend, Writes
  <2>2. /\ phase[l] = "idle" /\ signal' = signal /\ phase'[l] = "notify"
        /\ asked'[l].target = to
    BY <1>0, <1>5, <2>1 DEF LocalSend, Holds, SendRequest, CallsInv
  <2>3. to \in Agents /\ Owner[l] \in Agents
    BY <1>0, LogTypes, FacadeAssumption
  <2>4. PICK longer : longer = Append(disk.log, [sender |-> Owner[l], recipient |-> to])
    OBVIOUS
  <2>5. disk'.log = longer /\ disk'.unread = disk.unread \cup {Len(disk.log) + 1}
    <3>1. PICK people, more : /\ people = disk.agents \cup {Owner[l]}
                              /\ more = disk.unread \cup {Len(disk.log) + 1}
      OBVIOUS
    <3>2. disk' = Database(people, longer, more)
      BY <2>1, <2>4, <3>1
    <3> QED
      BY <3>1, <3>2, DatabaseFields
  <2>6. longer[Len(disk.log) + 1] = [sender |-> Owner[l], recipient |-> to]
    BY <1>0, <2>3, <2>4, LogTypes, RowAppended
  <2>7. CASE m = Len(disk.log) + 1
    <3>1. disk'.log[m].sender = Owner[l] /\ disk'.log[m].recipient = to
      BY <2>5, <2>6, <2>7
    <3>2. to = a
      BY <3>1 DEF UnreadIn
    <3> QED
      BY <2>2, <3>1, <3>2 DEF Covered
  <2>8. CASE m # Len(disk.log) + 1
    <3>1. m \in disk.unread /\ m \in 1..Len(disk.log)
      BY <1>0, <2>5, <2>8, LogTypes DEF UnreadIn
    <3>2. m \in UnreadIn(disk, a)
      BY <1>0, <3>1, RowsStay DEF UnreadIn
    <3> QED
      BY <1>3, <1>4, <2>2, <3>2
  <2> QED
    BY <2>7, <2>8
<1>6. CASE LocalRead(l)
  <2>1. disk'.log = disk.log /\ disk'.unread \subseteq disk.unread
    BY <1>6, DatabaseFields DEF LocalRead, Writes
  <2>2. m \in UnreadIn(disk, a)
    BY <2>1 DEF UnreadIn
  <2>3. phase[l] # "notify" /\ signal' = signal
    BY <1>6 DEF LocalRead
  <2> QED
    BY <1>3, <1>4, <2>2, <2>3
<1>7. CASE LocalNotify(l) \/ LocalProbe(l) \/ LocalClear(l) \/ LocalEnds(l)
  <2>1. disk' = disk
    BY <1>7 DEF LocalNotify, LocalProbe, LocalClear, LocalEnds, store
  <2>2. a \in signal => a \in signal'
    BY <1>2, <1>7 DEF LocalNotify, LocalProbe, LocalClear, LocalEnds
  <2>3. phase[l] = "notify" /\ asked[l].target = a => a \in signal' \/ l \in Flaky
    BY <1>7 DEF LocalNotify, LocalProbe, LocalClear, LocalEnds
  <2> QED
    BY <1>3, <1>4, <2>1, <2>2, <2>3
<1> QED
  BY <1>5, <1>6, <1>7 DEF LocalStep

\* Every step leaves every blocked thread covered.
LEMMA CoverStep ==
    ASSUME Sound, PendingInv, HonestInv, CoverInv, [Next]_vars
    PROVE  CoverInv'
<1> SUFFICES ASSUME NEW t \in Threads, stage'[t] \in Blocked, ForOnlyBridge(t)',
                    NEW a, a = For(t)', NEW m \in UnreadIn(disk', a)
             PROVE  Covered(a, m)'
  BY DEF CoverInv
<1>1. CASE UNCHANGED vars
  BY <1>1 DEF vars, CoverInv, Covered, ForOnlyBridge, UnreadIn, For
<1>2. CASE Die
  BY <1>2 DEF Die, Handlers, Blocked
<1> QED
  BY <1>1, <1>2, HandlerCovers, ClientCovers, LateCovers, LocalCovers DEF Next

\* A thread blocked in /subscribe for the only bridge of its agent is woken by
\* every message: while one is unread, the signal is there or somebody is about
\* to write it, whatever the other clients give up and however often the facade
\* restarts (signals.py, the order of read and clear in facade.py).
THEOREM SubscriberIsWoken == Spec => []BlockedIsWoken
<1>1. Init => HonestInv /\ CoverInv
  BY NoneSends DEF Init, HonestInv, Honest, CoverInv, Blocked, Handlers
<1>2. CoverInv => BlockedIsWoken
  BY DEF CoverInv, BlockedIsWoken, Blocked, ForOnlyBridge, Covered
<1> QED
  BY <1>1, <1>2, HonestStep, CoverStep, SoundFacade, PendingFacade, PTL DEF Spec
=============================================================================
