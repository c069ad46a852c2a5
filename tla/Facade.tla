------------------------------- MODULE Facade -------------------------------
(***************************************************************************)
(* The remote bus: the HTTP facade (facade.py), the bridges that reach it  *)
(* through HttpBusStore (bus_store.py), and the statements store.py runs   *)
(* for them.                                                               *)
(*                                                                         *)
(* The facade opens one SQLite connection with check_same_thread=False.    *)
(* Its event loop runs every handler but /subscribe to completion, one     *)
(* after the other; /subscribe runs in a worker thread.  All of them share *)
(* the connection, hence its transaction: statements of the loop and of    *)
(* the threads interleave, and sqlite3 refuses a BEGIN inside an open      *)
(* transaction.  An action is one such statement, one operation on a       *)
(* signal file, or one step of the HTTP exchange.                          *)
(*                                                                         *)
(* A client gives a request up when it times out, loses the connection or  *)
(* dies; the facade is not told and finishes the work.  The bridges of the *)
(* facade's machine (module Bus) use the same database file and the same   *)
(* signal files from processes of their own.                               *)
(***************************************************************************)
EXTENDS Naturals, Sequences, FiniteSets

CONSTANTS
    Agents,      \* agent ids
    Clients,     \* the bridges that use the facade
    Locals,      \* the bridges on the facade's machine
    Owner,       \* the agent each client and each local bridge speaks for
    Loop,        \* the event loop
    Threads,     \* the worker threads of anyio's pool
    Nobody,      \* no client, no transaction
    Flaky,       \* those that may give a request up, or die before they signal
    Late,        \* the kinds of request it may get to after they were given up
    Restarts,    \* whether the facade may be killed and started again
    Limits,      \* the batch sizes clients ask for
    MaxMessages, \* bound: messages sent in a behaviour
    MaxQueued    \* bound: requests given up that the facade has still to serve

Bridges == Clients \cup Locals

ASSUME FacadeAssumption ==
    /\ Clients \cap Locals = {}
    /\ Owner \in [Bridges -> Agents]
    /\ Loop \notin Threads
    /\ Nobody \notin Bridges \cup Threads \cup {Loop}
    /\ Flaky \subseteq Bridges
    /\ Late \subseteq {"register", "send", "inbox", "subscribe"}
    /\ Restarts \in BOOLEAN
    /\ Limits \subseteq Nat \ {0}
    /\ {MaxMessages, MaxQueued} \subseteq Nat

VARIABLES
    disk,      \* what is committed: agents, every row inserted, the unread rows
    view,      \* what the connection sees: the same and its open transaction
    tx,        \* the handler whose BEGIN opened that transaction
    signal,    \* the agents whose signal file exists
    stage,     \* where each handler is
    request,   \* the request it handles
    live,      \* whether the client still waits for the answer
    rows,      \* the messages the handler has read or inserted
    phase,     \* where each bridge is in its tool call
    asked,     \* the request it is about to make or waits for
    queue,     \* the requests given up before the facade got to them
    sent,      \* history: the messages a client was told are sent
    ended      \* history: the messages of a bridge's reads, answered or lost

vars == <<disk, view, tx, signal, stage, request, live, rows,
          phase, asked, queue, sent, ended>>
store == <<disk, view, tx>>
handlers == <<stage, request, live, rows>>
clients == <<phase, asked, queue, sent, ended>>

Handlers == Threads \cup {Loop}
Polling == {"subscribe", "reread"}
Reading == Polling \cup {"inbox"}
Stages == {"free", "begin", "insert", "select", "commit", "notify",
           "clear", "wait", "poll", "consume", "reply"}

NoRequest == [client |-> Nobody, kind |-> "none", target |-> "", limit |-> 0]
RegisterRequest(c) == [client |-> c, kind |-> "register", target |-> "", limit |-> 0]
SendRequest(c, target) == [client |-> c, kind |-> "send", target |-> target, limit |-> 0]
ReadRequest(c, kind, n) == [client |-> c, kind |-> kind, target |-> "", limit |-> n]

Database(agents, log, unread) == [agents |-> agents, log |-> log, unread |-> unread]

UnreadIn(db, a) == {m \in db.unread : db.log[m].recipient = a}
Oldest(ms, n) == {m \in ms : Cardinality({k \in ms : k <= m}) <= n}

\* The agent a handler works for.
For(x) == Owner[request[x].client]

Init ==
    /\ disk = Database({}, <<>>, {})
    /\ view = disk
    /\ tx = Nobody
    /\ signal = {}
    /\ stage = [x \in Handlers |-> "free"]
    /\ request = [x \in Handlers |-> NoRequest]
    /\ live = [x \in Handlers |-> FALSE]
    /\ rows = [x \in Handlers |-> {}]
    /\ phase = [c \in Bridges |-> "idle"]
    /\ asked = [c \in Bridges |-> NoRequest]
    /\ queue = {}
    /\ sent = [c \in Clients |-> {}]
    /\ ended = [c \in Bridges |-> {}]

-----------------------------------------------------------------------------
(* The client: a tool call registers its agent, then makes its request.    *)

\* The messages inserted and the sends that may still insert one.
Sends ==
    Len(view.log)
    + Cardinality({c \in Clients : asked[c].kind = "send"})
    + Cardinality({q \in queue : q.kind = "send"})
    + Cardinality({x \in Handlers : request[x].kind = "send" /\ ~live[x]})

\* A store that refuses a send to oneself does so before any statement: such
\* sends are left out.
Requests(c) ==
    {SendRequest(c, a) : a \in Agents \ {Owner[c]}}
        \cup {ReadRequest(c, kind, n) : kind \in {"inbox", "subscribe"}, n \in Limits}

Call(c) ==
    /\ phase[c] = "idle"
    /\ \E r \in Requests(c) :
        /\ r.kind = "send" => Sends < MaxMessages
        /\ asked' = [asked EXCEPT ![c] = r]
    /\ phase' = [phase EXCEPT ![c] = "register"]
    /\ UNCHANGED <<store, signal, handlers, queue, sent, ended>>

\* The request times out, the connection breaks, or the client dies.  A
\* /register that fails is logged and the call goes on.  A request that has not
\* been begun may be lost, or wait in a socket or for a worker thread.
GiveUp(c) ==
    /\ c \in Clients \cap Flaky
    /\ phase[c] # "idle"
    /\ \/ UNCHANGED queue
       \/ LET r == IF phase[c] = "register" THEN RegisterRequest(c) ELSE asked[c]
          IN  /\ phase[c] \in {"register", "call"} /\ r.kind \in Late
              /\ Cardinality(queue) < MaxQueued
              /\ queue' = queue \cup {r}
    /\ IF phase[c] = "register"
         THEN /\ phase' = [phase EXCEPT ![c] = "call"]
              /\ UNCHANGED <<live, asked>>
         ELSE /\ phase' = [phase EXCEPT ![c] = "idle"]
              /\ asked' = [asked EXCEPT ![c] = NoRequest]
              /\ live' = [x \in Handlers |-> live[x] /\ request[x].client # c]
    /\ UNCHANGED <<store, signal, stage, request, rows, sent, ended>>

-----------------------------------------------------------------------------
(* The facade: its loop accepts requests, handlers answer them.            *)

\* /register is one statement, run by the loop between two requests.  While a
\* thread has a transaction open it becomes part of that transaction.
Enrol(agent) ==
    /\ stage[Loop] = "free"
    /\ view' = Database(view.agents \cup {agent}, view.log, view.unread)
    /\ disk' = IF tx = Nobody THEN view' ELSE disk
    /\ UNCHANGED tx

Register(c) ==
    /\ phase[c] = "register"
    /\ Enrol(Owner[c])
    /\ phase' = [phase EXCEPT ![c] = "call"]
    /\ UNCHANGED <<signal, handlers, asked, queue, sent, ended>>

\* A local bridge holds the write lock for longer than the busy timeout: the
\* statement raises, and the client makes its call all the same.
RegisterFails(c) ==
    /\ Locals # {}
    /\ phase[c] = "register" /\ stage[Loop] = "free" /\ tx = Nobody
    /\ phase' = [phase EXCEPT ![c] = "call"]
    /\ UNCHANGED <<store, signal, handlers, asked, queue, sent, ended>>

\* The loop runs /send and /inbox itself and gives /subscribe to a thread.
Starts(r, x, waits) ==
    /\ stage[Loop] = "free" /\ stage[x] = "free"
    /\ x \in Threads <=> r.kind = "subscribe"
    /\ stage' = [stage EXCEPT ![x] = "begin"]
    /\ request' = [request EXCEPT ![x] = r]
    /\ live' = [live EXCEPT ![x] = waits]

Accept(c, x) ==
    /\ phase[c] = "call"
    /\ Starts(asked[c], x, TRUE)
    /\ phase' = [phase EXCEPT ![c] = "await"]
    /\ UNCHANGED <<store, signal, rows, asked, queue, sent, ended>>

\* The facade gets to a request that was given up, and serves it for nobody.
ServeLate(r, x) ==
    /\ r \in queue /\ r.kind # "register"
    /\ Starts(r, x, FALSE)
    /\ queue' = queue \ {r}
    /\ UNCHANGED <<store, signal, rows, phase, asked, sent, ended>>

RegisterLate(r) ==
    /\ r \in queue /\ r.kind = "register"
    /\ Enrol(Owner[r.client])
    /\ queue' = queue \ {r}
    /\ UNCHANGED <<signal, handlers, phase, asked, sent, ended>>

Goto(x, where) == stage' = [stage EXCEPT ![x] = where]

\* Mutant: the handler is freed with the rows of its last request.
KeepsRows(x, what) ==
    LET c == request[x].client
    IN  /\ Goto(x, "free")
        /\ request' = [request EXCEPT ![x] = NoRequest]
        /\ live' = [live EXCEPT ![x] = FALSE]
        /\ ended' = [ended EXCEPT ![c] = IF what = "read" THEN @ \cup rows[x] ELSE @]
        /\ phase' = [phase EXCEPT ![c] = "idle"]
        /\ asked' = [asked EXCEPT ![c] = NoRequest]
        /\ UNCHANGED <<rows, queue, sent>>

\* The handler answers and is free; the answer reaches a client that waits.
\* An error and an expired long poll answer nothing.
Answer(x, what) ==
    LET c == request[x].client
    IN  /\ Goto(x, "free")
        /\ request' = [request EXCEPT ![x] = NoRequest]
        /\ rows' = [rows EXCEPT ![x] = {}]
        /\ live' = [live EXCEPT ![x] = FALSE]
        /\ ended' = [ended EXCEPT ![c] = IF what = "read" THEN @ \cup rows[x] ELSE @]
        /\ IF live[x]
             THEN /\ phase' = [phase EXCEPT ![c] = "idle"]
                  /\ asked' = [asked EXCEPT ![c] = NoRequest]
                  /\ sent' = [sent EXCEPT ![c] = IF what = "sent" THEN @ \cup rows[x] ELSE @]
             ELSE UNCHANGED <<phase, asked, sent>>
        /\ UNCHANGED queue

\* Mutant: a handler goes on in the transaction it finds open.
JoinsOpen(x) ==
    /\ stage[x] = "begin"
    /\ tx' = x
    /\ Goto(x, IF request[x].kind = "send" THEN "insert" ELSE "select")
    /\ UNCHANGED <<disk, view, signal, request, live, rows, clients>>

\* The statements of a transaction.  BEGIN IMMEDIATE inside an open one raises
\* OperationalError, which no handler catches: HTTP 500.  So does one that waits
\* too long for the lock of a local bridge.
Begin(x) ==
    /\ stage[x] = "begin"
    /\ tx = Nobody
    /\ tx' = x
    /\ Goto(x, IF request[x].kind = "send" THEN "insert" ELSE "select")
    /\ UNCHANGED <<disk, view, signal, request, live, rows, clients>>

BeginFails(x) ==
    /\ stage[x] = "begin"
    /\ tx # Nobody \/ Locals # {}
    /\ Answer(x, "nothing")
    /\ UNCHANGED <<store, signal>>

Commit(x) ==
    /\ stage[x] = "commit"
    /\ disk' = view
    /\ tx' = Nobody
    /\ Goto(x, CASE request[x].kind = "send" -> "notify"
                 [] request[x].kind = "subscribe" /\ rows[x] # {} -> "clear"
                 [] request[x].kind = "subscribe" /\ rows[x] = {} -> "wait"
                 [] OTHER -> "reply")
    /\ UNCHANGED <<view, signal, request, live, rows, clients>>

\* A handler that has its rows, or has signalled its message, answers.
Reply(x) ==
    /\ stage[x] = "reply"
    /\ Answer(x, IF request[x].kind = "send" THEN "sent" ELSE "read")
    /\ UNCHANGED <<store, signal>>

\* The messages a handler has read and committed as read.
Held(x) ==
    IF request[x].kind \in Reading /\ stage[x] \in {"clear", "reply"} THEN rows[x] ELSE {}

\* The messages marked read for c, whether or not the answer reaches it.
Taken(c) ==
    ended[c] \cup UNION {Held(x) : x \in {y \in Handlers : request[y].client = c}}

\* The facade is killed and started again: sqlite3 rolls the open transaction
\* back, waiting clients lose their connection.
Die ==
    /\ Restarts
    /\ \E x \in Handlers : stage[x] # "free"
    /\ view' = disk /\ tx' = Nobody
    /\ stage' = [x \in Handlers |-> "free"]
    /\ request' = [x \in Handlers |-> NoRequest]
    /\ live' = [x \in Handlers |-> FALSE]
    /\ rows' = [x \in Handlers |-> {}]
    /\ phase' = [c \in Bridges |-> IF phase[c] = "await" THEN "idle" ELSE phase[c]]
    /\ asked' = [c \in Bridges |-> IF phase[c] = "await" THEN NoRequest ELSE asked[c]]
    /\ ended' = [c \in Bridges |-> Taken(c)]
    /\ queue' = {}
    /\ UNCHANGED <<disk, signal, sent>>

-----------------------------------------------------------------------------
(* /send: check and insert, commit, wake and signal.                       *)

\* Mutant: the COMMIT is forgotten.
InsertsOnly(x) ==
    /\ stage[x] = "insert"
    /\ {request[x].target, For(x)} \subseteq view.agents
    /\ view' = Database(view.agents,
                        Append(view.log, [sender |-> For(x), recipient |-> request[x].target]),
                        view.unread \cup {Len(view.log) + 1})
    /\ rows' = [rows EXCEPT ![x] = {Len(view.log) + 1}]
    /\ Goto(x, "notify")
    /\ UNCHANGED <<disk, tx, signal, request, live, clients>>

Insert(x) ==
    /\ stage[x] = "insert"
    /\ {request[x].target, For(x)} \subseteq view.agents
    /\ view' = Database(view.agents,
                        Append(view.log, [sender |-> For(x), recipient |-> request[x].target]),
                        view.unread \cup {Len(view.log) + 1})
    /\ rows' = [rows EXCEPT ![x] = {Len(view.log) + 1}]
    /\ Goto(x, "commit")
    /\ UNCHANGED <<disk, tx, signal, request, live, clients>>

\* TARGET_UNKNOWN, or the foreign key on an unregistered sender: roll back.
Rollback(x) ==
    /\ stage[x] = "insert"
    /\ ~ ({request[x].target, For(x)} \subseteq view.agents)
    /\ view' = disk
    /\ tx' = Nobody
    /\ Answer(x, "nothing")
    /\ UNCHANGED <<disk, signal>>

\* Mutant: the wrong agent's file is touched.
SignalsSender(x) ==
    /\ stage[x] = "notify"
    /\ signal' = signal \cup {For(x)}
    /\ Goto(x, "reply")
    /\ UNCHANGED <<store, request, live, rows, clients>>

\* The webhook goes out first; then the signal file is touched.
Notify(x) ==
    /\ stage[x] = "notify"
    /\ signal' = signal \cup {request[x].target}
    /\ Goto(x, "reply")
    /\ UNCHANGED <<store, request, live, rows, clients>>

-----------------------------------------------------------------------------
(* /inbox and /subscribe.                                                  *)

\* The rows a read selects.
Selected(x) == Oldest(UnreadIn(view, For(x)), request[x].limit)

\* Mutant: the UPDATE is committed on its own.
MarksAtOnce(x) ==
    /\ stage[x] = "select"
    /\ rows' = [rows EXCEPT ![x] = Selected(x)]
    /\ view' = Database(view.agents, view.log, view.unread \ Selected(x))
    /\ disk' = view'
    /\ Goto(x, "commit")
    /\ UNCHANGED <<tx, signal, request, live, clients>>

\* SELECT, UPDATE and SELECT again.
Select(x) ==
    /\ stage[x] = "select"
    /\ rows' = [rows EXCEPT ![x] = Selected(x)]
    /\ view' = Database(view.agents, view.log, view.unread \ Selected(x))
    /\ Goto(x, "commit")
    /\ UNCHANGED <<disk, tx, signal, request, live, clients>>

\* The first read of /subscribe removes the signal file; /inbox never does.
Clear(x) ==
    /\ stage[x] = "clear"
    /\ signal' = signal \ {For(x)}
    /\ Goto(x, "reply")
    /\ UNCHANGED <<store, request, live, rows, clients>>

Probe(x) ==
    /\ stage[x] = "wait"
    /\ Goto(x, IF For(x) \in signal THEN "consume" ELSE "poll")
    /\ UNCHANGED <<store, signal, request, live, rows, clients>>

Poll(x) ==
    /\ stage[x] = "poll"
    /\ For(x) \in signal
    /\ Goto(x, "consume")
    /\ UNCHANGED <<store, signal, request, live, rows, clients>>

Consume(x) ==
    /\ stage[x] = "consume"
    /\ signal' = signal \ {For(x)}
    /\ request' = [request EXCEPT ![x] = ReadRequest(@.client, "reread", @.limit)]
    /\ Goto(x, "begin")
    /\ UNCHANGED <<store, live, rows, clients>>

\* Mutant: the deadline is never looked at.
PollsForever(x) == FALSE /\ stage[x] = "poll" /\ UNCHANGED vars

Timeout(x) ==
    /\ stage[x] = "poll"
    /\ Answer(x, "nothing")
    /\ UNCHANGED <<store, signal>>

-----------------------------------------------------------------------------
(* The local bridges.  Their transactions exclude those of the facade's    *)
(* connection, so each is one step.                                        *)

Holds(l, where) == phase' = [phase EXCEPT ![l] = where]

\* A transaction of a local bridge: what it commits, the facade sees.
Writes(db) == tx = Nobody /\ disk' = db /\ view' = db /\ UNCHANGED tx

\* agent_send up to its commit,
LocalSend(l) ==
    /\ phase[l] = "idle" /\ Sends < MaxMessages
    /\ \E a \in disk.agents \ {Owner[l]} :
        /\ Writes(Database(disk.agents \cup {Owner[l]},
                           Append(disk.log, [sender |-> Owner[l], recipient |-> a]),
                           disk.unread \cup {Len(disk.log) + 1}))
        /\ asked' = [asked EXCEPT ![l] = SendRequest(l, a)]
    /\ Holds(l, "notify")
    /\ UNCHANGED <<signal, handlers, queue, sent, ended>>

\* and its signal.
LocalNotify(l) ==
    /\ phase[l] = "notify"
    /\ signal' = signal \cup {asked[l].target}
    /\ asked' = [asked EXCEPT ![l] = NoRequest]
    /\ Holds(l, "idle")
    /\ UNCHANGED <<store, handlers, queue, sent, ended>>

\* A consuming read.  One that finds messages clears the signal, unless it is
\* the read that follows a signal; one that does not may be the first of an
\* agent_subscribe, which then waits.
LocalRead(l) ==
    /\ phase[l] \in {"idle", "reread"}
    /\ \E n \in Limits :
        LET ms == Oldest(UnreadIn(disk, Owner[l]), n)
        IN  /\ Writes(Database(disk.agents \cup {Owner[l]}, disk.log, disk.unread \ ms))
            /\ ended' = [ended EXCEPT ![l] = @ \cup ms]
            /\ \/ phase[l] = "idle" /\ Holds(l, IF ms = {} THEN "wait" ELSE "clear")
               \/ (ms = {} \/ phase[l] = "reread") /\ Holds(l, "idle")
    /\ UNCHANGED <<signal, handlers, asked, queue, sent>>

\* A wait finds the signal file.
LocalProbe(l) ==
    /\ phase[l] = "wait" /\ Owner[l] \in signal
    /\ Holds(l, "consume")
    /\ UNCHANGED <<store, signal, handlers, asked, queue, sent, ended>>

\* The signal file goes after a read, or after a wait that found it.
LocalClear(l) ==
    /\ \/ phase[l] = "clear" /\ Holds(l, "idle")
       \/ phase[l] = "consume" /\ Holds(l, "reread")
    /\ signal' = signal \ {Owner[l]}
    /\ UNCHANGED <<store, handlers, asked, queue, sent, ended>>

\* A wait that times out, a read that does not get the lock, a death.
LocalEnds(l) ==
    /\ phase[l] # "idle"
    /\ phase[l] = "notify" => l \in Flaky
    /\ Holds(l, "idle")
    /\ asked' = [asked EXCEPT ![l] = NoRequest]
    /\ UNCHANGED <<store, signal, handlers, queue, sent, ended>>

LocalStep(l) ==
    \/ LocalSend(l) \/ LocalNotify(l) \/ LocalRead(l) \/ LocalProbe(l) \/ LocalClear(l)
    \/ LocalEnds(l)

-----------------------------------------------------------------------------
ClientStep(c) ==
    \/ Call(c) \/ GiveUp(c) \/ Register(c) \/ RegisterFails(c)
    \/ \E x \in Handlers : Accept(c, x)

HandlerStep(x) ==
    \/ Begin(x) \/ BeginFails(x) \/ Insert(x) \/ Rollback(x) \/ Select(x) \/ Commit(x)
    \/ Notify(x) \/ Clear(x) \/ Probe(x) \/ Poll(x) \/ Consume(x) \/ Timeout(x)
    \/ Reply(x)

Next ==
    \/ \E c \in Clients : ClientStep(c)
    \/ \E r \in queue : RegisterLate(r) \/ \E x \in Handlers : ServeLate(r, x)
    \/ \E x \in Handlers : HandlerStep(x)
    \/ \E l \in Locals : LocalStep(l)
    \/ Die

Spec == Init /\ [][Next]_vars

\* uvicorn's loop and the worker threads keep running, and the loop accepts a
\* waiting request sooner or later, however often it is busy with another.
FairSpec ==
    /\ Spec
    /\ \A x \in Handlers : WF_vars(HandlerStep(x))
    /\ \A c \in Clients : SF_vars(Register(c) \/ RegisterFails(c) \/ \E x \in Handlers : Accept(c, x))

-----------------------------------------------------------------------------
(* Properties.                                                             *)

Row == [sender : Agents, recipient : Agents]
Request == [client : Bridges, kind : {"send", "register"} \cup Reading,
            target : Agents \cup {""}, limit : Nat]

IsDatabase(db) ==
    /\ db = Database(db.agents, db.log, db.unread)
    /\ db.agents \subseteq Agents
    /\ db.log \in Seq(Row)
    /\ db.unread \subseteq 1..Len(db.log)

\* The shape of the state; which handlers are at work for whom.
TypeOK ==
    /\ IsDatabase(disk) /\ IsDatabase(view)
    /\ tx \in Handlers \cup {Nobody}
    /\ signal \subseteq Agents
    /\ stage \in [Handlers -> Stages]
    /\ live \in [Handlers -> BOOLEAN]
    /\ phase \in [Bridges -> {"idle", "register", "call", "await",
                            "notify", "clear", "wait", "consume", "reread"}]
    /\ asked \in [Bridges -> Request \cup {NoRequest}]
    /\ queue \subseteq Request
    /\ \A c \in Clients : phase[c] = "idle" <=> asked[c] = NoRequest
    /\ rows \in [Handlers -> SUBSET (1..Len(view.log))]
    /\ sent \in [Clients -> SUBSET (1..Len(disk.log))]
    /\ ended \in [Bridges -> SUBSET (1..Len(disk.log))]
    /\ \A x \in Handlers :
        IF stage[x] = "free"
          THEN request[x] = NoRequest /\ rows[x] = {} /\ ~live[x]
          ELSE /\ request[x] \in Request
               /\ live[x] => phase[request[x].client] = "await"

\* The shared connection: a handler between BEGIN and COMMIT owns the open
\* transaction, so no COMMIT or ROLLBACK ends the work of another handler, and
\* nothing stays uncommitted once nobody owns it.
OneTransaction ==
    /\ \A x \in Handlers : tx = x <=> stage[x] \in {"insert", "select", "commit"}
    /\ tx = Nobody => view = disk

\* store.py send_message commits before it returns: a message its sender was
\* told is sent is on disk, though the facade dies right after.
SentIsStored ==
    \A c \in Clients : \A m \in sent[c] :
        m \in 1..Len(disk.log) /\ disk.log[m].sender = Owner[c]

Promise == INSTANCE Inbox WITH
    Sessions <- Bridges,
    MayPurge <- FALSE,
    posted   <- [m \in 1..Len(disk.log) |-> disk.log[m].recipient],
    unread   <- disk.unread,
    taken    <- [c \in Bridges |-> Taken(c)]

\* The statements of the handlers, the shared connection, abandoned requests,
\* restarts and the local bridges on the same file implement the abstract
\* inbox: each read takes the oldest messages of its agent, once, in one step.
AsInbox == Promise!Spec

\* A thread blocked in /subscribe is woken by every message for its agent: while
\* one is unread, the signal file is there or its sender, a handler or a local
\* bridge, is about to write it, restarts of the facade included.  It holds for
\* the only bridge of an agent, if it does not give requests up, whatever the
\* others do; a local bridge that dies before its signal is excused.
BlockedIsWoken ==
    \A t \in Threads : stage[t] \in {"wait", "poll", "consume"}
                         /\ For(t) \notin {Owner[c] : c \in (Bridges \ {request[t].client}) \cup Flaky} =>
        \A m \in UnreadIn(disk, For(t)) :
            \/ For(t) \in signal
            \/ stage[Loop] = "notify" /\ rows[Loop] = {m}
            \/ \E l \in Locals : phase[l] = "notify" /\ asked[l].target = For(t)
            \/ disk.log[m].sender \in {Owner[l] : l \in Locals \cap Flaky}

\* Every call a client makes comes to an end: the transaction is released, the
\* loop and the threads become free again, a long poll ends.
EveryCallEnds == \A c \in Clients : phase[c] # "idle" ~> phase[c] = "idle"

-----------------------------------------------------------------------------
(* What the repository says and the code does not do.                      *)

\* HttpBusStore.subscribe: a long poll that failed is like one that timed out,
\* it took no message.
FailedPollTakesNothing ==
    \A x \in Handlers :
        request[x].kind \in Polling /\ ~live[x] => Held(x) = {}
=============================================================================
