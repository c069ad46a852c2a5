-------------------------------- MODULE Bus --------------------------------
(***************************************************************************)
(* The local bus: the stdio bridge processes of one machine around one     *)
(* SQLite file and one directory of signal files (store.py, signals.py,    *)
(* tools.py, server.py).                                                   *)
(*                                                                         *)
(* A session is one bridge process.  It speaks for one agent, several      *)
(* sessions may speak for the same one, and it serves one tool call at a   *)
(* time.  An action is one step of a tool call that the other processes    *)
(* can observe: a committed SQLite statement or transaction, or one        *)
(* operation on a signal file.  Between two actions every other session    *)
(* may run and the process may die.                                        *)
(*                                                                         *)
(* A message is its index in created_at order: created_at is taken inside  *)
(* the transaction that inserts the row.  Bodies and metadata are left     *)
(* out.                                                                    *)
(***************************************************************************)
EXTENDS Naturals, Sequences, FiniteSets, Intents

CONSTANTS
    Agents,        \* agent ids
    Sessions,      \* bridge processes
    Owner,         \* the agent each session speaks for (A2A_AGENT_ID)
    Mortal,        \* the sessions that may be killed
    LockTimeouts,  \* whether some process may keep the database locked for 5 s
    Raws,          \* the raw intents callers pass
    Limits,        \* the batch sizes callers ask for, after the clamping
    WakeRegistry,  \* the agents that have a wake-up webhook
    PurgeModes,    \* "read": purge --unread-only, "all": purge
    MaxMessages    \* bound: messages sent in a behaviour

ASSUME BusAssumption ==
    /\ Owner \in [Sessions -> Agents]
    /\ Mortal \subseteq Sessions
    /\ LockTimeouts \in BOOLEAN
    /\ Raws \subseteq RawIntents
    /\ Limits \subseteq Nat \ {0}
    /\ PurgeModes \subseteq {"read", "all"}
    /\ MaxMessages \in Nat

VARIABLES
    agents,    \* the ids in table agents
    log,       \* every row ever inserted in table messages
    stored,    \* the messages whose row is still in the table
    unread,    \* the stored messages with read_at NULL
    signal,    \* the agents whose <agent>.notify file exists
    woken,     \* the messages a wake-up webhook was posted for
    pc,        \* where each session is in its tool call
    call,      \* the arguments and locals of that call
    batch,     \* the messages that call has marked read
    returned,  \* history: the messages whose rows a session's calls returned
    lost,      \* history: the messages a session had marked read when it died
    orphans    \* history: the messages whose sender died before the signal

vars == <<agents, log, stored, unread, signal, woken,
          pc, call, batch, returned, lost, orphans>>
table == <<agents, log, stored, unread>>
history == <<returned, lost, orphans>>

Stages == {"down", "idle", "send", "notify", "wake", "inbox", "clear",
           "sub", "wait", "poll", "consume", "reread", "return"}

NoCall == [target |-> "", raw |-> "", limit |-> 0, message |-> 0]
SendCall(target, raw, m) == [target |-> target, raw |-> raw, limit |-> 0, message |-> m]
ReadCall(n) == [target |-> "", raw |-> "", limit |-> n, message |-> 0]

Messages == 1..Len(log)

\* Mutant: the WHERE clause forgets the recipient.
AnyoneUnread(a) == unread
UnreadFor(a) == {m \in unread : log[m].recipient = a}

\* Mutants: ORDER BY created_at DESC; LIMIT n - 1.
Newest(ms, n) == {m \in ms : Cardinality({k \in ms : k >= m}) <= n}
OneFewer(ms, n) == {m \in ms : Cardinality({k \in ms : k <= m}) < n}

\* SELECT ... ORDER BY created_at ASC LIMIT n
Oldest(ms, n) == {m \in ms : Cardinality({k \in ms : k <= m}) <= n}

-----------------------------------------------------------------------------
(* Starting and ending a process, starting and ending a tool call.         *)

Init ==
    /\ agents = {} /\ log = <<>> /\ stored = {} /\ unread = {}
    /\ signal = {} /\ woken = {}
    /\ pc = [s \in Sessions |-> "down"]
    /\ call = [s \in Sessions |-> NoCall]
    /\ batch = [s \in Sessions |-> {}]
    /\ returned = [s \in Sessions |-> {}]
    /\ lost = [s \in Sessions |-> {}]
    /\ orphans = {}

Goto(s, stage) == pc' = [pc EXCEPT ![s] = stage]

\* upsert_agent, the first statement of every tool and of the process.
Upsert(s) == agents' = agents \cup {Owner[s]}

\* The call of s returns the rows in ms to its client.
Return(s, ms) ==
    /\ Goto(s, "idle")
    /\ call' = [call EXCEPT ![s] = NoCall]
    /\ returned' = [returned EXCEPT ![s] = @ \cup ms]
    /\ batch' = [batch EXCEPT ![s] = {}]
    /\ UNCHANGED <<lost, orphans>>

Start(s) ==
    /\ pc[s] = "down"
    /\ Upsert(s)
    /\ Goto(s, "idle")
    /\ UNCHANGED <<log, stored, unread, signal, woken, call, batch, history>>

\* A tool call upserts its caller, then goes on at the given stage.
Begin(s, stage, arguments) ==
    /\ pc[s] = "idle"
    /\ Upsert(s)
    /\ Goto(s, stage)
    /\ call' = [call EXCEPT ![s] = arguments]
    /\ UNCHANGED <<log, stored, unread, signal, woken, batch, history>>

\* agent_inbox_peek, agent_list and agent_inbox(unread_only=False): the
\* upsert is all they write.
Observe(s) ==
    /\ pc[s] = "idle"
    /\ Upsert(s)
    /\ UNCHANGED <<log, stored, unread, signal, woken, pc, call, batch, history>>

\* The process is killed.  SQLite keeps what was committed, the signal files
\* keep their state, the rest of the call never happens.
Crash(s) ==
    /\ s \in Mortal
    /\ pc[s] # "down"
    /\ Goto(s, "down")
    /\ call' = [call EXCEPT ![s] = NoCall]
    /\ batch' = [batch EXCEPT ![s] = {}]
    /\ lost' = [lost EXCEPT ![s] = @ \cup batch[s]]
    /\ orphans' = IF pc[s] = "notify" THEN orphans \cup {call[s].message} ELSE orphans
    /\ UNCHANGED <<table, signal, woken, returned>>

\* BEGIN IMMEDIATE gives up after 5 s on a database another process keeps
\* locked; the tool call fails and nothing was written.
Busy(s) ==
    /\ LockTimeouts
    /\ pc[s] \in {"send", "inbox", "sub", "reread"}
    /\ Return(s, {})
    /\ UNCHANGED <<table, signal, woken>>

-----------------------------------------------------------------------------
(* agent_send: commit the message, touch the signal file, post the wake-up. *)

\* The sends that have been called and may still insert a row.
Sending == {s \in Sessions : pc[s] = "send"}

Send(s) ==
    /\ Len(log) + Cardinality(Sending) < MaxMessages
    /\ \E target \in Agents, raw \in Raws : Begin(s, "send", SendCall(target, raw, 0))

Reject(s) ==
    /\ pc[s] = "send"
    /\ call[s].target = Owner[s] \/ call[s].target \notin agents
    /\ Return(s, {})
    /\ UNCHANGED <<table, signal, woken>>

Commit(s) ==
    /\ pc[s] = "send"
    /\ call[s].target # Owner[s] /\ call[s].target \in agents
    /\ log' = Append(log, [sender    |-> Owner[s],
                           recipient |-> call[s].target,
                           intent    |-> NormalizeIntent(call[s].raw)])
    /\ stored' = stored \cup {Len(log) + 1}
    /\ unread' = unread \cup {Len(log) + 1}
    /\ call' = [call EXCEPT ![s] = SendCall(@.target, @.raw, Len(log) + 1)]
    /\ Goto(s, "notify")
    /\ UNCHANGED <<agents, signal, woken, batch, history>>

Notify(s) ==
    /\ pc[s] = "notify"
    /\ signal' = signal \cup {call[s].target}
    /\ Goto(s, "wake")
    /\ UNCHANGED <<table, woken, call, batch, history>>

Wake(s) ==
    /\ pc[s] = "wake"
    /\ woken' = IF Wakes(NormalizeIntent(call[s].raw)) /\ call[s].target \in WakeRegistry
                  THEN woken \cup {call[s].message} ELSE woken
    /\ Return(s, {})
    /\ UNCHANGED <<table, signal>>

-----------------------------------------------------------------------------
(* read_inbox(unread_only=True): one transaction that selects and marks.   *)

\* Mutant: the rows are returned but the UPDATE is forgotten.
ForgetsToMark(ms) == UNCHANGED table

MarkRead(ms) ==
    /\ unread' = unread \ ms
    /\ UNCHANGED <<agents, log, stored>>

\* What the transaction of s selects.
Selected(s) == Oldest(UnreadFor(Owner[s]), call[s].limit)

\* Mutant: the UPDATE marks every unread row, not only the selected ones.
HoldsTooMuch(s, stage) ==
    /\ MarkRead(UnreadFor(Owner[s]))
    /\ batch' = [batch EXCEPT ![s] = Selected(s)]
    /\ Goto(s, stage)
    /\ UNCHANGED <<signal, woken, call, history>>

\* The read found rows: they are s's now.
Hold(s, stage) ==
    /\ MarkRead(Selected(s))
    /\ batch' = [batch EXCEPT ![s] = Selected(s)]
    /\ Goto(s, stage)
    /\ UNCHANGED <<signal, woken, call, history>>

Inbox(s) == \E n \in Limits : Begin(s, "inbox", ReadCall(n))

InboxEmpty(s) ==
    /\ pc[s] = "inbox"
    /\ UnreadFor(Owner[s]) = {}
    /\ Return(s, {})
    /\ UNCHANGED <<table, signal, woken>>

InboxRead(s) ==
    /\ pc[s] = "inbox"
    /\ UnreadFor(Owner[s]) # {}
    /\ Hold(s, "clear")

\* The consuming read of agent_inbox, or the first one of agent_subscribe,
\* removes the signal file and returns its rows.
Clear(s) ==
    /\ pc[s] = "clear"
    /\ signal' = signal \ {Owner[s]}
    /\ Return(s, batch[s])
    /\ UNCHANGED <<table, woken>>

-----------------------------------------------------------------------------
(* agent_subscribe: read, wait for the signal file, read again.            *)

Subscribe(s) == \E n \in Limits : Begin(s, "sub", ReadCall(n))

SubscribeRead(s) ==
    /\ pc[s] = "sub"
    /\ UnreadFor(Owner[s]) # {}
    /\ Hold(s, "clear")

\* Mutant: the wait begins without the read before it.
WaitsFirst(s) ==
    /\ pc[s] = "sub"
    /\ Goto(s, "wait")
    /\ UNCHANGED <<table, signal, woken, call, batch, history>>

SubscribeWait(s) ==
    /\ pc[s] = "sub"
    /\ UnreadFor(Owner[s]) = {}
    /\ Goto(s, "wait")
    /\ UNCHANGED <<table, signal, woken, call, batch, history>>

\* SignalDir.wait looks for the file once before it starts its clock ...
Probe(s) ==
    /\ pc[s] = "wait"
    /\ Goto(s, IF Owner[s] \in signal THEN "consume" ELSE "poll")
    /\ UNCHANGED <<table, signal, woken, call, batch, history>>

\* ... then on every turn of the polling loop ...
Poll(s) ==
    /\ pc[s] = "poll"
    /\ Owner[s] \in signal
    /\ Goto(s, "consume")
    /\ UNCHANGED <<table, signal, woken, call, batch, history>>

\* ... and removes it; that a sibling removed it first is suppressed.
Consume(s) ==
    /\ pc[s] = "consume"
    /\ signal' = signal \ {Owner[s]}
    /\ Goto(s, "reread")
    /\ UNCHANGED <<table, woken, call, batch, history>>

\* The deadline passes between two looks; the table is not read again.
Timeout(s) ==
    /\ pc[s] = "poll"
    /\ Return(s, {})
    /\ UNCHANGED <<table, signal, woken>>

\* The read after the signal returns what it finds and clears nothing.
Reread(s) ==
    /\ pc[s] = "reread"
    /\ MarkRead(Selected(s))
    /\ batch' = [batch EXCEPT ![s] = Selected(s)]
    /\ Goto(s, "return")
    /\ UNCHANGED <<signal, woken, call, history>>

Deliver(s) ==
    /\ pc[s] = "return"
    /\ Return(s, batch[s])
    /\ UNCHANGED <<table, signal, woken>>

-----------------------------------------------------------------------------
(* The operator's messages purge, in a process of its own.                 *)

\* One DELETE of the rows created before the cutoff, the read ones only with
\* --unread-only.
Purge(mode, last) ==
    LET gone == {m \in stored : m <= last /\ (mode = "read" => m \notin unread)}
    IN  /\ gone # {}
        /\ stored' = stored \ gone
        /\ unread' = unread \ gone
        /\ UNCHANGED <<agents, log, signal, woken, pc, call, batch, history>>

-----------------------------------------------------------------------------
SendStep(s) == Send(s) \/ Reject(s) \/ Commit(s) \/ Notify(s) \/ Wake(s)
InboxStep(s) == Inbox(s) \/ InboxEmpty(s) \/ InboxRead(s) \/ Clear(s)
SubscribeStep(s) ==
    \/ Subscribe(s) \/ SubscribeRead(s) \/ SubscribeWait(s)
    \/ Probe(s) \/ Poll(s) \/ Consume(s) \/ Timeout(s) \/ Reread(s) \/ Deliver(s)

Step(s) ==
    \/ Start(s) \/ Observe(s) \/ Crash(s) \/ Busy(s)
    \/ SendStep(s) \/ InboxStep(s) \/ SubscribeStep(s)

Next ==
    \/ \E s \in Sessions : Step(s)
    \/ \E mode \in PurgeModes, last \in Messages : Purge(mode, last)

Spec == Init /\ [][Next]_vars

\* What goes on inside a call, as opposed to what clients and operators do.
Running(s) ==
    \/ Start(s)
    \/ Reject(s) \/ Commit(s) \/ Notify(s) \/ Wake(s)
    \/ InboxEmpty(s) \/ InboxRead(s) \/ Clear(s)
    \/ SubscribeRead(s) \/ SubscribeWait(s) \/ Probe(s) \/ Consume(s)
    \/ Timeout(s) \/ Reread(s) \/ Deliver(s)

\* A session that is never killed runs its calls to their end and, as the
\* docstring of agent_subscribe tells its client to, keeps subscribing.  Its
\* reads get the write lock sooner or later: every writer holds it for one
\* short transaction and sqlite3 retries for 5 s.
Listening(s) ==
    /\ WF_vars(Running(s))
    /\ SF_vars(Subscribe(s))
    /\ SF_vars(SubscribeRead(s))

Listeners == Sessions \ Mortal

LiveSpec == Spec /\ \A s \in Listeners : Listening(s)

-----------------------------------------------------------------------------
(* Properties.                                                             *)

CallType == [target : Agents \cup {""}, raw : RawIntents \cup {""},
             limit : Nat, message : Nat]
Row == [sender : Agents, recipient : Agents, intent : ValidIntents]

\* The shape of the state, and what a session holds at each stage of its call.
TypeOK ==
    /\ agents \subseteq Agents
    /\ log \in Seq(Row)
    /\ stored \subseteq Messages
    /\ unread \subseteq stored
    /\ signal \subseteq Agents
    /\ woken \subseteq Messages
    /\ pc \in [Sessions -> Stages]
    /\ call \in [Sessions -> CallType]
    /\ batch \in [Sessions -> SUBSET Messages]
    /\ returned \in [Sessions -> SUBSET Messages]
    /\ lost \in [Sessions -> SUBSET Messages]
    /\ orphans \subseteq Messages
    /\ \A s \in Sessions :
        /\ pc[s] \in {"send", "notify", "wake"} => call[s].target \in Agents
        /\ pc[s] \in {"notify", "wake"} =>
              call[s].message \in Messages /\ log[call[s].message].recipient = call[s].target
        /\ batch[s] # {} => pc[s] \in {"clear", "return"}

\* The messages the consuming reads of s have marked: still in its call,
\* returned to its client, or gone with a killed process.
Taken(s) == batch[s] \cup returned[s] \cup lost[s]

\* store.py read_inbox: a message is returned by one consuming read at most,
\* in one call of one session, and is no longer unread afterwards, however the
\* reads of sibling sessions interleave and whichever process is killed.
ExactlyOneReader ==
    /\ \A s \in Sessions : /\ Taken(s) \cap unread = {}
                           /\ batch[s] \cap returned[s] = {}
                           /\ batch[s] \cap lost[s] = {}
                           /\ returned[s] \cap lost[s] = {}
    /\ \A s, t \in Sessions : s # t => Taken(s) \cap Taken(t) = {}

\* A row reads as unread until some session takes it: neither a killed sender
\* nor a sibling's read makes it disappear.  Only a purge without
\* --unread-only removes a message nobody has read.
NoneVanishes ==
    \A m \in Messages :
        \/ m \in unread
        \/ \E s \in Sessions : m \in Taken(s)
        \/ m \notin stored /\ "all" \in PurgeModes

\* read_inbox's ORDER BY created_at under concurrent readers and senders:
\* whoever of an agent's sessions reads, a message is never overtaken by a
\* younger one of the same agent, and only that agent's sessions get it.
OldestFirst ==
    \A s \in Sessions : \A m \in Taken(s) :
        /\ log[m].recipient = Owner[s]
        /\ \A k \in UnreadFor(Owner[s]) : m < k

\* tool_agent_send's order of effects: a webhook is posted only once the row
\* and the signal are there, so the session it spawns finds the message (or a
\* sibling has read it, or it was purged), and never for a fyi message.
WakeAfterStore ==
    /\ \A m \in woken : m \in Messages /\ log[m].intent # "fyi"
    /\ \A s \in Sessions : pc[s] \in {"notify", "wake"} => call[s].message \notin woken

\* A message whose sender has yet to touch the signal file.
Announcing(m) == \E t \in Sessions : pc[t] = "notify" /\ call[t].message = m

\* A session blocked in agent_subscribe is woken by every message: while one
\* waits unread for its agent, the signal file is there, or its sender is about
\* to write it, or a sibling that consumed the signal is about to read the
\* table.  The exception is a sender killed before it wrote the file.  It holds
\* when every agent has one session (ADR-001's leader at the gateway).
NoLostWakeup ==
    \A s \in Sessions : pc[s] \in {"wait", "poll", "consume"} =>
        \A m \in UnreadFor(Owner[s]) \ orphans :
            \/ Owner[s] \in signal
            \/ Announcing(m)
            \/ \E t \in Sessions : pc[t] = "reread" /\ Owner[t] = Owner[s]

\* What the refinement reads: the promise of the abstract inbox.
Promise == INSTANCE Inbox WITH
    MayPurge <- "all" \in PurgeModes,
    posted <- [m \in Messages |-> log[m].recipient],
    taken  <- [s \in Sessions |-> Taken(s)]

\* The processes, the transactions, the signal files and the crashes implement
\* the abstract inbox.
AsInbox == Promise!Spec

\* The signal files are advisory (header of signals.py): whatever happens to
\* them, and to the process that sent it, a message is eventually read by an
\* agent that keeps subscribing.
EventuallyRead ==
    \A m \in 1..MaxMessages :
        (m \in unread /\ \E s \in Listeners : Owner[s] = log[m].recipient)
            ~> m \notin unread
=============================================================================
