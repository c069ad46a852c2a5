-------------------------- MODULE FacadeTransfers --------------------------
(***************************************************************************)
(* File transfers through the HTTP facade (facade.py, transfer_store.py):  *)
(* uploads, downloads, deletions and the sweep, and the clients that call  *)
(* them (bus_store.py, tools.py).                                          *)
(*                                                                         *)
(* All of them run on the facade's event loop.  A handler gives the loop   *)
(* away only while it copies an upload; what it does in several steps      *)
(* without that, only the death of the facade can cut short.  Transfers    *)
(* have a row in a database of their own and a directory.  fetched_at is   *)
(* left out: nothing reads it.                                             *)
(***************************************************************************)
EXTENDS Integers, Sequences, FiniteSets

CONSTANTS
    Agents,        \* agent ids
    Clients,       \* the bridges that use the facade
    Owner,         \* the agent each client speaks for
    Targets,       \* the recipients callers name
    Flaky,         \* the clients that may give a request up
    Restarts,      \* whether the facade may be killed and started again
    Ttls,          \* the values of expires_in callers pass, 0 for none
    Hour,          \* the ticks of an hour
    DefaultTtl,    \* the time to live of a transfer when none is asked for
    MaxTtl,        \* A2A_TRANSFER_MAX_TTL_SECONDS
    MaxPending,    \* A2A_TRANSFER_MAX_PENDING_PER_AGENT
    MaxTransfers,  \* bound: uploads in a behaviour
    MaxTime        \* bound: ticks in a behaviour

ASSUME FacadeTransfersAssumption ==
    /\ Owner \in [Clients -> Agents]
    /\ Targets \subseteq Agents
    /\ Flaky \subseteq Clients
    /\ Restarts \in BOOLEAN
    /\ Ttls \subseteq Int /\ Hour \in Nat \ {0} /\ {DefaultTtl, MaxTtl} \subseteq Nat
    /\ {MaxPending, MaxTransfers, MaxTime} \subseteq Nat

VARIABLES
    clock,    \* datetime.now(UTC)
    uploads,  \* what each upload asked for, by order of arrival
    rows,     \* table transfers: when they expire, whether deleted_at is set
    files,    \* the directory of each transfer: its entries and itself
    copying,  \* the uploads whose handlers are copying
    loop,     \* what the loop is in the middle of, and for which transfers
    call,     \* what each client is doing, and with which transfer
    reply,    \* what the last step has answered, if it ended a call
    handed,   \* history: the transfers whose recipients have been told
    deleted,  \* history: the transfers a party has asked to delete
    most,     \* history: the most uploads each agent has had under way at once
    cut       \* history: the transfers whose upload or removal was cut short,
              \* by a death, a refusal or an error

vars == <<clock, uploads, rows, files, copying, loop, call, reply, handed, deleted, most,
          cut>>
disk == <<rows, files>>
history == <<handed, deleted, most, cut>>

Ids == 1..Len(uploads)
Rows == DOMAIN rows
Entries == {"dir", "tmp", "payload"}

Upload(sender, recipient, ttl) == [sender |-> sender, recipient |-> recipient, ttl |-> ttl]

\* A loop that removes directories has to do all of todo; marked is the transfer
\* whose row says so and whose directory is next.
Task(name, todo, marked) == [name |-> name, todo |-> todo, marked |-> marked]
Idle == Task("none", {}, 0)
Free == loop = Idle

Doing(kind, t) == [kind |-> kind, on |-> t]
Nothing == Doing("none", 0)
Reply(how, t) == [how |-> how, on |-> t]
NoReply == Reply("none", 0)
Silent == reply' = NoReply

Live(t) == t \in Rows /\ ~ rows[t].deleted

\* count_pending
Pending(agent) ==
    Cardinality({t \in Rows : uploads[t].sender = agent /\ Live(t) /\ rows[t].expires > clock})

\* Mutant: the sender may have as many as the quota before the upload.
AtQuotaToo(agent) == Pending(agent) <= MaxPending

BelowQuota(agent) == Pending(agent) < MaxPending

Overdue(t) == t \in Rows /\ rows[t].expires < clock

\* Mutant: the WHERE clause asks for rows that are deleted already.
DeletedRows == {t \in Rows : Overdue(t) /\ ~ Live(t)}

\* Mutant: the WHERE clause forgets the expiry.
LiveRows == {t \in Rows : Live(t)}

\* list_expired
ListExpired == {t \in Rows : Overdue(t) /\ Live(t)}

Party(c, t) == Owner[c] \in {uploads[t].sender, uploads[t].recipient}

\* The uploads of an agent that have passed the quota and have no row yet.
UnderWay(agent) ==
    {t \in copying \cup (IF loop.name = "create" THEN loop.todo ELSE {}) : uploads[t].sender = agent}

Init ==
    /\ clock = 0
    /\ uploads = <<>> /\ rows = <<>> /\ files = <<>>
    /\ copying = {}
    /\ loop = Idle
    /\ call = [c \in Clients |-> Nothing]
    /\ reply = NoReply
    /\ handed = {} /\ deleted = {} /\ cut = {}
    /\ most = [agent \in Agents |-> 0]

Tick ==
    /\ clock < MaxTime
    /\ clock' = clock + 1
    /\ Silent
    /\ UNCHANGED <<uploads, disk, copying, loop, call, history>>

\* The clients that wait for this answer go on; a client may have given up.
Answer(kind, t, next) ==
    call' = [c \in Clients |-> IF call[c] = Doing(kind, t) THEN next ELSE call[c]]

-----------------------------------------------------------------------------
(* POST /transfers/upload, and the message that refers to the transfer.    *)

\* expires_in or 86400.
Asked(ttl) == IF ttl = 0 THEN DefaultTtl ELSE ttl

\* int(ttl / 3600) hours: whole ones, cut towards zero.  It may be negative.
Hours(ttl) ==
    IF Asked(ttl) >= 0 THEN (Asked(ttl) \div Hour) * Hour ELSE -((-Asked(ttl)) \div Hour) * Hour

\* Mutant: any time to live is accepted.
AnyTtl(ttl) == TRUE

AcceptableTtl(ttl) == Hours(ttl) <= MaxTtl

\* One more is under way for this agent.
Noted(agent) ==
    LET n == Cardinality(UnderWay(agent)) + 1
    IN  most' = [most EXCEPT ![agent] = IF n > @ THEN n ELSE @]

\* The handler counts the sender's transfers and makes the directory; then it may
\* have to wait for every chunk.
StartUpload(c) ==
    /\ Free
    /\ call[c] = Nothing
    /\ Len(uploads) < MaxTransfers
    /\ BelowQuota(Owner[c])
    /\ \E target \in Targets, ttl \in {d \in Ttls : AcceptableTtl(d)} :
        uploads' = Append(uploads, Upload(Owner[c], target, Hours(ttl)))
    /\ files' = Append(files, {"dir", "tmp"})
    /\ copying' = copying \cup {Len(uploads')}
    /\ call' = [call EXCEPT ![c] = Doing("upload", Len(uploads'))]
    /\ Noted(Owner[c])
    /\ Silent
    /\ UNCHANGED <<clock, rows, loop, handed, deleted, cut>>

\* TTL_EXCEEDED or TOO_MANY_PENDING, or a bridge that asks for a part of an hour
\* over HttpBusStore, which the form takes for no integer: nothing is left behind.
Refuse(c) ==
    /\ Free
    /\ call[c] = Nothing
    /\ \/ \E ttl \in Ttls : ~ AcceptableTtl(ttl) \/ Hours(ttl) # Asked(ttl)
       \/ ~ BelowQuota(Owner[c])
    /\ Silent
    /\ UNCHANGED <<clock, uploads, disk, copying, loop, call, history>>

\* Too large: the partial file goes, its directory stays.  Or the disk is full,
\* HTTP 500: both stay.
UploadFails(t) ==
    /\ Free
    /\ t \in copying
    /\ \/ files' = [files EXCEPT ![t] = @ \ {"tmp"}]
       \/ UNCHANGED files
    /\ copying' = copying \ {t}
    /\ cut' = cut \cup {t}
    /\ Answer("upload", t, Nothing)
    /\ Silent
    /\ UNCHANGED <<clock, uploads, rows, loop, handed, deleted, most>>

\* The last chunk: the file gets its name ...
Rename(t) ==
    /\ Free
    /\ t \in copying
    /\ files' = [files EXCEPT ![t] = (@ \ {"tmp"}) \cup {"payload"}]
    /\ copying' = copying \ {t}
    /\ loop' = Task("create", {t}, 0)
    /\ Silent
    /\ UNCHANGED <<clock, uploads, rows, call, history>>

\* ... then the transfer gets its row, and the client its id.
Create ==
    /\ loop.name = "create"
    /\ \E t \in loop.todo :
        /\ rows' = [u \in Rows \cup {t} |->
              IF u = t THEN [expires |-> clock + uploads[t].ttl, deleted |-> FALSE] ELSE rows[u]]
        /\ Answer("upload", t, Doing("announce", t))
    /\ loop' = Idle
    /\ Silent
    /\ UNCHANGED <<clock, uploads, files, copying, history>>

\* The mode of the file, the row or the COMMIT fails, HTTP 500: what has been
\* renamed stays, and no row tells the sweep.
CreateFails ==
    /\ loop.name = "create"
    /\ \E t \in loop.todo : Answer("upload", t, Nothing)
    /\ cut' = cut \cup loop.todo
    /\ loop' = Idle
    /\ Silent
    /\ UNCHANGED <<clock, uploads, disk, copying, handed, deleted, most>>

\* agent_send succeeds, or refuses and the id is returned with a hint, or raises.
\* It refuses the sender itself as a target.
Announce(c) ==
    /\ call[c].kind = "announce"
    /\ \E told \in BOOLEAN : handed' = IF told THEN handed \cup {call[c].on} ELSE handed
    /\ call' = [call EXCEPT ![c] = Nothing]
    /\ Silent
    /\ UNCHANGED <<clock, uploads, disk, copying, loop, deleted, most, cut>>

-----------------------------------------------------------------------------
(* GET and DELETE /transfers/{id}.  Callers without a right to are refused, *)
(* which changes nothing.                                                  *)

\* The handler looks for the row, whatever it says of expiry and deletion, and
\* for the file.
Download(c) ==
    /\ Free
    /\ call[c] = Nothing
    /\ \E t \in handed :
        /\ uploads[t].recipient = Owner[c]
        /\ IF "payload" \in files[t]
             THEN call' = [call EXCEPT ![c] = Doing("open", t)] /\ Silent
             ELSE reply' = Reply("missing", t) /\ UNCHANGED call
    /\ UNCHANGED <<clock, uploads, disk, copying, loop, history>>

\* The response opens the file after the handler has returned.
Open(c) ==
    /\ call[c].kind = "open"
    /\ reply' = Reply(IF "payload" \in files[call[c].on] THEN "sent" ELSE "missing", call[c].on)
    /\ call' = [call EXCEPT ![c] = Nothing]
    /\ UNCHANGED <<clock, uploads, disk, copying, loop, history>>

Delete(c) ==
    /\ Free
    /\ call[c] = Nothing
    /\ \E t \in handed :
        /\ Party(c, t)
        /\ call' = [call EXCEPT ![c] = Doing("delete", t)]
        /\ loop' = Task("delete", {t}, 0)
        /\ deleted' = deleted \cup {t}
    /\ Silent
    /\ UNCHANGED <<clock, uploads, disk, copying, handed, most, cut>>

-----------------------------------------------------------------------------
(* The removal of transfers, by a deletion or by the sweep.                *)

StartSweep ==
    /\ Free
    /\ ListExpired # {}
    /\ loop' = Task("sweep", ListExpired, 0)
    /\ Silent
    /\ UNCHANGED <<clock, uploads, disk, copying, call, history>>

\* Mutant: the directory goes before the row is marked.
RemovesFirst(t) ==
    /\ t \in loop.todo
    /\ loop.name \in {"sweep", "delete"} /\ loop.marked = 0
    /\ files' = [files EXCEPT ![t] = {}]
    /\ loop' = [loop EXCEPT !.marked = t]
    /\ Silent
    /\ UNCHANGED <<clock, uploads, rows, copying, call, history>>

\* The row is marked as deleted ...
Mark(t) ==
    /\ t \in loop.todo
    /\ loop.name \in {"sweep", "delete"} /\ loop.marked = 0
    /\ rows' = [rows EXCEPT ![t].deleted = TRUE]
    /\ loop' = [loop EXCEPT !.marked = t]
    /\ Silent
    /\ UNCHANGED <<clock, uploads, files, copying, call, history>>

\* The loop turns to the next transfer, or answers and is free.
Proceed(t) ==
    /\ loop' = IF loop.todo = {t} THEN Idle ELSE Task(loop.name, loop.todo \ {t}, 0)
    /\ IF loop.name = "delete" THEN Answer("delete", t, Nothing) ELSE UNCHANGED call
    /\ Silent

\* The row cannot be marked: the sweep turns to the next one, a deletion is
\* answered with HTTP 500.
MarkFails(t) ==
    /\ t \in loop.todo
    /\ loop.name \in {"sweep", "delete"} /\ loop.marked = 0
    /\ Proceed(t)
    /\ UNCHANGED <<clock, uploads, disk, copying, history>>

\* Mutant: the files are left for a reaper.
KeepsFiles(t) ==
    /\ loop.marked = t
    /\ Proceed(t)
    /\ UNCHANGED <<clock, uploads, disk, copying, history>>

\* ... then the directory goes, errors ignored.
Remove(t) ==
    /\ loop.marked = t
    /\ files' = [files EXCEPT ![t] = {}]
    /\ Proceed(t)
    /\ UNCHANGED <<clock, uploads, rows, copying, history>>

-----------------------------------------------------------------------------
(* Failures.                                                               *)

\* The client times out, loses its connection or dies; the facade is not told.
GiveUp(c) ==
    /\ c \in Flaky
    /\ call[c] # Nothing
    /\ call' = [call EXCEPT ![c] = Nothing]
    /\ Silent
    /\ UNCHANGED <<clock, uploads, disk, copying, loop, history>>

\* What is left of the directory when the removal of t is cut short.
Remains(t) == {left \in SUBSET files[t] : left # {} => "dir" \in left}

\* The facade is killed, and started again.
Die ==
    /\ Restarts
    /\ ~ Free \/ copying # {}
    /\ IF loop.marked = 0
         THEN UNCHANGED files
         ELSE \E left \in Remains(loop.marked) :
                files' = [files EXCEPT ![loop.marked] = left]
    /\ cut' = cut \cup copying \cup {t \in loop.todo : loop.name = "create" \/ t = loop.marked}
    /\ copying' = {}
    /\ loop' = Idle
    /\ call' = [c \in Clients |-> IF call[c].kind = "announce" THEN call[c] ELSE Nothing]
    /\ Silent
    /\ UNCHANGED <<clock, uploads, rows, handed, deleted, most>>

-----------------------------------------------------------------------------
ClientStep(c) ==
    \/ StartUpload(c) \/ Refuse(c) \/ Announce(c) \/ Download(c) \/ Open(c)
    \/ Delete(c) \/ GiveUp(c)

UploadStep(t) == UploadFails(t) \/ Rename(t)

RemovalStep(t) == Mark(t) \/ Remove(t)

Next ==
    \/ Tick
    \/ \E c \in Clients : ClientStep(c)
    \/ \E t \in Ids : UploadStep(t) \/ RemovalStep(t) \/ MarkFails(t)
    \/ Create
    \/ CreateFails
    \/ StartSweep
    \/ Die

Spec == Init /\ [][Next]_vars

\* The loop keeps running: uploads end, the sweep comes round every five
\* minutes, and neither a kill nor a database that refuses to mark a row meets
\* the removal of a transfer every time.
FairSpec ==
    /\ Spec
    /\ SF_vars(StartSweep) /\ WF_vars(Create)
    /\ \A t \in 1..MaxTransfers : SF_vars(t \in Ids /\ RemovalStep(t))

-----------------------------------------------------------------------------
(* Properties.                                                             *)

\* The shape of the state, what the loop has in hand, and that no transfer stays
\* for longer than the operator's maximum.
TypeOK ==
    /\ clock \in 0..MaxTime
    /\ uploads \in Seq([sender : Agents, recipient : Agents, ttl : Int])
    /\ \A t \in Ids : uploads[t].ttl <= MaxTtl
    /\ Rows \subseteq Ids
    /\ \A t \in Rows : /\ rows[t] \in [expires : Int, deleted : BOOLEAN]
                       /\ rows[t].expires <= clock + MaxTtl
    /\ files \in Seq(SUBSET Entries) /\ Len(files) = Len(uploads)
    /\ \A t \in Ids : files[t] # {} => "dir" \in files[t]
    /\ copying \subseteq Ids \ Rows
    /\ loop.name \in {"none", "create", "sweep", "delete"}
    /\ loop.todo \subseteq (IF loop.name = "create" THEN Ids \ Rows ELSE Rows)
    /\ loop.marked \in loop.todo \cup {0}
    /\ call \in [Clients -> [kind : {"none", "upload", "announce", "open", "delete"},
                             on : 0..Len(uploads)]]
    /\ reply \in [how : {"none", "sent", "missing"}, on : 0..Len(uploads)]
    /\ handed \cup deleted \subseteq Rows /\ cut \subseteq Ids
    /\ most \in [Agents -> Nat]

\* The quota is counted before the copy, and the loop serves others meanwhile,
\* clients of the same agent among them: an agent is over its quota by less than
\* the uploads it has had under way at once, whoever gives them up or cuts them.
WithinQuota ==
    \A agent \in Agents :
        Pending(agent) > 0 => Pending(agent) < MaxPending + most[agent]

\* The row is created after the file and marked before the file goes: a row that
\* is not marked as deleted has its file, wherever the facade is killed.
RowHasFile == \A t \in Rows : Live(t) => "payload" \in files[t]

\* A download that does not find its file, in the handler or when the response
\* opens it, came after the expiry or after a request to delete.
FoundWhenFresh ==
    reply.how = "missing" => reply.on \in deleted \/ Overdue(reply.on)

\* Files that no live row leads the sweep to are being uploaded or removed,
\* unless that was cut short: by a death, a refusal or an error.
NoneLeaked ==
    \A t \in Ids : files[t] # {} /\ ~ Live(t) => t \in copying \cup loop.todo \cup cut

\* The sweep loop: an expired transfer is marked as deleted and disappears,
\* though the facade may be killed on the way, unless that cuts its removal.
ExpiredIsSwept ==
    \A t \in 1..MaxTransfers :
        (t \in Ids /\ Overdue(t)) ~> (t \in Ids /\ ~ Live(t) /\ (files[t] = {} \/ t \in cut))

=============================================================================
