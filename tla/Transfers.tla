----------------------------- MODULE Transfers -----------------------------
(***************************************************************************)
(* File transfers between agents of one machine (transfers.py and the file *)
(* tools of tools.py).  Every bridge process stages, fetches and deletes   *)
(* transfers in one shared directory, and has a daemon thread that sweeps  *)
(* the expired ones (server.py).  There is no lock: an action is one       *)
(* operation on the file system.                                           *)
(*                                                                         *)
(* A transfer is a directory named by a fresh id.  It exists for the tools *)
(* once its manifest is there, which is written last.  Contents and names  *)
(* of files are left out, time is counted in ticks.                        *)
(***************************************************************************)
EXTENDS Integers, Sequences, FiniteSets

CONSTANTS
    Agents,        \* agent ids
    Sessions,      \* bridge processes
    Owner,         \* the agent each session speaks for
    Targets,       \* the recipients callers name
    Mortal,        \* the sessions that may be killed
    Sweepers,      \* the sessions with a sweep thread (A2A_TRANSFER_SWEEP_ENABLED)
    Ttls,          \* the values of expires_in callers pass
    MaxTtl,        \* A2A_TRANSFER_MAX_TTL_SECONDS
    First,         \* the entry of each transfer that the file system lists first
    MaxPending,    \* A2A_TRANSFER_MAX_PENDING_PER_AGENT
    MaxTransfers,  \* bound: transfers staged in a behaviour
    MaxTime        \* bound: ticks in a behaviour

ASSUME TransfersAssumption ==
    /\ IsFiniteSet(Sessions) /\ Owner \in [Sessions -> Agents]
    /\ Targets \subseteq Agents
    /\ Mortal \cup Sweepers \subseteq Sessions
    /\ Ttls \subseteq Int /\ MaxTtl \in Nat
    /\ First \in [1..MaxTransfers -> {"payload", "manifest"}]
    /\ {MaxPending, MaxTransfers, MaxTime} \subseteq Nat

VARIABLES
    clock,      \* time.time()
    manifests,  \* what the manifest of each transfer says, by order of creation
    files,      \* the directory of each transfer: its entries and itself
    at,         \* where the tool call and the sweep thread of each session are
    on,         \* the transfer each of them works on, 0 for none
    todo,       \* the entries its rmtree has listed and not yet removed
    now,        \* the time each sweep thread has read, at the start of its pass
    reply,      \* what the last step has answered, if it ended a tool call
    handed,     \* history: the transfers whose id has left agent_send_file
    deleted,    \* history: the transfers a party has asked to delete
    most,       \* history: the most calls of each agent past the quota at once
    cut         \* history: the transfers whose staging or removal was cut short

vars == <<clock, manifests, files, at, on, todo, now, reply, handed, deleted, most,
          cut>>
disk == <<manifests, files>>
history == <<handed, deleted, most, cut>>

Ids == 1..Len(manifests)
Payload == {"payload", "manifest"}
Entries == {"dir", "copy"} \cup Payload

\* A session has up to two threads of control.
Call(s) == <<s, "call">>
Sweeper(s) == <<s, "sweep">>
Threads(s) == {Call(s)} \cup (IF s \in Sweepers THEN {Sweeper(s)} ELSE {})
Actors == UNION {Threads(s) : s \in Sessions}

Staging == {"copy", "publish"}
Removing == {"list", "unlink"}
Stages == {"down", "idle", "stage", "load", "announce", "open", "read"} \cup Staging \cup Removing

\* What calls return is told apart only where a property is about it: that the
\* transfer is gone for the caller, or that it has been deleted.
Reply(how, t) == [how |-> how, on |-> t]
NoReply == Reply("none", 0)
Replies == {"missing", "deleted"}

Manifest(sender, recipient, expires) ==
    [sender |-> sender, recipient |-> recipient, expires |-> expires]

Published(t) == "manifest" \in files[t]

ExpiredAt(t, time) == manifests[t].expires <= time
Expired(t) == ExpiredAt(t, clock)

\* _count_pending_for_sender
Pending(agent) ==
    Cardinality({t \in Ids : Published(t) /\ manifests[t].sender = agent /\ ~ Expired(t)})

Party(s, t) == Owner[s] \in {manifests[t].sender, manifests[t].recipient}

Init ==
    /\ clock = 0
    /\ manifests = <<>>
    /\ files = <<>>
    /\ at = [a \in Actors |-> "idle"]
    /\ on = [a \in Actors |-> 0]
    /\ todo = [a \in Actors |-> {}]
    /\ now = [s \in Sweepers |-> 0]
    /\ reply = NoReply
    /\ handed = {} /\ deleted = {} /\ cut = {}
    /\ most = [agent \in Agents |-> 0]

Silent == reply' = NoReply

Tick ==
    /\ clock < MaxTime
    /\ clock' = clock + 1
    /\ UNCHANGED <<disk, at, on, todo, now, history>> /\ Silent

Goto(a, stage) == at' = [at EXCEPT ![a] = stage]

\* Actor a is done with its transfer.
Leave(a) ==
    /\ Goto(a, "idle")
    /\ on' = [on EXCEPT ![a] = 0]
    /\ todo' = [todo EXCEPT ![a] = {}]

\* The tool call of s ends.
End(s, how) ==
    /\ Leave(Call(s))
    /\ reply' = IF how \in Replies THEN Reply(how, on[Call(s)]) ELSE NoReply

\* The process is killed, its sweep thread with it; it is started again later.
Crash(s) ==
    LET cutting == {a \in Threads(s) : at[a] \in Staging \cup Removing}
    IN  /\ s \in Mortal
        /\ at[Call(s)] # "down"
        /\ at' = [a \in Actors |-> IF a \in Threads(s) THEN "down" ELSE at[a]]
        /\ on' = [a \in Actors |-> IF a \in Threads(s) THEN 0 ELSE on[a]]
        /\ todo' = [a \in Actors |-> IF a \in Threads(s) THEN {} ELSE todo[a]]
        /\ Silent
        /\ cut' = cut \cup {on[a] : a \in cutting}
        /\ UNCHANGED <<clock, disk, now, handed, deleted, most>>

Restart(s) ==
    /\ at[Call(s)] = "down"
    /\ at' = [a \in Actors |-> IF a \in Threads(s) THEN "idle" ELSE at[a]]
    /\ now' = [z \in Sweepers |-> IF z = s THEN clock ELSE now[z]]
    /\ UNCHANGED <<clock, disk, on, todo, history>> /\ Silent

-----------------------------------------------------------------------------
(* agent_send_file: stage the file, then send the message that refers to   *)
(* it.                                                                     *)

\* The calls that passed the quota and have no transfer yet.
Entering == {s \in Sessions : at[Call(s)] = "stage"}

\* The calls of an agent that have passed the quota and published nothing yet.
Passed(agent) == {s \in Sessions : Owner[s] = agent /\ at[Call(s)] \in {"stage"} \cup Staging}

\* One more of this agent's passes the quota.
Noted(agent) ==
    LET n == Cardinality(Passed(agent)) + 1
    IN  most' = [most EXCEPT ![agent] = IF n > @ THEN n ELSE @]

\* Mutant: the sender may have as many as the quota before the call.
AtQuotaToo(agent) == Pending(agent) <= MaxPending

BelowQuota(agent) == Pending(agent) < MaxPending

\* The sender's transfers are counted; the directory is made later, and nothing is
\* locked in between.
SendFile(s) ==
    /\ at[Call(s)] = "idle"
    /\ Len(manifests) + Cardinality(Entering) < MaxTransfers
    /\ BelowQuota(Owner[s])
    /\ Goto(Call(s), "stage")
    /\ Noted(Owner[s])
    /\ Silent
    /\ UNCHANGED <<clock, disk, on, todo, now, handed, deleted, cut>>

\* The source is missing or too large, or the agent is over its quota: nothing
\* is written.
Refuse(s) ==
    /\ at[Call(s)] = "idle"
    /\ End(s, "refused")
    /\ UNCHANGED <<clock, disk, now, history>>

\* Mutant: the maximum is not applied.
AsAsked(ttl) == ttl

\* The caller's expires_in, or the maximum the operator set.
Clamped(ttl) == IF ttl <= MaxTtl THEN ttl ELSE MaxTtl

\* The directory and a partial copy.
Stage(s) ==
    /\ at[Call(s)] = "stage"
    /\ \E target \in Targets, ttl \in Ttls :
        manifests' = Append(manifests, Manifest(Owner[s], target, clock + Clamped(ttl)))
    /\ files' = Append(files, {"dir", "copy"})
    /\ on' = [on EXCEPT ![Call(s)] = Len(manifests')]
    /\ Goto(Call(s), "copy")
    /\ UNCHANGED <<clock, todo, now, history>> /\ Silent

\* The copy is complete, and renamed to its final name.
Copy(s) ==
    /\ at[Call(s)] = "copy"
    /\ files' = [files EXCEPT ![on[Call(s)]] = (@ \ {"copy"}) \cup {"payload"}]
    /\ Goto(Call(s), "publish")
    /\ UNCHANGED <<clock, manifests, on, todo, now, history>> /\ Silent

\* The disk is full or the source unreadable: the error reaches the client and
\* what was written stays.
StagingFails(s) ==
    /\ at[Call(s)] \in Staging
    /\ End(s, "failed")
    /\ cut' = cut \cup {on[Call(s)]}
    /\ UNCHANGED <<clock, disk, now, handed, deleted, most>>

\* Mutant: the manifest is written while the file is being copied.
PublishesEarly(s) ==
    /\ at[Call(s)] \in Staging
    /\ files' = [files EXCEPT ![on[Call(s)]] = @ \cup {"manifest"}]
    /\ Goto(Call(s), "load")
    /\ UNCHANGED <<clock, manifests, on, todo, now, history>> /\ Silent

\* The manifest is written to a temporary file, and renamed.
Publish(s) ==
    /\ at[Call(s)] = "publish"
    /\ files' = [files EXCEPT ![on[Call(s)]] = @ \cup {"manifest"}]
    /\ Goto(Call(s), "load")
    /\ UNCHANGED <<clock, manifests, on, todo, now, history>> /\ Silent

\* Its mode is set, then it is read back.  By then a sweep may have removed it.
Load(s) ==
    /\ at[Call(s)] = "load"
    /\ IF Published(on[Call(s)])
         THEN Goto(Call(s), "announce") /\ UNCHANGED <<on, todo>> /\ Silent
         ELSE End(s, "missing")
    /\ UNCHANGED <<clock, disk, now, history>>

\* agent_send succeeds, or refuses and the id is returned with a hint, or raises.
\* It refuses the sender itself as a target.
Announce(s) ==
    /\ at[Call(s)] = "announce"
    /\ \E how \in {"sent", "unsent", "failed"} :
        /\ how = "sent" => manifests[on[Call(s)]].recipient # Owner[s]
        /\ End(s, how)
        /\ handed' = IF how = "failed" THEN handed ELSE handed \cup {on[Call(s)]}
    /\ UNCHANGED <<clock, disk, now, deleted, most, cut>>

-----------------------------------------------------------------------------
(* agent_fetch_file and agent_delete_file.                                 *)

\* The manifest is loaded twice and the caller checked; verify=False returns the
\* path as it is.
Fetch(s) ==
    /\ at[Call(s)] = "idle"
    /\ \E t \in handed :
        /\ Published(t) /\ Party(s, t)
        /\ on' = [on EXCEPT ![Call(s)] = t]
    /\ Goto(Call(s), "open")
    /\ Silent
    /\ UNCHANGED <<clock, disk, todo, now, history>>

\* verify=True opens and hashes the file, whose contents never change; nothing
\* catches that it is gone.
Open(s) ==
    /\ at[Call(s)] = "open"
    /\ End(s, IF "payload" \in files[on[Call(s)]] THEN "path" ELSE "missing")
    /\ UNCHANGED <<clock, disk, now, history>>

\* A party's request to delete goes on with rmtree.
Delete(s) ==
    /\ at[Call(s)] = "idle"
    /\ \E t \in handed :
        /\ Published(t) /\ Party(s, t)
        /\ on' = [on EXCEPT ![Call(s)] = t]
        /\ deleted' = deleted \cup {t}
    /\ Goto(Call(s), "list")
    /\ Silent
    /\ UNCHANGED <<clock, disk, todo, now, handed, most, cut>>

\* The manifest is not there, for either of the two.  (Callers that are no
\* party are refused, which changes nothing.)
NotFound(s) ==
    /\ at[Call(s)] = "idle"
    /\ \E t \in handed :
        /\ ~ Published(t)
        /\ reply' = Reply("missing", t)
    /\ UNCHANGED <<clock, disk, at, on, todo, now, history>>

-----------------------------------------------------------------------------
(* shutil.rmtree: list the directory, remove each entry, then the directory.  *)
(* The sweep ignores errors; agent_delete_file reports them.                  *)

Finish(a, how) ==
    IF a[2] = "call" THEN End(a[1], how) ELSE Leave(a) /\ Silent

List(a) ==
    /\ at[a] = "list"
    /\ IF files[on[a]] = {}
         THEN Finish(a, "missing")
         ELSE /\ todo' = [todo EXCEPT ![a] = files[on[a]] \ {"dir"}]
              /\ Goto(a, "unlink")
              /\ UNCHANGED on /\ Silent
    /\ UNCHANGED <<clock, disk, now, history>>

\* The entry that comes next.
NextEntry(a) ==
    IF First[on[a]] \in todo[a] THEN First[on[a]] ELSE CHOOSE e \in todo[a] : TRUE

\* That another actor removed the entry first stops agent_delete_file, with
\* Python up to 3.12.
Unlink(a) ==
    /\ at[a] = "unlink"
    /\ todo[a] # {}
    /\ \/ /\ files' = [files EXCEPT ![on[a]] = @ \ {NextEntry(a)}]
          /\ todo' = [todo EXCEPT ![a] = @ \ {NextEntry(a)}]
          /\ UNCHANGED <<at, on>> /\ Silent
       \/ /\ a[2] = "call"
          /\ NextEntry(a) \notin files[on[a]]
          /\ Finish(a, "missing")
          /\ UNCHANGED files
    /\ UNCHANGED <<clock, manifests, now, history>>

\* Mutant: the directory itself is left behind.
KeepsDirectory(a) ==
    /\ at[a] = "unlink"
    /\ todo[a] = {}
    /\ Finish(a, "deleted")
    /\ UNCHANGED <<clock, disk, now, history>>

Rmdir(a) ==
    /\ at[a] = "unlink"
    /\ todo[a] = {}
    /\ Finish(a, IF files[on[a]] = {} THEN "missing" ELSE "deleted")
    /\ files' = [files EXCEPT ![on[a]] = @ \ {"dir"}]
    /\ UNCHANGED <<clock, manifests, now, history>>

-----------------------------------------------------------------------------
(* _transfer_sweep, in the daemon thread: the time is read once, then every *)
(* directory is looked at in turn.                                         *)

SweepStart(s) ==
    /\ at[Sweeper(s)] = "idle"
    /\ now' = [now EXCEPT ![s] = clock]
    /\ UNCHANGED <<clock, disk, at, on, todo, history>> /\ Silent

SweepLook(s, t) ==
    /\ at[Sweeper(s)] = "idle"
    /\ Published(t)
    /\ Goto(Sweeper(s), "read")
    /\ on' = [on EXCEPT ![Sweeper(s)] = t]
    /\ UNCHANGED <<clock, disk, todo, now, history>> /\ Silent

\* Mutant: the sweep removes what it finds, expired or not.
SweepsFresh(s) ==
    /\ at[Sweeper(s)] = "read"
    /\ Goto(Sweeper(s), "list")
    /\ UNCHANGED <<clock, disk, on, todo, now, history>> /\ Silent

\* Mutant: a manifest that vanished meanwhile is skipped, and so is an expired
\* one that is still there.
SweepsNothing(s) ==
    /\ at[Sweeper(s)] = "read"
    /\ Leave(Sweeper(s))
    /\ UNCHANGED <<clock, disk, now, history>> /\ Silent

\* A manifest that vanished meanwhile is taken for a corrupt one.
SweepRead(s) ==
    /\ at[Sweeper(s)] = "read"
    /\ IF Published(on[Sweeper(s)]) /\ ~ ExpiredAt(on[Sweeper(s)], now[s])
         THEN Leave(Sweeper(s))
         ELSE Goto(Sweeper(s), "list") /\ UNCHANGED <<on, todo>>
    /\ UNCHANGED <<clock, disk, now, history>> /\ Silent

-----------------------------------------------------------------------------
CallStep(s) ==
    \/ SendFile(s) \/ Refuse(s) \/ Stage(s) \/ Copy(s) \/ StagingFails(s)
    \/ Publish(s) \/ Load(s) \/ Announce(s)
    \/ Fetch(s) \/ Open(s) \/ Delete(s) \/ NotFound(s)

RemovalStep(a) == List(a) \/ Unlink(a) \/ Rmdir(a)

SweepStep(s) == SweepStart(s) \/ SweepRead(s) \/ \E t \in Ids : SweepLook(s, t)

Next ==
    \/ Tick
    \/ \E s \in Sessions : Crash(s) \/ Restart(s) \/ CallStep(s)
    \/ \E s \in Sweepers : SweepStep(s)
    \/ \E a \in Actors : RemovalStep(a)

Spec == Init /\ [][Next]_vars

\* A sweep that runs goes on, starts another pass and looks at every directory
\* again and again; the removals of a live process end.
FairSpec ==
    /\ Spec
    /\ \A s \in Sweepers :
        /\ SF_vars(SweepStart(s)) /\ WF_vars(SweepRead(s))
        /\ \A t \in 1..MaxTransfers : SF_vars(t \in Ids /\ SweepLook(s, t))
    /\ \A a \in Actors : WF_vars(RemovalStep(a))

-----------------------------------------------------------------------------
(* Properties.                                                             *)

\* The shape of the state, which stages have a transfer to work on, and that no
\* transfer stays for longer than the operator's maximum.
TypeOK ==
    /\ clock \in 0..MaxTime
    /\ manifests \in Seq([sender : Agents, recipient : Agents, expires : Int])
    /\ files \in Seq(SUBSET Entries) /\ Len(files) = Len(manifests)
    /\ \A t \in Ids : files[t] # {} => "dir" \in files[t]
    /\ \A t \in Ids : manifests[t].expires <= clock + MaxTtl
    /\ at \in [Actors -> Stages]
    /\ on \in [Actors -> 0..Len(manifests)]
    /\ \A a \in Actors : on[a] = 0 <=> at[a] \in {"down", "idle", "stage"}
    /\ todo \in [Actors -> SUBSET Payload]
    /\ now \in [Sweepers -> 0..clock]
    /\ reply \in [how : Replies \cup {"none"}, on : 0..Len(manifests)]
    /\ handed \cup deleted \cup cut \subseteq Ids
    /\ most \in [Agents -> Nat]

AtWork(t, stages) == \E a \in Actors : on[a] = t /\ at[a] \in stages

\* stage_file's quota is counted before the copy, with no lock, and sessions of
\* the same agent may all count before any of them publishes: an agent is over its
\* quota by less than the calls of its that were past the count at once.
WithinQuota ==
    \A agent \in Agents :
        Pending(agent) > 0 => Pending(agent) < MaxPending + most[agent]

\* ADR-007 4.3, the file is valid the moment the manifest is written: whoever
\* finds the manifest finds the file, unless a removal is at work or was cut
\* short in between.
ManifestMeansFile ==
    \A t \in Ids :
        Published(t) /\ "payload" \notin files[t] => AtWork(t, {"unlink"}) \/ t \in cut

\* Whatever is swept or deleted around it, a transfer that somebody was told of
\* is there until it expires or its deletion is asked for: a call that does not
\* find it, however many steps it takes, came after one or the other.
FoundWhenFresh ==
    reply.how = "missing" => reply.on \in deleted \/ Expired(reply.on)

\* agent_delete_file answers "deleted" once nothing is left, though sweeps and
\* the other party may be removing the same directory.
DeletedIsGone ==
    reply.how = "deleted" => files[reply.on] = {}

\* What no sweep will ever look at, a directory without a manifest, is being
\* staged or removed by somebody, unless that was cut short.
NoneLeaked ==
    \A t \in Ids :
        files[t] # {} /\ ~ Published(t) => AtWork(t, Staging \cup Removing) \/ t \in cut

\* README, expired file transfers are swept automatically: every one of them
\* that was published disappears, entirely, unless somebody was killed, or
\* stopped by an error, while removing it.
ExpiredIsSwept ==
    \A t \in 1..MaxTransfers :
        (t \in Ids /\ Published(t) /\ Expired(t)) ~> (t \in Ids /\ (files[t] = {} \/ t \in cut))
=============================================================================
