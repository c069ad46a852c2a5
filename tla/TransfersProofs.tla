--------------------------- MODULE TransfersProofs ---------------------------
(***************************************************************************)
(* What TLAPS proves of Transfers, for any sessions, sweep threads and     *)
(* bounds: the types, the quota, that a manifest means a file, that fresh  *)
(* transfers are found, deleted ones gone, and none forgotten.             *)
(*                                                                         *)
(* StageInv says that a transfer which is being staged is in the hands of  *)
(* its stager alone, and what every removal still has to remove.  The rest *)
(* follows from it: FreshInv says what a transfer that was ever published  *)
(* may lack, OrderInv in which order removals take its entries, LeakInv    *)
(* who will finish one that is incomplete.                                 *)
(***************************************************************************)
EXTENDS Transfers, DataLemmas

-----------------------------------------------------------------------------
(* The invariants.                                                         *)

Resting == {"down", "idle", "stage"}
\* The stages of a call whose transfer was published before.
Holding == {"load", "announce", "open", "read"}

\* What the stager of a transfer has written of it.
Staged(stage) == IF stage = "copy" THEN {"dir", "copy"} ELSE {"dir", "payload"}

\* The threads of a process die together.
DownInv == \A s \in Sessions : \A a \in Threads(s) : at[Call(s)] = "down" => at[a] = "down"

\* Nobody but its stager has to do with a transfer before it is published; those
\* that others have to do with have no partial copy; a removal has listed
\* everything that is left.
StageInv ==
    /\ \A a \in Actors : at[a] \in Staging =>
          /\ files[on[a]] = Staged(at[a])
          /\ on[a] \notin handed
          /\ \A b \in Actors \ {a} : on[b] # on[a]
    /\ \A a \in Actors : at[a] \in Holding \cup Removing => "copy" \notin files[on[a]]
    /\ \A t \in Ids : t \in handed \/ Published(t) => "copy" \notin files[t]
    /\ \A a \in Actors : at[a] = "unlink" => files[on[a]] \subseteq todo[a] \cup {"dir"}

\* The bound on transfers counts the calls that are about to make one.
RoomInv == IsFiniteSet(Entering) /\ Len(manifests) + Cardinality(Entering) <= MaxTransfers

\* A call may not find t.
Missed(t) == t \in deleted \/ Expired(t)
Whole(t) == Payload \subseteq files[t]

\* A transfer that was ever published has both its files unless it has expired or
\* its deletion was asked for, and only such a one is being removed.
FreshInv ==
    /\ \A t \in Ids : t \in handed \/ Published(t) => Whole(t) \/ Missed(t)
    /\ \A a \in Actors : at[a] \in Holding => Whole(on[a]) \/ Missed(on[a])
    /\ \A a \in Actors : at[a] \in Removing => Missed(on[a])

\* Removals take the entries in the order of the directory.
OrderInv ==
    \A t \in Ids : t \in cut \/ AtWork(t, Staging) \/ (First[t] \in files[t] => Whole(t))

\* A removal whose next entry is still there.
InSync(a) == at[a] = "unlink" /\ todo[a] \subseteq files[on[a]]

\* A directory that lacks a file will be completed by its stager or removed by
\* somebody whom no other removal stops.
LeakInv ==
    \A t \in Ids : files[t] # {} /\ ~ Whole(t) =>
        \/ t \in cut
        \/ \E a \in Actors : on[a] = t /\ (at[a] \in Staging \/ InSync(a))

\* What the stager publishes counts for its own agent.
SenderInv == \A s \in Sessions : at[Call(s)] \in Staging => manifests[on[Call(s)]].sender = Owner[s]

\* What passed the quota counts as if it was published, and has been noted.
QuotaInv ==
    \A agent \in Agents :
        LET n == Cardinality(Passed(agent))
        IN  /\ n <= most[agent]
            /\ Pending(agent) + n > 0 => Pending(agent) + n < MaxPending + most[agent]

-----------------------------------------------------------------------------
(* The threads of the sessions.                                            *)

\* Each session has its tool call, those with a sweep thread have two actors.
LEMMA ActorNames ==
    /\ \A s \in Sessions : Call(s) \in Actors /\ Call(s)[2] = "call" /\ Call(s)[1] = s
    /\ \A s \in Sweepers : Sweeper(s) \in Actors /\ Sweeper(s)[2] = "sweep" /\ Sweeper(s)[1] = s
    /\ \A a \in Actors : \/ a[2] = "call" /\ a[1] \in Sessions /\ a = Call(a[1])
                         \/ a[2] = "sweep" /\ a[1] \in Sweepers /\ a = Sweeper(a[1])
    /\ \A s \in Sessions : Call(s) \in Threads(s) /\ \A a \in Threads(s) : a \in Actors /\ a[1] = s
<1>1. Sweepers \subseteq Sessions
  BY TransfersAssumption
<1> QED
  BY <1>1 DEF Actors, Threads, Call, Sweeper

-----------------------------------------------------------------------------
(* The types.                                                              *)

\* What the types and StageInv say of the transfer an actor works on.
LEMMA OnTransfer ==
    ASSUME TypeOK
    PROVE  /\ Len(manifests) \in Nat /\ Len(files) = Len(manifests)
           /\ files \in Seq(SUBSET Entries) /\ DOMAIN files = Ids /\ Ids \subseteq Nat \ {0}
           /\ \A t \in Ids : files[t] \in SUBSET Entries /\ manifests[t].expires \in Int
           /\ \A a \in Actors : /\ at[a] \in Stages /\ on[a] \in 0..Len(manifests)
                                /\ at[a] \notin Resting => on[a] \in Ids
                                /\ at[a] \in Resting => on[a] = 0
                                /\ todo[a] \in SUBSET Payload
           /\ clock \in Nat
<1>1. Len(manifests) \in Nat
  BY LenProperties DEF TypeOK
<1>2. DOMAIN files = Ids /\ Ids \subseteq Nat \ {0} /\ \A t \in Ids : files[t] \in SUBSET Entries
  BY <1>1, ElementOfSeq, LenProperties, SMTT(30) DEF TypeOK, Ids
<1>3. ASSUME NEW t \in Ids
      PROVE  manifests[t].expires \in Int
  <2>1. manifests[t] \in [sender : Agents, recipient : Agents, expires : Int]
    BY ElementOfSeq DEF TypeOK, Ids
  <2> QED
    BY <2>1
<1>4. clock \in Nat
  BY TransfersAssumption DEF TypeOK
<1> QED
  BY <1>1, <1>2, <1>3, <1>4 DEF TypeOK, Resting, Ids

\* Steps that do not touch a transfer, and let go of theirs or keep it.
Rests ==
    /\ UNCHANGED disk
    /\ \A a \in Actors :
        \/ at'[a] = at[a] /\ on'[a] = on[a] /\ todo'[a] = todo[a]
        \/ /\ at'[a] \in Resting /\ on'[a] = 0
           /\ at[a] \in Staging \/ InSync(a) => on[a] \in cut'
    /\ handed' \subseteq handed \cup {on[a] : a \in {b \in Actors : at[b] = "announce"}}
    /\ deleted' = deleted /\ cut \subseteq cut'

\* The threads, wherever they are.
ThreadsOK ==
    /\ at \in [Actors -> Stages]
    /\ on \in [Actors -> 0..Len(manifests)]
    /\ \A a \in Actors : on[a] = 0 <=> at[a] \in Resting
    /\ todo \in [Actors -> SUBSET Payload]

\* A step that leaves the directories and manifests alone keeps the types if it
\* keeps those of what it changes.
LEMMA TypesKept ==
    ASSUME TypeOK, UNCHANGED disk, clock' \in 0..MaxTime, clock <= clock', ThreadsOK',
           now' \in [Sweepers -> 0..clock'],
           reply' = NoReply \/ \E how \in Replies, t \in 0..Len(manifests) : reply' = Reply(how, t),
           handed' \cup deleted' \cup cut' \subseteq Ids,
           most' = most \/ most' \in [Agents -> Nat]
    PROVE  TypeOK'
<1>1. reply' \in [how : Replies \cup {"none"}, on : 0..Len(manifests)]
  BY OnTransfer DEF Reply, NoReply
<1>2. ASSUME NEW t \in Ids
      PROVE  manifests[t].expires <= clock' + MaxTtl
  <2>1. manifests[t].expires \in Int /\ clock \in Nat /\ clock' \in Int /\ MaxTtl \in Int
    BY OnTransfer, TransfersAssumption
  <2>2. manifests[t].expires <= clock + MaxTtl /\ clock <= clock'
    BY DEF TypeOK
  <2> QED
    BY <2>1, <2>2
<1>3. manifests' = manifests /\ files' = files /\ Ids' = Ids
  BY DEF disk, Ids
<1> QED
  BY <1>1, <1>2, <1>3 DEF TypeOK, ThreadsOK, Resting

\* The same of a step that takes no time and belongs to no sweep.
LEMMA CallKept ==
    ASSUME TypeOK, UNCHANGED <<clock, disk, now>>, ThreadsOK',
           reply' = NoReply \/ \E how \in Replies, t \in 0..Len(manifests) : reply' = Reply(how, t),
           handed' \cup deleted' \cup cut' \subseteq Ids, most' = most
    PROVE  TypeOK'
<1>1. clock' \in 0..MaxTime /\ clock <= clock' /\ now' \in [Sweepers -> 0..clock']
  BY OnTransfer DEF TypeOK
<1> QED
  BY <1>1, TypesKept

\* The same of one that tells nobody anything.
LEMMA SilentKept ==
    ASSUME TypeOK, UNCHANGED <<clock, disk, now>>, ThreadsOK', Silent,
           handed' \cup deleted' \cup cut' \subseteq Ids, most' = most
    PROVE  TypeOK'
BY CallKept DEF Silent

\* A thread that is done.
LEMMA Left ==
    ASSUME TypeOK, NEW a \in Actors, Leave(a), UNCHANGED manifests
    PROVE  /\ ThreadsOK' /\ at'[a] = "idle" /\ on'[a] = 0
           /\ \A b \in Actors \ {a} : at'[b] = at[b] /\ on'[b] = on[b] /\ todo'[b] = todo[b]
BY OnTransfer DEF Leave, Goto, TypeOK, ThreadsOK, Stages, Resting

\* A thread that goes on with t.
LEMMA Went ==
    ASSUME TypeOK, NEW a \in Actors, NEW where \in Stages, Goto(a, where),
           NEW t \in 0..Len(manifests'), t = 0 <=> where \in Resting,
           Len(manifests) <= Len(manifests'), Len(manifests') \in Nat,
           \/ on' = [on EXCEPT ![a] = t]
           \/ on' = on /\ on[a] = t,
           todo' = todo \/ \E es \in SUBSET Payload : todo' = [todo EXCEPT ![a] = es]
    PROVE  /\ ThreadsOK' /\ at'[a] = where /\ on'[a] = t
           /\ \A b \in Actors \ {a} : at'[b] = at[b] /\ on'[b] = on[b] /\ todo'[b] = todo[b]
<1>1. 0..Len(manifests) \subseteq 0..Len(manifests')
  BY OnTransfer
<1>2. on' \in [Actors -> 0..Len(manifests')] /\ todo' \in [Actors -> SUBSET Payload]
  BY <1>1 DEF TypeOK
<1>3. on'[a] = t /\ \A b \in Actors \ {a} : on'[b] = on[b] /\ todo'[b] = todo[b]
  BY DEF TypeOK
<1> QED
  BY <1>2, <1>3 DEF Goto, TypeOK, ThreadsOK, Stages, Resting

\* A call that ends lets its transfer rest.
LEMMA Ends ==
    ASSUME TypeOK, NEW s \in Sessions, NEW how, End(s, how), UNCHANGED <<clock, disk, now>>,
           at[Call(s)] \in Staging \/ InSync(Call(s)) => on[Call(s)] \in cut',
           handed' \in {handed, handed \cup {on[Call(s)]}},
           handed' = handed \/ at[Call(s)] = "announce", deleted' = deleted,
           cut' \in {cut, cut \cup {on[Call(s)]}}, cut' = cut \/ at[Call(s)] \notin Resting,
           most' = most
    PROVE  TypeOK' /\ Rests
<1>1. Call(s) \in Actors /\ Leave(Call(s))
  BY ActorNames DEF End
<1>2. /\ ThreadsOK' /\ at'[Call(s)] = "idle" /\ on'[Call(s)] = 0
      /\ \A b \in Actors \ {Call(s)} : at'[b] = at[b] /\ on'[b] = on[b] /\ todo'[b] = todo[b]
  BY <1>1, Left DEF disk
<1>3. Rests
  BY <1>1, <1>2 DEF Rests, Resting
<1>4. reply' = NoReply \/ \E how2 \in Replies, t \in 0..Len(manifests) : reply' = Reply(how2, t)
  BY <1>1, OnTransfer DEF End
<1>5. handed' \cup deleted' \cup cut' \subseteq Ids
  BY <1>1, OnTransfer DEF TypeOK, Resting
<1> QED
  BY <1>2, <1>3, <1>4, <1>5, CallKept

\* The sessions, and those of them that have passed the quota, can be counted.
LEMMA PassedCounted ==
    ASSUME NEW agent
    PROVE  IsFiniteSet(Passed(agent)) /\ Cardinality(Passed(agent)) \in Nat
<1>1. Passed(agent) \subseteq Sessions /\ IsFiniteSet(Sessions)
  BY TransfersAssumption DEF Passed
<1> QED
  BY <1>1, FS_Subset, FS_CardinalityType

\* What a call that passes the quota does to the count of its agent's.
LEMMA NotedWell ==
    ASSUME TypeOK, NEW s \in Sessions, SendFile(s)
    PROVE  /\ most' \in [Agents -> Nat] /\ Owner[s] \in Agents
           /\ most'[Owner[s]] >= Cardinality(Passed(Owner[s])) + 1
<1>1. Owner[s] \in Agents /\ most \in [Agents -> Nat] /\ Noted(Owner[s])
  BY TransfersAssumption DEF SendFile, TypeOK
<1>2. Cardinality(Passed(Owner[s])) \in Nat
  BY PassedCounted
<1> DEFINE n == Cardinality(Passed(Owner[s])) + 1
<1>3. n \in Nat /\ most' = [most EXCEPT ![Owner[s]] = IF n > @ THEN n ELSE @]
  BY <1>1, <1>2 DEF Noted
<1> HIDE DEF n
<1>4. most' \in [Agents -> Nat] /\ most'[Owner[s]] >= n
  BY <1>1, <1>3
<1> QED
  BY <1>1, <1>4 DEF n

\* The steps of a call that touch no transfer and take none up.
LEMMA CallRests ==
    ASSUME TypeOK, NEW s \in Sessions,
           \/ SendFile(s) \/ Refuse(s) \/ StagingFails(s) \/ Announce(s) \/ Open(s) \/ NotFound(s)
           \/ Load(s) /\ ~ Published(on[Call(s)])
    PROVE  TypeOK' /\ Rests
<1>0. Call(s) \in Actors /\ handed \cup deleted \cup cut \subseteq Ids
  BY ActorNames DEF TypeOK
<1>1. CASE SendFile(s)
  <2>0. /\ Goto(Call(s), "stage") /\ UNCHANGED <<manifests, on, todo>>
        /\ on[Call(s)] = 0 /\ at[Call(s)] = "idle"
    BY <1>0, <1>1, OnTransfer DEF SendFile, disk, Resting
  <2>1. ThreadsOK' /\ at'[Call(s)] = "stage" /\ on'[Call(s)] = 0
        /\ \A b \in Actors \ {Call(s)} : at'[b] = at[b] /\ on'[b] = on[b] /\ todo'[b] = todo[b]
    BY <1>0, <2>0, Went, OnTransfer DEF Stages, Resting
  <2>2. Rests
    BY <1>1, <2>0, <2>1 DEF SendFile, Rests, Resting, Staging, InSync, history
  <2>3. most' = most \/ most' \in [Agents -> Nat]
    BY <1>1, NotedWell DEF SendFile
  <2>4. clock' \in 0..MaxTime /\ clock <= clock' /\ now' \in [Sweepers -> 0..clock']
    BY <1>1, OnTransfer DEF SendFile, TypeOK
  <2> QED
    BY <1>0, <1>1, <2>1, <2>2, <2>3, <2>4, TypesKept DEF SendFile, Silent
<1>2. CASE NotFound(s)
  <2>1. ThreadsOK' /\ Rests
    BY <1>2 DEF NotFound, Rests, history, TypeOK, ThreadsOK, Resting, disk
  <2>2. \E t \in 0..Len(manifests) : reply' = Reply("missing", t)
    BY <1>0, <1>2, OnTransfer DEF NotFound, Ids
  <2> QED
    BY <1>0, <1>2, <2>1, <2>2, CallKept DEF NotFound, history, Replies
<1>3. CASE Refuse(s)
  BY <1>3, Ends DEF Refuse, history, Staging, InSync
<1>4. CASE StagingFails(s)
  BY <1>4, Ends DEF StagingFails, Staging, Resting
<1>5. CASE Announce(s)
  BY <1>5, Ends DEF Announce, Staging, InSync
<1>6. CASE Open(s)
  BY <1>6, Ends DEF Open, history, Staging, InSync
<1>7. CASE Load(s) /\ ~ Published(on[Call(s)])
  BY <1>7, Ends DEF Load, history, Staging, InSync
<1> QED
  BY <1>1, <1>2, <1>3, <1>4, <1>5, <1>6, <1>7

\* Time, deaths, and the steps of a sweep thread that touch no transfer and take
\* none up.
LEMMA OthersRest ==
    ASSUME TypeOK, DownInv,
           \/ Tick
           \/ \E s \in Sessions : Crash(s) \/ Restart(s)
           \/ \E s \in Sweepers : SweepStart(s) \/ (SweepRead(s) /\ Leave(Sweeper(s)))
    PROVE  TypeOK' /\ Rests
<1>0. handed \cup deleted \cup cut \subseteq Ids /\ clock \in Nat
  BY OnTransfer DEF TypeOK
<1>1. CASE Tick
  <2>1. ThreadsOK' /\ Rests
    BY <1>1 DEF Tick, Rests, history, TypeOK, ThreadsOK, Resting, disk
  <2>2. clock' \in 0..MaxTime /\ clock <= clock' /\ now' \in [Sweepers -> 0..clock']
    BY <1>0, <1>1, TransfersAssumption DEF Tick, TypeOK
  <2> QED
    BY <1>0, <1>1, <2>1, <2>2, TypesKept DEF Tick, Silent, history
<1>2. ASSUME NEW s \in Sessions, Crash(s)
      PROVE  TypeOK' /\ Rests
  <2>1. Threads(s) \subseteq Actors
    BY ActorNames
  <2>2. ThreadsOK'
    BY <1>2, OnTransfer DEF Crash, TypeOK, ThreadsOK, Resting, Stages, disk
  <2>3. Rests
    BY <1>2, <2>1 DEF Crash, Rests, Resting, InSync, Removing, disk
  <2>4. cut' \subseteq Ids
    BY <1>0, <1>2, <2>1, OnTransfer DEF Crash, Staging, Removing, Resting
  <2> QED
    BY <1>0, <1>2, <2>2, <2>3, <2>4, TypesKept DEF Crash, Silent, TypeOK
<1>3. ASSUME NEW s \in Sessions, Restart(s)
      PROVE  TypeOK' /\ Rests
  <2>1. Threads(s) \subseteq Actors /\ \A a \in Threads(s) : at[a] = "down"
    BY <1>3, ActorNames DEF Restart, DownInv
  <2>2. ThreadsOK'
    BY <1>3, <2>1, OnTransfer DEF Restart, TypeOK, ThreadsOK, Resting, Stages, disk
  <2>3. Rests
    BY <1>3, <2>1, OnTransfer DEF Restart, Rests, Resting, Staging, InSync, history
  <2>4. now' \in [Sweepers -> 0..clock']
    BY <1>0, <1>3 DEF Restart, TypeOK
  <2> QED
    BY <1>0, <1>3, <2>2, <2>3, <2>4, TypesKept DEF Restart, Silent, history, TypeOK
<1>4. ASSUME NEW s \in Sweepers, SweepStart(s)
      PROVE  TypeOK' /\ Rests
  <2>1. ThreadsOK' /\ Rests
    BY <1>4 DEF SweepStart, Rests, history, TypeOK, ThreadsOK, Resting, disk
  <2>2. now' \in [Sweepers -> 0..clock']
    BY <1>0, <1>4 DEF SweepStart, TypeOK
  <2>3. /\ UNCHANGED <<disk, clock, handed, deleted, most, cut>> /\ Silent
        /\ clock' \in 0..MaxTime /\ clock <= clock'
    BY <1>0, <1>4 DEF SweepStart, history, TypeOK
  <2> QED
    BY <1>0, <2>1, <2>2, <2>3, TypesKept DEF Silent
<1>5. ASSUME NEW s \in Sweepers, SweepRead(s), Leave(Sweeper(s))
      PROVE  TypeOK' /\ Rests
  <2>0. Sweeper(s) \in Actors /\ at[Sweeper(s)] = "read" /\ UNCHANGED <<clock, disk, now, history>>
        /\ Silent
    BY <1>5, ActorNames DEF SweepRead
  <2>1. /\ ThreadsOK' /\ at'[Sweeper(s)] = "idle" /\ on'[Sweeper(s)] = 0
        /\ \A b \in Actors \ {Sweeper(s)} : at'[b] = at[b] /\ on'[b] = on[b] /\ todo'[b] = todo[b]
    BY <1>5, <2>0, Left DEF disk
  <2>2. Rests
    BY <2>0, <2>1 DEF Rests, Resting, Staging, InSync, history
  <2> QED
    BY <1>0, <2>0, <2>1, <2>2, TypesKept DEF Silent, history, TypeOK
<1> QED
  BY <1>1, <1>2, <1>3, <1>4, <1>5

\* Only actor a moves.
OnlyMoves(a) == \A b \in Actors \ {a} : at'[b] = at[b] /\ on'[b] = on[b] /\ todo'[b] = todo[b]

\* Actor a takes up transfer t, which somebody was told of or which it has found.
TakesUp(a, t) ==
    /\ t \in Ids /\ (t \in handed \/ Published(t))
    /\ at[a] = "idle" /\ at'[a] \in {"open", "list", "read"} /\ on'[a] = t
    /\ at'[a] = "list" => t \in deleted'
    /\ OnlyMoves(a)
    /\ UNCHANGED <<clock, disk, handed, cut>> /\ deleted \subseteq deleted'

\* Actor a goes on with its transfer: it has found the manifest it wrote, or it
\* has seen no reason to spare the transfer.
GoesOn(a) ==
    /\ \/ at[a] = "load" /\ at'[a] = "announce" /\ Published(on[a])
       \/ at[a] = "read" /\ at'[a] = "list" /\ (~ Published(on[a]) \/ Expired(on[a]))
    /\ on'[a] = on[a]
    /\ OnlyMoves(a)
    /\ UNCHANGED <<clock, disk, history>>

\* A call to fetch or delete begins with a transfer it was told of.
LEMMA FetchTakesUp ==
    ASSUME TypeOK, NEW s \in Sessions, Fetch(s) \/ Delete(s)
    PROVE  TypeOK' /\ \E t \in Ids : TakesUp(Call(s), t)
<1>0. Call(s) \in Actors /\ Call(s)[2] = "call" /\ handed \cup deleted \cup cut \subseteq Ids
  BY ActorNames DEF TypeOK
<1>1. ASSUME NEW t \in handed, Published(t), NEW where \in {"open", "list"},
             at[Call(s)] = "idle", Goto(Call(s), where), on' = [on EXCEPT ![Call(s)] = t],
             UNCHANGED <<clock, disk, todo, now, handed, most, cut>>, Silent,
             deleted' = IF where = "list" THEN deleted \cup {t} ELSE deleted
      PROVE  TypeOK' /\ TakesUp(Call(s), t)
  <2>0. /\ manifests' = manifests /\ todo' = todo
        /\ Len(manifests') \in Nat /\ Len(manifests) <= Len(manifests')
        /\ t \in 0..Len(manifests') /\ t # 0 /\ where \in Stages \ Resting
    BY <1>0, <1>1, OnTransfer DEF disk, Ids, Stages, Removing, Resting
  <2>1. ThreadsOK' /\ at'[Call(s)] = where /\ on'[Call(s)] = t /\ OnlyMoves(Call(s))
    BY <1>0, <1>1, <2>0, Went DEF OnlyMoves
  <2>2. TakesUp(Call(s), t)
    BY <1>0, <1>1, <2>1 DEF TakesUp
  <2>3. deleted' \subseteq Ids
    BY <1>0, <1>1
  <2> QED
    BY <1>0, <1>1, <2>1, <2>2, <2>3, SilentKept
<1>2. CASE Fetch(s)
  BY <1>0, <1>1, <1>2 DEF Fetch, history
<1>3. CASE Delete(s)
  BY <1>0, <1>1, <1>3 DEF Delete, history
<1> QED
  BY <1>2, <1>3

\* The sweep comes to a directory it has found.
LEMMA SweepTakesUp ==
    ASSUME TypeOK, NEW s \in Sweepers, NEW t \in Ids, SweepLook(s, t)
    PROVE  TypeOK' /\ TakesUp(Sweeper(s), t)
<1>0. Sweeper(s) \in Actors /\ handed \cup deleted \cup cut \subseteq Ids
  BY ActorNames DEF TypeOK
<1>1. /\ at[Sweeper(s)] = "idle" /\ Published(t) /\ Goto(Sweeper(s), "read")
      /\ on' = [on EXCEPT ![Sweeper(s)] = t]
      /\ UNCHANGED <<clock, disk, todo, now, handed, deleted, most, cut>> /\ Silent
  BY DEF SweepLook, history
<1>2. ThreadsOK' /\ at'[Sweeper(s)] = "read" /\ on'[Sweeper(s)] = t /\ OnlyMoves(Sweeper(s))
  <2>1. /\ manifests' = manifests /\ todo' = todo
        /\ Len(manifests') \in Nat /\ Len(manifests) <= Len(manifests')
        /\ t \in 0..Len(manifests') /\ t # 0 /\ "read" \in Stages \ Resting
    BY <1>1, OnTransfer DEF disk, Ids, Stages, Resting
  <2> QED
    BY <1>0, <1>1, <2>1, Went DEF OnlyMoves
<1>3. TakesUp(Sweeper(s), t)
  BY <1>1, <1>2 DEF TakesUp
<1> QED
  BY <1>0, <1>1, <1>2, <1>3, SilentKept

\* The sender reads back the manifest it has written.
LEMMA CallGoesOn ==
    ASSUME TypeOK, NEW s \in Sessions, Load(s), Published(on[Call(s)])
    PROVE  TypeOK' /\ GoesOn(Call(s))
<1>0. Call(s) \in Actors /\ handed \cup deleted \cup cut \subseteq Ids
  BY ActorNames DEF TypeOK
<1>1. /\ at[Call(s)] = "load" /\ Goto(Call(s), "announce")
      /\ UNCHANGED <<clock, disk, on, todo, now, handed, deleted, most, cut>> /\ Silent
  BY DEF Load, history
<1>2. on[Call(s)] \in Ids
  BY <1>0, <1>1, OnTransfer DEF Resting
<1>3. ThreadsOK' /\ at'[Call(s)] = "announce" /\ on'[Call(s)] = on[Call(s)] /\ OnlyMoves(Call(s))
  BY <1>0, <1>1, <1>2, OnTransfer, Went DEF disk, Ids, Stages, Resting, OnlyMoves
<1>4. GoesOn(Call(s))
  BY <1>1, <1>3 DEF GoesOn, history
<1> QED
  BY <1>0, <1>1, <1>3, <1>4, SilentKept

\* The sweep read a manifest that has expired, or found none to read.
LEMMA SweepGoesOn ==
    ASSUME TypeOK, NEW s \in Sweepers, SweepRead(s), ~ Leave(Sweeper(s))
    PROVE  TypeOK' /\ GoesOn(Sweeper(s))
<1>0. Sweeper(s) \in Actors /\ handed \cup deleted \cup cut \subseteq Ids
  BY ActorNames DEF TypeOK
<1>1. /\ at[Sweeper(s)] = "read" /\ Goto(Sweeper(s), "list")
      /\ UNCHANGED <<clock, disk, on, todo, now, handed, deleted, most, cut>> /\ Silent
      /\ ~ Published(on[Sweeper(s)]) \/ ExpiredAt(on[Sweeper(s)], now[s])
  BY DEF SweepRead, history
<1>2. on[Sweeper(s)] \in Ids
  BY <1>0, <1>1, OnTransfer DEF Resting
<1>3. /\ ThreadsOK' /\ at'[Sweeper(s)] = "list" /\ on'[Sweeper(s)] = on[Sweeper(s)]
      /\ OnlyMoves(Sweeper(s))
  BY <1>0, <1>1, <1>2, OnTransfer, Went DEF disk, Ids, Stages, Removing, Resting, OnlyMoves
<1>4. now[s] \in 0..clock /\ clock \in Nat /\ manifests[on[Sweeper(s)]].expires \in Int
  BY <1>2, OnTransfer DEF TypeOK
<1>5. GoesOn(Sweeper(s))
  BY <1>1, <1>3, <1>4 DEF GoesOn, history, Expired, ExpiredAt
<1> QED
  BY <1>0, <1>1, <1>3, <1>5, SilentKept

\* The directory of t becomes new, nothing else on the disk changes.
Changes(t, new) ==
    /\ UNCHANGED manifests
    /\ t \in Ids /\ files'[t] = new
    /\ \A u \in Ids \ {t} : files'[u] = files[u]

\* The types, when the directory of one transfer changes.
LEMMA Changed ==
    ASSUME TypeOK, ThreadsOK', NEW t \in Ids, NEW new \in SUBSET Entries,
           new = {} \/ "dir" \in new,
           files' = [files EXCEPT ![t] = new],
           UNCHANGED <<clock, manifests, now, handed, deleted, most, cut>>,
           reply' = NoReply \/ \E how \in Replies, u \in 0..Len(manifests) : reply' = Reply(how, u)
    PROVE  TypeOK' /\ Changes(t, new)
<1>1. /\ files' \in Seq(SUBSET Entries) /\ Len(files') = Len(files) /\ files'[t] = new
      /\ \A u \in 1..Len(files) \ {t} : files'[u] = files[u]
  BY OnTransfer, Replaced DEF Ids
<1>2. reply' \in [how : Replies \cup {"none"}, on : 0..Len(manifests)]
  BY OnTransfer DEF Reply, NoReply
<1>3. Changes(t, new)
  BY <1>1, OnTransfer DEF Changes, Ids
<1>4. \A u \in Ids : files'[u] # {} => "dir" \in files'[u]
  BY <1>1, OnTransfer DEF TypeOK, Ids
<1> QED
  BY <1>1, <1>2, <1>3, <1>4 DEF TypeOK, ThreadsOK, Resting, Ids

\* A call of s writes the next of its files.
Writes(s) ==
    /\ at[Call(s)] \in Staging /\ on'[Call(s)] = on[Call(s)] /\ OnlyMoves(Call(s))
    /\ IF at[Call(s)] = "copy"
         THEN /\ at'[Call(s)] = "publish"
              /\ Changes(on[Call(s)], (files[on[Call(s)]] \ {"copy"}) \cup {"payload"})
         ELSE /\ at'[Call(s)] = "load"
              /\ Changes(on[Call(s)], files[on[Call(s)]] \cup {"manifest"})
    /\ UNCHANGED <<clock, todo, history>>

\* Copying and publishing write one file each.
LEMMA StagerWrites ==
    ASSUME TypeOK, StageInv, NEW s \in Sessions, Copy(s) \/ Publish(s)
    PROVE  TypeOK' /\ Writes(s)
<1> DEFINE t == on[Call(s)]
<1>0. Call(s) \in Actors
  BY ActorNames
<1>1. /\ at[Call(s)] \in Staging /\ UNCHANGED <<clock, manifests, on, todo, now, handed, deleted, most, cut>>
      /\ Silent
  BY DEF Copy, Publish, history, Staging
<1>2. t \in Ids /\ files[t] = Staged(at[Call(s)]) /\ t \in 0..Len(manifests) /\ t # 0
  BY <1>0, <1>1, OnTransfer DEF StageInv, Staging, Resting, Ids
<1>3. PICK where \in {"publish", "load"} : Goto(Call(s), where)
  BY DEF Copy, Publish
<1>4. ThreadsOK' /\ at'[Call(s)] = where /\ on'[Call(s)] = t /\ OnlyMoves(Call(s))
  BY <1>0, <1>1, <1>2, <1>3, OnTransfer, Went DEF Stages, Staging, Resting, OnlyMoves
<1>5. CASE Copy(s)
  <2>1. /\ at[Call(s)] = "copy" /\ at'[Call(s)] = "publish"
        /\ files' = [files EXCEPT ![t] = (files[t] \ {"copy"}) \cup {"payload"}]
    BY <1>0, <1>2, <1>5, OnTransfer DEF Copy, Goto, TypeOK
  <2>2. (files[t] \ {"copy"}) \cup {"payload"} \in SUBSET Entries /\ "dir" \in files[t] \ {"copy"}
    BY <1>2, <2>1 DEF Staged, Entries, Payload
  <2>3. TypeOK' /\ Changes(t, (files[t] \ {"copy"}) \cup {"payload"})
    BY <1>1, <1>2, <1>4, <2>1, <2>2, Changed DEF Silent
  <2> QED
    BY <1>1, <1>4, <2>1, <2>3 DEF Writes, history
<1>6. CASE Publish(s)
  <2>1. /\ at[Call(s)] = "publish" /\ at'[Call(s)] = "load"
        /\ files' = [files EXCEPT ![t] = files[t] \cup {"manifest"}]
    BY <1>0, <1>2, <1>6, OnTransfer DEF Publish, Goto, TypeOK
  <2>2. files[t] \cup {"manifest"} \in SUBSET Entries /\ "dir" \in files[t]
    BY <1>2, <2>1 DEF Staged, Entries, Payload
  <2>3. TypeOK' /\ Changes(t, files[t] \cup {"manifest"})
    BY <1>1, <1>2, <1>4, <2>1, <2>2, Changed DEF Silent
  <2> QED
    BY <1>1, <1>4, <2>1, <2>3 DEF Writes, history
<1> QED
  BY <1>5, <1>6

\* A call of s makes the directory of a transfer.
Begins(s) ==
    LET t == Len(manifests) + 1
    IN  /\ at[Call(s)] = "stage" /\ at'[Call(s)] = "copy" /\ on'[Call(s)] = t
        /\ OnlyMoves(Call(s))
        /\ Len(manifests') = t /\ Len(files') = t
        /\ files'[t] = {"dir", "copy"} /\ manifests'[t].sender = Owner[s]
        /\ \A u \in Ids : files'[u] = files[u] /\ manifests'[u] = manifests[u]
        /\ UNCHANGED <<clock, todo, history>>

\* Staging makes the directory of the next transfer.
LEMMA StagerBegins ==
    ASSUME TypeOK, NEW s \in Sessions, Stage(s)
    PROVE  TypeOK' /\ Begins(s)
<1>0. /\ Call(s) \in Actors /\ Len(manifests) \in Nat /\ clock \in Nat
      /\ handed \cup deleted \cup cut \subseteq Ids
  BY ActorNames, OnTransfer DEF TypeOK
<1>1. PICK target \in Targets, ttl \in Ttls :
          manifests' = Append(manifests, Manifest(Owner[s], target, clock + Clamped(ttl)))
  BY DEF Stage
<1>2. /\ at[Call(s)] = "stage" /\ Goto(Call(s), "copy") /\ files' = Append(files, {"dir", "copy"})
      /\ on' = [on EXCEPT ![Call(s)] = Len(manifests')]
      /\ UNCHANGED <<clock, todo, now, handed, deleted, most, cut>> /\ reply' = NoReply
  BY DEF Stage, Silent, history
<1>3. PICK new : new = Manifest(Owner[s], target, clock + Clamped(ttl))
  OBVIOUS
<1>4. /\ new \in [sender : Agents, recipient : Agents, expires : Int]
      /\ new.sender = Owner[s] /\ new.expires <= clock + MaxTtl
  BY <1>0, <1>3, TransfersAssumption DEF Manifest, Clamped
<1>5. /\ manifests' \in Seq([sender : Agents, recipient : Agents, expires : Int])
      /\ Len(manifests') = Len(manifests) + 1 /\ manifests'[Len(manifests) + 1] = new
      /\ \A u \in 1..Len(manifests) : manifests'[u] = manifests[u]
  BY <1>1, <1>3, <1>4, Added DEF TypeOK
<1>6. /\ files' \in Seq(SUBSET Entries)
      /\ Len(files') = Len(manifests) + 1 /\ files'[Len(manifests) + 1] = {"dir", "copy"}
      /\ \A u \in 1..Len(manifests) : files'[u] = files[u]
  <2>1. {"dir", "copy"} \in SUBSET Entries
    BY DEF Entries
  <2> QED
    BY <1>2, <2>1, Added DEF TypeOK
<1>7. /\ ThreadsOK' /\ at'[Call(s)] = "copy" /\ on'[Call(s)] = Len(manifests) + 1
      /\ OnlyMoves(Call(s))
  <2>1. /\ Len(manifests') \in Nat /\ Len(manifests) <= Len(manifests')
        /\ Len(manifests') \in 0..Len(manifests') /\ Len(manifests') # 0
        /\ "copy" \in Stages \ Resting
    BY <1>0, <1>5 DEF Stages, Staging, Resting
  <2> QED
    BY <1>0, <1>2, <1>5, <2>1, Went DEF OnlyMoves
<1>8. Begins(s)
  BY <1>2, <1>4, <1>5, <1>6, <1>7 DEF Begins, Ids, history
<1>9. \A u \in Ids' : /\ files'[u] # {} => "dir" \in files'[u]
                      /\ manifests'[u].expires <= clock + MaxTtl
  <2>1. \A u \in Ids' : u \in Ids \/ u = Len(manifests) + 1
    BY <1>0, <1>5 DEF Ids
  <2> QED
    BY <1>4, <1>5, <1>6, <2>1 DEF TypeOK, Ids
<1>10. handed' \cup deleted' \cup cut' \subseteq Ids'
  BY <1>0, <1>2, <1>5 DEF Ids
<1>11. reply' \in [how : Replies \cup {"none"}, on : 0..Len(manifests')]
  BY <1>0, <1>2, <1>5 DEF Reply, NoReply
<1> QED
  BY <1>2, <1>5, <1>6, <1>7, <1>8, <1>9, <1>10, <1>11 DEF TypeOK, ThreadsOK, Resting

\* A removal that is over, whichever thread it was.
LEMMA Finishes ==
    ASSUME TypeOK, NEW a \in Actors, NEW how, Finish(a, how), UNCHANGED manifests
    PROVE  /\ ThreadsOK' /\ at'[a] = "idle" /\ on'[a] = 0 /\ OnlyMoves(a)
           /\ reply' \in {NoReply, Reply(how, on[a])}
           /\ reply' = NoReply \/ \E what \in Replies, t \in 0..Len(manifests) : reply' = Reply(what, t)
<1>1. Leave(a) /\ (reply' = NoReply \/ (reply' = Reply(how, on[a]) /\ how \in Replies))
  <2>1. CASE a[2] = "call"
    <3>1. Call(a[1]) = a /\ End(a[1], how)
      BY <2>1, ActorNames DEF Finish
    <3>2. Leave(a)
      BY <3>1 DEF End, Leave, Goto
    <3>3. reply' = IF how \in Replies THEN Reply(how, on[a]) ELSE NoReply
      BY <3>1 DEF End
    <3> QED
      BY <3>2, <3>3
  <2>2. CASE a[2] # "call"
    <3>1. Leave(a)
      BY <2>2 DEF Finish
    <3>2. reply' = NoReply
      BY <2>2 DEF Finish, Silent
    <3> QED
      BY <3>1, <3>2
  <2> QED
    BY <2>1, <2>2
<1>2. ThreadsOK' /\ at'[a] = "idle" /\ on'[a] = 0 /\ OnlyMoves(a)
  BY <1>1, Left DEF OnlyMoves
<1> QED
  BY <1>1, <1>2, OnTransfer

\* A removal has listed what there is.
Lists(a) ==
    /\ at[a] = "list" /\ at'[a] = "unlink" /\ on'[a] = on[a] /\ OnlyMoves(a)
    /\ todo'[a] = files[on[a]] \ {"dir"}
    /\ UNCHANGED <<clock, disk, history>>

\* It has removed an entry which was still there.
Unlinks(a) ==
    /\ at[a] = "unlink" /\ at'[a] = "unlink" /\ on'[a] = on[a] /\ OnlyMoves(a)
    /\ NextEntry(a) \in todo[a] /\ todo'[a] = todo[a] \ {NextEntry(a)}
    /\ Changes(on[a], files[on[a]] \ {NextEntry(a)})
    /\ UNCHANGED <<clock, history>>

\* It has removed the directory.
Removes(a) ==
    /\ at[a] = "unlink" /\ todo[a] = {} /\ at'[a] = "idle" /\ on'[a] = 0 /\ OnlyMoves(a)
    /\ Changes(on[a], files[on[a]] \ {"dir"})
    /\ UNCHANGED <<clock, history>>

\* Listing finds nothing to remove, or takes note of what is there.
LEMMA ListRemoves ==
    ASSUME TypeOK, StageInv, NEW a \in Actors, List(a)
    PROVE  TypeOK' /\ (Rests \/ Lists(a))
<1>0. /\ handed \cup deleted \cup cut \subseteq Ids /\ on[a] \in Ids /\ at[a] = "list"
      /\ UNCHANGED <<clock, manifests, files, now, handed, deleted, most, cut>>
      /\ on[a] \in 0..Len(manifests) /\ on[a] # 0
  BY OnTransfer DEF List, TypeOK, Resting, disk, history, Ids
<1>1. CASE files[on[a]] = {}
  <2>1. Finish(a, "missing")
    BY <1>1 DEF List
  <2>2. /\ ThreadsOK' /\ at'[a] = "idle" /\ on'[a] = 0 /\ OnlyMoves(a)
        /\ reply' = NoReply \/ \E what \in Replies, t \in 0..Len(manifests) : reply' = Reply(what, t)
    BY <1>0, <2>1, Finishes
  <2>3. Rests
    BY <1>0, <2>2 DEF Rests, OnlyMoves, Resting, Staging, InSync, disk
  <2> QED
    BY <1>0, <2>2, <2>3, CallKept DEF disk
<1>2. CASE files[on[a]] # {}
  <2>1. /\ todo' = [todo EXCEPT ![a] = files[on[a]] \ {"dir"}] /\ Goto(a, "unlink") /\ on' = on
        /\ reply' = NoReply
    BY <1>2 DEF List, Silent
  <2>2. files[on[a]] \ {"dir"} \in SUBSET Payload
    BY <1>0, OnTransfer DEF StageInv, Removing, Entries, Payload
  <2>3. /\ "unlink" \in Stages \ Resting
        /\ Len(manifests') \in Nat /\ Len(manifests) <= Len(manifests')
        /\ on[a] \in 0..Len(manifests')
    BY <1>0, OnTransfer DEF Stages, Removing, Resting
  <2>4. ThreadsOK' /\ at'[a] = "unlink" /\ on'[a] = on[a] /\ OnlyMoves(a)
    BY <1>0, <2>1, <2>2, <2>3, Went DEF OnlyMoves
  <2>5. Lists(a)
    BY <1>0, <2>1, <2>4 DEF Lists, TypeOK, disk, history
  <2> QED
    BY <1>0, <2>1, <2>4, <2>5, CallKept DEF disk
<1> QED
  BY <1>1, <1>2

\* The next entry is one of those left.
LEMMA Remaining ==
    ASSUME NEW a, todo[a] # {}
    PROVE  NextEntry(a) \in todo[a]
BY DEF NextEntry

\* Unlinking ends on an entry that is gone, or removes one.
LEMMA UnlinkRemoves ==
    ASSUME TypeOK, StageInv, NEW a \in Actors, Unlink(a)
    PROVE  TypeOK' /\ (Rests \/ Unlinks(a))
<1>0. /\ handed \cup deleted \cup cut \subseteq Ids /\ on[a] \in Ids /\ at[a] = "unlink"
      /\ UNCHANGED <<clock, manifests, now, handed, deleted, most, cut>>
      /\ on[a] \in 0..Len(manifests) /\ on[a] # 0
  BY OnTransfer DEF Unlink, TypeOK, Resting, history, Ids
<1>1. NextEntry(a) \in todo[a] /\ NextEntry(a) # "dir" /\ todo[a] \in SUBSET Payload
  BY Remaining, OnTransfer DEF Unlink, Payload
<1>2. CASE /\ files' = [files EXCEPT ![on[a]] = @ \ {NextEntry(a)}]
           /\ todo' = [todo EXCEPT ![a] = @ \ {NextEntry(a)}]
           /\ UNCHANGED <<at, on>> /\ Silent
  <2> DEFINE new == files[on[a]] \ {NextEntry(a)}
  <2>1. ThreadsOK' /\ OnlyMoves(a) /\ todo'[a] = todo[a] \ {NextEntry(a)}
    BY <1>0, <1>1, <1>2 DEF TypeOK, ThreadsOK, OnlyMoves, Resting
  <2>2. new \in SUBSET Entries /\ (new = {} \/ "dir" \in new)
    BY <1>0, <1>1, OnTransfer DEF TypeOK
  <2>3. files' = [files EXCEPT ![on[a]] = new] /\ reply' = NoReply
    BY <1>0, <1>2 DEF Silent
  <2> HIDE DEF new
  <2>4. TypeOK' /\ Changes(on[a], new)
    BY <1>0, <2>1, <2>2, <2>3, Changed
  <2>5. Unlinks(a)
    BY <1>0, <1>1, <1>2, <2>1, <2>4 DEF Unlinks, history, new
  <2> QED
    BY <2>4, <2>5
<1>3. CASE NextEntry(a) \notin files[on[a]] /\ Finish(a, "missing") /\ UNCHANGED files
  <2>1. /\ ThreadsOK' /\ at'[a] = "idle" /\ on'[a] = 0 /\ OnlyMoves(a)
        /\ reply' = NoReply \/ \E what \in Replies, t \in 0..Len(manifests) : reply' = Reply(what, t)
    BY <1>0, <1>3, Finishes
  <2>2. ~ InSync(a)
    BY <1>1, <1>3 DEF InSync
  <2>3. Rests
    BY <1>0, <1>3, <2>1, <2>2 DEF Rests, OnlyMoves, Resting, Staging, disk
  <2> QED
    BY <1>0, <1>3, <2>1, <2>3, CallKept DEF disk
<1> QED
  BY <1>2, <1>3 DEF Unlink

\* Removing the directory ends a removal, and says whether it did.
LEMMA RmdirRemoves ==
    ASSUME TypeOK, StageInv, NEW a \in Actors, Rmdir(a)
    PROVE  TypeOK' /\ Removes(a) /\ reply' \in {NoReply, Reply("missing", on[a]), Reply("deleted", on[a])}
           /\ (reply' = Reply("missing", on[a]) => files[on[a]] = {})
<1>0. /\ handed \cup deleted \cup cut \subseteq Ids /\ on[a] \in Ids /\ at[a] = "unlink"
      /\ todo[a] = {} /\ UNCHANGED <<clock, manifests, now, handed, deleted, most, cut>>
  BY OnTransfer DEF Rmdir, TypeOK, Resting, history
<1>1. PICK how : Finish(a, how) /\ how = IF files[on[a]] = {} THEN "missing" ELSE "deleted"
  BY DEF Rmdir
<1>2. /\ ThreadsOK' /\ at'[a] = "idle" /\ on'[a] = 0 /\ OnlyMoves(a)
      /\ reply' \in {NoReply, Reply(how, on[a])}
      /\ reply' = NoReply \/ \E what \in Replies, t \in 0..Len(manifests) : reply' = Reply(what, t)
  BY <1>0, <1>1, Finishes
<1>3. files[on[a]] \ {"dir"} = {}
  BY <1>0 DEF StageInv
<1>4. files' = [files EXCEPT ![on[a]] = files[on[a]] \ {"dir"}]
  BY DEF Rmdir
<1>5. TypeOK' /\ Changes(on[a], files[on[a]] \ {"dir"})
  BY <1>0, <1>2, <1>3, <1>4, Changed
<1>6. Removes(a)
  BY <1>0, <1>2, <1>5 DEF Removes, history
<1> QED
  BY <1>1, <1>2, <1>5, <1>6 DEF Reply, NoReply

-----------------------------------------------------------------------------
(* What a step is.                                                         *)

\* Every step is of one of these kinds, and keeps the types.
LEMMA StepKinds ==
    ASSUME TypeOK, DownInv, StageInv, [Next]_vars
    PROVE  /\ TypeOK'
           /\ \/ Rests
              \/ \E a \in Actors : \/ \E t \in Ids : TakesUp(a, t)
                                   \/ GoesOn(a) \/ Lists(a) \/ Unlinks(a) \/ Removes(a)
              \/ \E s \in Sessions : Begins(s) \/ Writes(s)
<1> DEFINE Kind == \/ Rests
                   \/ \E a \in Actors : \/ \E t \in Ids : TakesUp(a, t)
                                        \/ GoesOn(a) \/ Lists(a) \/ Unlinks(a) \/ Removes(a)
                   \/ \E s \in Sessions : Begins(s) \/ Writes(s)
<1>1. CASE UNCHANGED vars
  <2>1. Rests
    BY <1>1 DEF vars, Rests, disk
  <2> QED
    BY <1>1, <2>1 DEF vars, TypeOK, Ids
<1>2. CASE Tick
  BY <1>2, OthersRest
<1>3. ASSUME NEW s \in Sessions, Crash(s) \/ Restart(s)
      PROVE  TypeOK' /\ Rests
  BY <1>3, OthersRest
<1>4. ASSUME NEW s \in Sessions, CallStep(s)
      PROVE  TypeOK' /\ Kind
  <2>0. Call(s) \in Actors
    BY ActorNames
  <2>1. CASE SendFile(s) \/ Refuse(s) \/ StagingFails(s) \/ Announce(s) \/ Open(s) \/ NotFound(s)
    BY <2>1, CallRests
  <2>2. CASE Load(s)
    BY <2>0, <2>2, CallRests, CallGoesOn
  <2>3. CASE Fetch(s) \/ Delete(s)
    BY <2>0, <2>3, FetchTakesUp
  <2>4. CASE Stage(s)
    BY <2>4, StagerBegins
  <2>5. CASE Copy(s) \/ Publish(s)
    BY <2>5, StagerWrites
  <2> QED
    BY <1>4, <2>1, <2>2, <2>3, <2>4, <2>5 DEF CallStep
<1>5. ASSUME NEW s \in Sweepers, SweepStep(s)
      PROVE  TypeOK' /\ Kind
  <2>0. Sweeper(s) \in Actors
    BY ActorNames
  <2>1. CASE SweepStart(s)
    BY <2>1, OthersRest
  <2>2. CASE SweepRead(s)
    BY <2>0, <2>2, OthersRest, SweepGoesOn
  <2>3. CASE \E t \in Ids : SweepLook(s, t)
    BY <2>0, <2>3, SweepTakesUp
  <2> QED
    BY <1>5, <2>1, <2>2, <2>3 DEF SweepStep
<1>6. ASSUME NEW a \in Actors, RemovalStep(a)
      PROVE  TypeOK' /\ Kind
  BY <1>6, ListRemoves, UnlinkRemoves, RmdirRemoves DEF RemovalStep
<1> QED
  BY <1>1, <1>2, <1>3, <1>4, <1>5, <1>6 DEF Next

\* Time does not go back.
LEMMA TimeGoesOn ==
    ASSUME TypeOK, [Next]_vars
    PROVE  clock \in Nat /\ clock' \in Nat /\ clock <= clock'
<1>1. clock \in Nat
  BY OnTransfer
<1>2. clock' \in {clock, clock + 1}
  BY DEF Next, vars, Tick, Crash, Restart, CallStep, SendFile, Refuse, Stage, Copy, StagingFails,
     Publish, Load, Announce, Fetch, Open, Delete, NotFound, SweepStep, SweepStart, SweepRead,
     SweepLook, RemovalStep, List, Unlink, Rmdir
<1> QED
  BY <1>1, <1>2

\* The threads of a process go down and come up together.
LEMMA DownStep ==
    ASSUME TypeOK, DownInv, [Next]_vars
    PROVE  DownInv'
<1>1. CASE UNCHANGED at
  BY <1>1 DEF DownInv
<1>2. ASSUME NEW a \in Actors, NEW where \in Stages \ {"down"}, Goto(a, where), at[a] # "down"
      PROVE  DownInv'
  <2>1. at' = [at EXCEPT ![a] = where] /\ at \in [Actors -> Stages]
    BY <1>2 DEF Goto, TypeOK
  <2>2. \A s \in Sessions : Call(s) \in Actors /\ \A b \in Threads(s) : b \in Actors
    BY ActorNames
  <2> QED
    BY <1>2, <2>1, <2>2 DEF DownInv
<1>3. ASSUME NEW s \in Sessions, Crash(s) \/ Restart(s)
      PROVE  DownInv'
  <2>1. ASSUME NEW z \in Sessions, NEW b \in Threads(z), at'[Call(z)] = "down"
        PROVE  at'[b] = "down"
    <3>1. b \in Actors /\ b[1] = z /\ Call(z) \in Actors /\ Call(z)[1] = z
      BY ActorNames
    <3>2. \A a \in Threads(s) : a \in Actors /\ a[1] = s
      BY ActorNames
    <3>3. b \in Threads(s) <=> Call(z) \in Threads(s)
      BY <3>1, <3>2, ActorNames
    <3> QED
      BY <1>3, <2>1, <3>1, <3>3 DEF DownInv, Crash, Restart
  <2> QED
    BY <2>1 DEF DownInv
<1>4. ASSUME NEW s \in Sessions, CallStep(s)
      PROVE  DownInv'
  BY <1>1, <1>2, <1>4, ActorNames DEF CallStep, SendFile, Refuse, Stage, Copy, StagingFails,
     Publish, Load, Announce, Fetch, Open, Delete, NotFound, End, Leave, Stages, Staging, Removing
<1>5. ASSUME NEW s \in Sweepers, SweepStep(s)
      PROVE  DownInv'
  BY <1>1, <1>2, <1>5, ActorNames DEF SweepStep, SweepStart, SweepLook, SweepRead, Leave,
     Stages, Removing
<1>6. ASSUME NEW a \in Actors, RemovalStep(a)
      PROVE  DownInv'
  <2>1. at[a] \in Removing
    BY <1>6 DEF RemovalStep, List, Unlink, Rmdir, Removing
  <2>2. (\E where \in {"idle", "unlink"} : Goto(a, where)) \/ UNCHANGED at
    <3>1. ASSUME NEW how, Finish(a, how)
          PROVE  Goto(a, "idle")
      <4>1. CASE a[2] = "call"
        <5>1. Call(a[1]) = a /\ End(a[1], how)
          BY <3>1, <4>1, ActorNames DEF Finish
        <5> QED
          BY <5>1 DEF End, Leave, Goto
      <4>2. CASE a[2] # "call"
        BY <3>1, <4>2 DEF Finish, Leave
      <4> QED
        BY <4>1, <4>2
    <3> QED
      BY <1>6, <3>1 DEF RemovalStep, List, Unlink, Rmdir
  <2> QED
    BY <1>1, <1>2, <2>1, <2>2 DEF Stages, Removing
<1> QED
  BY <1>1, <1>3, <1>4, <1>5, <1>6 DEF Next, vars, Tick

-----------------------------------------------------------------------------
(* Stagers and removals.                                                   *)

\* A step that changes no directory and takes no transfer up from the stager.
LEMMA StageKept ==
    ASSUME TypeOK, StageInv, UNCHANGED disk,
           \A a \in Actors : /\ at'[a] \in Staging => at[a] = at'[a] /\ on'[a] = on[a]
                             /\ at'[a] \in Holding \cup Removing =>
                                   "copy" \notin files[on'[a]]
                             /\ at'[a] = "unlink" => files[on'[a]] \subseteq todo'[a] \cup {"dir"}
                             /\ \A b \in Actors \ {a} :
                                   at[b] \in Staging => on'[a] # on[b],
           \A t \in handed' : /\ t \in Ids => "copy" \notin files[t]
                              /\ \A a \in Actors : at[a] \in Staging => on[a] # t
    PROVE  StageInv'
BY DEF StageInv, disk, Ids, Published

\* Actors that let go of their transfers keep StageInv.
LEMMA RestsKeepsStage ==
    ASSUME TypeOK, StageInv, Rests
    PROVE  StageInv'
<1>1. \A a \in Actors : at[a] \in Staging => on[a] # 0
  BY OnTransfer DEF Staging, Resting
<1>2. ASSUME NEW a \in Actors
      PROVE  /\ at'[a] \in Staging => at[a] = at'[a] /\ on'[a] = on[a]
             /\ at'[a] \in Holding \cup Removing => "copy" \notin files[on'[a]]
             /\ at'[a] = "unlink" => files[on'[a]] \subseteq todo'[a] \cup {"dir"}
             /\ \A b \in Actors \ {a} : at[b] \in Staging => on'[a] # on[b]
  BY <1>1 DEF Rests, StageInv, Resting, Staging, Holding, Removing
<1>3. ASSUME NEW t \in handed'
      PROVE  /\ t \in Ids => "copy" \notin files[t]
             /\ \A a \in Actors : at[a] \in Staging => on[a] # t
  <2>1. t \in handed \/ \E b \in Actors : at[b] = "announce" /\ t = on[b]
    BY DEF Rests
  <2> QED
    BY <2>1 DEF StageInv, Holding, Staging
<1> QED
  BY <1>2, <1>3, StageKept DEF Rests

\* An actor that takes up a published transfer keeps StageInv.
LEMMA TakingUpKeepsStage ==
    ASSUME TypeOK, StageInv, NEW a \in Actors, NEW t \in Ids, TakesUp(a, t)
    PROVE  StageInv'
<1>1. "copy" \notin files[t] /\ \A b \in Actors : at[b] \in Staging => on[b] # t
  BY DEF TakesUp, StageInv, Published, Staged
<1>2. ASSUME NEW b \in Actors
      PROVE  /\ at'[b] \in Staging => at[b] = at'[b] /\ on'[b] = on[b]
             /\ at'[b] \in Holding \cup Removing => "copy" \notin files[on'[b]]
             /\ at'[b] = "unlink" => files[on'[b]] \subseteq todo'[b] \cup {"dir"}
             /\ \A c \in Actors \ {b} : at[c] \in Staging => on'[b] # on[c]
  BY <1>1 DEF TakesUp, OnlyMoves, StageInv, Staging
<1>3. handed' = handed
  BY DEF TakesUp
<1> QED
  BY <1>2, <1>3, StageKept DEF TakesUp, StageInv

\* An actor that goes on with its transfer, or lists it keeps StageInv.
LEMMA GoingOnKeepsStage ==
    ASSUME TypeOK, StageInv, NEW a \in Actors, GoesOn(a) \/ Lists(a)
    PROVE  StageInv'
<1>1. ASSUME NEW b \in Actors
      PROVE  /\ at'[b] \in Staging => at[b] = at'[b] /\ on'[b] = on[b]
             /\ at'[b] \in Holding \cup Removing => "copy" \notin files[on'[b]]
             /\ at'[b] = "unlink" => files[on'[b]] \subseteq todo'[b] \cup {"dir"}
             /\ \A c \in Actors \ {b} : at[c] \in Staging => on'[b] # on[c]
  BY DEF GoesOn, Lists, OnlyMoves, StageInv, Staging, Holding, Removing
<1>2. handed' = handed /\ UNCHANGED disk
  BY DEF GoesOn, Lists, history
<1> QED
  BY <1>1, <1>2, StageKept DEF StageInv

\* Entries that are removed keep StageInv.
LEMMA RemovalKeepsStage ==
    ASSUME TypeOK, StageInv, NEW a \in Actors, Unlinks(a) \/ Removes(a)
    PROVE  StageInv'
<1>0. /\ at[a] = "unlink" /\ on[a] \in Ids /\ OnlyMoves(a) /\ UNCHANGED <<manifests, handed>>
      /\ \A u \in Ids : files'[u] \subseteq files[u]
      /\ \A u \in Ids \ {on[a]} : files'[u] = files[u]
      /\ at'[a] = "unlink" \/ (at'[a] = "idle" /\ on'[a] = 0)
  BY DEF Unlinks, Removes, Changes, history
<1>1. \A b \in Actors : at[b] \notin Resting => on[b] \in Ids
  BY OnTransfer
<1>2. ASSUME NEW b \in Actors, at'[b] \in Staging
      PROVE  /\ files'[on'[b]] = Staged(at'[b])
             /\ on'[b] \notin handed'
             /\ \A c \in Actors \ {b} : on'[c] # on'[b]
  <2>1. b # a /\ at[b] = at'[b] /\ on'[b] = on[b] /\ on[a] # on[b] /\ on[b] \in Ids /\ on[b] # 0
    BY <1>0, <1>1, <1>2, OnTransfer DEF OnlyMoves, Staging, StageInv, Resting
  <2>2. on'[a] # on[b]
    BY <1>0, <2>1 DEF Unlinks, Removes
  <2> QED
    BY <1>0, <1>2, <2>1, <2>2 DEF StageInv, OnlyMoves
<1>3. ASSUME NEW b \in Actors, at'[b] \in Holding \cup Removing
      PROVE  "copy" \notin files'[on'[b]]
  <2>1. on'[b] = on[b] /\ on[b] \in Ids /\ at[b] \in Holding \cup Removing
    BY <1>0, <1>1, <1>3 DEF Unlinks, Removes, OnlyMoves, Holding, Removing, Resting
  <2> QED
    BY <1>0, <2>1 DEF StageInv
<1>4. ASSUME NEW t \in Ids, t \in handed \/ "manifest" \in files'[t]
      PROVE  "copy" \notin files'[t]
  BY <1>0, <1>4 DEF StageInv, Published
<1>5. ASSUME NEW b \in Actors, at'[b] = "unlink"
      PROVE  files'[on'[b]] \subseteq todo'[b] \cup {"dir"}
  <2>1. CASE b = a
    <3>1. /\ on'[a] = on[a] /\ todo'[a] = todo[a] \ {NextEntry(a)}
          /\ files'[on[a]] = files[on[a]] \ {NextEntry(a)}
      BY <1>0, <1>5, <2>1 DEF Unlinks, Removes, Changes
    <3> QED
      BY <1>0, <2>1, <3>1 DEF StageInv
  <2>2. CASE b # a
    <3>1. on'[b] = on[b] /\ todo'[b] = todo[b] /\ at[b] = "unlink"
      BY <1>0, <1>5, <2>2 DEF OnlyMoves
    <3>2. on[b] \in Ids
      BY <1>1, <3>1 DEF Resting
    <3> QED
      BY <1>0, <3>1, <3>2 DEF StageInv
  <2> QED
    BY <2>1, <2>2
<1> QED
  BY <1>0, <1>2, <1>3, <1>4, <1>5 DEF StageInv, Ids, Published

\* Files that are written keep StageInv.
LEMMA WritingKeepsStage ==
    ASSUME TypeOK, StageInv, NEW s \in Sessions, Writes(s)
    PROVE  StageInv'
<1> DEFINE a == Call(s)
           t == on[a]
<1>0. /\ a \in Actors /\ at[a] \in Staging /\ on'[a] = t /\ OnlyMoves(a) /\ t \in Ids
      /\ UNCHANGED <<manifests, handed, todo>>
      /\ at'[a] \in {"publish", "load"}
      /\ \A u \in Ids \ {t} : files'[u] = files[u]
      /\ files[t] = Staged(at[a]) /\ t \notin handed /\ \A b \in Actors \ {a} : on[b] # t
  BY ActorNames DEF Writes, Changes, StageInv, history
<1>1. /\ at'[a] = "publish" => files'[t] = Staged("publish")
      /\ "copy" \notin files'[t]
  BY <1>0 DEF Writes, Changes, Staged, Staging
<1>2. \A b \in Actors : at[b] \notin Resting => on[b] \in Ids
  BY OnTransfer
<1>3. \A b \in Actors \ {a} : /\ at'[b] = at[b] /\ on'[b] = on[b] /\ todo'[b] = todo[b]
                              /\ at[b] \notin Resting => files'[on[b]] = files[on[b]]
  BY <1>0, <1>2 DEF OnlyMoves
<1> HIDE DEF a, t
<1>4. ASSUME NEW b \in Actors, at'[b] \in Staging
      PROVE  /\ files'[on'[b]] = Staged(at'[b])
             /\ on'[b] \notin handed'
             /\ \A c \in Actors \ {b} : on'[c] # on'[b]
  BY <1>0, <1>1, <1>3, <1>4 DEF StageInv, Staging, Resting
<1>5. ASSUME NEW b \in Actors, at'[b] \in Holding \cup Removing
      PROVE  "copy" \notin files'[on'[b]]
  BY <1>0, <1>1, <1>3, <1>5 DEF StageInv, Holding, Removing, Resting
<1>6. ASSUME NEW b \in Actors, at'[b] = "unlink"
      PROVE  files'[on'[b]] \subseteq todo'[b] \cup {"dir"}
  BY <1>0, <1>3, <1>6 DEF StageInv, Resting
<1>7. ASSUME NEW u \in Ids, u \in handed \/ "manifest" \in files'[u]
      PROVE  "copy" \notin files'[u]
  BY <1>0, <1>1, <1>7 DEF StageInv, Published
<1> QED
  BY <1>0, <1>4, <1>5, <1>6, <1>7 DEF StageInv, Ids, Published

\* A directory that is made keeps StageInv.
LEMMA BeginningKeepsStage ==
    ASSUME TypeOK, StageInv, NEW s \in Sessions, Begins(s)
    PROVE  StageInv'
<1> DEFINE a == Call(s)
           t == Len(manifests) + 1
<1>0. /\ a \in Actors /\ at'[a] = "copy" /\ on'[a] = t /\ OnlyMoves(a)
      /\ UNCHANGED <<handed, todo>>
      /\ \A u \in Ids : files'[u] = files[u]
      /\ files'[t] = {"dir", "copy"}
  BY ActorNames DEF Begins, history
<1>1. /\ \A u \in Ids' : u \in Ids \/ u = t
      /\ t \notin handed /\ t \notin Ids
  <2>1. handed \subseteq Ids /\ Len(manifests) \in Nat /\ Len(manifests') = t
    BY OnTransfer DEF Begins, TypeOK
  <2> QED
    BY <2>1 DEF Ids
<1>2. \A b \in Actors : on[b] # t /\ (at[b] \notin Resting => on[b] \in Ids)
  BY OnTransfer
<1>3. \A b \in Actors \ {a} : /\ at'[b] = at[b] /\ on'[b] = on[b] /\ todo'[b] = todo[b]
                              /\ at[b] \notin Resting => files'[on[b]] = files[on[b]]
  BY <1>0, <1>2 DEF OnlyMoves
<1> HIDE DEF a, t
<1>4. ASSUME NEW b \in Actors, at'[b] \in Staging
      PROVE  /\ files'[on'[b]] = Staged(at'[b])
             /\ on'[b] \notin handed'
             /\ \A c \in Actors \ {b} : on'[c] # on'[b]
  <2>1. CASE b = a
    BY <1>0, <1>1, <1>2, <1>3, <2>1 DEF Staged
  <2>2. CASE b # a
    <3>1. at[b] \in Staging /\ on'[b] = on[b] /\ files'[on[b]] = files[on[b]] /\ at'[b] = at[b]
      BY <1>3, <1>4, <2>2 DEF Staging, Resting
    <3>2. \A c \in Actors \ {b} : on'[c] # on[b]
      BY <1>0, <1>2, <1>3, <3>1 DEF StageInv
    <3> QED
      BY <1>0, <3>1, <3>2 DEF StageInv
  <2> QED
    BY <2>1, <2>2
<1>5. ASSUME NEW b \in Actors, at'[b] \in Holding \cup Removing
      PROVE  "copy" \notin files'[on'[b]]
  BY <1>0, <1>3, <1>5 DEF StageInv, Holding, Removing, Resting
<1>6. ASSUME NEW b \in Actors, at'[b] = "unlink"
      PROVE  files'[on'[b]] \subseteq todo'[b] \cup {"dir"}
  BY <1>0, <1>3, <1>6 DEF StageInv, Resting
<1>7. ASSUME NEW u \in Ids', u \in handed \/ "manifest" \in files'[u]
      PROVE  "copy" \notin files'[u]
  BY <1>0, <1>1, <1>7 DEF StageInv, Published
<1> QED
  BY <1>0, <1>4, <1>5, <1>6, <1>7 DEF StageInv, Published

\* Every step keeps StageInv: one lemma per kind of step.
LEMMA StageStep ==
    ASSUME TypeOK, DownInv, StageInv, [Next]_vars
    PROVE  StageInv'
BY StepKinds, RestsKeepsStage, TakingUpKeepsStage, GoingOnKeepsStage, RemovalKeepsStage,
   WritingKeepsStage, BeginningKeepsStage

\* Nothing that has happened to a transfer is undone.
LEMMA TransfersStay ==
    ASSUME TypeOK, DownInv, StageInv, [Next]_vars
    PROVE  \A t \in Ids : /\ t \in Ids' /\ manifests'[t] = manifests[t]
                          /\ Missed(t) => Missed(t)'
                          /\ t \in cut => t \in cut'
<1>1. clock \in Nat /\ clock' \in Nat /\ clock <= clock'
  BY TimeGoesOn
<1>2. /\ deleted \subseteq deleted' /\ cut \subseteq cut'
      /\ \A t \in Ids : t \in Ids' /\ manifests'[t] = manifests[t]
  <2>1. CASE UNCHANGED manifests /\ deleted \subseteq deleted' /\ cut \subseteq cut'
    BY <2>1 DEF Ids
  <2>2. ASSUME NEW s \in Sessions, Begins(s)
        PROVE  /\ deleted \subseteq deleted' /\ cut \subseteq cut'
               /\ \A t \in Ids : t \in Ids' /\ manifests'[t] = manifests[t]
    BY <2>2, OnTransfer DEF Begins, Ids, history
  <2> QED
    BY <2>1, <2>2, StepKinds DEF Rests, TakesUp, GoesOn, Lists, Unlinks, Removes, Writes,
       Changes, disk, history
<1>3. \A t \in Ids : manifests[t].expires \in Int
  BY OnTransfer
<1> QED
  BY <1>1, <1>2, <1>3 DEF Missed, Expired, ExpiredAt

-----------------------------------------------------------------------------
(* What may be missing.                                                    *)

\* A step keeps FreshInv when the directories it changes are those of transfers
\* that may be missed, or become whole.
LEMMA FreshKept ==
    ASSUME TypeOK, DownInv, StageInv, FreshInv, [Next]_vars, Ids' = Ids,
           \A t \in Ids : Whole(t) /\ ~ Missed(t) => Whole(t)',
           \A t \in Ids : (t \in handed \/ Published(t))' => t \in handed \/ Published(t)
                             \/ (\E a \in Actors : at[a] \in Holding /\ on[a] = t)
                             \/ (Whole(t) \/ Missed(t))',
           \A a \in Actors :
              /\ at'[a] \in Holding => \/ at[a] \in Holding /\ on'[a] = on[a]
                                       \/ on'[a] \in Ids /\ (Whole(on[a]) \/ Missed(on[a]))'
              /\ at'[a] \in Removing => \/ at[a] \in Removing /\ on'[a] = on[a]
                                        \/ on'[a] \in Ids /\ Missed(on[a])'
    PROVE  FreshInv'
<1>1. \A t \in Ids : /\ Missed(t) => Missed(t)'
                     /\ Whole(t) \/ Missed(t) => (Whole(t) \/ Missed(t))'
  BY TransfersStay
<1>2. \A a \in Actors : at[a] \in Holding \cup Removing => on[a] \in Ids
  BY OnTransfer DEF Holding, Removing, Resting
<1>3. \A t \in Ids : (t \in handed \/ Published(t))' => (Whole(t) \/ Missed(t))'
  BY <1>1 DEF FreshInv
<1>4. \A a \in Actors : at'[a] \in Holding => (Whole(on[a]) \/ Missed(on[a]))'
  BY <1>1, <1>2 DEF FreshInv
<1>5. \A a \in Actors : at'[a] \in Removing => Missed(on[a])'
  BY <1>1, <1>2 DEF FreshInv
<1> QED
  BY <1>3, <1>4, <1>5 DEF FreshInv

\* A published transfer stays whole until a call may miss it.
LEMMA FreshStep ==
    ASSUME TypeOK, DownInv, StageInv, FreshInv, [Next]_vars
    PROVE  FreshInv'
<1>0. \A a \in Actors : at[a] \notin Resting => on[a] \in Ids
  BY OnTransfer
<1>1. \A t \in Ids : Missed(t) => Missed(t)'
  BY TransfersStay
<1>2. CASE Rests
  <2>1. Ids' = Ids /\ \A t \in Ids : (Whole(t)' <=> Whole(t)) /\ (Published(t)' <=> Published(t))
    BY <1>2 DEF Rests, disk, Ids, Whole, Published
  <2>2. \A t \in handed' : t \in handed \/ \E a \in Actors : at[a] \in Holding /\ on[a] = t
    BY <1>2 DEF Rests, Holding
  <2>3. \A a \in Actors : at'[a] \in Holding \cup Removing => at'[a] = at[a] /\ on'[a] = on[a]
    BY <1>2 DEF Rests, Holding, Removing, Resting
  <2> QED
    BY <2>1, <2>2, <2>3, FreshKept
<1>3. ASSUME NEW a \in Actors, NEW t \in Ids, TakesUp(a, t)
      PROVE  FreshInv'
  <2>1. /\ Ids' = Ids /\ handed' = handed
        /\ \A u \in Ids : (Whole(u)' <=> Whole(u)) /\ (Published(u)' <=> Published(u))
    BY <1>3 DEF TakesUp, disk, Ids, Whole, Published
  <2>2. (Whole(t) \/ Missed(t)) /\ (Whole(t) \/ Missed(t))'
    BY <1>1, <1>3, <2>1 DEF TakesUp, FreshInv
  <2>3. at'[a] = "list" => Missed(t)'
    BY <1>3 DEF TakesUp, Missed
  <2>4. /\ at'[a] \in Holding => on'[a] \in Ids /\ (Whole(on[a]) \/ Missed(on[a]))'
        /\ at'[a] \in Removing => on'[a] \in Ids /\ Missed(on[a])'
    <3>1. on'[a] = t /\ at'[a] \in {"open", "list", "read"}
      BY <1>3 DEF TakesUp
    <3>2. (Whole(on[a]) \/ Missed(on[a]))'
      BY <2>2, <3>1 DEF Whole, Missed, Expired, ExpiredAt
    <3>3. at'[a] = "list" => Missed(on[a])'
      BY <2>3, <3>1 DEF Missed, Expired, ExpiredAt
    <3> QED
      BY <3>1, <3>2, <3>3 DEF Removing
  <2>5. \A b \in Actors \ {a} : at'[b] = at[b] /\ on'[b] = on[b]
    BY <1>3 DEF TakesUp, OnlyMoves
  <2>6. \A b \in Actors :
          /\ at'[b] \in Holding => \/ at[b] \in Holding /\ on'[b] = on[b]
                                   \/ on'[b] \in Ids /\ (Whole(on[b]) \/ Missed(on[b]))'
          /\ at'[b] \in Removing => \/ at[b] \in Removing /\ on'[b] = on[b]
                                    \/ on'[b] \in Ids /\ Missed(on[b])'
    BY <2>4, <2>5
  <2> QED
    BY <2>1, <2>6, FreshKept
<1>4. ASSUME NEW a \in Actors, GoesOn(a) \/ Lists(a)
      PROVE  FreshInv'
  <2>1. /\ Ids' = Ids /\ handed' = handed
        /\ \A u \in Ids : (Whole(u)' <=> Whole(u)) /\ (Published(u)' <=> Published(u))
    BY <1>4 DEF GoesOn, Lists, disk, history, Ids, Whole, Published
  <2>2. at[a] = "read" /\ at'[a] = "list" => Missed(on[a])
    <3>1. ASSUME at[a] = "read", ~ Published(on[a])
          PROVE  Missed(on[a])
      BY <3>1 DEF FreshInv, Holding, Whole, Published, Payload
    <3> QED
      BY <1>4, <3>1 DEF GoesOn, Lists, Missed
  <2>3. at[a] = "read" /\ at'[a] = "list" => on'[a] \in Ids /\ Missed(on[a])'
    <3>1. on'[a] = on[a]
      BY <1>4 DEF GoesOn, Lists
    <3>2. Missed(on[a])' <=> on[a] \in deleted' \/ manifests'[on[a]].expires <= clock'
      BY <3>1 DEF Missed, Expired, ExpiredAt
    <3>3. at[a] = "read" => on[a] \in Ids
      BY <1>0 DEF Resting
    <3> QED
      BY <1>1, <2>2, <3>1, <3>2, <3>3 DEF Missed, Expired, ExpiredAt
  <2>4. \A b \in Actors :
          /\ at'[b] \in Holding => at[b] \in Holding /\ on'[b] = on[b]
          /\ at'[b] \in Removing => \/ at[b] \in Removing /\ on'[b] = on[b]
                                    \/ on'[b] \in Ids /\ Missed(on[b])'
    BY <1>4, <2>3 DEF GoesOn, Lists, OnlyMoves, Holding, Removing
  <2> QED
    BY <2>1, <2>4, FreshKept
<1>5. ASSUME NEW a \in Actors, Unlinks(a) \/ Removes(a)
      PROVE  FreshInv'
  <2>1. /\ Ids' = Ids /\ handed' = handed /\ on[a] \in Ids /\ at[a] = "unlink"
        /\ \A u \in Ids \ {on[a]} : files'[u] = files[u]
        /\ \A u \in Ids : files'[u] \subseteq files[u]
    BY <1>5 DEF Unlinks, Removes, Changes, history, Ids
  <2>2. Missed(on[a])
    BY <2>1 DEF FreshInv, Removing
  <2>3. \A u \in Ids : (Whole(u) /\ ~ Missed(u) => Whole(u)') /\ (Published(u)' => Published(u))
    BY <2>1, <2>2 DEF Whole, Published
  <2>4. \A b \in Actors :
          /\ at'[b] \in Holding => at[b] \in Holding /\ on'[b] = on[b]
          /\ at'[b] \in Removing => at[b] \in Removing /\ on'[b] = on[b]
    BY <1>5 DEF Unlinks, Removes, OnlyMoves, Holding, Removing
  <2> QED
    BY <2>1, <2>3, <2>4, FreshKept
<1>6. ASSUME NEW s \in Sessions, Writes(s)
      PROVE  FreshInv'
  <2> DEFINE a == Call(s)
             t == on[a]
  <2>1. /\ Ids' = Ids /\ handed' = handed /\ t \in Ids /\ a \in Actors
        /\ files[t] = Staged(at[a]) /\ at[a] \in Staging
        /\ \A u \in Ids \ {t} : files'[u] = files[u]
        /\ at'[a] \in {"publish", "load"} /\ on'[a] = t
        /\ \A b \in Actors \ {a} : at'[b] = at[b] /\ on'[b] = on[b]
    BY <1>6, ActorNames DEF Writes, Changes, OnlyMoves, history, Ids, StageInv
  <2>2. at'[a] = "publish" => "manifest" \notin files'[t]
    BY <1>6, <2>1 DEF Writes, Changes, Staged, Staging
  <2>3. at'[a] = "load" => Payload \subseteq files'[t]
    BY <1>6, <2>1 DEF Writes, Changes, Staged, Staging, Payload
  <2>4. ~ Whole(t)
    BY <2>1 DEF Whole, Staged, Payload
  <2> HIDE DEF a, t
  <2>5. \A u \in Ids : /\ Whole(u) => Whole(u)'
                       /\ Published(u)' => Published(u) \/ Whole(u)'
    BY <2>1, <2>2, <2>3, <2>4 DEF Whole, Published
  <2>6. at'[a] \in Holding => Whole(on[a])'
    BY <2>1, <2>3 DEF Whole, Holding
  <2>7. \A b \in Actors :
          /\ at'[b] \in Holding => \/ at[b] \in Holding /\ on'[b] = on[b]
                                   \/ on'[b] \in Ids /\ (Whole(on[b]) \/ Missed(on[b]))'
          /\ at'[b] \in Removing => at[b] \in Removing /\ on'[b] = on[b]
    BY <2>1, <2>6 DEF Removing
  <2> QED
    BY <2>1, <2>5, <2>7, FreshKept
<1>7. ASSUME NEW s \in Sessions, Begins(s)
      PROVE  FreshInv'
  <2> DEFINE a == Call(s)
             n == Len(manifests) + 1
  <2>0. Len(manifests) \in Nat /\ handed \subseteq Ids
    BY OnTransfer DEF TypeOK
  <2>1. /\ handed' = handed /\ handed \subseteq Ids /\ a \in Actors
        /\ \A u \in Ids' : u \in Ids \/ u = n
        /\ \A u \in Ids : files'[u] = files[u]
        /\ "manifest" \notin files'[n] /\ n \notin Ids
        /\ at'[a] = "copy"
        /\ \A b \in Actors \ {a} : at'[b] = at[b] /\ on'[b] = on[b]
    BY <1>7, <2>0, ActorNames DEF Begins, OnlyMoves, history, Ids
  <2> HIDE DEF a, n
  <2>2. \A u \in Ids : Whole(u) \/ Missed(u) => (Whole(u) \/ Missed(u))'
    BY <1>1, <2>1 DEF Whole
  <2>3. \A u \in Ids' : (u \in handed \/ Published(u))' => u \in Ids /\ (u \in handed \/ Published(u))
    BY <2>1 DEF Published
  <2>4. \A b \in Actors : at'[b] \in Holding \cup Removing => /\ at[b] = at'[b] /\ on'[b] = on[b]
                                                              /\ on[b] \in Ids
    BY <1>0, <2>1 DEF Holding, Removing, Resting
  <2>5. \A b \in Actors : at'[b] \in Holding => (Whole(on[b]) \/ Missed(on[b]))'
    BY <2>2, <2>4 DEF FreshInv
  <2>6. \A b \in Actors : at'[b] \in Removing => Missed(on[b])'
    BY <1>1, <2>4 DEF FreshInv
  <2> QED
    BY <2>2, <2>3, <2>5, <2>6 DEF FreshInv
<1> QED
  BY <1>2, <1>3, <1>4, <1>5, <1>6, <1>7, StepKinds

\* A call that does not find a transfer was told of one that may be missed; a
\* deletion that succeeds has removed what was left.
LEMMA StepReplies ==
    ASSUME TypeOK, DownInv, StageInv, FreshInv, [Next]_vars
    PROVE  \/ UNCHANGED vars
           \/ reply' = NoReply
           \/ \E t \in Ids : reply' = Reply("missing", t) /\ Missed(t)
           \/ \E t \in Ids : reply' = Reply("deleted", t) /\ files'[t] = {}
<1> DEFINE Goal == \/ UNCHANGED vars
                   \/ reply' = NoReply
                   \/ \E t \in Ids : reply' = Reply("missing", t) /\ Missed(t)
                   \/ \E t \in Ids : reply' = Reply("deleted", t) /\ files'[t] = {}
<1>0. \A a \in Actors : at[a] \in Holding \cup Removing => on[a] \in Ids
  BY OnTransfer DEF Holding, Removing, Resting
<1>1. CASE Tick \/ \E s \in Sessions : Crash(s) \/ Restart(s)
  BY <1>1 DEF Tick, Crash, Restart, Silent
<1>2. ASSUME NEW s \in Sweepers, SweepStep(s)
      PROVE  reply' = NoReply
  BY <1>2 DEF SweepStep, SweepStart, SweepLook, SweepRead, Silent
<1>3. ASSUME NEW s \in Sessions, NEW how, End(s, how),
             how \in Replies => at[Call(s)] \in Holding \cup Removing,
             how = "missing" => Missed(on[Call(s)]), how # "deleted"
      PROVE  Goal
  BY <1>0, <1>3, ActorNames DEF End, Replies
<1>4. ASSUME NEW s \in Sessions, CallStep(s)
      PROVE  Goal
  <2>1. CASE SendFile(s) \/ Stage(s) \/ Copy(s) \/ Publish(s) \/ Fetch(s) \/ Delete(s)
    BY <2>1 DEF SendFile, Stage, Copy, Publish, Fetch, Delete, Silent
  <2>2. CASE Refuse(s)
    BY <1>3, <2>2 DEF Refuse, Replies
  <2>3. CASE StagingFails(s)
    BY <1>3, <2>3 DEF StagingFails, Replies
  <2>4. CASE Announce(s)
    BY <1>3, <2>4 DEF Announce, Replies
  <2>5. CASE Load(s)
    <3>1. CASE Published(on[Call(s)])
      BY <2>5, <3>1 DEF Load, Silent
    <3>2. CASE ~ Published(on[Call(s)])
      <4>1. at[Call(s)] \in Holding /\ ~ Whole(on[Call(s)]) /\ End(s, "missing")
        BY <2>5, <3>2 DEF Load, Holding, Whole, Published, Payload
      <4>2. Missed(on[Call(s)])
        BY <4>1, ActorNames DEF FreshInv
      <4> QED
        BY <1>3, <4>1, <4>2
    <3> QED
      BY <3>1, <3>2
  <2>6. CASE Open(s)
    <3>1. CASE "payload" \in files[on[Call(s)]]
      BY <1>3, <2>6, <3>1 DEF Open, Replies
    <3>2. CASE "payload" \notin files[on[Call(s)]]
      <4>1. at[Call(s)] \in Holding /\ ~ Whole(on[Call(s)]) /\ End(s, "missing")
        BY <2>6, <3>2 DEF Open, Holding, Whole, Payload
      <4>2. Missed(on[Call(s)])
        BY <4>1, ActorNames DEF FreshInv
      <4> QED
        BY <1>3, <4>1, <4>2
    <3> QED
      BY <3>1, <3>2
  <2>7. CASE NotFound(s)
    <3>1. PICK t \in handed : ~ Published(t) /\ reply' = Reply("missing", t)
      BY <2>7 DEF NotFound
    <3>2. t \in Ids /\ ~ Whole(t)
      BY <3>1 DEF TypeOK, Whole, Published, Payload
    <3> QED
      BY <3>1, <3>2 DEF FreshInv
  <2> QED
    BY <1>4, <2>1, <2>2, <2>3, <2>4, <2>5, <2>6, <2>7 DEF CallStep
<1>5. ASSUME NEW a \in Actors, RemovalStep(a)
      PROVE  Goal
  <2>1. at[a] \in Removing /\ Missed(on[a]) /\ on[a] \in Ids
    BY <1>0, <1>5 DEF RemovalStep, List, Unlink, Rmdir, Removing, FreshInv
  <2>2. ASSUME Finish(a, "missing"), UNCHANGED manifests
        PROVE  Goal
    BY <2>1, <2>2, Finishes
  <2>3. CASE List(a)
    BY <2>2, <2>3 DEF List, Silent, disk
  <2>4. CASE Unlink(a)
    BY <2>2, <2>4 DEF Unlink, Silent
  <2>5. CASE Rmdir(a)
    <3>1. /\ reply' \in {NoReply, Reply("missing", on[a]), Reply("deleted", on[a])}
          /\ Removes(a)
      BY <2>5, RmdirRemoves
    <3>2. files'[on[a]] = {}
      BY <3>1 DEF Removes, Changes, StageInv
    <3> QED
      BY <2>1, <3>1, <3>2
  <2> QED
    BY <1>5, <2>3, <2>4, <2>5 DEF RemovalStep
<1> QED
  BY <1>1, <1>2, <1>4, <1>5 DEF Next

\* FoundWhenFresh is kept, by itself and by the step that answers.
LEMMA FoundStep ==
    ASSUME TypeOK, DownInv, StageInv, FreshInv, FoundWhenFresh, [Next]_vars
    PROVE  FoundWhenFresh'
<1>1. CASE UNCHANGED vars
  BY <1>1 DEF vars, FoundWhenFresh, Expired, ExpiredAt
<1>2. ASSUME NEW t \in Ids, reply' = Reply("missing", t), Missed(t)
      PROVE  FoundWhenFresh'
  <2>1. Missed(t)' /\ reply'.on = t
    BY <1>2, TransfersStay DEF Reply
  <2> QED
    BY <2>1 DEF FoundWhenFresh, Missed, Expired, ExpiredAt
<1>3. CASE reply' = NoReply \/ \E t \in Ids : reply' = Reply("deleted", t)
  BY <1>3 DEF FoundWhenFresh, NoReply, Reply
<1> QED
  BY <1>1, <1>2, <1>3, StepReplies

\* What was reported deleted does not come back.
LEMMA DeletedStep ==
    ASSUME TypeOK, DownInv, StageInv, FreshInv, DeletedIsGone, [Next]_vars
    PROVE  DeletedIsGone'
<1>1. CASE UNCHANGED vars
  BY <1>1 DEF vars, DeletedIsGone
<1>2. ASSUME NEW t \in Ids, reply' = Reply("deleted", t), files'[t] = {}
      PROVE  DeletedIsGone'
  <2>1. reply'.on = t
    BY <1>2 DEF Reply
  <2> QED
    BY <1>2, <2>1 DEF DeletedIsGone
<1>3. CASE reply' = NoReply \/ \E t \in Ids : reply' = Reply("missing", t)
  BY <1>3 DEF DeletedIsGone, NoReply, Reply
<1> QED
  BY <1>1, <1>2, <1>3, StepReplies

-----------------------------------------------------------------------------
(* The calls that make transfers.                                          *)

Making == {"stage"} \cup Staging

\* A call gets to make a transfer by passing the quota alone, and the number of
\* transfers grows with its first step.
LEMMA CallsMake ==
    ASSUME TypeOK, DownInv, [Next]_vars
    PROVE  \/ \E s \in Sessions : SendFile(s)
           \/ \E s \in Sessions : Stage(s)
           \/ /\ Len(manifests') = Len(manifests)
              /\ \A z \in Sessions : /\ at'[Call(z)] = "stage" => at[Call(z)] = "stage"
                                     /\ at'[Call(z)] \in Making => at[Call(z)] \in Making
<1> DEFINE Fewer == \A z \in Sessions : /\ at'[Call(z)] = "stage" => at[Call(z)] = "stage"
                                        /\ at'[Call(z)] \in Making => at[Call(z)] \in Making
<1>1. ASSUME NEW a \in Actors, NEW where, Goto(a, where),
             where \notin Making \/ (where # "stage" /\ at[a] \in Making)
      PROVE  Fewer
  <2>1. ASSUME NEW z \in Sessions, Call(z) = a
        PROVE  /\ at'[Call(z)] = "stage" => at[Call(z)] = "stage"
               /\ at'[Call(z)] \in Making => at[Call(z)] \in Making
    BY <1>1, <2>1 DEF Goto, TypeOK, Making
  <2>2. ASSUME NEW z \in Sessions, Call(z) # a
        PROVE  at'[Call(z)] = at[Call(z)]
    BY <1>1, <2>2, ActorNames DEF Goto, TypeOK
  <2> QED
    BY <2>1, <2>2
<1>2. CASE UNCHANGED vars \/ Tick
  BY <1>2 DEF vars, Tick, disk
<1>3. ASSUME NEW s \in Sessions, Crash(s) \/ Restart(s)
      PROVE  Len(manifests') = Len(manifests) /\ Fewer
  <2>1. \A z \in Sessions : at'[Call(z)] \in {at[Call(z)], "down", "idle"}
    BY <1>3, ActorNames DEF Crash, Restart
  <2> QED
    BY <1>3, <2>1 DEF Crash, Restart, disk, Making, Staging
<1>4. ASSUME NEW s \in Sessions, CallStep(s), ~ SendFile(s), ~ Stage(s)
      PROVE  Len(manifests') = Len(manifests) /\ Fewer
  <2>0. Call(s) \in Actors
    BY ActorNames
  <2>1. CASE Copy(s)
    BY <1>1, <2>0, <2>1 DEF Copy, Making, Staging
  <2>2. CASE NotFound(s)
    BY <2>2 DEF NotFound, disk
  <2>3. CASE Publish(s) \/ Load(s) \/ Announce(s) \/ Fetch(s) \/ Open(s) \/ Delete(s) \/ Refuse(s)
             \/ StagingFails(s)
    BY <1>1, <2>0, <2>3 DEF Publish, Load, Announce, Fetch, Open, Delete, Refuse, StagingFails,
       End, Leave, disk, Making, Staging
  <2> QED
    BY <1>4, <2>1, <2>2, <2>3 DEF CallStep
<1>5. ASSUME NEW s \in Sweepers, SweepStep(s)
      PROVE  Len(manifests') = Len(manifests) /\ Fewer
  <2>0. Sweeper(s) \in Actors
    BY ActorNames
  <2>1. CASE SweepStart(s)
    BY <2>1 DEF SweepStart, disk
  <2>2. CASE SweepRead(s) \/ \E t \in Ids : SweepLook(s, t)
    BY <1>1, <2>0, <2>2 DEF SweepRead, SweepLook, Leave, disk, Making, Staging
  <2> QED
    BY <1>5, <2>1, <2>2 DEF SweepStep
<1>6. ASSUME NEW a \in Actors, RemovalStep(a)
      PROVE  Len(manifests') = Len(manifests) /\ Fewer
  <2>1. manifests' = manifests
    BY <1>6 DEF RemovalStep, List, Unlink, Rmdir, disk
  <2>2. ASSUME NEW how, Finish(a, how)
        PROVE  Fewer
    <3>1. at'[a] = "idle" /\ OnlyMoves(a)
      BY <2>1, <2>2, Finishes
    <3> QED
      BY <3>1, ActorNames DEF OnlyMoves, Making, Staging
  <2>3. CASE List(a)
    <3>1. CASE files[on[a]] = {}
      BY <2>1, <2>2, <2>3, <3>1 DEF List
    <3>2. CASE files[on[a]] # {}
      BY <1>1, <2>1, <2>3, <3>2 DEF List, Making, Staging
    <3> QED
      BY <3>1, <3>2
  <2>4. CASE Unlink(a)
    BY <2>2, <2>4 DEF Unlink
  <2>5. CASE Rmdir(a)
    BY <2>2, <2>5 DEF Rmdir
  <2> QED
    BY <1>6, <2>1, <2>3, <2>4, <2>5 DEF RemovalStep
<1> QED
  BY <1>2, <1>3, <1>4, <1>5, <1>6 DEF Next

\* The bound on the number of transfers holds.
LEMMA RoomStep ==
    ASSUME TypeOK, DownInv, RoomInv, [Next]_vars
    PROVE  RoomInv'
<1>0. Len(manifests) \in Nat /\ MaxTransfers \in Nat /\ Cardinality(Entering) \in Nat
      /\ IsFiniteSet(Entering)
  BY OnTransfer, FS_CardinalityType, TransfersAssumption DEF RoomInv
<1>1. ASSUME NEW s \in Sessions, SendFile(s)
      PROVE  RoomInv'
  <2>1. /\ at[Call(s)] = "idle" /\ manifests' = manifests
        /\ Len(manifests) + Cardinality(Entering) < MaxTransfers
        /\ at'[Call(s)] = "stage"
        /\ \A z \in Sessions \ {s} : at'[Call(z)] = at[Call(z)]
    BY <1>1, ActorNames, SMTT(30) DEF SendFile, Goto, TypeOK, disk
  <2>2. Entering' = Entering \cup {s} /\ s \notin Entering
    BY <2>1 DEF Entering
  <2>3. IsFiniteSet(Entering') /\ Cardinality(Entering') = Cardinality(Entering) + 1
    BY <1>0, <2>2, FS_AddElement
  <2> QED
    BY <1>0, <2>1, <2>3 DEF RoomInv
<1>2. ASSUME NEW s \in Sessions, Stage(s)
      PROVE  RoomInv'
  <2>1. /\ at[Call(s)] = "stage" /\ at'[Call(s)] = "copy" /\ Len(manifests') = Len(manifests) + 1
        /\ \A z \in Sessions \ {s} : at'[Call(z)] = at[Call(z)]
    BY <1>2, StagerBegins, ActorNames DEF Begins, OnlyMoves
  <2>2. Entering' = Entering \ {s} /\ s \in Entering
    BY <2>1 DEF Entering
  <2>3. IsFiniteSet(Entering') /\ Cardinality(Entering') = Cardinality(Entering) - 1
    BY <1>0, <2>2, FS_RemoveElement
  <2> QED
    BY <1>0, <2>1, <2>3 DEF RoomInv
<1>3. ASSUME Len(manifests') = Len(manifests),
             \A z \in Sessions : at'[Call(z)] = "stage" => at[Call(z)] = "stage"
      PROVE  RoomInv'
  <2>1. Entering' \subseteq Entering
    BY <1>3 DEF Entering
  <2>2. /\ IsFiniteSet(Entering') /\ Cardinality(Entering') <= Cardinality(Entering)
        /\ Cardinality(Entering') \in Nat
    BY <1>0, <2>1, FS_Subset, FS_CardinalityType
  <2> QED
    BY <1>0, <1>3, <2>2 DEF RoomInv
<1> QED
  BY <1>1, <1>2, <1>3, CallsMake

\* The file system lists one of the two files of each transfer first.
LEMMA FirstIsListed ==
    ASSUME TypeOK, RoomInv
    PROVE  \A t \in Ids : First[t] \in Payload
<1>1. Len(manifests) \in Nat /\ MaxTransfers \in Nat /\ Cardinality(Entering) \in Nat
  BY OnTransfer, FS_CardinalityType, TransfersAssumption DEF RoomInv
<1>2. \A t \in Ids : t \in 1..MaxTransfers
  BY <1>1 DEF RoomInv, Ids
<1> QED
  BY <1>2, TransfersAssumption DEF Payload

-----------------------------------------------------------------------------
(* Who completes or removes what is incomplete.                            *)

\* The stager of t keeps at it, unless it is cut short.
LEMMA StagersStay ==
    ASSUME TypeOK, DownInv, StageInv, [Next]_vars, NEW t \in Ids, AtWork(t, Staging)
    PROVE  t \in cut' \/ AtWork(t, Staging)' \/ Whole(t)'
<1>1. PICK a \in Actors : on[a] = t /\ at[a] \in Staging
  BY DEF AtWork
<1>2. SUFFICES ASSUME ~ (at'[a] = at[a] /\ on'[a] = on[a])
               PROVE  t \in cut' \/ AtWork(t, Staging)' \/ Whole(t)'
  BY <1>1 DEF AtWork
<1>3. CASE Rests
  BY <1>1, <1>2, <1>3 DEF Rests
<1>4. ASSUME NEW b \in Actors,
             \/ \E u \in Ids : TakesUp(b, u)
             \/ GoesOn(b) \/ Lists(b) \/ Unlinks(b) \/ Removes(b)
      PROVE  FALSE
  BY <1>1, <1>2, <1>4 DEF TakesUp, GoesOn, Lists, Unlinks, Removes, OnlyMoves, Staging
<1>5. ASSUME NEW s \in Sessions, Begins(s)
      PROVE  FALSE
  BY <1>1, <1>2, <1>5 DEF Begins, OnlyMoves, Staging
<1>6. ASSUME NEW s \in Sessions, Writes(s)
      PROVE  AtWork(t, Staging)' \/ Whole(t)'
  <2>1. a = Call(s)
    BY <1>1, <1>2, <1>6 DEF Writes, OnlyMoves
  <2>2. CASE at[a] = "copy"
    <3>1. at'[a] \in Staging /\ on'[a] = t
      BY <1>1, <1>6, <2>1, <2>2 DEF Writes, Staging
    <3> QED
      BY <3>1 DEF AtWork
  <2>3. CASE at[a] = "publish"
    <3>1. files'[t] = files[t] \cup {"manifest"} /\ files[t] = {"dir", "payload"}
      BY <1>1, <1>6, <2>1, <2>3 DEF Writes, Changes, StageInv, Staged
    <3> QED
      BY <3>1 DEF Whole, Payload
  <2> QED
    BY <1>1, <2>2, <2>3 DEF Staging
<1> QED
  BY <1>3, <1>4, <1>5, <1>6, StepKinds

\* A step that removes nothing of t and publishes nothing of it leaves its files.
\* These are the three that change them.
LEMMA FilesChange ==
    ASSUME TypeOK, DownInv, StageInv, [Next]_vars, NEW t \in Ids', t \notin Ids \/ files'[t] # files[t]
    PROVE  \/ AtWork(t, Staging)' \/ Whole(t)'
           \/ \E a \in Actors : on[a] = t /\ t \in Ids /\ (Unlinks(a) \/ Removes(a))
<1>1. CASE Rests
  BY <1>1 DEF Rests, disk, Ids
<1>2. ASSUME NEW a \in Actors, (\E u \in Ids : TakesUp(a, u)) \/ GoesOn(a) \/ Lists(a)
      PROVE  FALSE
  BY <1>2 DEF TakesUp, GoesOn, Lists, disk, Ids
<1>3. ASSUME NEW a \in Actors, Unlinks(a) \/ Removes(a)
      PROVE  on[a] = t /\ t \in Ids
  BY <1>3 DEF Unlinks, Removes, Changes, Ids
<1>4. ASSUME NEW s \in Sessions, Begins(s)
      PROVE  AtWork(t, Staging)'
  <2>1. t = Len(manifests) + 1
    BY <1>4, OnTransfer DEF Begins, Ids
  <2>2. on'[Call(s)] = t /\ at'[Call(s)] \in Staging /\ Call(s) \in Actors
    BY <1>4, <2>1, ActorNames DEF Begins, Staging
  <2> QED
    BY <2>2 DEF AtWork
<1>5. ASSUME NEW s \in Sessions, Writes(s)
      PROVE  AtWork(t, Staging)' \/ Whole(t)'
  <2>1. t = on[Call(s)] /\ t \in Ids /\ Call(s) \in Actors /\ at[Call(s)] \in Staging
    BY <1>5, ActorNames DEF Writes, Changes, Ids
  <2>2. CASE at[Call(s)] = "copy"
    <3>1. at'[Call(s)] \in Staging /\ on'[Call(s)] = t
      BY <1>5, <2>1, <2>2 DEF Writes, Staging
    <3> QED
      BY <2>1, <3>1 DEF AtWork
  <2>3. CASE at[Call(s)] = "publish"
    <3>1. files'[t] = files[t] \cup {"manifest"} /\ files[t] = {"dir", "payload"}
      BY <1>5, <2>1, <2>3 DEF Writes, Changes, StageInv, Staged
    <3> QED
      BY <3>1 DEF Whole, Payload
  <2> QED
    BY <2>1, <2>2, <2>3 DEF Staging
<1> QED
  BY <1>1, <1>2, <1>3, <1>4, <1>5, StepKinds

\* What is left of a transfer once its entry First[t] is gone.
LEMMA NextIsFirst ==
    ASSUME TypeOK, StageInv, RoomInv, NEW a \in Actors, Unlinks(a)
    PROVE  /\ on[a] \in Ids /\ files'[on[a]] \subseteq files[on[a]]
           /\ First[on[a]] \notin files'[on[a]]
<1>1. /\ at[a] = "unlink" /\ on[a] \in Ids
      /\ files'[on[a]] = files[on[a]] \ {NextEntry(a)}
      /\ files[on[a]] \subseteq todo[a] \cup {"dir"}
  BY DEF Unlinks, Changes, StageInv
<1>2. First[on[a]] \in Payload /\ First[on[a]] # "dir"
  BY <1>1, FirstIsListed DEF Payload
<1>3. CASE First[on[a]] \in files[on[a]]
  BY <1>1, <1>2, <1>3 DEF NextEntry
<1>4. CASE First[on[a]] \notin files[on[a]]
  BY <1>1, <1>4
<1> QED
  BY <1>1, <1>3, <1>4

\* The entry a directory lists first is gone before the other.
LEMMA OrderStep ==
    ASSUME TypeOK, DownInv, StageInv, RoomInv, OrderInv, [Next]_vars
    PROVE  OrderInv'
<1>1. ASSUME NEW t \in Ids', ~ (t \in cut' \/ AtWork(t, Staging)' \/ Whole(t)'),
             First[t] \in files'[t]
      PROVE  FALSE
  <2>1. CASE t \in Ids /\ files'[t] = files[t]
    <3>1. t \notin cut /\ ~ AtWork(t, Staging) /\ ~ Whole(t)
      BY <1>1, <2>1, TransfersStay, StagersStay DEF Whole
    <3> QED
      BY <1>1, <2>1, <3>1 DEF OrderInv
  <2>2. CASE ~ (t \in Ids /\ files'[t] = files[t])
    <3>1. PICK a \in Actors : on[a] = t /\ t \in Ids /\ (Unlinks(a) \/ Removes(a))
      BY <1>1, <2>2, FilesChange
    <3>2. CASE Unlinks(a)
      BY <1>1, <3>1, <3>2, NextIsFirst
    <3>3. CASE Removes(a)
      <4>1. files'[t] = {}
        BY <3>1, <3>3 DEF Removes, Changes, StageInv
      <4> QED
        BY <1>1, <4>1
    <3> QED
      BY <3>1, <3>2, <3>3
  <2> QED
    BY <2>1, <2>2
<1>2. \A t \in Ids' : t \in cut' \/ AtWork(t, Staging)' \/ (First[t] \in files'[t] => Whole(t)')
  BY <1>1
<1> QED
  BY <1>2 DEF OrderInv

\* The removal that is in step stays so until it has removed something.
LEMMA SyncStays ==
    ASSUME TypeOK, DownInv, StageInv, [Next]_vars, NEW a \in Actors, InSync(a),
           on[a] \in Ids, files'[on[a]] = files[on[a]], files[on[a]] # {}
    PROVE  on[a] \in cut' \/ (on'[a] = on[a] /\ InSync(a)')
<1>0. at[a] = "unlink" /\ todo[a] \subseteq files[on[a]] /\ "dir" \in files[on[a]]
  BY DEF InSync, TypeOK
<1>1. SUFFICES ASSUME ~ (at'[a] = at[a] /\ on'[a] = on[a] /\ todo'[a] = todo[a])
               PROVE  on[a] \in cut'
  BY <1>0 DEF InSync
<1>2. CASE Rests
  BY <1>1, <1>2 DEF Rests
<1>3. ASSUME NEW b \in Actors, (\E u \in Ids : TakesUp(b, u)) \/ GoesOn(b) \/ Lists(b)
      PROVE  FALSE
  BY <1>0, <1>1, <1>3 DEF TakesUp, GoesOn, Lists, OnlyMoves
<1>4. ASSUME NEW b \in Actors, Unlinks(b)
      PROVE  FALSE
  <2>1. b = a
    BY <1>1, <1>4 DEF Unlinks, OnlyMoves
  <2>2. NextEntry(a) \in files[on[a]] /\ NextEntry(a) \notin files'[on[a]]
    BY <1>0, <1>4, <2>1 DEF Unlinks, Changes
  <2> QED
    BY <2>2
<1>5. ASSUME NEW b \in Actors, Removes(b)
      PROVE  FALSE
  <2>1. b = a
    BY <1>1, <1>5 DEF Removes, OnlyMoves
  <2>2. "dir" \notin files'[on[a]]
    BY <1>5, <2>1 DEF Removes, Changes
  <2> QED
    BY <1>0, <2>2
<1>6. ASSUME NEW s \in Sessions, Begins(s) \/ Writes(s)
      PROVE  FALSE
  BY <1>0, <1>1, <1>6 DEF Begins, Writes, OnlyMoves, Staging
<1> QED
  BY <1>2, <1>3, <1>4, <1>5, <1>6, StepKinds

\* A removal that takes an entry away is in step afterwards.
LEMMA UnlinkSyncs ==
    ASSUME TypeOK, StageInv, RoomInv, OrderInv, NEW a \in Actors, Unlinks(a),
           files'[on[a]] # files[on[a]], on[a] \notin cut
    PROVE  on'[a] = on[a] /\ InSync(a)'
<1> DEFINE t == on[a]
           e == NextEntry(a)
<1>1. /\ at[a] = "unlink" /\ at'[a] = "unlink" /\ on'[a] = t /\ t \in Ids
      /\ e \in todo[a] /\ todo'[a] = todo[a] \ {e} /\ files'[t] = files[t] \ {e}
      /\ e \in files[t]
      /\ todo[a] \subseteq Payload /\ First[t] \in Payload
  BY FirstIsListed, OnTransfer DEF Unlinks, Changes
<1>2. ~ AtWork(t, Staging)
  BY <1>1 DEF AtWork, StageInv, Staging
<1>3. todo[a] \ {e} \subseteq files[t] \ {e}
  <2>1. CASE Whole(t)
    BY <1>1, <2>1 DEF Whole
  <2>2. CASE ~ Whole(t)
    <3>1. First[t] \notin files[t]
      BY <1>1, <1>2, <2>2 DEF OrderInv
    <3>2. First[t] \notin todo[a]
      BY <1>1, <3>1 DEF NextEntry
    <3>3. todo[a] \subseteq {e}
      BY <1>1, <3>2 DEF Payload
    <3> QED
      BY <3>3
  <2> QED
    BY <2>1, <2>2
<1> QED
  BY <1>1, <1>3 DEF InSync

\* A directory that lacks a file stays in the hands of somebody.
LEMMA LeakStep ==
    ASSUME TypeOK, DownInv, StageInv, RoomInv, OrderInv, LeakInv, [Next]_vars
    PROVE  LeakInv'
<1>1. ASSUME NEW t \in Ids', files'[t] # {}, ~ Whole(t)', t \notin cut',
             ~ AtWork(t, Staging)'
      PROVE  \E a \in Actors : on'[a] = t /\ InSync(a)'
  <2>0. t \in Ids => t \notin cut
    BY <1>1, TransfersStay
  <2>1. CASE t \in Ids /\ files'[t] = files[t]
    <3>1. files[t] # {} /\ ~ Whole(t) /\ ~ AtWork(t, Staging)
      BY <1>1, <2>1, StagersStay DEF Whole
    <3>2. PICK a \in Actors : on[a] = t /\ InSync(a)
      BY <2>0, <2>1, <3>1 DEF LeakInv, AtWork
    <3>3. on'[a] = t /\ InSync(a)'
      BY <1>1, <2>1, <3>1, <3>2, SyncStays
    <3> QED
      BY <3>3
  <2>2. CASE ~ (t \in Ids /\ files'[t] = files[t])
    <3>1. PICK a \in Actors : on[a] = t /\ t \in Ids /\ (Unlinks(a) \/ Removes(a))
      BY <1>1, <2>2, FilesChange
    <3>2. ~ Removes(a)
      BY <1>1, <3>1 DEF Removes, Changes, StageInv
    <3>3. on'[a] = t /\ InSync(a)'
      BY <2>0, <2>2, <3>1, <3>2, UnlinkSyncs
    <3> QED
      BY <3>3
  <2> QED
    BY <2>1, <2>2
<1>2. \A t \in Ids' : AtWork(t, Staging)' => \E a \in Actors : on'[a] = t /\ at'[a] \in Staging
  BY DEF AtWork
<1> QED
  BY <1>1, <1>2 DEF LeakInv, Whole, InSync

-----------------------------------------------------------------------------
(* The quota.                                                              *)

\* The transfers that count.
PendingOnes(agent) == {t \in Ids : Published(t) /\ manifests[t].sender = agent /\ ~ Expired(t)}

\* What a session stages is its own agent's.
LEMMA SenderStep ==
    ASSUME TypeOK, DownInv, StageInv, SenderInv, [Next]_vars
    PROVE  SenderInv'
<1>0. \A s \in Sessions : Call(s) \in Actors /\ (at[Call(s)] \in Staging => on[Call(s)] \in Ids)
  BY ActorNames, OnTransfer DEF Staging, Resting
<1>1. ASSUME NEW s \in Sessions, at'[Call(s)] \in Staging, at[Call(s)] \in Staging,
             on'[Call(s)] = on[Call(s)]
      PROVE  manifests'[on'[Call(s)]].sender = Owner[s]
  BY <1>0, <1>1, TransfersStay DEF SenderInv
<1>2. ASSUME NEW s \in Sessions, at'[Call(s)] \in Staging,
             ~ (at[Call(s)] \in Staging /\ on'[Call(s)] = on[Call(s)])
      PROVE  manifests'[on'[Call(s)]].sender = Owner[s]
  <2>1. ASSUME NEW z \in Sessions, Begins(z)
        PROVE  z = s /\ manifests'[on'[Call(s)]].sender = Owner[s]
    <3>1. Call(z) = Call(s)
      BY <1>0, <1>2, <2>1 DEF Begins, OnlyMoves
    <3>2. z = s
      BY <3>1, ActorNames
    <3> QED
      BY <2>1, <3>2 DEF Begins
  <2>2. ~ Rests
    BY <1>0, <1>2 DEF Rests, Resting, Staging
  <2>3. ASSUME NEW a \in Actors,
               \/ \E u \in Ids : TakesUp(a, u)
               \/ GoesOn(a) \/ Lists(a) \/ Unlinks(a) \/ Removes(a)
        PROVE  FALSE
    BY <1>0, <1>2, <2>3 DEF TakesUp, GoesOn, Lists, Unlinks, Removes, OnlyMoves, Staging
  <2>4. ASSUME NEW z \in Sessions, Writes(z)
        PROVE  FALSE
    BY <1>0, <1>2, <2>4 DEF Writes, OnlyMoves
  <2> QED
    BY <2>1, <2>2, <2>3, <2>4, StepKinds
<1> QED
  BY <1>1, <1>2 DEF SenderInv

\* Only the last step of a stager publishes a transfer.
LEMMA WhoPublishes ==
    ASSUME TypeOK, DownInv, StageInv, [Next]_vars, NEW t \in Ids', Published(t)'
    PROVE  \/ t \in Ids /\ Published(t)
           \/ t \in Ids /\ \E s \in Sessions : /\ t = on[Call(s)] /\ at[Call(s)] = "publish"
                                               /\ at'[Call(s)] = "load" /\ Writes(s)
<1>1. CASE Rests
  BY <1>1 DEF Rests, disk, Ids, Published
<1>2. ASSUME NEW a \in Actors, (\E u \in Ids : TakesUp(a, u)) \/ GoesOn(a) \/ Lists(a)
      PROVE  t \in Ids /\ Published(t)
  BY <1>2 DEF TakesUp, GoesOn, Lists, disk, Ids, Published
<1>3. ASSUME NEW a \in Actors, Unlinks(a) \/ Removes(a)
      PROVE  t \in Ids /\ Published(t)
  BY <1>3 DEF Unlinks, Removes, Changes, Ids, Published
<1>4. ASSUME NEW s \in Sessions, Begins(s)
      PROVE  t \in Ids /\ Published(t)
  <2>1. Len(manifests) \in Nat /\ (t \in Ids \/ t = Len(manifests) + 1)
    BY <1>4, OnTransfer DEF Begins, Ids
  <2> QED
    BY <1>4, <2>1 DEF Begins, Published
<1>5. ASSUME NEW s \in Sessions, Writes(s)
      PROVE  \/ t \in Ids /\ Published(t)
             \/ t \in Ids /\ t = on[Call(s)] /\ at[Call(s)] = "publish" /\ at'[Call(s)] = "load"
  <2>1. t \in Ids
    BY <1>5 DEF Writes, Changes, Ids
  <2> QED
    BY <1>5, <2>1 DEF Writes, Changes, Published, Staging
<1> QED
  BY <1>1, <1>2, <1>3, <1>4, <1>5, StepKinds

\* Only a call that passes the quota is noted, for its own agent.
LEMMA WhoNotes ==
    ASSUME TypeOK, [Next]_vars, NEW agent \in Agents
    PROVE  \/ most'[agent] = most[agent]
           \/ \E s \in Sessions : SendFile(s) /\ Owner[s] = agent
<1>1. CASE UNCHANGED vars \/ Tick
  BY <1>1 DEF vars, Tick, history
<1>2. ASSUME NEW s \in Sessions, Crash(s) \/ Restart(s)
      PROVE  most' = most
  BY <1>2 DEF Crash, Restart, history
<1>3. ASSUME NEW s \in Sessions, CallStep(s), ~ SendFile(s)
      PROVE  most' = most
  BY <1>3 DEF CallStep, Refuse, Stage, Copy, StagingFails, Publish, Load, Announce, Fetch, Open,
     Delete, NotFound, history
<1>4. ASSUME NEW s \in Sessions, SendFile(s), Owner[s] # agent
      PROVE  most'[agent] = most[agent]
  BY <1>4, TransfersAssumption DEF SendFile, Noted, TypeOK
<1>5. ASSUME NEW s \in Sweepers, SweepStep(s)
      PROVE  most' = most
  BY <1>5 DEF SweepStep, SweepStart, SweepRead, SweepLook, history
<1>6. ASSUME NEW a \in Actors, RemovalStep(a)
      PROVE  most' = most
  BY <1>6 DEF RemovalStep, List, Unlink, Rmdir, history
<1> QED
  BY <1>1, <1>2, <1>3, <1>4, <1>5, <1>6 DEF Next

\* What counts, and what is going to, but for the step that publishes and the one
\* that passes the quota.
LEMMA WhoCounts ==
    ASSUME TypeOK, DownInv, StageInv, SenderInv, [Next]_vars, NEW agent \in Agents
    PROVE  /\ \/ PendingOnes(agent)' \subseteq PendingOnes(agent)
              \/ \E s \in Sessions, t \in Ids :
                    /\ PendingOnes(agent)' \subseteq PendingOnes(agent) \cup {t}
                    /\ s \in Passed(agent) /\ Passed(agent)' \subseteq Passed(agent) \ {s}
           /\ \/ Passed(agent)' \subseteq Passed(agent) /\ most'[agent] = most[agent]
              \/ \E s \in Sessions : /\ SendFile(s) /\ Owner[s] = agent
                                    /\ Passed(agent)' \subseteq Passed(agent) \cup {s}
<1>0. \A s \in Sessions : Call(s) \in Actors /\ Call(s)[1] = s
  BY ActorNames
<1>1. \A t \in Ids : manifests'[t] = manifests[t] /\ (Expired(t) => Expired(t)')
  <2>1. \A t \in Ids : manifests'[t] = manifests[t] /\ manifests[t].expires \in Int
    BY TransfersStay, OnTransfer
  <2> QED
    BY <2>1, TimeGoesOn DEF Expired, ExpiredAt
<1>2. \/ Passed(agent)' \subseteq Passed(agent) /\ most'[agent] = most[agent]
      \/ \E s \in Sessions : /\ SendFile(s) /\ Owner[s] = agent
                            /\ Passed(agent)' \subseteq Passed(agent) \cup {s}
  <2>1. ASSUME NEW s \in Sessions, SendFile(s)
        PROVE  /\ Passed(agent)' \subseteq Passed(agent) \cup {s}
               /\ Owner[s] # agent => Passed(agent)' \subseteq Passed(agent)
    <3>0. Goto(Call(s), "stage")
      BY <2>1 DEF SendFile
    <3>1. \A z \in Sessions \ {s} : at'[Call(z)] = at[Call(z)]
      <4>1. ASSUME NEW z \in Sessions \ {s}
            PROVE  Call(z) \in Actors /\ Call(z) # Call(s)
        BY <1>0, <4>1
      <4> QED
        BY <3>0, <4>1 DEF Goto, TypeOK
    <3> QED
      BY <2>1, <3>1 DEF Passed
  <2>2. ASSUME NEW s \in Sessions, Stage(s)
        PROVE  Passed(agent)' \subseteq Passed(agent)
    <3>0. at[Call(s)] = "stage" /\ Goto(Call(s), "copy")
      BY <2>2 DEF Stage
    <3>1. at[Call(s)] = "stage" /\ \A z \in Sessions \ {s} : at'[Call(z)] = at[Call(z)]
      <4>1. ASSUME NEW z \in Sessions \ {s}
            PROVE  Call(z) \in Actors /\ Call(z) # Call(s)
        BY <1>0, <4>1
      <4> QED
        BY <3>0, <4>1 DEF Goto, TypeOK
    <3> QED
      BY <3>1 DEF Passed
  <2>3. ASSUME \A z \in Sessions : at'[Call(z)] \in Making => at[Call(z)] \in Making
        PROVE  Passed(agent)' \subseteq Passed(agent)
    BY <2>3 DEF Passed, Making
  <2> QED
    BY <2>1, <2>2, <2>3, CallsMake, WhoNotes
<1>3. CASE \A t \in Ids' : Published(t)' => t \in Ids /\ Published(t)
  <2>1. PendingOnes(agent)' \subseteq PendingOnes(agent)
    BY <1>1, <1>3 DEF PendingOnes
  <2> QED
    BY <1>2, <2>1
<1>4. ASSUME NEW t \in Ids', Published(t)', ~ (t \in Ids /\ Published(t))
      PROVE  \/ PendingOnes(agent)' \subseteq PendingOnes(agent)
             \/ \E s \in Sessions :
                    /\ PendingOnes(agent)' \subseteq PendingOnes(agent) \cup {t}
                    /\ s \in Passed(agent) /\ Passed(agent)' \subseteq Passed(agent) \ {s}
                    /\ t \in Ids
  <2>1. PICK s \in Sessions : /\ t = on[Call(s)] /\ at[Call(s)] = "publish"
                              /\ at'[Call(s)] = "load" /\ Writes(s)
    BY <1>4, WhoPublishes
  <2>2. t \in Ids /\ manifests[t].sender = Owner[s]
    BY <1>4, <2>1, WhoPublishes DEF SenderInv, Staging
  <2>3. \A u \in Ids' \ {t} : Published(u)' => u \in Ids /\ Published(u)
    BY <2>1 DEF Writes, Changes, Ids, Published
  <2>4. CASE Owner[s] # agent
    <3>1. manifests'[t].sender # agent
      BY <1>1, <2>2, <2>4
    <3>2. PendingOnes(agent)' \subseteq PendingOnes(agent)
      BY <1>1, <2>3, <3>1 DEF PendingOnes
    <3> QED
      BY <3>2
  <2>5. CASE Owner[s] = agent
    <3>1. PendingOnes(agent)' \subseteq PendingOnes(agent) \cup {t}
      BY <1>1, <2>3 DEF PendingOnes
    <3>2. s \in Passed(agent)
      BY <2>1, <2>5 DEF Passed, Staging
    <3>3. Passed(agent)' \subseteq Passed(agent) \ {s}
      <4>1. \A z \in Sessions \ {s} : at'[Call(z)] = at[Call(z)]
        BY <1>0, <2>1 DEF Writes, OnlyMoves
      <4> QED
        BY <2>1, <4>1 DEF Passed, Staging
    <3> QED
      BY <2>2, <3>1, <3>2, <3>3
  <2> QED
    BY <2>4, <2>5
<1> QED
  BY <1>2, <1>3, <1>4

\* Both can be counted.
LEMMA Countable ==
    ASSUME TypeOK, NEW agent
    PROVE  /\ IsFiniteSet(PendingOnes(agent)) /\ Cardinality(PendingOnes(agent)) \in Nat
           /\ IsFiniteSet(Passed(agent)) /\ Cardinality(Passed(agent)) \in Nat
           /\ Pending(agent) = Cardinality(PendingOnes(agent))
<1>1. IsFiniteSet(Ids) /\ PendingOnes(agent) \subseteq Ids
  BY OnTransfer, FS_Interval DEF Ids, PendingOnes
<1> QED
  BY <1>1, PassedCounted, FS_Subset, FS_CardinalityType DEF Pending, PendingOnes

\* A call that passes the quota adds itself to those that count.
LEMMA QuotaStep ==
    ASSUME TypeOK, DownInv, StageInv, SenderInv, QuotaInv, [Next]_vars
    PROVE  QuotaInv'
<1>0. TypeOK'
  BY StepKinds
<1> SUFFICES ASSUME NEW agent \in Agents
             PROVE  LET pp == Cardinality(PendingOnes(agent)')
                        qq == Cardinality(Passed(agent)')
                    IN  qq <= most'[agent] /\ (pp + qq > 0 => pp + qq < MaxPending + most'[agent])
  BY DEF QuotaInv, Pending, PendingOnes
<1> DEFINE p == Cardinality(PendingOnes(agent))
           q == Cardinality(Passed(agent))
           pp == Cardinality(PendingOnes(agent)')
           qq == Cardinality(Passed(agent)')
           m == most[agent]
           mm == most'[agent]
<1>1. /\ p \in Nat /\ q \in Nat /\ m \in Nat /\ mm \in Nat /\ MaxPending \in Nat
      /\ IsFiniteSet(PendingOnes(agent)) /\ IsFiniteSet(Passed(agent))
      /\ Pending(agent) = p
  <2>1. TypeOK /\ most' \in [Agents -> Nat]
    BY <1>0 DEF TypeOK
  <2> QED
    BY <2>1, Countable, TransfersAssumption DEF TypeOK
<1>2. pp \in Nat /\ qq \in Nat
  <2>1. /\ IsFiniteSet(Ids') /\ PendingOnes(agent)' \subseteq Ids'
    <3>1. Len(manifests') \in Nat
      BY <1>0, LenProperties DEF TypeOK
    <3>2. IsFiniteSet(1..Len(manifests'))
      BY <3>1, FS_Interval
    <3> QED
      BY <3>2 DEF Ids, PendingOnes
  <2>2. Passed(agent)' \subseteq Sessions /\ IsFiniteSet(Sessions)
    BY TransfersAssumption DEF Passed
  <2> QED
    BY <2>1, <2>2, FS_Subset, FS_CardinalityType
<1>3. q <= m /\ (p + q > 0 => p + q < MaxPending + m)
  BY <1>1 DEF QuotaInv
<1>4. PendingOnes(agent)' \subseteq PendingOnes(agent) => pp <= p
  BY <1>1, FS_Subset
<1>5. Passed(agent)' \subseteq Passed(agent) => qq <= q
  BY <1>1, FS_Subset
<1>6. ASSUME NEW s \in Sessions, SendFile(s), Owner[s] = agent,
             Passed(agent)' \subseteq Passed(agent) \cup {s}
      PROVE  qq <= mm /\ pp + qq < MaxPending + mm
  <2>1. Pending(agent) < MaxPending /\ PendingOnes(agent)' = PendingOnes(agent)
    BY <1>6 DEF SendFile, BelowQuota, disk, PendingOnes, Ids, Published, Expired, ExpiredAt
  <2>2. p < MaxPending /\ pp = p
    BY <1>1, <2>1
  <2>3. qq <= q + 1
    <3>1. /\ IsFiniteSet(Passed(agent) \cup {s})
          /\ Cardinality(Passed(agent) \cup {s}) \in {q, q + 1}
      BY <1>1, FS_AddElement
    <3>2. qq <= Cardinality(Passed(agent) \cup {s})
      BY <1>6, <3>1, FS_Subset
    <3> HIDE DEF q, qq
    <3> QED
      BY <1>1, <1>2, <3>1, <3>2
  <2>4. mm >= q + 1
    BY <1>6, NotedWell
  <2> HIDE DEF p, q, pp, qq, m, mm
  <2> QED
    BY <1>1, <1>2, <2>2, <2>3, <2>4
<1>7. ASSUME NEW s \in Sessions, NEW t \in Ids, mm = m,
             PendingOnes(agent)' \subseteq PendingOnes(agent) \cup {t},
             s \in Passed(agent), Passed(agent)' \subseteq Passed(agent) \ {s}
      PROVE  qq <= mm /\ pp + qq < MaxPending + mm
  <2>1. pp <= p + 1
    <3>1. /\ IsFiniteSet(PendingOnes(agent) \cup {t})
          /\ Cardinality(PendingOnes(agent) \cup {t}) \in {p, p + 1}
      BY <1>1, FS_AddElement
    <3>2. pp <= Cardinality(PendingOnes(agent) \cup {t})
      BY <1>7, <3>1, FS_Subset
    <3> HIDE DEF p, pp
    <3> QED
      BY <1>1, <1>2, <3>1, <3>2
  <2>2. qq <= q - 1 /\ q > 0
    <3>1. /\ IsFiniteSet(Passed(agent) \ {s})
          /\ Cardinality(Passed(agent) \ {s}) = q - 1
      BY <1>1, <1>7, FS_RemoveElement
    <3>2. qq <= Cardinality(Passed(agent) \ {s})
      BY <1>7, <3>1, FS_Subset
    <3>3. Cardinality(Passed(agent) \ {s}) \in Nat
      BY <3>1, FS_CardinalityType
    <3> HIDE DEF q, qq
    <3> QED
      BY <1>1, <1>2, <3>1, <3>2, <3>3
  <2> HIDE DEF p, q, pp, qq, m, mm
  <2> QED
    BY <1>1, <1>2, <1>3, <1>7, <2>1, <2>2
<1>8. ASSUME PendingOnes(agent)' \subseteq PendingOnes(agent),
             Passed(agent)' \subseteq Passed(agent), mm = m
      PROVE  qq <= mm /\ (pp + qq > 0 => pp + qq < MaxPending + mm)
  <2>1. pp <= p /\ qq <= q
    BY <1>4, <1>5, <1>8
  <2> HIDE DEF p, q, pp, qq, m, mm
  <2> QED
    BY <1>1, <1>2, <1>3, <1>8, <2>1
<1>9. \/ \E s \in Sessions : /\ SendFile(s) /\ Owner[s] = agent
                            /\ Passed(agent)' \subseteq Passed(agent) \cup {s}
      \/ /\ mm = m
         /\ \E s \in Sessions, t \in Ids :
               /\ PendingOnes(agent)' \subseteq PendingOnes(agent) \cup {t}
               /\ s \in Passed(agent) /\ Passed(agent)' \subseteq Passed(agent) \ {s}
      \/ /\ PendingOnes(agent)' \subseteq PendingOnes(agent)
         /\ Passed(agent)' \subseteq Passed(agent) /\ mm = m
  BY WhoCounts
<1> HIDE DEF p, q, pp, qq, m, mm
<1>10. qq <= mm /\ (pp + qq > 0 => pp + qq < MaxPending + mm)
  BY <1>6, <1>7, <1>8, <1>9
<1> QED
  BY <1>10 DEF pp, qq, mm

-----------------------------------------------------------------------------
(* The theorems.                                                           *)

IndInv ==
    /\ TypeOK /\ DownInv /\ StageInv /\ RoomInv /\ FreshInv /\ OrderInv /\ LeakInv
    /\ SenderInv /\ QuotaInv
    /\ FoundWhenFresh /\ DeletedIsGone

\* The inductive invariant holds of an empty directory.
LEMMA Initially == Init => IndInv
<1> SUFFICES ASSUME Init
             PROVE  IndInv
  OBVIOUS
<1>0. /\ manifests = <<>> /\ files = <<>> /\ Len(manifests) = 0 /\ Len(files) = 0 /\ Ids = {}
      /\ handed = {} /\ deleted = {} /\ cut = {} /\ reply = NoReply
      /\ \A a \in Actors : at[a] = "idle" /\ on[a] = 0 /\ todo[a] = {}
  <2>1. manifests = <<>> /\ Len(manifests) = 0 /\ Len(files) = 0
    BY DEF Init
  <2>2. Ids = {}
    BY <2>1 DEF Ids
  <2> QED
    BY <2>1, <2>2 DEF Init
<1>1. TypeOK
  <2>1. manifests \in Seq([sender : Agents, recipient : Agents, expires : Int])
        /\ files \in Seq(SUBSET Entries)
    BY <1>0
  <2>2. clock = 0 /\ clock \in 0..MaxTime /\ now \in [Sweepers -> 0..clock]
    BY TransfersAssumption DEF Init
  <2>3. /\ at \in [Actors -> Stages] /\ on \in [Actors -> 0..Len(manifests)]
        /\ todo \in [Actors -> SUBSET Payload]
    BY <1>0 DEF Init, Stages
  <2>4. reply \in [how : Replies \cup {"none"}, on : 0..Len(manifests)]
    BY <1>0 DEF NoReply, Reply
  <2>5. most \in [Agents -> Nat]
    BY DEF Init
  <2> QED
    BY <1>0, <2>1, <2>2, <2>3, <2>4, <2>5 DEF TypeOK
<1>2. DownInv /\ StageInv /\ FreshInv /\ OrderInv /\ LeakInv /\ SenderInv
  <2>1. \A s \in Sessions : Call(s) \in Actors
    BY ActorNames
  <2> QED
    BY <1>0, <2>1 DEF DownInv, StageInv, FreshInv, OrderInv, LeakInv, SenderInv, Staging,
       Holding, Removing
<1>3. \A s \in Sessions : at[Call(s)] = "idle"
  BY <1>0, ActorNames
<1>4. RoomInv
  <2>1. Entering = {}
    BY <1>3 DEF Entering
  <2> QED
    BY <1>0, <2>1, FS_EmptySet, TransfersAssumption DEF RoomInv
<1>5. FoundWhenFresh /\ DeletedIsGone
  BY <1>0 DEF FoundWhenFresh, DeletedIsGone, NoReply, Reply
<1>6. QuotaInv
  <2> SUFFICES ASSUME NEW agent \in Agents
               PROVE  Pending(agent) = 0 /\ Cardinality(Passed(agent)) = 0 /\ most[agent] = 0
    BY DEF QuotaInv
  <2>1. PendingOnes(agent) = {} /\ Passed(agent) = {}
    BY <1>0, <1>3 DEF PendingOnes, Passed, Staging
  <2> QED
    BY <1>1, <2>1, Countable, FS_EmptySet DEF Init
<1> QED
  BY <1>1, <1>2, <1>4, <1>5, <1>6 DEF IndInv

\* It is kept by every step.
LEMMA Inductive == IndInv /\ [Next]_vars => IndInv'
<1> SUFFICES ASSUME IndInv, [Next]_vars
             PROVE  IndInv'
  OBVIOUS
<1>1. /\ TypeOK /\ DownInv /\ StageInv /\ RoomInv /\ FreshInv /\ OrderInv /\ LeakInv
      /\ SenderInv /\ QuotaInv /\ FoundWhenFresh /\ DeletedIsGone
  BY DEF IndInv
<1>2. TypeOK' /\ DownInv' /\ StageInv' /\ RoomInv'
  BY <1>1, StepKinds, DownStep, StageStep, RoomStep
<1>3. FreshInv' /\ OrderInv' /\ LeakInv'
  BY <1>1, FreshStep, OrderStep, LeakStep
<1>4. SenderInv' /\ QuotaInv'
  BY <1>1, SenderStep, QuotaStep
<1>5. FoundWhenFresh' /\ DeletedIsGone'
  BY <1>1, FoundStep, DeletedStep
<1> QED
  BY <1>2, <1>3, <1>4, <1>5 DEF IndInv

\* It holds in every reachable state.
LEMMA Invariance == Spec => []IndInv
BY Initially, Inductive, PTL DEF Spec

\* Transfers, threads and clocks have the shape the model gives them whatever the
\* tools and sweeps of transfers.py and server.py do; above all, a thread has a
\* transfer exactly in the stages that work on one, directories go last, and no
\* transfer outlives the operator's maximum (_clamp_ttl).
THEOREM TypeCorrect == Spec => []TypeOK
<1>1. IndInv => TypeOK
  BY DEF IndInv
<1> QED
  BY <1>1, Invariance, PTL

\* stage_file counts the pending transfers of the agent before it copies, without
\* a lock: with any number of sessions, whichever die, an agent is over its quota
\* by less than the calls of its that were past the count at once.
THEOREM QuotaHolds == Spec => []WithinQuota
<1>1. IndInv => WithinQuota
  <2> SUFFICES ASSUME IndInv, NEW agent \in Agents, Pending(agent) > 0
               PROVE  Pending(agent) < MaxPending + most[agent]
    BY DEF WithinQuota
  <2>1. /\ Pending(agent) \in Nat /\ Cardinality(Passed(agent)) \in Nat
        /\ most[agent] \in Nat /\ MaxPending \in Nat
    BY Countable, TransfersAssumption DEF IndInv, TypeOK
  <2>2. Pending(agent) + Cardinality(Passed(agent)) > 0
    BY <2>1
  <2>3. Pending(agent) + Cardinality(Passed(agent)) < MaxPending + most[agent]
    BY <2>2 DEF IndInv, QuotaInv
  <2> QED
    BY <2>1, <2>3
<1> QED
  BY <1>1, Invariance, PTL

\* ADR-007 4.3: stage_file writes the manifest last, so whoever finds one finds
\* the file, whatever removals and sweeps do meanwhile, but for a removal at work
\* or cut short.
THEOREM ManifestsMeanFiles == Spec => []ManifestMeansFile
<1>1. IndInv => ManifestMeansFile
  <2> SUFFICES ASSUME IndInv, NEW t \in Ids, Published(t), "payload" \notin files[t],
                      t \notin cut
               PROVE  AtWork(t, {"unlink"})
    BY DEF ManifestMeansFile
  <2>1. PICK a \in Actors : on[a] = t /\ (at[a] \in Staging \/ InSync(a))
    BY DEF IndInv, LeakInv, Whole, Payload, Published
  <2>2. at[a] \notin Staging
    BY <2>1 DEF IndInv, StageInv, Staged, Published
  <2> QED
    BY <2>1, <2>2 DEF AtWork, InSync
<1> QED
  BY <1>1, Invariance, PTL

\* A caller of fetch_file, delete_file or load_manifest is told that a transfer is
\* missing only after it expired or its deletion was asked for, even though the
\* sweep takes a manifest that vanished for a corrupt one and removes the rest.
THEOREM FreshIsFound == Spec => []FoundWhenFresh
<1>1. IndInv => FoundWhenFresh
  BY DEF IndInv
<1> QED
  BY <1>1, Invariance, PTL

\* When agent_delete_file answers "deleted" nothing of the transfer is left, with
\* any number of sweeps and deletions of the same directory around it.
THEOREM DeletedStaysGone == Spec => []DeletedIsGone
<1>1. IndInv => DeletedIsGone
  BY DEF IndInv
<1> QED
  BY <1>1, Invariance, PTL

\* A directory without a manifest, which no sweep looks at, is in the hands of
\* its stager or of a removal that nothing but an error or a death stops: when
\* several rmtree race, the one that took the last entry is always in step.
THEOREM NothingLeaks == Spec => []NoneLeaked
<1>1. IndInv => NoneLeaked
  <2> SUFFICES ASSUME IndInv, NEW t \in Ids, files[t] # {}, ~ Published(t), t \notin cut
               PROVE  AtWork(t, Staging \cup Removing)
    BY DEF NoneLeaked
  <2>1. PICK a \in Actors : on[a] = t /\ (at[a] \in Staging \/ InSync(a))
    BY DEF IndInv, LeakInv, Whole, Payload, Published
  <2> QED
    BY <2>1 DEF AtWork, InSync, Removing
<1> QED
  BY <1>1, Invariance, PTL
=============================================================================
