------------------------ MODULE FacadeTransfersProofs ------------------------
(***************************************************************************)
(* What TLAPS proves of FacadeTransfers, for any clients and bounds: the   *)
(* types, the quota, that a live row has its file, that fresh transfers    *)
(* are found and that none is forgotten.                                   *)
(*                                                                         *)
(* LoopInv says what the loop may be in the middle of, FileInv how rows    *)
(* and files go together, LeakInv who sees to a directory without a row,   *)
(* QuotaInv what the uploads under way may still add to the quota.         *)
(***************************************************************************)
EXTENDS FacadeTransfers, DataLemmas

-----------------------------------------------------------------------------
(* The invariants.                                                         *)

Names == {"none", "create", "sweep", "delete"}

\* What the loop is in the middle of says what has been done before.
LoopInv ==
    /\ loop \in [name : Names, todo : SUBSET Ids, marked : {0} \cup Ids]
    /\ loop.name = "none" => loop = Idle
    /\ loop.name = "create" =>
          /\ loop.marked = 0
          /\ \E t \in Ids : loop.todo = {t}
          /\ \A t \in loop.todo : t \notin copying /\ {"dir", "payload"} \subseteq files[t]
    /\ loop.name = "delete" => loop.todo \subseteq deleted
    /\ loop.name = "sweep" => \A t \in loop.todo : Overdue(t)
    /\ loop.marked # 0 => rows[loop.marked].deleted

\* The transfers that calls have to do with after the upload.
CallInv ==
    \A c \in Clients : /\ call[c].kind = "announce" => call[c].on \in Rows
                       /\ call[c].kind = "open" => call[c].on \in handed

\* Rows and files, and why a row is marked as deleted.
FileInv ==
    /\ RowHasFile
    /\ \A t \in copying : "dir" \in files[t]
    /\ \A t \in Rows : rows[t].deleted => t \in deleted \/ Overdue(t)

\* Whoever has a directory without a live row in hand does not let go of it.
LeakInv ==
    \A t \in Ids : files[t] # {} /\ ~ Live(t) =>
        \/ t \in copying \cup cut
        \/ t \in loop.todo /\ (loop.name = "create" \/ loop.marked = t)

\* What is under way counts as if it had its row, and has been noted.
QuotaInv ==
    \A agent \in Agents :
        LET n == Cardinality(UnderWay(agent))
        IN  /\ n <= most[agent]
            /\ Pending(agent) + n > 0 => Pending(agent) + n < MaxPending + most[agent]

Inv == TypeOK /\ LoopInv /\ CallInv /\ FileInv /\ LeakInv

-----------------------------------------------------------------------------
(* The types.                                                              *)

Uploads == [sender : Agents, recipient : Agents, ttl : Int]
Calls == [kind : {"none", "upload", "announce", "open", "delete"}, on : 0..Len(uploads)]
Answers == [how : {"none", "sent", "missing"}, on : 0..Len(uploads)]

\* What the types say of each transfer.
LEMMA Known ==
    ASSUME TypeOK
    PROVE  /\ Len(uploads) \in Nat /\ Len(files) = Len(uploads) /\ Ids \subseteq Nat \ {0}
           /\ uploads \in Seq(Uploads) /\ \A t \in Ids : uploads[t] \in Uploads
           /\ \A t \in Ids : uploads[t].ttl \in Int /\ uploads[t].ttl <= MaxTtl
           /\ files \in Seq(SUBSET Entries) /\ \A t \in Ids : files[t] \in SUBSET Entries
           /\ clock \in Nat /\ MaxTtl \in Nat /\ Rows \subseteq Ids
           /\ \A t \in Rows : rows[t].expires \in Int /\ rows[t].deleted \in BOOLEAN
<1>1. Len(uploads) \in Nat /\ Len(files) = Len(uploads) /\ Ids \subseteq Nat \ {0}
  BY LenProperties, SMTT(30) DEF TypeOK, Ids
<1>2. uploads \in Seq(Uploads) /\ files \in Seq(SUBSET Entries)
  BY DEF TypeOK, Uploads
<1>3. \A t \in Ids : uploads[t] \in Uploads /\ files[t] \in SUBSET Entries
  BY <1>1, <1>2, ElementOfSeq DEF Ids
<1>4. clock \in Nat /\ MaxTtl \in Nat
  BY FacadeTransfersAssumption DEF TypeOK
<1>5. \A t \in Rows : rows[t].expires \in Int /\ rows[t].deleted \in BOOLEAN
  BY DEF TypeOK
<1>6. \A t \in Ids : uploads[t].ttl \in Int /\ uploads[t].ttl <= MaxTtl
  BY <1>3 DEF TypeOK, Uploads
<1> QED
  BY <1>1, <1>2, <1>3, <1>4, <1>5, <1>6 DEF TypeOK

\* A row is marked.
LEMMA RowMarked ==
    ASSUME TypeOK, NEW t \in Rows, rows' = [rows EXCEPT ![t].deleted = TRUE]
    PROVE  /\ Rows' = Rows /\ rows'[t].deleted /\ rows'[t].expires = rows[t].expires
           /\ rows'[t] \in [expires : Int, deleted : BOOLEAN]
           /\ \A u \in Rows \ {t} : rows'[u] = rows[u]
BY DEF TypeOK, Rows

-----------------------------------------------------------------------------
(* The steps that leave the disk and the loop alone.                       *)

Quiet ==
    /\ UNCHANGED <<uploads, disk, copying, loop, deleted, most, cut>>
    /\ clock' \in 0..MaxTime /\ clock <= clock'
    /\ handed \subseteq handed' /\ handed' \subseteq Rows
    /\ call' \in [Clients -> Calls] /\ reply' \in Answers
    /\ \A c \in Clients :
        \/ call'[c] = call[c]
        \/ call'[c] = Nothing
        \/ call[c] = Nothing /\ call'[c].kind = "open" /\ call'[c].on \in handed

\* The refusals, the announcements, the readers, the clock and a client that gives up.
LEMMA QuietSteps ==
    ASSUME TypeOK, CallInv,
           \/ UNCHANGED vars \/ Tick
           \/ \E c \in Clients : Refuse(c) \/ Announce(c) \/ Download(c) \/ Open(c) \/ GiveUp(c)
    PROVE  Quiet
<1>0. /\ clock \in 0..MaxTime /\ clock \in Nat /\ MaxTime \in Nat
      /\ call \in [Clients -> Calls] /\ reply \in Answers /\ NoReply \in Answers
      /\ Nothing \in Calls /\ handed \subseteq Rows /\ Rows \subseteq Ids
      /\ \A t \in Ids : t \in 0..Len(uploads)
  <2>1. Len(uploads) \in Nat /\ clock \in Nat /\ Rows \subseteq Ids
    BY Known
  <2>2. clock \in 0..MaxTime /\ MaxTime \in Nat /\ handed \subseteq Rows
    BY FacadeTransfersAssumption DEF TypeOK
  <2>3. call \in [Clients -> Calls] /\ reply \in Answers
    BY DEF TypeOK, Calls, Answers
  <2>4. NoReply \in Answers /\ Nothing \in Calls
    BY <2>1 DEF Calls, Answers, NoReply, Reply, Nothing, Doing
  <2>5. \A t \in Ids : t \in 0..Len(uploads)
    BY <2>1 DEF Ids
  <2> QED
    BY <2>1, <2>2, <2>3, <2>4, <2>5
<1>1. CASE UNCHANGED vars
  BY <1>0, <1>1 DEF vars, Quiet, disk, Calls, Answers
<1>2. CASE Tick
  BY <1>0, <1>2 DEF Tick, Silent, Quiet, disk, history, Calls, Answers
<1>3. ASSUME NEW c \in Clients, Refuse(c)
      PROVE  Quiet
  BY <1>0, <1>3 DEF Refuse, Silent, Quiet, disk, history, Calls, Answers
<1>4. ASSUME NEW c \in Clients, Announce(c)
      PROVE  Quiet
  <2>1. call[c].on \in Rows
    BY <1>4 DEF Announce, CallInv
  <2>2. handed \subseteq handed' /\ handed' \subseteq Rows
    BY <1>0, <1>4, <2>1 DEF Announce
  <2> QED
    BY <1>0, <1>4, <2>1, <2>2 DEF Announce, Silent, Quiet, disk, Calls, Answers
<1>5. ASSUME NEW c \in Clients, Download(c)
      PROVE  Quiet
  <2>1. PICK t \in handed :
          IF "payload" \in files[t]
            THEN call' = [call EXCEPT ![c] = Doing("open", t)] /\ Silent
            ELSE reply' = Reply("missing", t) /\ UNCHANGED call
    BY <1>5 DEF Download
  <2>2. t \in 0..Len(uploads)
    BY <1>0
  <2>3. Reply("missing", t) \in Answers /\ Doing("open", t) \in Calls
    BY <2>2 DEF Reply, Doing, Answers, Calls
  <2>4. /\ reply' \in Answers /\ call' \in [Clients -> Calls]
        /\ \A b \in Clients : \/ call'[b] = call[b]
                              \/ call[b] = Nothing /\ call'[b].kind = "open" /\ call'[b].on \in handed
    BY <1>0, <1>5, <2>1, <2>3 DEF Download, Silent, Doing
  <2> QED
    BY <1>0, <1>5, <2>4 DEF Download, Quiet, disk, history, Calls, Answers
<1>6. ASSUME NEW c \in Clients, Open(c)
      PROVE  Quiet
  <2>1. call[c].on \in 0..Len(uploads)
    BY <1>0 DEF Calls
  <2>2. reply' \in Answers
    BY <1>6, <2>1 DEF Open, Reply, Answers
  <2> QED
    BY <1>0, <1>6, <2>2 DEF Open, Quiet, disk, history, Calls, Answers
<1>7. ASSUME NEW c \in Clients, GiveUp(c)
      PROVE  Quiet
  BY <1>0, <1>7 DEF GiveUp, Silent, Quiet, disk, history, Calls, Answers
<1> QED
  BY <1>1, <1>2, <1>3, <1>4, <1>5, <1>6, <1>7

\* They keep the invariant.
LEMMA QuietKeeps ==
    ASSUME Inv, Quiet
    PROVE  Inv'
<1>0. /\ UNCHANGED <<uploads, rows, files, copying, loop, deleted, most, cut>>
      /\ Ids' = Ids /\ Rows' = Rows
      /\ clock \in Nat /\ clock' \in Nat /\ clock <= clock' /\ MaxTtl \in Nat
      /\ TypeOK /\ \A t \in Rows : rows[t].expires \in Int
  BY Known, FacadeTransfersAssumption DEF Inv, Quiet, disk, Ids, Rows
<1>1. TypeOK'
  <2>1. \A t \in Rows : rows[t].expires <= clock' + MaxTtl
    BY <1>0 DEF TypeOK
  <2> QED
    BY <1>0, <2>1 DEF Quiet, TypeOK, Calls, Answers
<1>2. \A t \in Rows : Overdue(t) => Overdue(t)'
  BY <1>0 DEF Overdue
<1>3. LoopInv'
  BY <1>0, <1>2 DEF Inv, LoopInv, TypeOK, Overdue
<1>4. CallInv'
  BY <1>0 DEF Inv, CallInv, Quiet, Nothing, Doing
<1>5. FileInv'
  BY <1>0, <1>2 DEF Inv, FileInv, RowHasFile, Live
<1>6. LeakInv'
  BY <1>0 DEF Inv, LeakInv, Live
<1> QED
  BY <1>1, <1>3, <1>4, <1>5, <1>6 DEF Inv

-----------------------------------------------------------------------------
(* The steps of an upload.                                                 *)

\* Facts about a state that the steps below start from.
LEMMA Before ==
    ASSUME Inv
    PROVE  /\ TypeOK /\ LoopInv /\ CallInv /\ FileInv /\ LeakInv
           /\ loop.todo \subseteq Ids /\ (Free => loop.name = "none" /\ loop.todo = {} /\ loop.marked = 0)
           /\ \A t \in loop.todo : loop.name # "create" => t \in Rows
           /\ copying \subseteq Ids \ Rows /\ handed \subseteq Rows /\ deleted \subseteq Rows
           /\ cut \subseteq Ids
           /\ call \in [Clients -> Calls] /\ Nothing \in Calls /\ NoReply \in Answers
BY Known, SMTT(30)
   DEF Inv, TypeOK, LoopInv, Free, Idle, Task, Calls, Answers, NoReply, Reply, Nothing, Doing

\* The transfer that an upload adds.
LEMMA UploadStarts ==
    ASSUME TypeOK, NEW c \in Clients, StartUpload(c)
    PROVE  \E up \in Uploads :
              /\ uploads' = Append(uploads, up) /\ up.sender = Owner[c] /\ up.ttl <= MaxTtl
              /\ uploads' \in Seq(Uploads) /\ Len(uploads') = Len(uploads) + 1
              /\ uploads'[Len(uploads) + 1] = up /\ \A t \in Ids : uploads'[t] = uploads[t]
<1>0. PICK up \in Uploads : /\ uploads' = Append(uploads, up) /\ up.sender = Owner[c]
                           /\ up.ttl <= MaxTtl
  <2>1. PICK target \in Targets, ttl \in {d \in Ttls : AcceptableTtl(d)} :
          uploads' = Append(uploads, Upload(Owner[c], target, Hours(ttl)))
    BY DEF StartUpload
  <2>2. Hours(ttl) \in Int
    <3>1. Asked(ttl) \in Int /\ Hour \in Nat \ {0}
      BY FacadeTransfersAssumption DEF Asked
    <3>2. Asked(ttl) \div Hour \in Int /\ (-Asked(ttl)) \div Hour \in Int
      BY <3>1
    <3>3. (Asked(ttl) \div Hour) * Hour \in Int /\ -((-Asked(ttl)) \div Hour) * Hour \in Int
      BY <3>1, <3>2
    <3> QED
      BY <3>3 DEF Hours
  <2>3. Upload(Owner[c], target, Hours(ttl)) \in Uploads
    BY <2>2, FacadeTransfersAssumption DEF Upload, Uploads
  <2> QED
    BY <2>1, <2>3 DEF Upload, AcceptableTtl
<1> QED
  BY <1>0, Known, Added DEF Ids

\* The transfers that count.
PendingOnes(agent) == {t \in Rows : uploads[t].sender = agent /\ Live(t) /\ rows[t].expires > clock}

\* They and the uploads under way can be counted.
LEMMA Countable ==
    ASSUME TypeOK, NEW agent
    PROVE  /\ IsFiniteSet(PendingOnes(agent)) /\ Cardinality(PendingOnes(agent)) \in Nat
           /\ IsFiniteSet(UnderWay(agent)) /\ Cardinality(UnderWay(agent)) \in Nat
           /\ Pending(agent) = Cardinality(PendingOnes(agent))
<1>1. IsFiniteSet(Ids) /\ PendingOnes(agent) \subseteq Ids
  <2>1. Len(uploads) \in Nat /\ Rows \subseteq Ids
    BY Known
  <2>2. 1 \in Int /\ Len(uploads) \in Int
    BY <2>1
  <2>3. IsFiniteSet(Ids)
    BY <2>2, FS_Interval DEF Ids
  <2> QED
    BY <2>1, <2>3 DEF PendingOnes
<1>2. UnderWay(agent) \subseteq Ids
  BY DEF UnderWay, TypeOK
<1> QED
  BY <1>1, <1>2, FS_Subset, FS_CardinalityType DEF Pending, PendingOnes

\* What an upload that starts does to the count of its agent's.
LEMMA NotedWell ==
    ASSUME TypeOK, NEW c \in Clients, StartUpload(c)
    PROVE  /\ most' \in [Agents -> Nat] /\ Owner[c] \in Agents
           /\ \A agent \in Agents \ {Owner[c]} : most'[agent] = most[agent]
           /\ most'[Owner[c]] >= Cardinality(UnderWay(Owner[c])) + 1
<1>1. Owner[c] \in Agents /\ most \in [Agents -> Nat] /\ Noted(Owner[c])
  BY FacadeTransfersAssumption DEF StartUpload, TypeOK
<1>2. Cardinality(UnderWay(Owner[c])) \in Nat
  BY Countable
<1> DEFINE n == Cardinality(UnderWay(Owner[c])) + 1
<1>3. n \in Nat /\ most' = [most EXCEPT ![Owner[c]] = IF n > @ THEN n ELSE @]
  BY <1>1, <1>2 DEF Noted
<1> HIDE DEF n
<1>4. /\ most' \in [Agents -> Nat] /\ most'[Owner[c]] >= n
      /\ \A agent \in Agents \ {Owner[c]} : most'[agent] = most[agent]
  BY <1>1, <1>3
<1> QED
  BY <1>1, <1>4 DEF n

\* An upload brings a directory and a client that waits for it.
LEMMA StartKeeps ==
    ASSUME Inv, NEW c \in Clients, StartUpload(c)
    PROVE  Inv'
<1> DEFINE new == Len(uploads) + 1
<1>0. PICK up \in Uploads :
          /\ up.sender = Owner[c] /\ up.ttl <= MaxTtl
          /\ uploads' \in Seq(Uploads) /\ Len(uploads') = new
          /\ uploads'[new] = up /\ \A t \in Ids : uploads'[t] = uploads[t]
  BY UploadStarts, Before
<1>1. /\ Len(uploads) \in Nat /\ uploads' \in Seq(Uploads) /\ Len(uploads') = new
      /\ uploads'[new] = up /\ \A t \in Ids : uploads'[t] = uploads[t]
  BY <1>0, Known DEF Inv
<1>2. /\ files' \in Seq(SUBSET Entries) /\ Len(files') = new
      /\ files'[new] = {"dir", "tmp"} /\ \A t \in Ids : files'[t] = files[t]
  <2>1. {"dir", "tmp"} \in SUBSET Entries /\ files' = Append(files, {"dir", "tmp"})
    BY DEF StartUpload, Entries
  <2> QED
    BY <2>1, Known, Added DEF Inv, Ids
<1>3. /\ Free /\ call[c] = Nothing /\ copying' = copying \cup {new}
      /\ call' = [call EXCEPT ![c] = Doing("upload", new)] /\ reply' = NoReply
      /\ UNCHANGED <<clock, rows, loop, handed, deleted, cut>> /\ Rows' = Rows
      /\ most' \in [Agents -> Nat]
  BY <1>1, NotedWell, Before DEF StartUpload, Silent, Rows
<1>4. Ids' = Ids \cup {new} /\ new \notin Ids
  BY <1>1 DEF Ids
<1>5. /\ call'[c] = Doing("upload", new) /\ call' \in [Clients -> Calls']
      /\ \A b \in Clients \ {c} : call'[b] = call[b]
  <2>1. call \in [Clients -> Calls] /\ Calls \subseteq Calls' /\ Doing("upload", new) \in Calls'
    BY <1>1, Before DEF Calls, Doing
  <2> QED
    BY <1>3, <2>1
<1> HIDE DEF new
<1>6. TypeOK'
  <2>1. reply' \in Answers'
    BY <1>1, <1>3 DEF Answers, NoReply, Reply
  <2>2. Rows \subseteq Ids /\ new \notin Rows
    BY <1>4, Before DEF TypeOK
  <2>3. copying' \subseteq Ids' \ Rows'
    BY <1>3, <1>4, <2>2, Before
  <2>4. /\ loop.name \in Names /\ loop.todo = {} /\ loop.marked = 0
    BY <1>3, Before DEF Names
  <2>5. \A t \in Ids' : files'[t] # {} => "dir" \in files'[t]
    BY <1>2, <1>4, Before DEF TypeOK
  <2>6. /\ clock \in 0..MaxTime /\ handed \cup deleted \subseteq Rows /\ cut \subseteq Ids
        /\ \A t \in Rows : /\ rows[t] \in [expires : Int, deleted : BOOLEAN]
                           /\ rows[t].expires <= clock + MaxTtl
    BY Before DEF TypeOK
  <2>7. \A t \in Ids' : uploads'[t].ttl <= MaxTtl
    BY <1>0, <1>1, <1>4, Before DEF TypeOK
  <2> QED
    BY <1>1, <1>2, <1>3, <1>4, <1>5, <2>1, <2>2, <2>3, <2>4, <2>5, <2>6, <2>7
    DEF TypeOK, Uploads, Calls, Answers, Names
<1>7. LoopInv'
  <2>1. loop \in [name : Names, todo : SUBSET Ids', marked : {0} \cup Ids'] /\ loop = Idle
    BY <1>3, <1>4, Before DEF LoopInv, Free
  <2> QED
    BY <1>3, <2>1 DEF LoopInv, Idle, Task
<1>8. CallInv'
  BY <1>3, <1>5, Before DEF CallInv, Doing
<1>9. FileInv'
  BY <1>2, <1>3, Before DEF FileInv, RowHasFile, Live, Overdue, TypeOK
<1>10. LeakInv'
  BY <1>2, <1>3, <1>4, Before DEF LeakInv, Live
<1> QED
  BY <1>6, <1>7, <1>8, <1>9, <1>10 DEF Inv

\* The directory of t becomes left.
LEMMA FilesChange ==
    ASSUME TypeOK, NEW t \in Ids, NEW left \in SUBSET Entries, left # {} => "dir" \in left,
           files' = [files EXCEPT ![t] = left], uploads' = uploads
    PROVE  /\ files' \in Seq(SUBSET Entries) /\ Len(files') = Len(uploads')
           /\ \A u \in Ids' : files'[u] # {} => "dir" \in files'[u]
           /\ files'[t] = left /\ \A u \in Ids \ {t} : files'[u] = files[u]
           /\ Ids' = Ids
<1>1. /\ files' \in Seq(SUBSET Entries) /\ Len(files') = Len(files)
      /\ files'[t] = left /\ \A u \in Ids \ {t} : files'[u] = files[u]
  BY Known, Replaced DEF Ids
<1>2. Ids' = Ids
  BY DEF Ids
<1> QED
  BY <1>1, <1>2, Known DEF TypeOK

\* What becomes of the calls that wait for an answer.
LEMMA Answered ==
    ASSUME Inv, NEW kind, NEW t, NEW next \in Calls, Answer(kind, t, next)
    PROVE  /\ call' \in [Clients -> Calls]
           /\ \A c \in Clients : call'[c] = IF call[c] = Doing(kind, t) THEN next ELSE call[c]
BY Before DEF Answer

\* An upload that fails leaves a directory that nobody will look at: it is cut.
LEMMA FailureKeeps ==
    ASSUME Inv, NEW t \in Ids, UploadFails(t)
    PROVE  Inv'
<1>0. /\ Free /\ t \in copying /\ copying' = copying \ {t} /\ cut' = cut \cup {t} /\ reply' = NoReply
      /\ UNCHANGED <<clock, uploads, rows, loop, handed, deleted, most>> /\ Rows' = Rows
      /\ t \notin Rows /\ "dir" \in files[t] /\ loop = Idle
  BY Before DEF UploadFails, Silent, Rows, FileInv, Free
<1>1. PICK left \in SUBSET Entries : "dir" \in left /\ files' = [files EXCEPT ![t] = left]
  <2>1. files[t] \in SUBSET Entries /\ DOMAIN files = Ids
    BY Known, LenProperties DEF Inv, Ids
  <2>2. CASE files' = [files EXCEPT ![t] = @ \ {"tmp"}]
    BY <1>0, <2>1, <2>2
  <2>3. CASE files' = files
    <3>1. files' = [files EXCEPT ![t] = files[t]]
      BY <2>1, <2>3, Known DEF Inv
    <3> QED
      BY <1>0, <2>1, <3>1
  <2> QED
    BY <2>2, <2>3 DEF UploadFails
<1>2. /\ files' \in Seq(SUBSET Entries) /\ Len(files') = Len(uploads')
      /\ \A u \in Ids' : files'[u] # {} => "dir" \in files'[u]
      /\ \A u \in Ids \ {t} : files'[u] = files[u]
      /\ Ids' = Ids
  BY <1>0, <1>1, FilesChange, Before
<1>3. /\ call' \in [Clients -> Calls]
      /\ \A c \in Clients : call'[c] = IF call[c] = Doing("upload", t) THEN Nothing ELSE call[c]
  BY Answered, Before DEF UploadFails
<1>4. TypeOK'
  BY <1>0, <1>2, <1>3, Before DEF TypeOK, Calls, NoReply, Reply, Answers
<1>5. LoopInv'
  BY <1>0, <1>2, Before DEF LoopInv, Idle, Task
<1>6. CallInv'
  BY <1>0, <1>3, Before DEF CallInv, Nothing, Doing
<1>7. FileInv'
  BY <1>0, <1>2, Before DEF FileInv, RowHasFile, Live, Overdue, TypeOK
<1>8. LeakInv'
  BY <1>0, <1>2, Before DEF LeakInv, Live
<1> QED
  BY <1>4, <1>5, <1>6, <1>7, <1>8 DEF Inv

\* The loop takes up the upload whose copy has ended.
LEMMA RenameKeeps ==
    ASSUME Inv, NEW t \in Ids, Rename(t)
    PROVE  Inv'
<1>0. /\ Free /\ t \in copying /\ copying' = copying \ {t} /\ loop' = Task("create", {t}, 0)
      /\ reply' = NoReply
      /\ UNCHANGED <<clock, uploads, rows, call, handed, deleted, most, cut>> /\ Rows' = Rows
      /\ t \notin Rows /\ "dir" \in files[t]
  BY Before DEF Rename, Silent, history, Rows, FileInv
<1>1. PICK left \in SUBSET Entries : /\ {"dir", "payload"} \subseteq left
                                     /\ files' = [files EXCEPT ![t] = left]
  <2>1. files[t] \in SUBSET Entries
    BY Known DEF Inv
  <2>2. (files[t] \ {"tmp"}) \cup {"payload"} \in SUBSET Entries
    BY <2>1 DEF Entries
  <2> QED
    BY <1>0, <2>2 DEF Rename
<1>2. /\ files' \in Seq(SUBSET Entries) /\ Len(files') = Len(uploads')
      /\ \A u \in Ids' : files'[u] # {} => "dir" \in files'[u]
      /\ files'[t] = left /\ \A u \in Ids \ {t} : files'[u] = files[u]
      /\ Ids' = Ids
  BY <1>0, <1>1, FilesChange, Before
<1>3. loop'.name = "create" /\ loop'.todo = {t} /\ loop'.marked = 0
  BY <1>0 DEF Task
<1>4. TypeOK'
  <2>1. copying' \subseteq Ids \ Rows /\ loop'.todo \subseteq Ids \ Rows
    BY <1>0, <1>3, Before
  <2>2. reply' \in Answers
    BY <1>0, Before
  <2> QED
    BY <1>0, <1>2, <1>3, <2>1, <2>2, Before DEF TypeOK, Answers
<1>5. LoopInv'
  <2>1. loop' \in [name : Names, todo : SUBSET Ids', marked : {0} \cup Ids']
    BY <1>0, <1>2 DEF Task, Names
  <2> QED
    BY <1>0, <1>1, <1>2, <1>3, <2>1 DEF LoopInv
<1>6. CallInv'
  BY <1>0, Before DEF CallInv
<1>7. FileInv'
  BY <1>0, <1>2, Before DEF FileInv, RowHasFile, Live, Overdue, TypeOK
<1>8. LeakInv'
  BY <1>0, <1>2, <1>3, Before DEF LeakInv, Live
<1> QED
  BY <1>4, <1>5, <1>6, <1>7, <1>8 DEF Inv

\* The row is created over a directory that has its payload.
LEMMA CreateKeeps ==
    ASSUME Inv, Create
    PROVE  Inv'
<1>0. /\ loop.name = "create" /\ loop' = Idle /\ loop.marked = 0 /\ reply' = NoReply
      /\ UNCHANGED <<clock, uploads, files, copying, handed, deleted, most, cut>> /\ Ids' = Ids
  BY Before DEF Create, Silent, history, LoopInv, Ids
<1>1. PICK t \in loop.todo :
        /\ rows' = [u \in Rows \cup {t} |->
              IF u = t THEN [expires |-> clock + uploads[t].ttl, deleted |-> FALSE] ELSE rows[u]]
        /\ Answer("upload", t, Doing("announce", t))
  BY DEF Create
<1>2. /\ loop.todo = {t} /\ t \in Ids \ Rows /\ t \notin copying /\ {"dir", "payload"} \subseteq files[t]
  BY <1>0, <1>1, Before DEF LoopInv, TypeOK
<1>3. /\ Rows' = Rows \cup {t} /\ rows'[t] = [expires |-> clock + uploads[t].ttl, deleted |-> FALSE]
      /\ \A u \in Rows : rows'[u] = rows[u]
  BY <1>1, <1>2 DEF Rows
<1>4. /\ call' \in [Clients -> Calls]
      /\ \A c \in Clients : call'[c] = IF call[c] = Doing("upload", t) THEN Doing("announce", t)
                                                                       ELSE call[c]
  <2>1. t \in 0..Len(uploads)
    BY <1>2, Known DEF Inv, Ids
  <2>2. Doing("announce", t) \in Calls
    BY <2>1 DEF Doing, Calls
  <2> QED
    BY <1>1, <2>2, Answered
<1>5. TypeOK'
  <2>1. /\ rows'[t] \in [expires : Int, deleted : BOOLEAN]
        /\ rows'[t].expires <= clock + MaxTtl
    <3>1. uploads[t].ttl \in Int /\ uploads[t].ttl <= MaxTtl /\ clock \in Nat /\ MaxTtl \in Nat
      BY <1>2, Known DEF Inv
    <3> QED
      BY <1>3, <3>1
  <2>2. \A u \in Rows' : /\ rows'[u] \in [expires : Int, deleted : BOOLEAN]
                        /\ rows'[u].expires <= clock + MaxTtl
    BY <1>3, <2>1, Before DEF TypeOK
  <2>3. copying \subseteq Ids \ Rows' /\ Rows' \subseteq Ids /\ handed \cup deleted \subseteq Rows'
    BY <1>2, <1>3, Before DEF TypeOK
  <2>4. reply' \in Answers /\ loop'.name = "none" /\ loop'.todo = {} /\ loop'.marked = 0
    BY <1>0, Before DEF Idle, Task
  <2> QED
    BY <1>0, <1>4, <2>2, <2>3, <2>4, Before DEF TypeOK, Calls, Answers
<1>6. LoopInv'
  BY <1>0 DEF LoopInv, Idle, Task, Names
<1>7. CallInv'
  BY <1>0, <1>3, <1>4, Before DEF CallInv, Doing
<1>8. FileInv'
  <2>1. \A u \in Rows : Overdue(u) => Overdue(u)'
    BY <1>0, <1>3 DEF Overdue
  <2>2. ~ rows'[t].deleted /\ \A u \in Rows : rows'[u].deleted => u \in deleted \/ Overdue(u)
    BY <1>3, Before DEF FileInv
  <2>3. \A u \in Rows' : Live(u)' => "payload" \in files[u]
    BY <1>2, <1>3, Before DEF FileInv, RowHasFile, Live
  <2> QED
    BY <1>0, <1>3, <2>1, <2>2, <2>3, Before DEF FileInv, RowHasFile
<1>9. LeakInv'
  <2>1. Live(t)'
    BY <1>3 DEF Live
  <2>2. \A u \in Ids \ {t} : u \notin loop.todo /\ (Live(u) => Live(u)')
    BY <1>2, <1>3 DEF Live
  <2> QED
    BY <1>0, <2>1, <2>2, Before DEF LeakInv
<1> QED
  BY <1>5, <1>6, <1>7, <1>8, <1>9 DEF Inv

\* An upload that gets no row leaves its directory: it is cut.
LEMMA CreateFailsKeeps ==
    ASSUME Inv, CreateFails
    PROVE  Inv'
<1>0. /\ loop.name = "create" /\ loop' = Idle /\ cut' = cut \cup loop.todo /\ reply' = NoReply
      /\ UNCHANGED <<clock, uploads, rows, files, copying, handed, deleted, most>>
      /\ Ids' = Ids /\ Rows' = Rows
  BY DEF CreateFails, Silent, disk, Ids, Rows
<1>1. /\ call' \in [Clients -> Calls]
      /\ \A c \in Clients : call'[c] = call[c] \/ call'[c] = Nothing
  <2>1. PICK t \in loop.todo : Answer("upload", t, Nothing)
    BY DEF CreateFails
  <2> QED
    BY <2>1, Answered, Before
<1>2. TypeOK'
  <2>1. loop'.name = "none" /\ loop'.todo = {} /\ loop'.marked = 0
    BY <1>0 DEF Idle, Task
  <2>2. cut' \subseteq Ids /\ reply' \in Answers
    BY <1>0, Before
  <2> QED
    BY <1>0, <1>1, <2>1, <2>2, Before DEF TypeOK, Calls, Answers
<1>3. LoopInv'
  BY <1>0 DEF LoopInv, Idle, Task, Names
<1>4. CallInv'
  BY <1>0, <1>1, Before DEF CallInv, Nothing, Doing
<1>5. FileInv'
  BY <1>0, Before DEF FileInv, RowHasFile, Live, Overdue
<1>6. LeakInv'
  BY <1>0, Before DEF LeakInv, LoopInv, Live
<1> QED
  BY <1>2, <1>3, <1>4, <1>5, <1>6 DEF Inv

-----------------------------------------------------------------------------
(* The steps of a removal.                                                 *)

\* A deletion takes the loop for the transfer it is about to mark.
LEMMA DeleteKeeps ==
    ASSUME Inv, NEW c \in Clients, Delete(c)
    PROVE  Inv'
<1>0. PICK t \in handed : /\ call' = [call EXCEPT ![c] = Doing("delete", t)]
                          /\ loop' = Task("delete", {t}, 0) /\ deleted' = deleted \cup {t}
  BY DEF Delete
<1>1. /\ Free /\ call[c] = Nothing /\ reply' = NoReply /\ t \in Rows /\ t \in Ids
      /\ UNCHANGED <<clock, uploads, rows, files, copying, handed, most, cut>> /\ Ids' = Ids /\ Rows' = Rows
  BY <1>0, Before, Known DEF Delete, Silent, disk, Ids, Rows
<1>2. loop'.name = "delete" /\ loop'.todo = {t} /\ loop'.marked = 0
  BY <1>0 DEF Task
<1>3. call' \in [Clients -> Calls] /\ call'[c].kind = "delete"
      /\ \A b \in Clients \ {c} : call'[b] = call[b]
  <2>1. t \in 0..Len(uploads)
    BY <1>1, Known DEF Inv, Ids
  <2>2. Doing("delete", t) \in Calls /\ call \in [Clients -> Calls]
    BY <2>1, Before DEF Doing, Calls
  <2> QED
    BY <1>0, <2>2 DEF Doing
<1>4. TypeOK'
  BY <1>0, <1>1, <1>2, <1>3, Before DEF TypeOK, Calls, Answers
<1>5. LoopInv'
  <2>1. loop' \in [name : Names, todo : SUBSET Ids, marked : {0} \cup Ids]
    BY <1>0, <1>1 DEF Task, Names
  <2> QED
    BY <1>0, <1>1, <1>2, <2>1 DEF LoopInv
<1>6. CallInv'
  BY <1>1, <1>3, Before DEF CallInv
<1>7. FileInv'
  BY <1>0, <1>1, Before DEF FileInv, RowHasFile, Live, Overdue
<1>8. LeakInv'
  BY <1>1, <1>2, Before DEF LeakInv, Live
<1> QED
  BY <1>4, <1>5, <1>6, <1>7, <1>8 DEF Inv

\* A sweep takes the loop for the rows that are overdue.
LEMMA SweepKeeps ==
    ASSUME Inv, StartSweep
    PROVE  Inv'
<1>1. /\ Free /\ loop' = Task("sweep", ListExpired, 0) /\ reply' = NoReply
      /\ UNCHANGED <<clock, uploads, rows, files, copying, call, handed, deleted, most, cut>>
      /\ Ids' = Ids /\ Rows' = Rows /\ ListExpired \subseteq Rows /\ Rows \subseteq Ids
  BY Before, Known DEF StartSweep, Silent, disk, history, Ids, Rows, ListExpired
<1>2. loop'.name = "sweep" /\ loop'.todo = ListExpired /\ loop'.marked = 0
  BY <1>1 DEF Task
<1>4. TypeOK'
  BY <1>1, <1>2, Before DEF TypeOK, Answers
<1>5. LoopInv'
  <2>1. loop' \in [name : Names, todo : SUBSET Ids, marked : {0} \cup Ids]
    BY <1>1 DEF Task, Names
  <2> QED
    BY <1>1, <1>2, <2>1 DEF LoopInv, ListExpired, Overdue
<1>6. CallInv'
  BY <1>1, Before DEF CallInv
<1>7. FileInv'
  BY <1>1, Before DEF FileInv, RowHasFile, Live, Overdue
<1>8. LeakInv'
  BY <1>1, <1>2, Before DEF LeakInv, Live
<1> QED
  BY <1>4, <1>5, <1>6, <1>7, <1>8 DEF Inv

\* A row is marked, and the loop is bound to remove its directory next.
LEMMA MarkKeeps ==
    ASSUME Inv, NEW t \in Ids, Mark(t)
    PROVE  Inv'
<1>0. /\ t \in loop.todo /\ loop.name \in {"sweep", "delete"} /\ loop.marked = 0 /\ t \in Rows
      /\ loop' = [loop EXCEPT !.marked = t] /\ reply' = NoReply
      /\ rows' = [rows EXCEPT ![t].deleted = TRUE]
      /\ UNCHANGED <<clock, uploads, files, copying, call, handed, deleted, most, cut>> /\ Ids' = Ids
  BY Before DEF Mark, Silent, history, Ids
<1>1. /\ Rows' = Rows /\ rows'[t].deleted /\ rows'[t].expires = rows[t].expires
      /\ rows'[t] \in [expires : Int, deleted : BOOLEAN]
      /\ \A u \in Rows \ {t} : rows'[u] = rows[u]
  BY <1>0, RowMarked, Before
<1>2. /\ loop' \in [name : Names, todo : SUBSET Ids, marked : {0} \cup Ids]
      /\ loop'.name = loop.name /\ loop'.todo = loop.todo /\ loop'.marked = t
  BY <1>0, Before DEF LoopInv
<1>3. \A u \in Rows : Overdue(u) => Overdue(u)'
  BY <1>0, <1>1 DEF Overdue
<1>4. TypeOK'
  <2>1. \A u \in Rows : /\ rows'[u] \in [expires : Int, deleted : BOOLEAN]
                       /\ rows'[u].expires <= clock + MaxTtl
    BY <1>1, Before DEF TypeOK
  <2> QED
    BY <1>0, <1>1, <1>2, <2>1, Before DEF TypeOK, Answers
<1>5. LoopInv'
  BY <1>0, <1>1, <1>2, <1>3, Before DEF LoopInv
<1>6. CallInv'
  BY <1>0, <1>1, Before DEF CallInv
<1>7. FileInv'
  <2>1. t \in deleted \/ Overdue(t)
    BY <1>0, Before DEF LoopInv
  <2> QED
    BY <1>0, <1>1, <1>3, <2>1, Before DEF FileInv, RowHasFile, Live
<1>8. LeakInv'
  <2>1. \A u \in Ids \ {t} : Live(u)' <=> Live(u)
    BY <1>1 DEF Live
  <2>2. t \in loop'.todo /\ loop'.marked = t /\ loop.name # "create"
        /\ \A u \in Ids : loop.marked # u
    BY <1>0, <1>2, Known DEF Inv
  <2> QED
    BY <1>0, <1>2, <2>1, <2>2, Before DEF LeakInv
<1> QED
  BY <1>4, <1>5, <1>6, <1>7, <1>8 DEF Inv

\* A row that cannot be marked is passed over, with its directory.
LEMMA MarkFailsKeeps ==
    ASSUME Inv, NEW t \in Ids, MarkFails(t)
    PROVE  Inv'
<1>0. /\ t \in loop.todo /\ loop.name \in {"sweep", "delete"} /\ loop.marked = 0
      /\ loop' = IF loop.todo = {t} THEN Idle ELSE Task(loop.name, loop.todo \ {t}, 0)
      /\ UNCHANGED <<clock, uploads, rows, files, copying, handed, deleted, most, cut>>
      /\ Ids' = Ids /\ Rows' = Rows /\ reply' = NoReply
  BY DEF MarkFails, Proceed, Silent, disk, history, Ids, Rows
<1>1. /\ loop' \in [name : Names, todo : SUBSET Ids, marked : {0} \cup Ids] /\ loop'.marked = 0
      /\ loop'.todo = loop.todo \ {t}
      /\ loop'.name \in {"none", loop.name} /\ (loop'.name = "none" => loop' = Idle)
  BY <1>0, Before DEF Idle, Task, Names
<1>2. /\ call' \in [Clients -> Calls]
      /\ \A c \in Clients : call'[c] = call[c] \/ call'[c] = Nothing
  <2>1. CASE loop.name = "delete"
    <3>1. Answer("delete", t, Nothing)
      BY <2>1 DEF MarkFails, Proceed
    <3> QED
      BY <3>1, Answered, Before
  <2>2. CASE loop.name # "delete"
    BY <2>2, Before DEF MarkFails, Proceed
  <2> QED
    BY <2>1, <2>2
<1>3. TypeOK'
  <2>1. loop'.todo \subseteq Rows
    BY <1>0, <1>1, Before
  <2> QED
    BY <1>0, <1>1, <1>2, <2>1, Before DEF TypeOK, Answers, Calls
<1>4. LoopInv'
  BY <1>0, <1>1, Before DEF LoopInv, Overdue
<1>5. CallInv'
  BY <1>0, <1>2, Before DEF CallInv, Nothing, Doing
<1>6. FileInv'
  BY <1>0, Before DEF FileInv, RowHasFile, Live, Overdue
<1>7. LeakInv'
  <2>1. \A u \in Ids : loop.marked # u
    BY <1>0, Known DEF Inv
  <2> QED
    BY <1>0, <2>1, Before DEF LeakInv, Live
<1> QED
  BY <1>3, <1>4, <1>5, <1>6, <1>7 DEF Inv

\* The directory of the marked row is removed, whole or cut.
LEMMA RemoveKeeps ==
    ASSUME Inv, NEW t \in Ids, Remove(t)
    PROVE  Inv'
<1>0. /\ loop.marked = t /\ t # 0 /\ t \in loop.todo /\ t \in Rows /\ rows[t].deleted
      /\ loop.name \in {"sweep", "delete"}
      /\ files' = [files EXCEPT ![t] = {}] /\ reply' = NoReply
      /\ loop' = IF loop.todo = {t} THEN Idle ELSE Task(loop.name, loop.todo \ {t}, 0)
      /\ UNCHANGED <<clock, uploads, rows, copying, handed, deleted, most, cut>> /\ Rows' = Rows
  <2>1. loop.marked = t /\ t # 0
    BY Known DEF Remove, Inv
  <2>2. loop.name \notin {"none", "create"} /\ t \in loop.todo
    BY <2>1, Before DEF LoopInv, TypeOK, Idle, Task
  <2> QED
    BY <2>1, <2>2, Before DEF Remove, Proceed, Silent, history, Rows, LoopInv, Names
<1>1. /\ files' \in Seq(SUBSET Entries) /\ Len(files') = Len(uploads')
      /\ \A u \in Ids' : files'[u] # {} => "dir" \in files'[u]
      /\ files'[t] = {} /\ \A u \in Ids \ {t} : files'[u] = files[u]
      /\ Ids' = Ids
  <2>1. PICK left \in SUBSET Entries : left = {}
    OBVIOUS
  <2>2. files' = [files EXCEPT ![t] = left] /\ (left # {} => "dir" \in left)
    BY <1>0, <2>1
  <2> QED
    BY <1>0, <2>1, <2>2, FilesChange, Before
<1>2. /\ loop' \in [name : Names, todo : SUBSET Ids, marked : {0} \cup Ids] /\ loop'.marked = 0
      /\ loop'.todo = loop.todo \ {t}
      /\ loop'.name \in {"none", loop.name} /\ (loop'.name = "none" => loop' = Idle)
  BY <1>0, Before DEF Idle, Task, Names
<1>3. /\ call' \in [Clients -> Calls]
      /\ \A c \in Clients : call'[c] = call[c] \/ (call'[c] = Nothing /\ call[c].kind = "delete")
  <2>1. CASE loop.name = "delete"
    <3>1. Answer("delete", t, Nothing)
      BY <2>1 DEF Remove, Proceed
    <3> QED
      BY <3>1, Answered, Before DEF Doing
  <2>2. CASE loop.name # "delete"
    BY <2>2, Before DEF Remove, Proceed
  <2> QED
    BY <2>1, <2>2
<1>4. TypeOK'
  <2>1. loop'.todo \subseteq Rows
    BY <1>0, <1>2, Before
  <2> QED
    BY <1>0, <1>1, <1>2, <1>3, <2>1, Before DEF TypeOK, Answers, Calls
<1>5. LoopInv'
  BY <1>0, <1>1, <1>2, Before DEF LoopInv, Overdue
<1>6. CallInv'
  BY <1>0, <1>3, Before DEF CallInv, Nothing, Doing
<1>7. FileInv'
  BY <1>0, <1>1, Before, SMTT(30) DEF FileInv, RowHasFile, Live, Overdue, TypeOK
<1>8. LeakInv'
  BY <1>0, <1>1, Before DEF LeakInv, Live
<1> QED
  BY <1>4, <1>5, <1>6, <1>7, <1>8 DEF Inv

\* A restart drops everything in hand, and what it leaves is cut.
LEMMA DieKeeps ==
    ASSUME Inv, Die
    PROVE  Inv'
<1>0. /\ loop' = Idle /\ copying' = {} /\ reply' = NoReply
      /\ cut' = cut \cup copying \cup {t \in loop.todo : loop.name = "create" \/ t = loop.marked}
      /\ UNCHANGED <<clock, uploads, rows, handed, deleted, most>> /\ Rows' = Rows /\ Ids' = Ids
  BY DEF Die, Silent, Rows, Ids
<1>1. /\ files' \in Seq(SUBSET Entries) /\ Len(files') = Len(uploads)
      /\ \A u \in Ids : files'[u] # {} => "dir" \in files'[u]
      /\ \A u \in Ids : files'[u] = files[u] \/ (u = loop.marked /\ u # 0)
      /\ \A u \in Ids : files'[u] \subseteq files[u]
  <2>1. CASE loop.marked = 0
    BY <2>1, Known, Before DEF Die, TypeOK
  <2>2. CASE loop.marked # 0
    <3>1. PICK left \in Remains(loop.marked) : files' = [files EXCEPT ![loop.marked] = left]
      BY <2>2 DEF Die
    <3>2. loop.marked \in Ids /\ files[loop.marked] \in SUBSET Entries
      BY <2>2, Known, Before DEF LoopInv
    <3>3. left \in SUBSET Entries /\ (left # {} => "dir" \in left) /\ left \subseteq files[loop.marked]
      BY <3>1, <3>2 DEF Remains
    <3>4. /\ files' \in Seq(SUBSET Entries) /\ Len(files') = Len(uploads')
          /\ \A u \in Ids' : files'[u] # {} => "dir" \in files'[u]
          /\ files'[loop.marked] = left
          /\ \A u \in Ids \ {loop.marked} : files'[u] = files[u]
      BY <1>0, <3>1, <3>2, <3>3, FilesChange, Before
    <3> QED
      BY <1>0, <2>2, <3>3, <3>4
  <2> QED
    BY <2>1, <2>2
<1>2. /\ call' \in [Clients -> Calls]
      /\ \A c \in Clients : call'[c] = Nothing \/ (call'[c] = call[c] /\ call[c].kind = "announce")
  BY Before DEF Die
<1>3. \A u \in Ids : u = loop.marked /\ u # 0 => u \in Rows /\ rows[u].deleted
  BY Before DEF LoopInv, TypeOK
<1>4. TypeOK'
  <2>1. cut' \subseteq Ids /\ reply' \in Answers
    BY <1>0, Before
  <2>2. loop'.name = "none" /\ loop'.todo = {} /\ loop'.marked = 0
    BY <1>0 DEF Idle, Task
  <2> QED
    BY <1>0, <1>1, <1>2, <2>1, <2>2, Before DEF TypeOK, Answers, Calls
<1>5. LoopInv'
  BY <1>0 DEF LoopInv, Idle, Task, Names
<1>6. CallInv'
  BY <1>0, <1>2, Before DEF CallInv, Nothing, Doing
<1>7. FileInv'
  <2>1. Rows \subseteq Ids
    BY Before DEF TypeOK
  <2> QED
    BY <1>0, <1>1, <1>3, <2>1, Before DEF FileInv, RowHasFile, Live, Overdue
<1>8. LeakInv'
  <2>1. \A u \in Ids : files'[u] # {} => files[u] # {}
    BY <1>1
  <2> QED
    BY <1>0, <2>1, Before DEF LeakInv, Live
<1> QED
  BY <1>4, <1>5, <1>6, <1>7, <1>8 DEF Inv

\* The invariant but for what replies and quotas say: one lemma per action.
LEMMA InvStep ==
    ASSUME Inv, [Next]_vars
    PROVE  Inv'
<1>0. TypeOK /\ CallInv
  BY DEF Inv
<1>1. CASE UNCHANGED vars \/ Tick
  BY <1>0, <1>1, QuietSteps, QuietKeeps
<1>2. ASSUME NEW c \in Clients, ClientStep(c)
      PROVE  Inv'
  BY <1>0, <1>2, QuietSteps, QuietKeeps, StartKeeps, DeleteKeeps DEF ClientStep
<1>3. ASSUME NEW t \in Ids, UploadStep(t) \/ RemovalStep(t) \/ MarkFails(t)
      PROVE  Inv'
  BY <1>3, FailureKeeps, RenameKeeps, MarkKeeps, RemoveKeeps, MarkFailsKeeps
  DEF UploadStep, RemovalStep
<1>4. CASE Create \/ CreateFails \/ StartSweep \/ Die
  BY <1>4, CreateKeeps, CreateFailsKeeps, SweepKeeps, DieKeeps
<1> QED
  BY <1>1, <1>2, <1>3, <1>4 DEF Next

-----------------------------------------------------------------------------
(* What callers are told.                                                  *)

\* A transfer whose file is gone was asked to be deleted, or is overdue.
LEMMA WhyMissing ==
    ASSUME Inv, NEW t \in handed, "payload" \notin files[t]
    PROVE  t \in deleted \/ Overdue(t)
BY Before DEF FileInv, RowHasFile, Live

\* Whoever does not find a file came for a transfer that is overdue or deleted.
LEMMA FoundStep ==
    ASSUME Inv, FoundWhenFresh, [Next]_vars
    PROVE  FoundWhenFresh'
<1>1. CASE UNCHANGED vars
  BY <1>1 DEF vars, FoundWhenFresh, Overdue, Rows
<1>2. ASSUME Silent
      PROVE  FoundWhenFresh'
  BY <1>2 DEF Silent, FoundWhenFresh, NoReply, Reply
<1>3. ASSUME NEW t \in handed, "payload" \notin files[t], UNCHANGED <<clock, rows, deleted>>,
             reply' = Reply("missing", t)
      PROVE  FoundWhenFresh'
  <2>1. reply'.on = t /\ (t \in deleted \/ Overdue(t))
    BY <1>3, WhyMissing DEF Reply
  <2> QED
    BY <1>3, <2>1 DEF FoundWhenFresh, Overdue, Rows
<1>4. ASSUME NEW c \in Clients, Download(c)
      PROVE  FoundWhenFresh'
  BY <1>2, <1>3, <1>4 DEF Download, disk, history
<1>5. ASSUME NEW c \in Clients, Open(c)
      PROVE  FoundWhenFresh'
  <2>1. call[c].on \in handed /\ UNCHANGED <<clock, rows, deleted>>
    BY <1>5, Before DEF Open, CallInv, disk, history
  <2>2. CASE "payload" \in files[call[c].on]
    BY <1>5, <2>2 DEF Open, FoundWhenFresh, Reply
  <2>3. CASE "payload" \notin files[call[c].on]
    BY <1>3, <1>5, <2>1, <2>3 DEF Open
  <2> QED
    BY <2>2, <2>3
<1>6. ASSUME NEW c \in Clients, ClientStep(c)
      PROVE  FoundWhenFresh'
  BY <1>2, <1>4, <1>5, <1>6 DEF ClientStep, StartUpload, Refuse, Announce, Delete, GiveUp
<1>7. ASSUME NEW t \in Ids, UploadStep(t) \/ RemovalStep(t) \/ MarkFails(t)
      PROVE  FoundWhenFresh'
  BY <1>2, <1>7 DEF UploadStep, RemovalStep, UploadFails, Rename, Mark, MarkFails, Remove, Proceed
<1>8. CASE Tick \/ Create \/ CreateFails \/ StartSweep \/ Die
  BY <1>2, <1>8 DEF Tick, Create, CreateFails, StartSweep, Die
<1> QED
  BY <1>1, <1>6, <1>7, <1>8 DEF Next

-----------------------------------------------------------------------------
(* The quota.                                                              *)

\* What counts, and what is going to, but for the step that creates a row and the
\* one that passes the quota.
LEMMA WhoCounts ==
    ASSUME Inv, [Next]_vars, NEW agent \in Agents
    PROVE  \/ /\ PendingOnes(agent)' \subseteq PendingOnes(agent)
              /\ UnderWay(agent)' \subseteq UnderWay(agent) /\ most'[agent] = most[agent]
           \/ \E c \in Clients :
                 /\ StartUpload(c) /\ Owner[c] = agent
                 /\ PendingOnes(agent)' \subseteq PendingOnes(agent)
                 /\ UnderWay(agent)' \subseteq UnderWay(agent) \cup {Len(uploads')}
           \/ \E t \in UnderWay(agent) :
                 /\ PendingOnes(agent)' \subseteq PendingOnes(agent) \cup {t}
                 /\ UnderWay(agent)' \subseteq UnderWay(agent) \ {t} /\ most'[agent] = most[agent]
<1> DEFINE Fewer == /\ PendingOnes(agent)' \subseteq PendingOnes(agent)
                    /\ UnderWay(agent)' \subseteq UnderWay(agent) /\ most'[agent] = most[agent]
           Working == copying \cup (IF loop.name = "create" THEN loop.todo ELSE {})
<1>0. /\ TypeOK /\ CallInv /\ Rows \subseteq Ids /\ clock \in Nat
      /\ \A t \in Rows : rows[t].expires \in Int
      /\ Working \subseteq Ids /\ UnderWay(agent) = {t \in Working : uploads[t].sender = agent}
  BY Known, Before DEF Inv, UnderWay
<1>1. ASSUME Quiet
      PROVE  Fewer
  <2>1. clock' \in Nat /\ clock <= clock' /\ UNCHANGED <<uploads, rows, copying, loop, most>>
    BY <1>1, FacadeTransfersAssumption DEF Quiet, disk
  <2>2. PendingOnes(agent)' \subseteq PendingOnes(agent)
    BY <1>0, <2>1 DEF PendingOnes, Rows, Live
  <2> QED
    BY <2>1, <2>2 DEF UnderWay
<1>2. ASSUME UNCHANGED <<clock, uploads, rows, most>>, Working' \subseteq Working
      PROVE  Fewer
  <2>1. PendingOnes(agent)' = PendingOnes(agent)
    BY <1>2 DEF PendingOnes, Rows, Live
  <2> QED
    BY <1>0, <1>2, <2>1 DEF UnderWay
<1>3. ASSUME NEW c \in Clients, StartUpload(c)
      PROVE  \/ Fewer
             \/ /\ Owner[c] = agent /\ PendingOnes(agent)' \subseteq PendingOnes(agent)
                /\ UnderWay(agent)' \subseteq UnderWay(agent) \cup {Len(uploads')}
  <2>1. /\ \A t \in Ids : uploads'[t] = uploads[t]
        /\ uploads'[Len(uploads')].sender = Owner[c]
    BY <1>0, <1>3, UploadStarts
  <2>2. UNCHANGED <<clock, rows, loop>> /\ copying' = copying \cup {Len(uploads')}
    BY <1>3 DEF StartUpload
  <2>3. PendingOnes(agent)' \subseteq PendingOnes(agent)
    BY <1>0, <2>1, <2>2 DEF PendingOnes, Rows, Live
  <2>4. UnderWay(agent)' \subseteq UnderWay(agent) \cup {Len(uploads')}
    BY <1>0, <2>1, <2>2 DEF UnderWay
  <2>5. ASSUME Owner[c] # agent
        PROVE  UnderWay(agent)' \subseteq UnderWay(agent) /\ most'[agent] = most[agent]
    <3>1. Len(uploads') \notin UnderWay(agent)'
      BY <2>1, <2>5 DEF UnderWay
    <3> QED
      BY <1>0, <1>3, <2>4, <2>5, <3>1, NotedWell
  <2> QED
    BY <2>3, <2>4, <2>5
<1>4. ASSUME NEW c \in Clients, Delete(c)
      PROVE  Fewer
  <2>1. Working' \subseteq Working
    BY <1>4, Before DEF Delete, Task
  <2> QED
    BY <1>2, <1>4, <2>1 DEF Delete, disk
<1>5. ASSUME NEW t \in Ids, UploadFails(t)
      PROVE  Fewer
  <2>1. Working' \subseteq Working
    BY <1>5 DEF UploadFails
  <2> QED
    BY <1>2, <1>5, <2>1 DEF UploadFails
<1>6. ASSUME NEW t \in Ids, Rename(t)
      PROVE  Fewer
  <2>1. Working' \subseteq Working
    BY <1>6 DEF Rename, Task
  <2> QED
    BY <1>2, <1>6, <2>1 DEF Rename, history
<1>7. ASSUME NEW t \in Ids, Mark(t)
      PROVE  Fewer
  <2>1. t \in Rows /\ rows' = [rows EXCEPT ![t].deleted = TRUE]
        /\ UNCHANGED <<clock, uploads, copying, most>>
    BY <1>7, Before DEF Mark, history
  <2>2. /\ Rows' = Rows /\ rows'[t].deleted /\ \A u \in Rows \ {t} : rows'[u] = rows[u]
    BY <1>0, <2>1, RowMarked
  <2>3. loop'.name = loop.name /\ loop'.todo = loop.todo
    BY <1>7, Before DEF Mark, LoopInv
  <2>4. PendingOnes(agent)' \subseteq PendingOnes(agent)
    BY <2>1, <2>2 DEF PendingOnes, Live
  <2> QED
    BY <2>1, <2>3, <2>4 DEF UnderWay
<1>8. ASSUME NEW t \in Ids, Remove(t) \/ MarkFails(t)
      PROVE  Fewer
  <2>1. loop.name # "create"
    <3>1. CASE MarkFails(t)
      BY <3>1 DEF MarkFails
    <3>2. CASE Remove(t)
      BY <3>2, Known, Before DEF Remove, LoopInv, Inv
    <3> QED
      BY <1>8, <3>1, <3>2
  <2>2. Working' \subseteq Working
    BY <1>8, <2>1 DEF Remove, MarkFails, Proceed, Idle, Task
  <2> QED
    BY <1>2, <1>8, <2>2 DEF Remove, MarkFails, disk, history
<1>9. CASE StartSweep
  <2>1. Working' \subseteq Working
    BY <1>9 DEF StartSweep, Task
  <2> QED
    BY <1>2, <1>9, <2>1 DEF StartSweep, disk, history
<1>10. CASE Die
  <2>1. Working' \subseteq Working
    BY <1>10 DEF Die, Idle, Task
  <2> QED
    BY <1>2, <1>10, <2>1 DEF Die
<1>11. CASE CreateFails
  <2>1. Working' \subseteq Working
    BY <1>11 DEF CreateFails, Idle, Task
  <2> QED
    BY <1>2, <1>11, <2>1 DEF CreateFails, disk
<1>12. ASSUME Create
       PROVE  \/ Fewer
              \/ \E t \in UnderWay(agent) :
                   /\ PendingOnes(agent)' \subseteq PendingOnes(agent) \cup {t}
                   /\ UnderWay(agent)' \subseteq UnderWay(agent) \ {t} /\ most'[agent] = most[agent]
  <2>1. PICK t \in loop.todo : rows' = [u \in Rows \cup {t} |->
              IF u = t THEN [expires |-> clock + uploads[t].ttl, deleted |-> FALSE] ELSE rows[u]]
    BY <1>12 DEF Create
  <2>2. /\ t \in Ids \ Rows /\ loop.name = "create" /\ loop.todo = {t} /\ t \notin copying
        /\ UNCHANGED <<clock, uploads, copying, most>> /\ loop' = Idle
        /\ Rows' = Rows \cup {t} /\ \A u \in Rows : rows'[u] = rows[u]
    BY <1>12, <2>1, Before DEF Create, TypeOK, LoopInv, Rows, history
  <2>3. UnderWay(agent)' \subseteq UnderWay(agent) \ {t}
    BY <2>2 DEF UnderWay, Idle, Task
  <2>4. CASE uploads[t].sender # agent
    <3>1. PendingOnes(agent)' \subseteq PendingOnes(agent)
      BY <2>2, <2>4 DEF PendingOnes, Live
    <3> QED
      BY <2>2, <2>3, <3>1
  <2>5. CASE uploads[t].sender = agent
    <3>1. t \in UnderWay(agent)
      BY <2>2, <2>5 DEF UnderWay
    <3>2. PendingOnes(agent)' \subseteq PendingOnes(agent) \cup {t}
      BY <2>2 DEF PendingOnes, Live
    <3> QED
      BY <2>2, <2>3, <3>1, <3>2
  <2> QED
    BY <2>4, <2>5
<1>13. ASSUME \/ UNCHANGED vars \/ Tick
              \/ \E c \in Clients : Refuse(c) \/ Announce(c) \/ Download(c) \/ Open(c) \/ GiveUp(c)
       PROVE  Fewer
  BY <1>0, <1>1, <1>13, QuietSteps
<1> QED
  BY <1>3, <1>4, <1>5, <1>6, <1>7, <1>8, <1>9, <1>10, <1>11, <1>12, <1>13
  DEF Next, ClientStep, UploadStep, RemovalStep

\* An upload that passes the quota adds itself to those that count.
LEMMA QuotaStep ==
    ASSUME Inv, QuotaInv, [Next]_vars
    PROVE  QuotaInv'
<1>0. Inv'
  BY InvStep
<1> SUFFICES ASSUME NEW agent \in Agents
             PROVE  LET pp == Cardinality(PendingOnes(agent)')
                        qq == Cardinality(UnderWay(agent)')
                    IN  qq <= most'[agent] /\ (pp + qq > 0 => pp + qq < MaxPending + most'[agent])
  BY DEF QuotaInv, Pending, PendingOnes
<1> DEFINE p == Cardinality(PendingOnes(agent))
           q == Cardinality(UnderWay(agent))
           pp == Cardinality(PendingOnes(agent)')
           qq == Cardinality(UnderWay(agent)')
           m == most[agent]
           mm == most'[agent]
<1>1. /\ p \in Nat /\ q \in Nat /\ m \in Nat /\ mm \in Nat /\ MaxPending \in Nat
      /\ IsFiniteSet(PendingOnes(agent)) /\ IsFiniteSet(UnderWay(agent))
      /\ Pending(agent) = p
  <2>1. TypeOK /\ most' \in [Agents -> Nat]
    BY <1>0 DEF Inv, TypeOK
  <2> QED
    BY <2>1, Countable, FacadeTransfersAssumption DEF TypeOK
<1>2. pp \in Nat /\ qq \in Nat
  <2>1. Len(uploads') \in Nat /\ Rows' \subseteq Ids' /\ UnderWay(agent)' \subseteq Ids'
    BY <1>0, LenProperties DEF Inv, TypeOK, UnderWay
  <2>2. IsFiniteSet(Ids') /\ PendingOnes(agent)' \subseteq Ids'
    BY <2>1, FS_Interval DEF Ids, PendingOnes
  <2> QED
    BY <2>1, <2>2, FS_Subset, FS_CardinalityType
<1>3. q <= m /\ (p + q > 0 => p + q < MaxPending + m)
  BY <1>1 DEF QuotaInv
<1>4. PendingOnes(agent)' \subseteq PendingOnes(agent) => pp <= p
  BY <1>1, FS_Subset
<1>5. UnderWay(agent)' \subseteq UnderWay(agent) => qq <= q
  BY <1>1, FS_Subset
<1>6. ASSUME NEW c \in Clients, StartUpload(c), Owner[c] = agent,
             PendingOnes(agent)' \subseteq PendingOnes(agent),
             UnderWay(agent)' \subseteq UnderWay(agent) \cup {Len(uploads')}
      PROVE  qq <= mm /\ pp + qq < MaxPending + mm
  <2>1. p < MaxPending /\ pp <= p
    BY <1>1, <1>4, <1>6 DEF StartUpload, BelowQuota
  <2>2. qq <= q + 1
    <3>1. /\ IsFiniteSet(UnderWay(agent) \cup {Len(uploads')})
          /\ Cardinality(UnderWay(agent) \cup {Len(uploads')}) \in {q, q + 1}
      BY <1>1, FS_AddElement
    <3>2. qq <= Cardinality(UnderWay(agent) \cup {Len(uploads')})
      BY <1>6, <3>1, FS_Subset
    <3> HIDE DEF q, qq
    <3> QED
      BY <1>1, <1>2, <3>1, <3>2
  <2>3. mm >= q + 1
    BY <1>6, NotedWell DEF Inv
  <2> HIDE DEF p, q, pp, qq, m, mm
  <2> QED
    BY <1>1, <1>2, <2>1, <2>2, <2>3
<1>7. ASSUME NEW t \in UnderWay(agent), mm = m,
             PendingOnes(agent)' \subseteq PendingOnes(agent) \cup {t},
             UnderWay(agent)' \subseteq UnderWay(agent) \ {t}
      PROVE  qq <= mm /\ pp + qq < MaxPending + mm
  <2>1. pp <= p + 1
    <3>1. /\ IsFiniteSet(PendingOnes(agent) \cup {t})
          /\ Cardinality(PendingOnes(agent) \cup {t}) \in {p, p + 1}
      BY <1>1, FS_AddElement
    <3>2. pp <= Cardinality(PendingOnes(agent) \cup {t})
      BY <1>7, <3>1, FS_Subset
    <3> HIDE DEF p, pp
    <3> QED
      BY <1>1, <1>2, <3>1, <3>2
  <2>2. qq <= q - 1
    <3>1. IsFiniteSet(UnderWay(agent) \ {t}) /\ Cardinality(UnderWay(agent) \ {t}) = q - 1
      BY <1>1, <1>7, FS_RemoveElement
    <3>2. qq <= Cardinality(UnderWay(agent) \ {t})
      BY <1>7, <3>1, FS_Subset
    <3> QED
      BY <3>1, <3>2
  <2>3. mm = m
    BY <1>7
  <2> HIDE DEF p, q, pp, qq, m, mm
  <2> QED
    BY <1>1, <1>2, <1>3, <2>1, <2>2, <2>3
<1>8. ASSUME PendingOnes(agent)' \subseteq PendingOnes(agent),
             UnderWay(agent)' \subseteq UnderWay(agent), mm = m
      PROVE  qq <= mm /\ (pp + qq > 0 => pp + qq < MaxPending + mm)
  <2>1. pp <= p /\ qq <= q /\ mm = m
    BY <1>4, <1>5, <1>8
  <2> HIDE DEF p, q, pp, qq, m, mm
  <2> QED
    BY <1>1, <1>2, <1>3, <2>1
<1> QED
  BY <1>6, <1>7, <1>8, WhoCounts

-----------------------------------------------------------------------------
(* The theorems.                                                           *)

IndInv == Inv /\ QuotaInv /\ FoundWhenFresh

\* The inductive invariant holds of an empty directory.
LEMMA Initially == Init => IndInv
<1> SUFFICES ASSUME Init
             PROVE  IndInv
  OBVIOUS
<1>0. /\ uploads = <<>> /\ files = <<>> /\ Len(uploads) = 0 /\ Len(files) = 0 /\ Ids = {} /\ Rows = {}
      /\ loop = Idle /\ loop.name = "none" /\ loop.todo = {} /\ loop.marked = 0
      /\ copying = {} /\ handed = {} /\ deleted = {} /\ cut = {} /\ reply = NoReply
      /\ \A c \in Clients : call[c] = Nothing
  <2>1. uploads = <<>> /\ rows = <<>> /\ Len(uploads) = 0 /\ Len(files) = 0
    BY DEF Init
  <2>2. Ids = {} /\ Rows = {}
    BY <2>1 DEF Ids, Rows
  <2> QED
    BY <2>1, <2>2 DEF Init, Idle, Task
<1>1. TypeOK
  <2>1. uploads \in Seq(Uploads) /\ files \in Seq(SUBSET Entries)
    BY <1>0
  <2>2. clock = 0 /\ clock \in 0..MaxTime
    BY FacadeTransfersAssumption DEF Init
  <2>3. call \in [Clients -> Calls] /\ reply \in Answers
    BY <1>0 DEF Init, Nothing, Doing, Calls, NoReply, Reply, Answers
  <2> QED
    BY <1>0, <2>1, <2>2, <2>3 DEF Init, TypeOK, Uploads, Calls, Answers
<1>2. LoopInv /\ CallInv /\ FileInv /\ LeakInv
  BY <1>0 DEF LoopInv, CallInv, FileInv, RowHasFile, LeakInv, Names, Idle, Task,
     Nothing, Doing
<1>3. FoundWhenFresh
  BY <1>0 DEF FoundWhenFresh, NoReply, Reply
<1>4. QuotaInv
  <2> SUFFICES ASSUME NEW agent \in Agents
               PROVE  /\ Cardinality(UnderWay(agent)) <= most[agent]
                      /\ Pending(agent) + Cardinality(UnderWay(agent)) = 0
    BY DEF QuotaInv
  <2>1. PendingOnes(agent) = {} /\ UnderWay(agent) = {} /\ most[agent] = 0
    BY <1>0 DEF Init, PendingOnes, UnderWay
  <2>2. Pending(agent) = 0 /\ Cardinality(UnderWay(agent)) = 0
    BY <1>1, <2>1, Countable, FS_EmptySet
  <2> QED
    BY <2>1, <2>2
<1> QED
  BY <1>1, <1>2, <1>3, <1>4 DEF IndInv, Inv

\* It is kept by every step.
LEMMA Inductive == IndInv /\ [Next]_vars => IndInv'
BY InvStep, QuotaStep, FoundStep DEF IndInv

\* It holds in every reachable state.
LEMMA Invariance == Spec => []IndInv
BY Initially, Inductive, PTL DEF Spec

\* Whatever the handlers, the sweep loop and the clients do, and wherever the
\* facade is killed: no upload that is being copied has a row, what the loop
\* removes has one, and no row outlives the operator's maximum.
THEOREM TypeCorrect == Spec => []TypeOK
<1>1. IndInv => TypeOK
  BY DEF IndInv, Inv
<1> QED
  BY <1>1, Invariance, PTL

\* The upload handler counts before it copies, and the loop serves others in
\* between: with any number of clients, whoever gives up, fails or is killed, an
\* agent is over its quota by less than the uploads it had under way at once.
THEOREM QuotaHolds == Spec => []WithinQuota
<1>1. IndInv => WithinQuota
  <2> SUFFICES ASSUME IndInv, NEW agent \in Agents, Pending(agent) > 0
               PROVE  Pending(agent) < MaxPending + most[agent]
    BY DEF WithinQuota
  <2>1. /\ Pending(agent) \in Nat /\ Cardinality(UnderWay(agent)) \in Nat
        /\ most[agent] \in Nat /\ MaxPending \in Nat
    BY Countable, FacadeTransfersAssumption DEF IndInv, Inv, TypeOK
  <2>2. Pending(agent) + Cardinality(UnderWay(agent)) > 0
    BY <2>1
  <2>3. Pending(agent) + Cardinality(UnderWay(agent)) < MaxPending + most[agent]
    BY <2>2 DEF IndInv, QuotaInv
  <2> QED
    BY <2>1, <2>3
<1> QED
  BY <1>1, Invariance, PTL

\* The handler renames the file before it creates the row, and both removals mark
\* the row before the directory goes: a row that is not marked has its file,
\* wherever the facade is killed.
THEOREM RowsHaveFiles == Spec => []RowHasFile
<1>1. IndInv => RowHasFile
  BY DEF IndInv, Inv, FileInv
<1> QED
  BY <1>1, Invariance, PTL

\* The download handler looks at the file and the response opens it later, with
\* sweeps and deletions in between: a recipient who does not get the file asked
\* after it was overdue or after a party had asked to delete it.
THEOREM FreshIsFound == Spec => []FoundWhenFresh
<1>1. IndInv => FoundWhenFresh
  BY DEF IndInv
<1> QED
  BY <1>1, Invariance, PTL

\* Files without a live row, which the sweep's query never returns, are in the
\* hands of an upload or of the removal the loop is in, unless those were cut
\* short: by the death of the facade, by a refusal or an error while copying, or by
\* a row that could not be created.
THEOREM NothingLeaks == Spec => []NoneLeaked
<1>1. IndInv => NoneLeaked
  <2> SUFFICES ASSUME IndInv, NEW t \in Ids, files[t] # {}, ~ Live(t)
               PROVE  t \in copying \cup loop.todo \cup cut
    BY DEF NoneLeaked
  <2> QED
    BY DEF IndInv, Inv, LeakInv
<1> QED
  BY <1>1, Invariance, PTL
=============================================================================
