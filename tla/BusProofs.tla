----------------------------- MODULE BusProofs -----------------------------
(***************************************************************************)
(* What TLAPS proves of Bus, for any agents, sessions, owners and bounds.  *)
(* TypeCorrect is inductive by itself.  The other invariants rest on       *)
(* StepKinds: seen through the messages, a step of the bus does nothing,   *)
(* returns a batch, loses one, marks one read, inserts a row or purges.    *)
(***************************************************************************)
EXTENDS Bus, DataLemmas

-----------------------------------------------------------------------------
(* The type invariant.                                                     *)

\* A batch is made of messages of the agent that reads it.
LEMMA OldestSubset ==
    ASSUME NEW ms, NEW n
    PROVE  Oldest(ms, n) \subseteq ms
BY DEF Oldest

\* Whatever the caller passes, the stored intent is one of the enum's.
LEMMA NormalizeType ==
    ASSUME NEW raw
    PROVE  NormalizeIntent(raw) \in ValidIntents
BY DEF NormalizeIntent, DefaultIntent, ValidIntents

\* The row a send inserts comes after every other one, with the recipient and the
\* intent of the call, and the session keeps its index.
LEMMA CommitEffect ==
    ASSUME BusAssumption, TypeOK, NEW s \in Sessions, Commit(s)
    PROVE  /\ log' \in Seq(Row)
           /\ Len(log') = Len(log) + 1
           /\ Messages' = Messages \cup {Len(log) + 1}
           /\ Len(log) + 1 \notin Messages
           /\ \A m \in Messages : log'[m] = log[m]
           /\ log'[Len(log) + 1].recipient = call[s].target
           /\ log'[Len(log) + 1].intent = NormalizeIntent(call[s].raw)
           /\ call' \in [Sessions -> CallType]
           /\ call'[s].message = Len(log) + 1
           /\ call'[s].target = call[s].target
           /\ call'[s].raw = call[s].raw
           /\ \A t \in Sessions \ {s} : call'[t] = call[t]
<1> DEFINE row == [sender    |-> Owner[s],
                   recipient |-> call[s].target,
                   intent    |-> NormalizeIntent(call[s].raw)]
<1>1. /\ row \in Row
      /\ row.recipient = call[s].target /\ row.intent = NormalizeIntent(call[s].raw)
  BY BusAssumption, NormalizeType DEF Row, TypeOK, Commit
<1>2. log' = Append(log, row)
  BY DEF Commit
<1> HIDE DEF row
<1>3. /\ log' \in Seq(Row)
      /\ Len(log') = Len(log) + 1
      /\ Len(log) \in Nat
      /\ \A m \in Messages : log'[m] = log[m]
      /\ log'[Len(log) + 1] = row
  BY <1>1, <1>2 DEF TypeOK, Messages
<1>4. Messages' = Messages \cup {Len(log) + 1} /\ Len(log) + 1 \notin Messages
  BY <1>3 DEF Messages
<1>5. /\ call' \in [Sessions -> CallType]
      /\ call'[s].message = Len(log) + 1
      /\ call'[s].target = call[s].target /\ call'[s].raw = call[s].raw
      /\ \A t \in Sessions \ {s} : call'[t] = call[t]
  <2> DEFINE new == SendCall(call[s].target, call[s].raw, Len(log) + 1)
  <2>1. /\ Len(log) + 1 \in Nat
        /\ call[s].target \in Agents \cup {""}
        /\ call[s].raw \in RawIntents \cup {""}
    <3>1. Len(log) + 1 \in Nat
      BY <1>3
    <3>2. call[s] \in CallType
      BY DEF TypeOK
    <3> QED
      BY <3>1, <3>2 DEF CallType
  <2>2. /\ new \in CallType
        /\ new.message = Len(log) + 1
        /\ new.target = call[s].target /\ new.raw = call[s].raw
    BY <2>1 DEF CallType, SendCall
  <2>3. call' = [call EXCEPT ![s] = new]
    BY DEF Commit
  <2> HIDE DEF new
  <2> QED
    BY <2>2, <2>3 DEF TypeOK
<1> QED
  BY <1>1, <1>3, <1>4, <1>5

\* The tables, the signal files and the sessions keep their shape, and a
\* session holds unreturned messages only between a read and its return.
THEOREM TypeCorrect == Spec => []TypeOK
<1>1. Init => TypeOK
  <2>1. NoCall \in CallType
    BY DEF NoCall, CallType
  <2>2. Init => log = <<>> /\ Len(log) = 0 /\ log \in Seq(Row)
    BY DEF Init
  <2> QED
    BY <2>1, <2>2 DEF Init, TypeOK, Messages, Stages
<1>2. ASSUME TypeOK, [Next]_vars
      PROVE  TypeOK'
  <2> USE <1>2, BusAssumption
  <2>1. ASSUME NEW s \in Sessions, Start(s)
        PROVE  TypeOK'
    BY <2>1 DEF Start, Upsert, Goto, Stages, history,
       TypeOK, Messages
  <2>2. ASSUME NEW s \in Sessions, Observe(s)
        PROVE  TypeOK'
    BY <2>2 DEF Observe, Upsert, history,
       TypeOK, Messages
  <2>3. ASSUME NEW s \in Sessions, Crash(s)
        PROVE  TypeOK'
    BY <2>3 DEF Crash, Goto, Stages, CallType, NoCall, table,
       TypeOK, Messages
  <2>4. ASSUME NEW s \in Sessions, Busy(s)
        PROVE  TypeOK'
    BY <2>4 DEF Busy, Return, Goto, Stages, CallType, NoCall, table,
       TypeOK, Messages
  <2>5. ASSUME NEW s \in Sessions, Send(s)
        PROVE  TypeOK'
    <3>1. PICK target \in Agents, raw \in Raws : Begin(s, "send", SendCall(target, raw, 0))
      BY <2>5 DEF Send
    <3>2. SendCall(target, raw, 0) \in CallType /\ SendCall(target, raw, 0).target = target
      BY DEF SendCall, CallType
    <3> QED
      BY <3>1, <3>2 DEF Begin, Upsert, Goto, TypeOK, Messages, Stages, history
  <2>6. ASSUME NEW s \in Sessions, Reject(s)
        PROVE  TypeOK'
    BY <2>6 DEF Reject, Return, Goto, Stages, CallType, NoCall, table,
       TypeOK, Messages
  <2>7. ASSUME NEW s \in Sessions, Commit(s)
        PROVE  TypeOK'
    <3>1. /\ agents' = agents
          /\ stored' = stored \cup {Len(log) + 1} /\ unread' = unread \cup {Len(log) + 1}
          /\ UNCHANGED <<signal, woken, batch, returned, lost, orphans>>
          /\ pc[s] = "send" /\ pc' = [pc EXCEPT ![s] = "notify"]
      BY <2>7 DEF Commit, Goto, history
    <3>2. /\ Messages' = Messages \cup {Len(log) + 1}
          /\ log' \in Seq(Row) /\ call' \in [Sessions -> CallType]
          /\ \A m \in Messages : log'[m] = log[m]
          /\ log'[call'[s].message].recipient = call'[s].target
          /\ call'[s].message \in Messages'
          /\ call'[s].target = call[s].target
          /\ \A t \in Sessions \ {s} : call'[t] = call[t]
      BY <2>7, CommitEffect
    <3>3. \A t \in Sessions :
            /\ pc'[t] \in {"send", "notify", "wake"} => call'[t].target \in Agents
            /\ pc'[t] \in {"notify", "wake"} =>
                 /\ call'[t].message \in Messages'
                 /\ log'[call'[t].message].recipient = call'[t].target
            /\ batch'[t] # {} => pc'[t] \in {"clear", "return"}
      BY <3>1, <3>2 DEF TypeOK
    <3> QED
      BY <3>1, <3>2, <3>3 DEF TypeOK, Stages
  <2>8. ASSUME NEW s \in Sessions, Notify(s)
        PROVE  TypeOK'
    BY <2>8 DEF Notify, Goto, Stages, table, history,
       TypeOK, Messages
  <2>9. ASSUME NEW s \in Sessions, Wake(s)
        PROVE  TypeOK'
    BY <2>9 DEF Wake, Return, Goto, Stages, CallType, NoCall, table,
       TypeOK, Messages
  <2>10. ASSUME NEW s \in Sessions, Inbox(s)
        PROVE  TypeOK'
    <3>1. PICK n \in Limits : Begin(s, "inbox", ReadCall(n))
      BY <2>10 DEF Inbox
    <3>2. ReadCall(n) \in CallType
      BY DEF ReadCall, CallType
    <3> QED
      BY <3>1, <3>2 DEF Begin, Upsert, Goto, TypeOK, Messages, Stages, history
  <2>11. ASSUME NEW s \in Sessions, InboxEmpty(s)
        PROVE  TypeOK'
    BY <2>11 DEF InboxEmpty, Return, Goto, Stages, CallType, NoCall, table,
       TypeOK, Messages
  <2>12. ASSUME NEW s \in Sessions, InboxRead(s)
        PROVE  TypeOK'
    BY <2>12, OldestSubset DEF InboxRead, Hold, MarkRead, Selected, UnreadFor, Goto, Stages, history,
       TypeOK, Messages
  <2>13. ASSUME NEW s \in Sessions, Clear(s)
        PROVE  TypeOK'
    BY <2>13 DEF Clear, Return, Goto, Stages, CallType, NoCall, table,
       TypeOK, Messages
  <2>14. ASSUME NEW s \in Sessions, Subscribe(s)
        PROVE  TypeOK'
    <3>1. PICK n \in Limits : Begin(s, "sub", ReadCall(n))
      BY <2>14 DEF Subscribe
    <3>2. ReadCall(n) \in CallType
      BY DEF ReadCall, CallType
    <3> QED
      BY <3>1, <3>2 DEF Begin, Upsert, Goto, TypeOK, Messages, Stages, history
  <2>15. ASSUME NEW s \in Sessions, SubscribeRead(s)
        PROVE  TypeOK'
    BY <2>15, OldestSubset DEF SubscribeRead, Hold, MarkRead, Selected, UnreadFor, Goto, Stages, history,
       TypeOK, Messages
  <2>16. ASSUME NEW s \in Sessions, SubscribeWait(s)
        PROVE  TypeOK'
    BY <2>16 DEF SubscribeWait, Goto, Stages, table, history,
       TypeOK, Messages
  <2>17. ASSUME NEW s \in Sessions, Probe(s)
        PROVE  TypeOK'
    BY <2>17 DEF Probe, Goto, Stages, table, history,
       TypeOK, Messages
  <2>18. ASSUME NEW s \in Sessions, Poll(s)
        PROVE  TypeOK'
    BY <2>18 DEF Poll, Goto, Stages, table, history,
       TypeOK, Messages
  <2>19. ASSUME NEW s \in Sessions, Consume(s)
        PROVE  TypeOK'
    BY <2>19 DEF Consume, Goto, Stages, table, history,
       TypeOK, Messages
  <2>20. ASSUME NEW s \in Sessions, Timeout(s)
        PROVE  TypeOK'
    BY <2>20 DEF Timeout, Return, Goto, Stages, CallType, NoCall, table,
       TypeOK, Messages
  <2>21. ASSUME NEW s \in Sessions, Reread(s)
        PROVE  TypeOK'
    BY <2>21, OldestSubset DEF Reread, MarkRead, Selected, UnreadFor, Goto, Stages, history,
       TypeOK, Messages
  <2>22. ASSUME NEW s \in Sessions, Deliver(s)
        PROVE  TypeOK'
    BY <2>22 DEF Deliver, Return, Goto, Stages, CallType, NoCall, table,
       TypeOK, Messages
  <2>23. ASSUME NEW mode \in PurgeModes, NEW last \in Messages, Purge(mode, last)
        PROVE  TypeOK'
    BY <2>23 DEF Purge, TypeOK, Messages, history
  <2>24. CASE UNCHANGED vars
    BY <2>24 DEF vars, TypeOK, Messages
  <2> QED
    BY <2>1, <2>2, <2>3, <2>4, <2>5, <2>6, <2>7, <2>8, <2>9, <2>10, <2>11,
       <2>12, <2>13, <2>14, <2>15, <2>16, <2>17, <2>18, <2>19, <2>20, <2>21,
       <2>22, <2>23, <2>24
       DEF Next, Step, SendStep, InboxStep, SubscribeStep
<1> QED
  BY <1>1, <1>2, BusAssumption, PTL DEF Spec

-----------------------------------------------------------------------------
(* The messages and who has them.                                          *)

Books == <<log, stored, unread, batch, returned, lost>>

\* The call of s ends and its batch goes to the client.
Returning(s) ==
    /\ batch' = [batch EXCEPT ![s] = {}]
    /\ returned' = [returned EXCEPT ![s] = @ \cup batch[s]]
    /\ UNCHANGED <<log, stored, unread, lost>>

\* s is killed and its batch goes nowhere.
Dying(s) ==
    /\ batch' = [batch EXCEPT ![s] = {}]
    /\ lost' = [lost EXCEPT ![s] = @ \cup batch[s]]
    /\ UNCHANGED <<log, stored, unread, returned>>

\* A read of s, which held nothing, takes what it selects.
Reading(s) ==
    /\ batch[s] = {}
    /\ batch' = [batch EXCEPT ![s] = Selected(s)]
    /\ unread' = unread \ Selected(s)
    /\ UNCHANGED <<log, stored, returned, lost>>

\* Whatever a step does to signals and stages, this is what it does to the
\* messages.
LEMMA StepKinds ==
    ASSUME TypeOK, [Next]_vars
    PROVE  \/ UNCHANGED Books
           \/ \E s \in Sessions : Returning(s) \/ Dying(s) \/ Reading(s) \/ Commit(s)
           \/ \E mode \in PurgeModes, last \in Messages : Purge(mode, last)
<1> DEFINE Goal ==
      \/ UNCHANGED Books
      \/ \E s \in Sessions : Returning(s) \/ Dying(s) \/ Reading(s) \/ Commit(s)
      \/ \E mode \in PurgeModes, last \in Messages : Purge(mode, last)
<1>1. CASE UNCHANGED vars
  BY <1>1 DEF vars, Books
<1>2. CASE \E mode \in PurgeModes, last \in Messages : Purge(mode, last)
  BY <1>2
<1>3. ASSUME NEW s \in Sessions, Step(s)
      PROVE  Goal
  <2>1. CASE Start(s) \/ Observe(s) \/ Send(s) \/ Inbox(s) \/ Subscribe(s)
    BY <2>1 DEF Start, Observe, Send, Inbox, Subscribe, Begin, Books, history
  <2>2. CASE Notify(s) \/ SubscribeWait(s) \/ Probe(s) \/ Poll(s) \/ Consume(s)
    BY <2>2 DEF Notify, SubscribeWait, Probe, Poll, Consume, Books, table, history
  <2>3. CASE Commit(s)
    BY <2>3
  <2>4. CASE Crash(s)
    <3>1. Dying(s)
      BY <2>4 DEF Crash, Dying, table
    <3> QED
      BY <3>1
  <2>5. ASSUME Return(s, {}), pc[s] \notin {"clear", "return"},
               UNCHANGED <<log, stored, unread>>
        PROVE  Returning(s)
    <3>1. batch[s] = {}
      BY <2>5 DEF TypeOK
    <3> QED
      BY <2>5, <3>1 DEF Return, Returning
  <2>6. CASE Busy(s) \/ Reject(s) \/ Wake(s) \/ InboxEmpty(s) \/ Timeout(s)
    <3>1. Returning(s)
      BY <2>5, <2>6 DEF Busy, Reject, Wake, InboxEmpty, Timeout, table
    <3> QED
      BY <3>1
  <2>7. CASE Clear(s) \/ Deliver(s)
    <3>1. Returning(s)
      BY <2>7 DEF Clear, Deliver, Return, Returning, table
    <3> QED
      BY <3>1
  <2>8. CASE InboxRead(s) \/ SubscribeRead(s) \/ Reread(s)
    <3>1. batch[s] = {}
      BY <2>8 DEF InboxRead, SubscribeRead, Reread, TypeOK
    <3>2. Reading(s)
      BY <2>8, <3>1 DEF InboxRead, SubscribeRead, Reread, Hold, MarkRead, Reading, history
    <3> QED
      BY <3>2
  <2> QED
    BY <1>3, <2>1, <2>2, <2>3, <2>4, <2>6, <2>7, <2>8
       DEF Step, SendStep, InboxStep, SubscribeStep
<1> QED
  BY <1>1, <1>2, <1>3 DEF Next

\* SELECT ... LIMIT n takes a prefix: what it leaves is younger.
LEMMA OldestPrefix ==
    ASSUME NEW b \in Nat, NEW ms \in SUBSET (1..b), NEW n \in Nat,
           NEW m \in Oldest(ms, n), NEW k \in ms \ Oldest(ms, n)
    PROVE  m < k
BY PrefixIsOlder DEF Oldest

\* Returning and dying move a batch without changing who took it; reading
\* takes unread messages of the session's agent, the oldest first.
LEMMA TakenEffect ==
    ASSUME BusAssumption, TypeOK, NEW s \in Sessions
    PROVE  /\ Returning(s) \/ Dying(s) => \A t \in Sessions : Taken(t)' = Taken(t)
           /\ Reading(s) =>
                /\ Selected(s) \subseteq UnreadFor(Owner[s])
                /\ Taken(s)' = Taken(s) \cup Selected(s)
                /\ \A t \in Sessions \ {s} : Taken(t)' = Taken(t)
                /\ \A m \in Selected(s), k \in UnreadFor(Owner[s]) \ Selected(s) : m < k
<1>1. Returning(s) => \A t \in Sessions : Taken(t)' = Taken(t)
  BY DEF TypeOK, Returning, Taken
<1>2. Dying(s) => \A t \in Sessions : Taken(t)' = Taken(t)
  BY DEF TypeOK, Dying, Taken
<1>3. Selected(s) \subseteq UnreadFor(Owner[s])
  BY OldestSubset DEF Selected
<1>4. Reading(s) => Taken(s)' = Taken(s) \cup Selected(s)
  BY DEF TypeOK, Reading, Taken
<1>5. Reading(s) => \A t \in Sessions \ {s} : Taken(t)' = Taken(t)
  BY DEF TypeOK, Reading, Taken
<1>6. \A m \in Selected(s), k \in UnreadFor(Owner[s]) \ Selected(s) : m < k
  <2>1. Len(log) \in Nat
    BY DEF TypeOK
  <2>3. UnreadFor(Owner[s]) \in SUBSET (1..Len(log))
    BY DEF TypeOK, UnreadFor, Messages
  <2>2. call[s].limit \in Nat
    BY DEF TypeOK, CallType
  <2> QED
    BY <2>1, <2>2, <2>3, OldestPrefix DEF Selected
<1> QED
  BY <1>1, <1>2, <1>3, <1>4, <1>5, <1>6

\* A read takes only unread messages and no step puts one back, so what two
\* sessions have taken stays apart.
LEMMA ExactlyOneReaderStep ==
    ASSUME BusAssumption, TypeOK, ExactlyOneReader, [Next]_vars
    PROVE  ExactlyOneReader'
<1>1. CASE UNCHANGED Books
  BY <1>1 DEF Books, ExactlyOneReader, Taken
<1>2. ASSUME NEW s \in Sessions, Returning(s)
      PROVE  ExactlyOneReader'
  BY <1>2, TakenEffect DEF Returning, ExactlyOneReader, TypeOK
<1>3. ASSUME NEW s \in Sessions, Dying(s)
      PROVE  ExactlyOneReader'
  BY <1>3, TakenEffect DEF Dying, ExactlyOneReader, TypeOK
<1>4. ASSUME NEW s \in Sessions, Reading(s)
      PROVE  ExactlyOneReader'
  <2>1. Selected(s) \subseteq unread
    BY <1>4, TakenEffect DEF UnreadFor
  <2>2. ASSUME NEW t \in Sessions
        PROVE  Taken(t)' \cap unread' = {}
    <3>1. Taken(t)' \subseteq Taken(t) \cup Selected(s)
      BY <1>4, TakenEffect
    <3>2. unread' = unread \ Selected(s) /\ Taken(t) \cap unread = {}
      BY <1>4 DEF Reading, ExactlyOneReader
    <3> QED
      BY <3>1, <3>2
  <2>3. \A t, u \in Sessions : t # u => Taken(t)' \cap Taken(u)' = {}
    BY <1>4, <2>1, TakenEffect DEF ExactlyOneReader
  <2>4. \A t \in Sessions : /\ batch'[t] \cap returned'[t] = {}
                            /\ batch'[t] \cap lost'[t] = {}
                            /\ returned'[t] \cap lost'[t] = {}
    BY <1>4, <2>1 DEF Reading, ExactlyOneReader, Taken, TypeOK
  <2> QED
    BY <2>2, <2>3, <2>4 DEF ExactlyOneReader
<1>5. ASSUME NEW s \in Sessions, Commit(s)
      PROVE  ExactlyOneReader'
  <2>1. \A t \in Sessions : Taken(t)' = Taken(t) /\ Taken(t) \subseteq Messages
    BY <1>5 DEF Commit, Taken, TypeOK, history
  <2>2. unread' = unread \cup {Len(log) + 1} /\ UNCHANGED <<batch, returned, lost>>
    BY <1>5 DEF Commit, history
  <2>3. Len(log) + 1 \notin Messages
    BY <1>5, CommitEffect
  <2> QED
    BY <2>1, <2>2, <2>3 DEF ExactlyOneReader
<1>6. ASSUME NEW mode \in PurgeModes, NEW last \in Messages, Purge(mode, last)
      PROVE  ExactlyOneReader'
  BY <1>6 DEF Purge, ExactlyOneReader, Taken, history
<1> QED
  BY <1>1, <1>2, <1>3, <1>4, <1>5, <1>6, StepKinds

\* What leaves unread is in a session's batch from that same transaction on, or
\* is deleted by a purge without --unread-only.
LEMMA NoneVanishesStep ==
    ASSUME BusAssumption, TypeOK, NoneVanishes, [Next]_vars
    PROVE  NoneVanishes'
<1>1. CASE UNCHANGED Books
  BY <1>1 DEF Books, NoneVanishes, Taken, Messages
<1>2. ASSUME NEW s \in Sessions, Returning(s) \/ Dying(s)
      PROVE  NoneVanishes'
  <2>1. UNCHANGED <<log, stored, unread>>
    BY <1>2 DEF Returning, Dying
  <2>2. \A t \in Sessions : Taken(t)' = Taken(t)
    BY <1>2, TakenEffect
  <2> QED
    BY <2>1, <2>2 DEF NoneVanishes, Messages
<1>3. ASSUME NEW s \in Sessions, Reading(s)
      PROVE  NoneVanishes'
  <2>1. UNCHANGED <<log, stored>> /\ unread' = unread \ Selected(s)
    BY <1>3 DEF Reading
  <2>2. Selected(s) \subseteq Taken(s)' /\ \A t \in Sessions : Taken(t) \subseteq Taken(t)'
    BY <1>3, TakenEffect
  <2> QED
    BY <2>1, <2>2 DEF NoneVanishes, Messages
<1>4. ASSUME NEW s \in Sessions, Commit(s)
      PROVE  NoneVanishes'
  <2>1. Messages' = Messages \cup {Len(log) + 1}
    BY <1>4, CommitEffect
  <2>2. /\ unread' = unread \cup {Len(log) + 1}
        /\ stored' = stored \cup {Len(log) + 1}
        /\ UNCHANGED <<batch, returned, lost>>
    BY <1>4 DEF Commit, history
  <2>3. \A t \in Sessions : Taken(t)' = Taken(t)
    BY <2>2 DEF Taken
  <2>4. Len(log) + 1 \notin Messages
    BY <1>4, CommitEffect
  <2> QED
    BY <2>1, <2>2, <2>3, <2>4 DEF NoneVanishes
<1>5. ASSUME NEW mode \in PurgeModes, NEW last \in Messages, Purge(mode, last)
      PROVE  NoneVanishes'
  <2>1. PICK gone : /\ gone = {m \in stored : m <= last /\ (mode = "read" => m \notin unread)}
                    /\ stored' = stored \ gone
                    /\ unread' = unread \ gone
    BY <1>5 DEF Purge
  <2>2. mode # "read" => "all" \in PurgeModes
    BY BusAssumption
  <2>3. UNCHANGED <<log, batch, returned, lost>>
    BY <1>5 DEF Purge, history
  <2>4. \A m \in unread : m \in unread' \/ (m \notin stored' /\ "all" \in PurgeModes)
    BY <2>1, <2>2
  <2> QED
    BY <2>1, <2>3, <2>4 DEF NoneVanishes, Messages, Taken
<1> QED
  BY <1>1, <1>2, <1>3, <1>4, <1>5, StepKinds

\* A read takes a prefix of the unread messages and a commit adds the youngest
\* message, so nobody holds a message younger than an unread one.
LEMMA OldestFirstStep ==
    ASSUME BusAssumption, TypeOK, OldestFirst, [Next]_vars
    PROVE  OldestFirst'
<1>1. CASE UNCHANGED Books
  BY <1>1 DEF Books, OldestFirst, Taken, UnreadFor
<1>2. ASSUME NEW s \in Sessions, Returning(s) \/ Dying(s)
      PROVE  OldestFirst'
  <2>1. UNCHANGED <<log, unread>>
    BY <1>2 DEF Returning, Dying
  <2>2. \A t \in Sessions : Taken(t)' = Taken(t)
    BY <1>2, TakenEffect
  <2> QED
    BY <2>1, <2>2 DEF OldestFirst, UnreadFor
<1>3. ASSUME NEW s \in Sessions, Reading(s),
             NEW t \in Sessions, NEW m \in Taken(t)'
      PROVE  /\ log'[m].recipient = Owner[t]
             /\ \A k \in UnreadFor(Owner[t])' : m < k
  <2>1. /\ UNCHANGED log
        /\ UnreadFor(Owner[t])' = UnreadFor(Owner[t]) \ Selected(s)
    BY <1>3 DEF Reading, UnreadFor
  <2>2. CASE m \in Taken(t)
    BY <2>1, <2>2 DEF OldestFirst
  <2>3. CASE m \notin Taken(t)
    <3>1. t = s /\ m \in Selected(s)
      BY <1>3, <2>3, TakenEffect
    <3> QED
      BY <1>3, <2>1, <3>1, TakenEffect DEF UnreadFor
  <2> QED
    BY <2>2, <2>3
<1>4. ASSUME NEW s \in Sessions, Commit(s),
             NEW t \in Sessions, NEW m \in Taken(t)'
      PROVE  /\ log'[m].recipient = Owner[t]
             /\ \A k \in UnreadFor(Owner[t])' : m < k
  <2>1. m \in Taken(t) /\ m \in Messages
    BY <1>4 DEF Commit, history, Taken, TypeOK
  <2>2. unread' = unread \cup {Len(log) + 1} /\ unread \subseteq Messages
    BY <1>4 DEF Commit, TypeOK
  <2>3. \A k \in Messages : log'[k] = log[k]
    BY <1>4, CommitEffect
  <2>4. m < Len(log) + 1
    BY <2>1 DEF Messages, TypeOK
  <2>5. \A k \in UnreadFor(Owner[t])' : k \in UnreadFor(Owner[t]) \/ k = Len(log) + 1
    BY <2>2, <2>3 DEF UnreadFor
  <2> QED
    BY <2>1, <2>3, <2>4, <2>5 DEF OldestFirst
<1>5. ASSUME NEW mode \in PurgeModes, NEW last \in Messages, Purge(mode, last)
      PROVE  OldestFirst'
  BY <1>5 DEF Purge, OldestFirst, UnreadFor, Taken, history
<1> QED
  BY <1>1, <1>2, <1>3, <1>4, <1>5, StepKinds DEF OldestFirst

\* At most one consuming read returns a message, for any number of sessions.
THEOREM ReadOnce == Spec => []ExactlyOneReader
<1>1. Init => ExactlyOneReader
  BY DEF Init, ExactlyOneReader, Taken
<1> QED
  BY <1>1, ExactlyOneReaderStep, TypeCorrect, BusAssumption, PTL DEF Spec

\* A message is unread or in the hands of a session until a purge of unread
\* messages deletes it.
THEOREM NothingVanishes == Spec => []NoneVanishes
<1>1. Init => NoneVanishes
  BY DEF Init, NoneVanishes, Messages
<1> QED
  BY <1>1, NoneVanishesStep, TypeCorrect, BusAssumption, PTL DEF Spec

\* Readers of one agent, however many, take its messages in the order of their
\* creation.
THEOREM ReadInOrder == Spec => []OldestFirst
<1>1. Init => OldestFirst
  BY DEF Init, OldestFirst, Taken
<1> QED
  BY <1>1, OldestFirstStep, TypeCorrect, BusAssumption, PTL DEF Spec

-----------------------------------------------------------------------------
(* Waking the leader.                                                      *)

\* ADR-001: one session, the gateway's, consumes the inbox of an agent.
LeaderAtGateway == \A s, t \in Sessions : Owner[s] = Owner[t] => s = t

Waiting(s) == pc[s] \in {"wait", "poll", "consume"}

\* What is inductive: the signal is there or the sender is about to write it,
\* without the help of a sibling.
LeaderWakes ==
    \A s \in Sessions : Waiting(s) =>
        \A m \in UnreadFor(Owner[s]) \ orphans : Owner[s] \in signal \/ Announcing(m)

\* A step of another session, or of the operator, leaves a waiting leader its
\* wake-up; a step of the leader itself leaves it the wake-up or the wait.
LEMMA LeaderWakesStep ==
    ASSUME BusAssumption, LeaderAtGateway, TypeOK, LeaderWakes, [Next]_vars
    PROVE  LeaderWakes'
<1> SUFFICES ASSUME NEW s \in Sessions, Waiting(s)',
                    NEW m \in UnreadFor(Owner[s])', m \notin orphans'
             PROVE  Owner[s] \in signal' \/ Announcing(m)'
  BY DEF LeaderWakes
<1> DEFINE Goal == Owner[s] \in signal' \/ Announcing(m)'
           Kept == /\ Waiting(s)
                   /\ m \in UnreadFor(Owner[s]) \ orphans
<1>0. Kept => Owner[s] \in signal \/ Announcing(m)
  BY DEF LeaderWakes
<1>1. CASE UNCHANGED vars
  BY <1>0, <1>1 DEF vars, Waiting, UnreadFor, Announcing
<1>2. ASSUME NEW mode \in PurgeModes, NEW last \in Messages, Purge(mode, last)
      PROVE  Goal
  BY <1>0, <1>2 DEF Purge, Waiting, UnreadFor, Announcing, history
<1>3. ASSUME NEW t \in Sessions, Step(t)
      PROVE  Goal
  <2>1. CASE Start(t) \/ Observe(t) \/ Send(t) \/ Inbox(t) \/ Subscribe(t)
    <3>1. /\ UNCHANGED <<log, unread, signal, orphans>>
          /\ pc[t] \in {"down", "idle"}
          /\ \A u \in Sessions \ {t} : pc'[u] = pc[u] /\ call'[u] = call[u]
          /\ pc'[t] \in {"idle", "send", "inbox", "sub"}
      BY <2>1 DEF Start, Observe, Send, Inbox, Subscribe, Begin, Goto, history, TypeOK
    <3> QED
      BY <1>0, <3>1 DEF Waiting, UnreadFor, Announcing
  <2>2. ASSUME Goto(t, "idle"), UNCHANGED <<log, signal, orphans>>, pc[t] # "notify",
               unread' \subseteq unread, \A u \in Sessions \ {t} : call'[u] = call[u]
        PROVE  Goal
    BY <1>0, <2>2 DEF Goto, TypeOK, Waiting, UnreadFor, Announcing
  <2>3. CASE Busy(t) \/ Reject(t) \/ Wake(t) \/ InboxEmpty(t) \/ Timeout(t) \/ Deliver(t)
    <3>1. /\ Goto(t, "idle") /\ UNCHANGED <<log, unread, signal, orphans>>
          /\ pc[t] # "notify"
          /\ \A u \in Sessions \ {t} : call'[u] = call[u]
      BY <2>3 DEF Busy, Reject, Wake, InboxEmpty, Timeout, Deliver, Return, table, TypeOK
    <3> QED
      BY <2>2, <3>1
  <2>4. CASE Clear(t)
    <3>1. /\ t # s
          /\ signal' = signal \ {Owner[t]}
          /\ UNCHANGED <<log, unread, orphans>>
          /\ pc[t] = "clear"
          /\ \A u \in Sessions \ {t} : pc'[u] = pc[u] /\ call'[u] = call[u]
      BY <2>4 DEF Clear, Return, Goto, table, TypeOK, Waiting
    <3>2. Owner[t] # Owner[s]
      BY <3>1 DEF LeaderAtGateway
    <3> QED
      BY <1>0, <3>1, <3>2 DEF Waiting, UnreadFor, Announcing
  <2>5. CASE Consume(t)
    <3>1. /\ t # s
          /\ signal' = signal \ {Owner[t]}
          /\ UNCHANGED <<log, unread, orphans, call>>
          /\ pc[t] = "consume"
          /\ \A u \in Sessions \ {t} : pc'[u] = pc[u]
      BY <2>5 DEF Consume, Goto, table, history, TypeOK, Waiting
    <3>2. Owner[t] # Owner[s]
      BY <3>1 DEF LeaderAtGateway
    <3> QED
      BY <1>0, <3>1, <3>2 DEF Waiting, UnreadFor, Announcing
  <2>6. CASE SubscribeWait(t)
    <3>1. UNCHANGED <<log, unread, signal, orphans, call>> /\ pc[t] = "sub"
      BY <2>6 DEF SubscribeWait, table, history
    <3>2. t # s
      BY <2>6, <3>1 DEF SubscribeWait, UnreadFor
    <3>3. \A u \in Sessions \ {t} : pc'[u] = pc[u]
      BY <2>6 DEF SubscribeWait, Goto, TypeOK
    <3> QED
      BY <1>0, <3>1, <3>2, <3>3 DEF Waiting, UnreadFor, Announcing
  <2>7. CASE Probe(t) \/ Poll(t)
    <3>1. /\ UNCHANGED <<log, unread, signal, orphans, call>>
          /\ pc[t] \in {"wait", "poll"}
          /\ \A u \in Sessions \ {t} : pc'[u] = pc[u]
      BY <2>7 DEF Probe, Poll, Goto, table, history, TypeOK
    <3> QED
      BY <1>0, <3>1 DEF Waiting, UnreadFor, Announcing
  <2>8. CASE InboxRead(t) \/ SubscribeRead(t) \/ Reread(t)
    <3>1. /\ unread' \subseteq unread
          /\ UNCHANGED <<log, signal, orphans, call>>
          /\ pc[t] \in {"inbox", "sub", "reread"}
          /\ pc'[t] \in {"clear", "return"}
          /\ \A u \in Sessions \ {t} : pc'[u] = pc[u]
      BY <2>8 DEF InboxRead, SubscribeRead, Reread, Hold, MarkRead, Goto, history, TypeOK
    <3> QED
      BY <1>0, <3>1 DEF Waiting, UnreadFor, Announcing
  <2>9. CASE Notify(t)
    <3>1. /\ signal' = signal \cup {call[t].target}
          /\ UNCHANGED <<log, unread, orphans, call>>
          /\ pc[t] = "notify" /\ pc'[t] = "wake"
          /\ log[call[t].message].recipient = call[t].target
          /\ \A u \in Sessions \ {t} : pc'[u] = pc[u]
      BY <2>9 DEF Notify, Goto, table, history, TypeOK
    <3> QED
      BY <1>0, <3>1 DEF Waiting, UnreadFor, Announcing
  <2>10. CASE Crash(t)
    <3>1. /\ UNCHANGED <<log, unread, signal>>
          /\ orphans \subseteq orphans'
          /\ pc[t] = "notify" => call[t].message \in orphans'
          /\ pc'[t] = "down"
          /\ \A u \in Sessions \ {t} : pc'[u] = pc[u] /\ call'[u] = call[u]
      BY <2>10 DEF Crash, Goto, table, TypeOK
    <3> QED
      BY <1>0, <3>1 DEF Waiting, UnreadFor, Announcing
  <2>11. CASE Commit(t)
    <3>1. /\ UNCHANGED <<signal, orphans>>
          /\ unread' = unread \cup {Len(log) + 1}
          /\ pc[t] = "send" /\ pc'[t] = "notify"
          /\ \A u \in Sessions \ {t} : pc'[u] = pc[u]
      BY <2>11 DEF Commit, Goto, history, TypeOK
    <3>2. /\ \A k \in Messages : log'[k] = log[k]
          /\ call'[t].message = Len(log) + 1
          /\ \A u \in Sessions \ {t} : call'[u] = call[u]
      BY <2>11, CommitEffect
    <3>3. CASE m = Len(log) + 1
      BY <3>1, <3>2, <3>3 DEF Announcing
    <3>4. CASE m # Len(log) + 1
      <4>1. m \in UnreadFor(Owner[s]) \ orphans
        BY <3>1, <3>2, <3>4 DEF UnreadFor, TypeOK
      <4> QED
        BY <1>0, <3>1, <3>2, <4>1 DEF Waiting, Announcing
    <3> QED
      BY <3>3, <3>4
  <2> QED
    BY <1>3, <2>1, <2>3, <2>4, <2>5, <2>6, <2>7, <2>8, <2>9, <2>10, <2>11
       DEF Step, SendStep, InboxStep, SubscribeStep
<1> QED
  BY <1>1, <1>2, <1>3 DEF Next

\* An agent with one session is woken by every message while it is blocked in
\* agent_subscribe, unless the sender was killed before the signal.
THEOREM LeaderIsWoken == LeaderAtGateway => (Spec => []NoLostWakeup)
<1> SUFFICES ASSUME LeaderAtGateway
             PROVE  Spec => []NoLostWakeup
  OBVIOUS
<1>1. Init => LeaderWakes
  BY DEF Init, LeaderWakes, Waiting
<1>2. LeaderWakes => NoLostWakeup
  BY DEF LeaderWakes, NoLostWakeup, Waiting
<1>3. TypeOK /\ LeaderWakes /\ [Next]_vars => LeaderWakes'
  BY LeaderWakesStep, BusAssumption
<1> QED
  BY <1>1, <1>2, <1>3, TypeCorrect, PTL DEF Spec

-----------------------------------------------------------------------------
(* The webhook.                                                            *)

Sender(s) == pc[s] \in {"notify", "wake"}

\* What is inductive: no two sends speak of the same row, and the raw intent a
\* sender holds is still the one the row was stored with.
WakeInv ==
    /\ WakeAfterStore
    /\ \A s \in Sessions :
          Sender(s) => log[call[s].message].intent = NormalizeIntent(call[s].raw)
    /\ \A s, t \in Sessions :
          Sender(s) /\ Sender(t) /\ s # t => call[s].message # call[t].message

\* A step that posts no webhook and stores no row adds no sender.
Quiet ==
    /\ UNCHANGED <<log, woken>>
    /\ \A s \in Sessions : Sender(s)' => Sender(s) /\ call'[s] = call[s]

\* Only a commit makes a sender, only a wake posts a webhook.
LEMMA WakeKinds ==
    ASSUME TypeOK, [Next]_vars
    PROVE  Quiet \/ \E s \in Sessions : Commit(s) \/ Wake(s)
<1>1. CASE UNCHANGED vars
  BY <1>1 DEF vars, Quiet, Sender
<1>2. ASSUME NEW mode \in PurgeModes, NEW last \in Messages, Purge(mode, last)
      PROVE  Quiet
  BY <1>2 DEF Purge, Quiet, Sender, history
<1>3. ASSUME NEW s \in Sessions, Step(s)
      PROVE  Quiet \/ Commit(s) \/ Wake(s)
  <2>1. ASSUME UNCHANGED <<log, woken>>,
               \A u \in Sessions \ {s} : pc'[u] = pc[u] /\ call'[u] = call[u],
               Sender(s)' => Sender(s) /\ call'[s] = call[s]
        PROVE  Quiet
    BY <2>1 DEF Quiet, Sender
  <2>2. CASE Start(s) \/ Observe(s) \/ Send(s) \/ Inbox(s) \/ Subscribe(s)
    BY <2>1, <2>2 DEF Start, Observe, Send, Inbox, Subscribe, Begin, Goto, history, Sender,
       TypeOK
  <2>3. CASE Busy(s) \/ Reject(s) \/ InboxEmpty(s) \/ Clear(s) \/ Timeout(s) \/ Deliver(s)
    BY <2>1, <2>3 DEF Busy, Reject, InboxEmpty, Clear, Timeout, Deliver, Return, Goto, table,
       Sender, TypeOK
  <2>4. CASE Crash(s)
    BY <2>1, <2>4 DEF Crash, Goto, table, Sender, TypeOK
  <2>5. CASE Notify(s) \/ SubscribeWait(s) \/ Probe(s) \/ Poll(s) \/ Consume(s)
    BY <2>1, <2>5 DEF Notify, SubscribeWait, Probe, Poll, Consume, Goto, table, history,
       Sender, TypeOK
  <2>6. CASE InboxRead(s) \/ SubscribeRead(s) \/ Reread(s)
    BY <2>1, <2>6 DEF InboxRead, SubscribeRead, Reread, Hold, MarkRead, Goto, history,
       Sender, TypeOK
  <2> QED
    BY <1>3, <2>2, <2>3, <2>4, <2>5, <2>6 DEF Step, SendStep, InboxStep, SubscribeStep
<1> QED
  BY <1>1, <1>2, <1>3 DEF Next

\* A sender's row is its own: it is younger than those of the others when it is
\* stored, and it has been woken for by nobody until the sender does so itself.
LEMMA WakeStep ==
    ASSUME BusAssumption, TypeOK, TypeOK', WakeInv, [Next]_vars
    PROVE  WakeInv'
<1>1. CASE Quiet
  <2>1. Messages' = Messages
    BY <1>1 DEF Quiet, Messages
  <2> QED
    BY <1>1, <2>1 DEF Quiet, WakeInv, WakeAfterStore, Sender
<1>2. ASSUME NEW s \in Sessions, Commit(s)
      PROVE  WakeInv'
  <2>0. woken' = woken /\ \A u \in Sessions \ {s} : pc'[u] = pc[u]
    BY <1>2 DEF Commit, Goto, TypeOK
  <2>1. /\ \A u \in Sessions \ {s} : call'[u] = call[u]
        /\ \A m \in Messages : log'[m] = log[m] /\ m \in Messages'
        /\ Len(log) + 1 \notin Messages
        /\ call'[s].message = Len(log) + 1 /\ call'[s].raw = call[s].raw
        /\ log'[Len(log) + 1].intent = NormalizeIntent(call[s].raw)
    BY <1>2, CommitEffect
  <2>2. woken \subseteq Messages /\ \A u \in Sessions : Sender(u) => call[u].message \in Messages
    BY DEF TypeOK, Sender
  <2>3. WakeAfterStore'
    BY <2>0, <2>1, <2>2 DEF WakeInv, WakeAfterStore, Sender
  <2>4. \A u \in Sessions :
            Sender(u)' => log'[call'[u].message].intent = NormalizeIntent(call'[u].raw)
    BY <2>0, <2>1, <2>2 DEF WakeInv, Sender
  <2>5. \A u, v \in Sessions :
            Sender(u)' /\ Sender(v)' /\ u # v => call'[u].message # call'[v].message
    BY <2>0, <2>1, <2>2 DEF WakeInv, Sender
  <2> QED
    BY <2>3, <2>4, <2>5 DEF WakeInv
<1>3. ASSUME NEW s \in Sessions, Wake(s)
      PROVE  WakeInv'
  <2>1. /\ Messages' = Messages /\ log' = log
        /\ Sender(s) /\ ~ Sender(s)'
        /\ \A u \in Sessions \ {s} : pc'[u] = pc[u] /\ call'[u] = call[u]
        /\ \/ woken' = woken
           \/ /\ Wakes(NormalizeIntent(call[s].raw))
              /\ woken' = woken \cup {call[s].message}
    BY <1>3 DEF Wake, Return, Goto, table, Messages, Sender, TypeOK
  <2>2. call[s].message \in Messages
    BY <2>1 DEF Sender, TypeOK
  <2>3. Wakes(NormalizeIntent(call[s].raw)) => log[call[s].message].intent # "fyi"
    BY <2>1 DEF WakeInv, Wakes, NoWakeIntents
  <2>4. WakeAfterStore'
    BY <2>1, <2>2, <2>3 DEF WakeInv, WakeAfterStore, Sender
  <2>5. \A u \in Sessions : Sender(u)' => Sender(u) /\ call'[u] = call[u]
    BY <2>1 DEF Sender
  <2> QED
    BY <2>1, <2>4, <2>5 DEF WakeInv
<1> QED
  BY <1>1, <1>2, <1>3, WakeKinds

\* A webhook is posted only once the row it is about is stored, never for a fyi
\* message, and once: the session that it spawns finds what it was woken for.
THEOREM WokenIsStored == Spec => []WakeAfterStore
<1>1. Init => WakeInv
  BY DEF Init, WakeInv, WakeAfterStore, Sender
<1>2. WakeInv => WakeAfterStore
  BY DEF WakeInv
<1> QED
  BY <1>1, <1>2, WakeStep, TypeCorrect, BusAssumption, PTL DEF Spec

-----------------------------------------------------------------------------
(* The refinement.                                                         *)

\* The abstract state the bus stands for.
Posted == [m \in Messages |-> log[m].recipient]
TakenBy == [s \in Sessions |-> Taken(s)]

\* The rows name agents.
LEMMA RowRecipients == \A row \in Row : row.recipient \in Agents
BY DEF Row

\* The abstract log has one entry, an agent, per row.
LEMMA PostedType ==
    ASSUME TypeOK
    PROVE  Posted \in Seq(Agents) /\ Len(Posted) = Len(log) /\ Len(log) \in Nat
BY RowRecipients, RecipientsAre DEF TypeOK, Posted, Messages

\* Every step of the bus is a step of the abstract inbox, or invisible there.
LEMMA StepRefines ==
    ASSUME BusAssumption, TypeOK, TypeOK', [Next]_vars
    PROVE  [Promise!Next]_(Promise!vars)
<1> USE DEF Posted, TakenBy
<1>1. ASSUME log' = log, unread' = unread, \A s \in Sessions : Taken(s)' = Taken(s)
      PROVE  UNCHANGED Promise!vars
  BY <1>1 DEF Promise!vars, Messages
<1>2. CASE UNCHANGED Books
  BY <1>1, <1>2 DEF Books, Taken
<1>3. ASSUME NEW s \in Sessions, Returning(s) \/ Dying(s)
      PROVE  UNCHANGED Promise!vars
  BY <1>1, <1>3, TakenEffect DEF Returning, Dying
<1>4. ASSUME NEW s \in Sessions, Reading(s)
      PROVE  Promise!Next
  <2>1. UNCHANGED log /\ unread' = unread \ Selected(s)
    BY <1>4 DEF Reading
  <2>2. Promise!Unread(Owner[s]) = UnreadFor(Owner[s])
    BY DEF Promise!Unread, UnreadFor, TypeOK, Messages
  <2>3. TakenBy' = [TakenBy EXCEPT ![s] = @ \cup Selected(s)]
    BY <1>4, TakenEffect
  <2>4. Promise!Take(s, Selected(s))
    BY <1>4, <2>1, <2>2, <2>3, TakenEffect DEF Promise!Take, Messages
  <2>5. Selected(s) \in SUBSET Promise!Unread(Owner[s])
    BY <1>4, <2>2, TakenEffect
  <2> QED
    BY <2>4, <2>5 DEF Promise!Next
<1>5. ASSUME NEW s \in Sessions, Commit(s)
      PROVE  Promise!Next
  <2>1. PICK a \in Agents : a = call[s].target
    BY <1>5 DEF Commit, TypeOK
  <2>2. Posted' = Append(Posted, a)
    <3>1. log \in Seq(Row) /\ log' \in Seq(Row)
      BY DEF TypeOK
    <3>2. /\ Len(log') = Len(log) + 1
          /\ \A m \in 1..Len(log) : log'[m] = log[m]
          /\ log'[Len(log) + 1].recipient = a
      BY <1>5, <2>1, CommitEffect DEF Messages
    <3> QED
      BY <3>1, <3>2, RowRecipients, RecipientsGrow DEF Messages
  <2>3. unread' = unread \cup {Len(Posted) + 1}
    BY <1>5, PostedType DEF Commit
  <2>4. TakenBy' = TakenBy
    BY <1>5 DEF Commit, Taken, history
  <2>5. Promise!Post(a)
    BY <2>2, <2>3, <2>4 DEF Promise!Post
  <2> QED
    BY <2>5 DEF Promise!Next
<1>6. ASSUME NEW mode \in PurgeModes, NEW last \in Messages, Purge(mode, last)
      PROVE  [Promise!Next]_(Promise!vars)
  <2>1. UNCHANGED log /\ TakenBy' = TakenBy
    BY <1>6 DEF Purge, Taken, history
  <2>2. CASE mode = "read"
    BY <1>1, <1>6, <2>2 DEF Purge, Taken, history
  <2>3. CASE mode # "read"
    <3>1. unread' = {m \in unread : m > last}
      <4>1. PICK gone : /\ gone = {m \in stored : m <= last /\ (mode = "read" => m \notin unread)}
                        /\ unread' = unread \ gone
        BY <1>6 DEF Purge
      <4>2. unread \subseteq stored /\ \A m \in unread : m \in Int
        BY DEF TypeOK, Messages
      <4>3. last \in Int
        BY DEF Messages
      <4> QED
        BY <2>3, <4>1, <4>2, <4>3
    <3>2. Promise!Purge(last)
      <4>1. "all" \in PurgeModes
        BY <2>3, BusAssumption
      <4> QED
        BY <2>1, <3>1, <4>1 DEF Promise!Purge, Messages
    <3>3. last \in 1..Len(Posted)
      BY PostedType DEF Messages
    <3> QED
      BY <3>2, <3>3 DEF Promise!Next
  <2> QED
    BY <2>2, <2>3
<1> QED
  BY <1>2, <1>3, <1>4, <1>5, <1>6, StepKinds DEF Books

\* The processes, transactions, signal files and crashes implement the inbox of
\* module Inbox.
THEOREM BusImplementsInbox == Spec => AsInbox
<1>1. Init => Promise!Init
  BY DEF Init, Promise!Init, Messages, Taken
<1> QED
  BY <1>1, StepRefines, TypeCorrect, BusAssumption, PTL DEF Spec, AsInbox, Promise!Spec

=============================================================================
