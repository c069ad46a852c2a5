------------------------------- MODULE Inbox -------------------------------
(***************************************************************************)
(* What the bus promises about the messages of an agent, whatever the      *)
(* transport: a message is posted to one agent, waits unread until exactly *)
(* one consuming read of a session of that agent takes it, and sessions    *)
(* take the oldest messages first.  Where purges are allowed, an operator  *)
(* may purge old messages.  The table, the signal files, the processes and *)
(* the threads are absent: Bus and Facade show that they implement this.   *)
(***************************************************************************)
EXTENDS Naturals, Sequences

CONSTANTS
    Agents,    \* agent ids (profiles)
    Sessions,  \* the clients that serve the agents
    Owner,     \* the agent each session speaks for
    MayPurge   \* whether unread messages may be purged

VARIABLES
    posted,    \* the recipients of the messages ever posted, oldest first
    unread,    \* the messages (indexes of posted) nobody has read
    taken      \* the messages each session's consuming reads have returned

vars == <<posted, unread, taken>>

Unread(a) == {m \in unread : posted[m] = a}

Init ==
    /\ posted = <<>>
    /\ unread = {}
    /\ taken = [s \in Sessions |-> {}]

Post(a) ==
    /\ posted' = Append(posted, a)
    /\ unread' = unread \cup {Len(posted) + 1}
    /\ UNCHANGED taken

\* One consuming read: some of the session's messages, the oldest first.
Take(s, ms) ==
    /\ ms \subseteq Unread(Owner[s])
    /\ \A m \in ms, k \in Unread(Owner[s]) \ ms : m < k
    /\ unread' = unread \ ms
    /\ taken' = [taken EXCEPT ![s] = @ \cup ms]
    /\ UNCHANGED posted

\* A purge forgets every unread message up to some age.
Purge(last) ==
    /\ MayPurge
    /\ unread' = {m \in unread : m > last}
    /\ UNCHANGED <<posted, taken>>

Next ==
    \/ \E a \in Agents : Post(a)
    \/ \E s \in Sessions : \E ms \in SUBSET Unread(Owner[s]) : Take(s, ms)
    \/ \E last \in 1..Len(posted) : Purge(last)

Spec == Init /\ [][Next]_vars
=============================================================================
