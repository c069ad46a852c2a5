---------------------------- MODULE RateLimiter ----------------------------
(***************************************************************************)
(* The sliding-window rate limits of the facade (rate_limit.py): one       *)
(* limiter for every request and one per limited route, each with a list   *)
(* of recent hits per client address.  The middleware runs on the event    *)
(* loop, one request at a time; the clock is read again by prune_stale,    *)
(* later than by the allow() that calls it.                                *)
(*                                                                         *)
(* Time is counted in ticks, Window of which stand for the 60 s of the     *)
(* window and of _PRUNE_INTERVAL_S.                                        *)
(***************************************************************************)
EXTENDS Integers, Sequences, FiniteSets

CONSTANTS
    Addresses,  \* client addresses, the keys
    Rpm,        \* requests per window of each limiter: "global" and routes
    Window,     \* the window, in ticks
    MaxKeys,    \* _MAX_HITS_KEYS
    MaxPause,   \* the ticks that can pass between allow()'s and prune_stale()'s clock
    MaxTime     \* bound: ticks in a behaviour

Limiters == DOMAIN Rpm

ASSUME RateAssumption ==
    /\ "global" \in Limiters
    /\ Rpm \in [Limiters -> Nat]
    /\ Window \in Nat \ {0}
    /\ {MaxKeys, MaxPause, MaxTime} \subseteq Nat

VARIABLES
    clock,    \* time.monotonic()
    hits,     \* per limiter: the dict from addresses to the times of their hits
    swept,    \* per limiter: _last_prune
    passed,   \* history: per limiter and address, the recent hits it let through
    refused   \* the limiter, address and time of the last request, if it got a 429

vars == <<clock, hits, swept, passed, refused>>

Never == -1
NoRefusal == <<"", "", Never>>

\* The hits of a list that are in the window at time t.
Fresh(times, t) ==
    LET among[n \in 0..Len(times)] ==
            IF n = 0 THEN <<>>
            ELSE IF times[n] > t - Window THEN Append(among[n - 1], times[n])
            ELSE among[n - 1]
    IN  among[Len(times)]

Init ==
    /\ clock = 0
    /\ hits = [l \in Limiters |-> <<>>]
    /\ swept = [l \in Limiters |-> Never]
    /\ passed = [l \in Limiters |-> [k \in Addresses |-> <<>>]]
    /\ refused = NoRefusal

\* The history keeps what a request that is being handled at time t may need.
Recent(history, t) ==
    [l \in Limiters |-> [k \in Addresses |-> Fresh(history[l][k], t - 2 * MaxPause)]]

Tick ==
    /\ clock < MaxTime
    /\ clock' = clock + 1
    /\ passed' = Recent(passed, clock')
    /\ refused' = NoRefusal
    /\ UNCHANGED <<hits, swept>>

\* Mutant: prune_stale drops nothing.
SweptNever(dict, t) == dict

\* prune_stale at time t: the entries that have hits, all of them expired, go.
Swept(dict, t) ==
    [k \in {j \in DOMAIN dict : dict[j] = <<>> \/ Fresh(dict[j], t) # <<>>} |-> dict[k]]

\* Mutant: a refused request is counted as well.
CountsRefused(dict, k, window, t, allowed) ==
    IF k \in DOMAIN dict THEN [dict EXCEPT ![k] = Append(window, t)] ELSE dict

\* The dict once an allowed request is appended to the list of its address.  A
\* list that a sweep has dropped from the dict is appended to all the same,
\* and lost.
Counted(dict, k, window, t, allowed) ==
    IF allowed /\ k \in DOMAIN dict THEN [dict EXCEPT ![k] = Append(window, t)] ELSE dict

\* Mutant: the time of the next sweep is kept instead of that of the last.
NextSweep(t, since, due) == IF due THEN t + Window ELSE since

LastSweep(t, since, due) == IF due THEN t ELSE since

\* Mutant: off by one.
AllowsOneMore(l, window) == Len(window) <= Rpm[l]

Allows(l, window) == Len(window) < Rpm[l]

\* allow(): the first clock reading, t, fixes the window of the address; its
\* list is stored before the sweep, which may take a pause, and appended to
\* after it.
Allow(l, k, t, pause) ==
    LET window  == Fresh(IF k \in DOMAIN hits[l] THEN hits[l][k] ELSE <<>>, t)
        stored  == [j \in DOMAIN hits[l] \cup {k} |-> IF j = k THEN window ELSE hits[l][j]]
        since   == IF swept[l] = Never THEN t ELSE swept[l]
        due     == Cardinality(DOMAIN stored) > MaxKeys \/ t - since >= Window
        kept    == IF due THEN Swept(stored, t + pause) ELSE stored
        allowed == Allows(l, window)
    IN  [allowed |-> allowed,
         hits    |-> Counted(kept, k, window, t, allowed),
         swept   |-> LastSweep(t, since, due)]

\* Rpm 0 disables a limiter.
Enabled(l) == Rpm[l] > 0

\* The middleware: the global limiter first, then the one of the route.  A hit
\* on the global one stays when the route refuses.  Each may take its time.
Dispatch(k, route) ==
    \E p, q \in 0..MaxPause :
        LET limits == {l \in {"global", route} \cap Limiters : Enabled(l)}
            at     == [l \in limits |-> IF l = "global" THEN clock ELSE clock + p]
            asked  == [l \in limits |-> Allow(l, k, at[l], IF l = "global" THEN p ELSE q)]
            stops  == "global" \in limits /\ ~asked["global"].allowed
            used   == IF stops THEN {"global"} ELSE limits
            refusers == {l \in used : ~asked[l].allowed}
            end    == clock + p + q
        IN  /\ end <= MaxTime
            /\ clock' = end
            /\ hits' = [l \in Limiters |-> IF l \in used THEN asked[l].hits ELSE hits[l]]
            /\ swept' = [l \in Limiters |-> IF l \in used THEN asked[l].swept ELSE swept[l]]
            /\ passed' = Recent([l \in Limiters |->
                            IF l \in used \ refusers
                              THEN [passed[l] EXCEPT ![k] = Append(@, at[l])]
                              ELSE passed[l]], end)
            /\ refused' = IF refusers = {} THEN NoRefusal ELSE
                           LET l == CHOOSE l \in refusers : TRUE IN <<l, k, at[l]>>

\* "other" stands for the routes without a limiter of their own.
Routes == (Limiters \ {"global"}) \cup {"other"}

Next == Tick \/ \E k \in Addresses, route \in Routes : Dispatch(k, route)

Spec == Init /\ [][Next]_vars

-----------------------------------------------------------------------------
(* Properties.                                                             *)

\* The shape of the state: hits are in order and never later than the clock.
TypeOK ==
    /\ clock \in 0..MaxTime
    /\ \A l \in Limiters :
        /\ DOMAIN hits[l] \subseteq Addresses
        /\ \A k \in DOMAIN hits[l] :
            /\ hits[l][k] \in Seq(0..clock)
            /\ \A i, j \in DOMAIN hits[l][k] : i < j => hits[l][k][i] <= hits[l][k][j]
    /\ swept \in [Limiters -> (0..clock) \cup {Never}]
    /\ refused \in (Limiters \X Addresses \X (0..clock)) \cup {NoRefusal}

\* How many of some hits are in the window that ends at time t: those after its
\* start less those after its end.
Within(times, t) == Len(Fresh(times, t)) - Len(Fresh(times, t + Window))

\* allow(): a 429 is deserved.  The limiter let rpm requests of the address
\* through in the window that ends with the refused one, refused ones not
\* counted, whatever was swept in between.
NoFalseRefusal ==
    refused # NoRefusal =>
        LET l == refused[1] IN Within(passed[l][refused[2]], refused[3]) >= Rpm[l]

\* The dict does not leak: every address in it made a request in the window
\* before the last sweep or since, and none is there without a hit.
NoGarbage ==
    \A l \in Limiters : \A k \in DOMAIN hits[l] :
        /\ hits[l][k] # <<>>
        /\ hits[l][k][Len(hits[l][k])] > swept[l] - Window

\* The limit: no window lets more than rpm requests of an address through, but
\* for one.  prune_stale reads the clock after allow() did: a hit that expires
\* in between can take with it the list that allow() is about to append to.
AtMostOneOver ==
    \A l \in Limiters, k \in Addresses : \A i \in DOMAIN passed[l][k] :
        Enabled(l) => Within(passed[l][k], passed[l][k][i]) <= Rpm[l] + 1
=============================================================================
