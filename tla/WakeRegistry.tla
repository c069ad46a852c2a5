----------------------------- MODULE WakeRegistry -----------------------------
(***************************************************************************)
(* The registry of wake-up webhooks.  The operator builds the file from    *)
(* the webhook settings of the agents' profiles (cli.py, wake-registry     *)
(* init), truncating and rewriting it in place; every bridge keeps what it *)
(* loaded from the file with the modification time it saw, and compares    *)
(* that time at each send (server.py, _load_waker_if_stale; wake.py).      *)
(*                                                                         *)
(* Modification times come from a clock with ticks, so that two changes of *)
(* the file may or may not get different ones.                             *)
(***************************************************************************)
EXTENDS Naturals, SequencesExt

CONSTANTS
    Order,          \* the agents, in the order of their profile directories
    Profiles,       \* webhook settings a profile may have
    Sessions,       \* bridge processes
    AllowInternal,  \* A2A_ALLOW_INTERNAL_WEBHOOKS
    MaxEdits,       \* bound: changes of a profile
    MaxRuns         \* bound: runs of wake-registry init

Agents == Range(Order)

\* The settings of a profile: whether the webhook is enabled, the secret of the
\* platform and that of the wake route ("" for none), the host it listens on.
ASSUME RegistryAssumption ==
    /\ Order \in Seq(Agents)
    /\ Profiles \subseteq
        [enabled : BOOLEAN, secret : STRING, route : STRING, host : {"loopback", "any", "public"}]
    /\ AllowInternal \in BOOLEAN
    /\ {MaxEdits, MaxRuns} \subseteq Nat

VARIABLES
    profiles,  \* the settings of each agent's profile
    edits,     \* how often one was changed
    runs,      \* how often init was run
    writing,   \* what init is about to write, or Nothing
    file,      \* contents of the registry file: Absent, Torn or a registry
    mtime,     \* when the file was last changed
    same,      \* history: its contents since mtime began
    stage,     \* where each session is in _load_waker_if_stale
    noted,     \* the modification time it has read, or Missing
    cache,     \* _waker_cache: a waker and a modification time, or Empty
    used,      \* the waker of its last send
    may        \* history: the contents that send may have been based on

vars == <<profiles, edits, runs, writing, file, mtime, same, stage, noted, cache, used, may>>
operator == <<profiles, edits, runs, writing, file, mtime, same>>
process == <<stage, noted, cache, used>>

(***************************************************************************)
(* From profiles to a registry, and from a registry to a waker.            *)
(***************************************************************************)
Registry(secret, urls) == [secret |-> secret, urls |-> urls]

Nothing == Registry("nothing", {})
Absent == Registry("absent", {})
Torn == Registry("torn", {})
Telegram == Registry("telegram", {})

\* _profile_webhook_config: the secret of the wake route overrides.
SecretOf(p) == IF p.route # "" THEN p.route ELSE p.secret

Usable(p) == p.enabled /\ SecretOf(p) # ""

\* Mutant: the address is taken as it is.
HostOf(p) == p.host

\* _build_webhook_url: the address to bind to is not one to connect to.
UrlOf(p) == IF p.host = "any" THEN "loopback" ELSE p.host

\* Mutant: an agent with another secret is kept.
IntegratesAll(registry, agent, profile) ==
    IF ~ Usable(profile) THEN registry
    ELSE Registry(IF registry.secret = "" THEN SecretOf(profile) ELSE registry.secret,
                  registry.urls \union {<<agent, UrlOf(profile)>>})

\* One profile: the first usable one fixes the shared secret, and those that
\* disagree with it are skipped.
Integrate(registry, agent, profile) ==
    IF ~ Usable(profile) \/ registry.secret \notin {"", SecretOf(profile)} THEN registry
    ELSE Registry(SecretOf(profile), registry.urls \union {<<agent, UrlOf(profile)>>})

\* What wake-registry init writes, one profile after the other.
Built(settings) ==
    LET after[n \in 0..Len(Order)] ==
            IF n = 0 THEN Registry("", {})
            ELSE Integrate(after[n - 1], Order[n], settings[Order[n]])
    IN  after[Len(Order)]

\* _is_safe_url, of the addresses a profile can lead to.
Safe(url) == AllowInternal \/ url # "loopback"

NoWaker == Registry("none", {})

\* load_registry and _load_waker: no file, a file cut short or of the times of
\* Telegram, no secret or one refused address all mean that nobody is woken.
Loaded(contents) ==
    IF contents \in {Absent, Torn, Telegram} \/ contents.secret = ""
        \/ \E pair \in contents.urls : ~ Safe(pair[2])
    THEN NoWaker ELSE contents

Named(registry) == {pair[1] : pair \in registry.urls}

\* No modification time: each run changes the file twice.
Missing == 2 * MaxRuns + 1

Cached(waker, time) == [waker |-> waker, mtime |-> time]
Empty == Cached(NoWaker, Missing)

Init ==
    /\ profiles \in [Agents -> Profiles]
    /\ edits = 0 /\ runs = 0
    /\ writing = Nothing
    /\ file \in {Absent, Telegram}
    /\ mtime = 0
    /\ same = {file}
    /\ stage = [s \in Sessions |-> "idle"]
    /\ noted = [s \in Sessions |-> Missing]
    /\ cache = [s \in Sessions |-> Empty]
    /\ used = [s \in Sessions |-> NoWaker]
    /\ may = [s \in Sessions |-> {Absent}]

(***************************************************************************)
(* The operator.                                                           *)
(***************************************************************************)
EditProfile ==
    /\ edits < MaxEdits /\ edits' = edits + 1
    /\ \E a \in Agents, p \in Profiles : profiles' = [profiles EXCEPT ![a] = p]
    /\ UNCHANGED <<runs, writing, file, mtime, same, process, may>>

\* The file changes, in this tick of the clock or in a later one.
Change(contents) ==
    /\ file' = contents
    /\ \/ mtime' = mtime /\ same' = same \union {contents}
       \/ mtime' = mtime + 1 /\ same' = {contents}
    /\ may' = [s \in Sessions |-> IF stage[s] = "idle" THEN may[s] ELSE may[s] \union same']

\* wake-registry init reads the profiles, and opens the file for writing,
Truncate ==
    /\ writing = Nothing
    /\ runs < MaxRuns /\ runs' = runs + 1
    /\ writing' = Built(profiles)
    /\ Change(Torn)
    /\ UNCHANGED <<profiles, edits, process>>

\* writes it,
WriteRegistry ==
    /\ writing # Nothing
    /\ Change(writing)
    /\ writing' = Nothing
    /\ UNCHANGED <<profiles, edits, runs, process>>

\* or is interrupted in between.
Interrupt ==
    /\ writing # Nothing /\ writing' = Nothing
    /\ UNCHANGED <<profiles, edits, runs, file, mtime, same, process, may>>

RemoveFile ==
    /\ writing = Nothing /\ file # Absent
    /\ file' = Absent
    /\ may' = [s \in Sessions |-> IF stage[s] = "idle" THEN may[s] ELSE may[s] \union {Absent}]
    /\ UNCHANGED <<profiles, edits, runs, writing, mtime, same, process>>

(***************************************************************************)
(* A bridge: _load_waker_if_stale, at its start and at every send.         *)
(***************************************************************************)
\* Mutant: what is cached is never reloaded.
AnyTime(s) == cache[s] # Empty

\* Mutant: a bridge that has found no registry does not look again.
KeepsNone(s) == cache[s] # Empty /\ (cache[s].mtime = mtime \/ cache[s].waker = NoWaker)

Fresh(s) == cache[s] # Empty /\ cache[s].mtime = mtime

\* stat finds the time that is cached.
Hit(s) ==
    /\ stage[s] = "idle"
    /\ file # Absent /\ Fresh(s)
    /\ used' = [used EXCEPT ![s] = cache[s].waker]
    /\ may' = [may EXCEPT ![s] = same]
    /\ UNCHANGED <<operator, stage, noted, cache>>

\* stat finds another time, or no file, which clears the cache.
Stat(s) ==
    /\ stage[s] = "idle"
    /\ file = Absent \/ ~ Fresh(s)
    /\ stage' = [stage EXCEPT ![s] = "is_file"]
    /\ noted' = [noted EXCEPT ![s] = IF file = Absent THEN Missing ELSE mtime]
    /\ cache' = [cache EXCEPT ![s] = IF file = Absent THEN Empty ELSE @]
    /\ may' = [may EXCEPT ![s] = IF file = Absent THEN {Absent} ELSE same]
    /\ UNCHANGED <<operator, used>>

\* _load_waker has returned: the send goes on with this waker, which is kept
\* with the time of the stat that came before it.
Finish(s, waker) ==
    /\ stage' = [stage EXCEPT ![s] = "idle"]
    /\ noted' = [noted EXCEPT ![s] = Missing]
    /\ cache' = [cache EXCEPT ![s] = IF noted[s] = Missing THEN @ ELSE Cached(waker, noted[s])]
    /\ used' = [used EXCEPT ![s] = waker]
    /\ UNCHANGED <<operator, may>>

IsFile(s) ==
    /\ stage[s] = "is_file"
    /\ IF file = Absent
       THEN Finish(s, NoWaker)
       ELSE /\ stage' = [stage EXCEPT ![s] = "read"]
            /\ UNCHANGED <<operator, noted, cache, used, may>>

ReadText(s) == stage[s] = "read" /\ file # Absent /\ Finish(s, Loaded(file))

\* The file went since is_file: FileNotFoundError, which only ValueError being
\* caught ends the tool call before anything is sent, or the start.
Raise(s) ==
    /\ stage[s] = "read" /\ file = Absent
    /\ stage' = [stage EXCEPT ![s] = "idle"]
    /\ noted' = [noted EXCEPT ![s] = Missing]
    /\ used' = [used EXCEPT ![s] = NoWaker]
    /\ UNCHANGED <<operator, cache, may>>

\* The process is killed and started again.  A call it was in has left no trace
\* by then, so it need not have begun.
Restart(s) ==
    /\ stage[s] = "idle" /\ cache[s] # Empty
    /\ cache' = [cache EXCEPT ![s] = Empty]
    /\ UNCHANGED <<operator, stage, noted, used, may>>

Call(s) == Hit(s) \/ Stat(s) \/ IsFile(s) \/ ReadText(s) \/ Raise(s)

Next ==
    \/ EditProfile \/ Truncate \/ WriteRegistry \/ Interrupt \/ RemoveFile
    \/ \E s \in Sessions : Call(s) \/ Restart(s)

Spec == Init /\ [][Next]_vars

\* Sends follow one another, and none stops halfway.  Nothing is assumed of the
\* operator, who may leave a file half written, nor of restarts, which leave
\* the next send to come.
FairSpec == Spec /\ \A s \in Sessions : WF_vars(Call(s))

(***************************************************************************)
(* Properties.                                                             *)
(***************************************************************************)
Secrets == {""} \union {p.secret : p \in Profiles} \union {p.route : p \in Profiles}
Registries ==
    {Nothing, Absent, Torn, Telegram, NoWaker}
        \union [secret : Secrets, urls : SUBSET (Agents \X {"loopback", "public"})]

\* Types; only what load_registry accepts is ever kept or used.
TypeOK ==
    /\ profiles \in [Agents -> Profiles]
    /\ edits \in 0..MaxEdits /\ runs \in 0..MaxRuns
    /\ {writing, file} \subseteq Registries /\ same \subseteq Registries
    /\ mtime \in 0..(2 * MaxRuns)
    /\ stage \in [Sessions -> {"idle", "is_file", "read"}]
    /\ noted \in [Sessions -> 0..Missing]
    /\ \A s \in Sessions :
        /\ {used[s], cache[s].waker} \subseteq {Loaded(r) : r \in Registries}
        /\ cache[s].mtime \in 0..Missing
        /\ may[s] \subseteq Registries

\* init leaves in the registry exactly the agents whose gateways verify the
\* secret the webhooks will be signed with, the secret of the wake route where
\* a profile has two.
SecretsAgree ==
    LET registry == Built(profiles)
    IN  Named(registry) =
            {a \in Agents : Usable(profiles[a]) /\ SecretOf(profiles[a]) = registry.secret}

\* However the operator rewrites, breaks or removes the file between the steps
\* of a send, the send uses what the file said during the call, or what it said
\* earlier within the same tick of the clock, and never anything older.
BoundedStaleness ==
    \A s \in Sessions :
        stage[s] = "idle" => used[s] \in {Loaded(contents) : contents \in may[s]}

\* What a session keeps has the time of the file and not its contents: the file
\* was changed again in the tick in which the session read it.
Raced(s) == file # Absent /\ cache[s].mtime = mtime /\ cache[s].waker # Loaded(file)

\* Long-running bridges pick up changes without a restart (the docstring of
\* _load_waker_if_stale): once the operator is done, the sends of a session use
\* the registry there is, unless the session read the file between two changes
\* in one tick.
EventuallyCurrent ==
    \A s \in Sessions : <>[] ~ Raced(s) => <>[](used[s] = Loaded(file))
=============================================================================
