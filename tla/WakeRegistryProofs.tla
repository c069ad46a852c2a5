-------------------------- MODULE WakeRegistryProofs --------------------------
(***************************************************************************)
(* What TLAPS proves of WakeRegistry, for any agents, profiles, sessions   *)
(* and bounds: a send is never based on an older registry than one tick of *)
(* the clock explains, whatever Built and Loaded make of profiles and      *)
(* files; the registry that init writes has the agents of one secret, by   *)
(* an induction over the profiles; and the types.                          *)
(***************************************************************************)
EXTENDS WakeRegistry, DataLemmas

\* Each run of init changes the file twice, the second time when it has something
\* to write: no modification time is ever that of a file that is missing.
ClockInv ==
    /\ mtime \in Nat /\ runs \in 0..MaxRuns
    /\ mtime <= 2 * runs
    /\ writing # Nothing => mtime < 2 * runs

\* The file holds one of the contents noted for its time; while init is writing, it
\* is there.
FileInv ==
    /\ file = Absent \/ file \in same
    /\ writing # Nothing => file # Absent

\* The wakers of some contents.
Wakers(contents) == {Loaded(c) : c \in contents}

\* No time that a session keeps lies ahead; a waker kept with the time of the
\* file was loaded since that time began, or says that the file was found missing.
CacheInv ==
    \A s \in Sessions :
        /\ noted[s] \in 0..mtime \union {Missing}
        /\ cache[s].mtime \in 0..mtime \union {Missing}
        /\ cache[s].mtime = mtime =>
              \/ cache[s].waker \in Wakers(same)
              \/ cache[s].waker = NoWaker /\ file = Absent

\* Halfway through a send, what the file says counts for that send; afterwards,
\* the send was based on something that does.
SendInv ==
    \A s \in Sessions :
        IF stage[s] = "idle" THEN used[s] \in Wakers(may[s]) ELSE file \in may[s]

Shape ==
    /\ stage \in [Sessions -> {"idle", "is_file", "read"}]
    /\ DOMAIN noted = Sessions /\ noted = [s \in Sessions |-> noted[s]]
    /\ DOMAIN cache = Sessions /\ cache = [s \in Sessions |-> cache[s]]
    /\ DOMAIN used = Sessions /\ used = [s \in Sessions |-> used[s]]
    /\ DOMAIN may = Sessions /\ may = [s \in Sessions |-> may[s]]

StalenessInv == Shape /\ ClockInv /\ FileInv /\ CacheInv /\ SendInv

\* A bridge wakes nobody without a registry, nor with one cut short.
LEMMA NothingLoaded == Loaded(Absent) = NoWaker /\ Loaded(Torn) = NoWaker /\ Torn # Absent
BY DEF Loaded, Torn, Absent, Registry

\* The time of a missing file is no time that so many runs can give the file.
LEMMA MissingIsLater ==
    ASSUME NEW time \in Nat, NEW count \in 0..MaxRuns, time <= 2 * count
    PROVE  Missing \in Nat /\ time < Missing
<1>1. MaxRuns \in Nat
  BY RegistryAssumption
<1> QED
  BY <1>1 DEF Missing

\* The fields of a cache entry.
LEMMA CachedFields ==
    ASSUME NEW waker, NEW time
    PROVE  Cached(waker, time).waker = waker /\ Cached(waker, time).mtime = time
BY DEF Cached

\* A change of the file begins a new time or adds to what this one covers; a
\* missing file comes back empty.
LEMMA ChangeKeeps ==
    ASSUME StalenessInv, NEW contents, Change(contents), UNCHANGED process, ClockInv',
           file = Absent => contents = Torn, writing' # Nothing => contents # Absent
    PROVE  StalenessInv'
<1>1. /\ file' = contents /\ contents \in same'
      /\ \/ mtime' = mtime /\ same \subseteq same'
         \/ mtime' = mtime + 1
      /\ may' = [s \in Sessions |-> IF stage[s] = "idle" THEN may[s] ELSE may[s] \union same']
      /\ stage' = stage /\ noted' = noted /\ cache' = cache /\ used' = used
  BY DEF Change, process
<1>2. Shape'
  BY <1>1 DEF StalenessInv, Shape
<1>3. FileInv'
  BY <1>1 DEF FileInv
<1>4. CacheInv'
  <2>1. mtime \in Nat /\ mtime' \in Nat /\ Missing \in Nat /\ mtime < Missing
    BY MissingIsLater DEF StalenessInv, ClockInv
  <2>2. mtime' < Missing
    <3>1. mtime' \in Nat /\ runs' \in 0..MaxRuns /\ mtime' <= 2 * runs'
      BY DEF ClockInv
    <3> QED
      BY <3>1, MissingIsLater
  <2>3. SUFFICES ASSUME NEW s \in Sessions
                 PROVE  /\ noted[s] \in 0..mtime' \union {Missing}
                        /\ cache[s].mtime \in 0..mtime' \union {Missing}
                        /\ cache[s].mtime = mtime' =>
                              \/ cache[s].waker \in Wakers(same')
                              \/ cache[s].waker = NoWaker /\ file' = Absent
    BY <1>1 DEF CacheInv, Wakers
  <2>4. /\ noted[s] \in 0..mtime \union {Missing}
        /\ cache[s].mtime \in 0..mtime \union {Missing}
        /\ cache[s].mtime = mtime =>
              \/ cache[s].waker \in Wakers(same)
              \/ cache[s].waker = NoWaker /\ file = Absent
    BY DEF StalenessInv, CacheInv
  <2>5. noted[s] \in 0..mtime' \union {Missing} /\ cache[s].mtime \in 0..mtime' \union {Missing}
    BY <1>1, <2>1, <2>4
  <2>6. cache[s].mtime = mtime' => mtime' = mtime
    BY <1>1, <2>1, <2>2, <2>4
  <2>7. ASSUME cache[s].mtime = mtime'
        PROVE  cache[s].waker \in Wakers(same')
    <3>1. mtime' = mtime /\ same \subseteq same'
      BY <1>1, <2>1, <2>6, <2>7
    <3>2. CASE cache[s].waker \in Wakers(same)
      BY <3>1, <3>2 DEF Wakers
    <3>3. CASE cache[s].waker = NoWaker /\ file = Absent
      BY <1>1, <3>3, NothingLoaded DEF Wakers
    <3> QED
      BY <2>4, <2>7, <3>1, <3>2, <3>3
  <2> QED
    BY <2>5, <2>7
<1>5. SendInv'
  BY <1>1 DEF StalenessInv, SendInv, Wakers
<1> QED
  BY <1>2, <1>3, <1>4, <1>5 DEF StalenessInv

\* The operator may do what he likes.
LEMMA OperatorKeeps ==
    ASSUME StalenessInv,
           EditProfile \/ Truncate \/ WriteRegistry \/ Interrupt \/ RemoveFile
    PROVE  StalenessInv'
<1>1. CASE EditProfile \/ Interrupt
  BY <1>1 DEF EditProfile, Interrupt, process, StalenessInv, Shape, ClockInv, FileInv,
     CacheInv, SendInv, Wakers
<1>2. CASE Truncate
  <2>1. ClockInv'
    BY <1>2, RegistryAssumption DEF Truncate, Change, StalenessInv, ClockInv
  <2> QED
    BY <1>2, <2>1, ChangeKeeps, NothingLoaded DEF Truncate
<1>3. CASE WriteRegistry
  <2>1. ClockInv'
    BY <1>3, RegistryAssumption DEF WriteRegistry, Change, StalenessInv, ClockInv
  <2> QED
    BY <1>3, <2>1, ChangeKeeps DEF WriteRegistry, StalenessInv, FileInv
<1>4. CASE RemoveFile
  BY <1>4 DEF RemoveFile, process, StalenessInv, Shape, ClockInv, FileInv, CacheInv, SendInv,
     Wakers
<1> QED
  BY <1>1, <1>2, <1>3, <1>4

\* What a session does leaves the file alone: it may be shown of that session only.
LEMMA SessionKeeps ==
    ASSUME StalenessInv, NEW s \in Sessions, UNCHANGED operator, Shape',
           \A t \in Sessions \ {s} :
               /\ stage'[t] = stage[t] /\ noted'[t] = noted[t] /\ cache'[t] = cache[t]
               /\ used'[t] = used[t] /\ may'[t] = may[t],
           noted'[s] \in 0..mtime \union {Missing},
           cache'[s].mtime \in 0..mtime \union {Missing},
           cache'[s].mtime = mtime =>
               \/ cache'[s].waker \in Wakers(same)
               \/ cache'[s].waker = NoWaker /\ file = Absent,
           IF stage'[s] = "idle" THEN used'[s] \in Wakers(may'[s]) ELSE file \in may'[s]
    PROVE  StalenessInv'
<1>1. ClockInv' /\ FileInv'
  BY DEF operator, StalenessInv, ClockInv, FileInv
<1>2. CacheInv'
  BY DEF operator, StalenessInv, CacheInv, Wakers
<1>3. SendInv'
  BY DEF operator, StalenessInv, SendInv, Wakers
<1> QED
  BY <1>1, <1>2, <1>3 DEF StalenessInv

\* A send that has loaded the file as it is goes on with that waker, which is
\* kept for later ones with the time the file had before.
LEMMA FinishKeeps ==
    ASSUME StalenessInv, NEW s \in Sessions, NEW waker, Finish(s, waker),
           stage[s] # "idle", waker = Loaded(file)
    PROVE  StalenessInv'
<1>1. /\ UNCHANGED operator /\ may' = may /\ Shape'
      /\ \A t \in Sessions \ {s} :
            /\ stage'[t] = stage[t] /\ noted'[t] = noted[t] /\ cache'[t] = cache[t]
            /\ used'[t] = used[t]
      /\ stage'[s] = "idle" /\ noted'[s] = Missing /\ used'[s] = waker
      /\ cache'[s] = IF noted[s] = Missing THEN cache[s] ELSE Cached(waker, noted[s])
  BY DEF Finish, StalenessInv, Shape
<1>2. /\ noted[s] \in 0..mtime \union {Missing}
      /\ cache[s].mtime \in 0..mtime \union {Missing}
      /\ cache[s].mtime = mtime =>
            \/ cache[s].waker \in Wakers(same)
            \/ cache[s].waker = NoWaker /\ file = Absent
  BY DEF StalenessInv, CacheInv
<1>3. cache'[s].mtime \in 0..mtime \union {Missing}
  BY <1>1, <1>2, CachedFields
<1>4. waker \in Wakers(same) \/ (waker = NoWaker /\ file = Absent)
  BY NothingLoaded DEF StalenessInv, FileInv, Wakers
<1>5. cache'[s].mtime = mtime =>
          \/ cache'[s].waker \in Wakers(same)
          \/ cache'[s].waker = NoWaker /\ file = Absent
  BY <1>1, <1>2, <1>4, CachedFields
<1>6. used'[s] \in Wakers(may'[s])
  BY <1>1 DEF StalenessInv, SendInv, Wakers
<1> QED
  BY <1>1, <1>3, <1>5, <1>6, SessionKeeps

\* Every step of a send, and a restart.
LEMMA CallKeeps ==
    ASSUME StalenessInv, NEW s \in Sessions, Call(s) \/ Restart(s)
    PROVE  StalenessInv'
<1>0. /\ noted[s] \in 0..mtime \union {Missing}
      /\ cache[s].mtime \in 0..mtime \union {Missing}
      /\ cache[s].mtime = mtime =>
            \/ cache[s].waker \in Wakers(same)
            \/ cache[s].waker = NoWaker /\ file = Absent
      /\ IF stage[s] = "idle" THEN used[s] \in Wakers(may[s]) ELSE file \in may[s]
      /\ file = Absent \/ file \in same
  BY DEF StalenessInv, CacheInv, SendInv, FileInv
<1>1. Empty.mtime = Missing /\ mtime \in Nat /\ mtime < Missing
  BY CachedFields, MissingIsLater DEF Empty, StalenessInv, ClockInv
<1>2. CASE Hit(s)
  <2>1. /\ UNCHANGED operator /\ UNCHANGED <<stage, noted, cache>> /\ Shape'
        /\ \A t \in Sessions \ {s} : used'[t] = used[t] /\ may'[t] = may[t]
        /\ stage[s] = "idle" /\ file # Absent /\ cache[s].mtime = mtime
        /\ used'[s] = cache[s].waker /\ may'[s] = same
    BY <1>2 DEF Hit, Fresh, StalenessInv, Shape
  <2> QED
    BY <1>0, <2>1, SessionKeeps
<1>3. CASE Stat(s)
  <2>1. /\ UNCHANGED operator /\ used' = used /\ Shape'
        /\ \A t \in Sessions \ {s} :
              /\ stage'[t] = stage[t] /\ noted'[t] = noted[t] /\ cache'[t] = cache[t]
              /\ may'[t] = may[t]
        /\ stage'[s] = "is_file"
        /\ noted'[s] = IF file = Absent THEN Missing ELSE mtime
        /\ cache'[s] = IF file = Absent THEN Empty ELSE cache[s]
        /\ may'[s] = IF file = Absent THEN {Absent} ELSE same
    BY <1>3 DEF Stat, StalenessInv, Shape
  <2>2. noted'[s] \in 0..mtime \union {Missing} /\ cache'[s].mtime \in 0..mtime \union {Missing}
    BY <1>0, <1>1, <2>1
  <2>3. cache'[s].mtime = mtime =>
            \/ cache'[s].waker \in Wakers(same)
            \/ cache'[s].waker = NoWaker /\ file = Absent
    BY <1>0, <1>1, <2>1
  <2> QED
    BY <1>0, <2>1, <2>2, <2>3, SessionKeeps
<1>4. CASE IsFile(s)
  <2>1. CASE file = Absent
    BY <1>4, <2>1, FinishKeeps, NothingLoaded DEF IsFile
  <2>2. CASE file # Absent
    <3>1. /\ UNCHANGED operator /\ UNCHANGED <<noted, cache, used, may>> /\ Shape'
          /\ \A t \in Sessions \ {s} : stage'[t] = stage[t]
          /\ stage[s] # "idle" /\ stage'[s] # "idle"
      BY <1>4, <2>2 DEF IsFile, StalenessInv, Shape
    <3> QED
      BY <1>0, <3>1, SessionKeeps
  <2> QED
    BY <2>1, <2>2
<1>5. CASE ReadText(s)
  BY <1>5, FinishKeeps DEF ReadText
<1>6. CASE Raise(s)
  <2>1. /\ UNCHANGED operator /\ UNCHANGED <<cache, may>> /\ Shape'
        /\ \A t \in Sessions \ {s} :
              stage'[t] = stage[t] /\ noted'[t] = noted[t] /\ used'[t] = used[t]
        /\ file = Absent /\ stage[s] # "idle"
        /\ stage'[s] = "idle" /\ noted'[s] = Missing /\ used'[s] = NoWaker
    BY <1>6 DEF Raise, StalenessInv, Shape
  <2>2. used'[s] \in Wakers(may'[s])
    BY <1>0, <2>1, NothingLoaded DEF Wakers
  <2> QED
    BY <1>0, <2>1, <2>2, SessionKeeps
<1>7. CASE Restart(s)
  <2>1. /\ UNCHANGED operator /\ UNCHANGED <<stage, noted, used, may>> /\ Shape'
        /\ \A t \in Sessions \ {s} : cache'[t] = cache[t]
        /\ cache'[s] = Empty
    BY <1>7 DEF Restart, StalenessInv, Shape
  <2> QED
    BY <1>0, <1>1, <2>1, SessionKeeps
<1> QED
  BY <1>2, <1>3, <1>4, <1>5, <1>6, <1>7 DEF Call

\* A bridge starts with nothing kept and nothing sent.
LEMMA StalenessInit == Init => StalenessInv
<1> SUFFICES ASSUME Init PROVE StalenessInv
  OBVIOUS
<1>1. Shape
  BY DEF Init, Shape
<1>2. ClockInv /\ FileInv
  BY RegistryAssumption DEF Init, ClockInv, FileInv
<1>3. Missing # 0
  BY RegistryAssumption DEF Missing
<1>4. CacheInv
  BY <1>3, CachedFields DEF Init, CacheInv, Empty
<1>5. SendInv
  BY NothingLoaded DEF Init, SendInv, Wakers
<1> QED
  BY <1>1, <1>2, <1>4, <1>5 DEF StalenessInv

\* Every step keeps what sends in progress and the cache hold.
LEMMA StalenessStep ==
    ASSUME StalenessInv, [Next]_vars
    PROVE  StalenessInv'
<1>1. CASE Next
  BY <1>1, OperatorKeeps, CallKeeps DEF Next
<1>2. CASE UNCHANGED vars
  BY <1>2 DEF vars, StalenessInv, Shape, ClockInv, FileInv, CacheInv, SendInv, Wakers
<1> QED
  BY <1>1, <1>2

\* However the operator rewrites, breaks or removes the file between the steps of
\* a send, the send uses what the file said during the call, or what it said
\* earlier within the same tick of the clock (_load_waker_if_stale).
THEOREM StalenessIsBounded == Spec => []BoundedStaleness
<1>1. StalenessInv /\ [Next]_vars => StalenessInv'
  BY StalenessStep
<1>2. StalenessInv => BoundedStaleness
  BY DEF StalenessInv, SendInv, BoundedStaleness, Wakers
<1> QED
  BY StalenessInit, <1>1, <1>2, PTL DEF Spec

-----------------------------------------------------------------------------
(* What wake-registry init writes.                                         *)

Start == Registry("", {})

\* One profile more.
Next1(settings, registry, n) == Integrate(registry, Order[n], settings[Order[n]])

\* The registries after each of the first m profiles.
Stages(settings, m, f) ==
    f = [n \in 0..m |-> IF n = 0 THEN Start ELSE Next1(settings, f[n - 1], n)]

\* The registries after each profile exist: the least m without them does not.
LEMMA StagesExist ==
    ASSUME NEW settings, NEW last \in Nat
    PROVE  \E f : Stages(settings, last, f)
<1> DEFINE bad == {m \in 0..last : ~ \E f : Stages(settings, m, f)}
<1> SUFFICES ASSUME bad # {}
             PROVE  FALSE
  OBVIOUS
<1>1. PICK m \in bad : \A k \in bad : m <= k
  <2>1. bad \in SUBSET Nat
    OBVIOUS
  <2> HIDE DEF bad
  <2> QED
    BY <2>1, LeastNatural
<1>2. m # 0
  <2>1. PICK f : f = [n \in 0..0 |-> Start]
    OBVIOUS
  <2>2. Stages(settings, 0, f)
    <3>1. \A n \in 0..0 : n = 0
      OBVIOUS
    <3>2. [n \in 0..0 |-> IF n = 0 THEN Start ELSE Next1(settings, f[n - 1], n)] = [n \in 0..0 |-> Start]
      BY <3>1
    <3> QED
      BY <2>1, <3>2 DEF Stages
  <2> QED
    BY <2>2
<1>3. m - 1 \in 0..last /\ m \in 1..last /\ m - 1 \notin bad
  BY <1>1, <1>2
<1>4. PICK f : Stages(settings, m - 1, f)
  BY <1>3
<1>5. PICK g : g = [n \in 0..m |-> IF n = m THEN Next1(settings, f[m - 1], m) ELSE f[n]]
  OBVIOUS
<1>6. \A n \in 0..m : g[n] = IF n = 0 THEN Start ELSE Next1(settings, g[n - 1], n)
  <2> SUFFICES ASSUME NEW n \in 0..m
               PROVE  g[n] = IF n = 0 THEN Start ELSE Next1(settings, g[n - 1], n)
    OBVIOUS
  <2>1. CASE n = m
    BY <1>3, <1>5, <2>1
  <2>2. CASE n # m
    <3>1. n \in 0..(m - 1) /\ (n # 0 => n - 1 \in 0..(m - 1) /\ n - 1 # m /\ n - 1 \in 0..m)
      BY <1>3, <2>2
    <3>2. f[n] = IF n = 0 THEN Start ELSE Next1(settings, f[n - 1], n)
      BY <1>4, <3>1 DEF Stages
    <3> QED
      BY <1>5, <2>2, <3>1, <3>2
  <2> QED
    BY <2>1, <2>2
<1>7. Stages(settings, m, g)
  <2>1. DOMAIN g = 0..m /\ g = [n \in 0..m |-> g[n]]
    BY <1>5
  <2> QED
    BY <1>6, <2>1 DEF Stages
<1> QED
  BY <1>1, <1>7

\* Built is the last stage.
LEMMA BuiltIsLast ==
    ASSUME NEW settings
    PROVE  /\ Len(Order) \in Nat
           /\ \E f : Stages(settings, Len(Order), f) /\ Built(settings) = f[Len(Order)]
<1>1. Len(Order) \in Nat
  BY LenProperties, RegistryAssumption
<1>2. \E f : Stages(settings, Len(Order), f)
  BY <1>1, StagesExist
<1>3. Built(settings) = (CHOOSE f : Stages(settings, Len(Order), f))[Len(Order)]
  BY DEF Built, Stages, Start, Next1
<1> QED
  BY <1>1, <1>2, <1>3

\* The agents among the first n that sign with secret.
Signing(settings, secret, n) ==
    {Order[i] : i \in {j \in 1..n : /\ Usable(settings[Order[j]])
                                    /\ SecretOf(settings[Order[j]]) = secret}}

\* A registry of settings, built from the first n profiles.
Good(settings, registry, n) ==
    /\ registry \in [secret : Secrets, urls : SUBSET (Agents \X {"loopback", "public"})]
    /\ Named(registry) = Signing(settings, registry.secret, n)
    /\ registry.secret = "" => \A j \in 1..n : ~ Usable(settings[Order[j]])

\* The fields of a registry.
LEMMA RegistryFields ==
    ASSUME NEW secret, NEW urls, NEW S, NEW U
    PROVE  /\ Registry(secret, urls).secret = secret
           /\ Registry(secret, urls).urls = urls
           /\ secret \in S /\ urls \in U => Registry(secret, urls) \in [secret : S, urls : U]
BY DEF Registry

\* One more profile.
LEMMA IntegrateIsGood ==
    ASSUME NEW settings \in [Agents -> Profiles], NEW n \in Nat, n + 1 \in 1..Len(Order),
           NEW registry, Good(settings, registry, n)
    PROVE  Good(settings, Next1(settings, registry, n + 1), n + 1)
<1> DEFINE a == Order[n + 1]
           p == settings[a]
           new == Next1(settings, registry, n + 1)
<1>0. a \in Agents /\ p \in Profiles
  BY RegistryAssumption, ElementOfSeq
<1>1. /\ p \in [enabled : BOOLEAN, secret : STRING, route : STRING,
                host : {"loopback", "any", "public"}]
      /\ SecretOf(p) \in Secrets /\ UrlOf(p) \in {"loopback", "public"}
  <2>1. p \in [enabled : BOOLEAN, secret : STRING, route : STRING,
               host : {"loopback", "any", "public"}]
    BY <1>0, RegistryAssumption
  <2>2. p.secret \in Secrets /\ p.route \in Secrets
    BY <1>0 DEF Secrets
  <2> QED
    BY <2>1, <2>2 DEF SecretOf, UrlOf
<1>2. 1..(n + 1) = 1..n \cup {n + 1}
  OBVIOUS
<1>3. \A secret : Signing(settings, secret, n + 1) = Signing(settings, secret, n)
                     \cup (IF Usable(p) /\ SecretOf(p) = secret THEN {a} ELSE {})
  BY <1>2 DEF Signing
<1>4. \A secret : (\A j \in 1..n : ~ Usable(settings[Order[j]])) => Signing(settings, secret, n) = {}
  BY DEF Signing
<1>5. CASE ~ Usable(p) \/ registry.secret \notin {"", SecretOf(p)}
  <2>1. new = registry
    BY <1>5 DEF Next1, Integrate
  <2>2. ~ (Usable(p) /\ SecretOf(p) = registry.secret)
    BY <1>5
  <2>3. registry.secret = "" => ~ Usable(p)
    BY <1>5
  <2> HIDE DEF a, p, new
  <2>4. Signing(settings, registry.secret, n + 1) = Signing(settings, registry.secret, n)
    BY <1>3, <2>2
  <2>5. registry.secret = "" => \A j \in 1..(n + 1) : ~ Usable(settings[Order[j]])
    BY <1>2, <2>3 DEF Good, a, p
  <2> QED
    BY <2>1, <2>4, <2>5 DEF Good, new
<1>6. CASE Usable(p) /\ registry.secret \in {"", SecretOf(p)}
  <2>1. new = Registry(SecretOf(p), registry.urls \union {<<a, UrlOf(p)>>})
    BY <1>6 DEF Next1, Integrate
  <2>2. new \in [secret : Secrets, urls : SUBSET (Agents \X {"loopback", "public"})]
    <3>1. registry.urls \in SUBSET (Agents \X {"loopback", "public"})
      BY DEF Good
    <3>2. <<a, UrlOf(p)>> \in Agents \X {"loopback", "public"}
      BY <1>0, <1>1
    <3> HIDE DEF new, a, p
    <3>3. registry.urls \union {<<a, UrlOf(p)>>} \in SUBSET (Agents \X {"loopback", "public"})
      BY <3>1, <3>2
    <3>4. SecretOf(p) \in Secrets
      BY <1>1
    <3> DEFINE urls == registry.urls \union {<<a, UrlOf(p)>>}
               U == SUBSET (Agents \X {"loopback", "public"})
    <3>5. urls \in U /\ new = Registry(SecretOf(p), urls)
      BY <2>1, <3>3
    <3> HIDE DEF urls, U
    <3>6. Registry(SecretOf(p), urls) \in [secret : Secrets, urls : U]
      BY <3>4, <3>5, RegistryFields
    <3> QED
      BY <3>5, <3>6 DEF U
  <2>3. new.secret = SecretOf(p) /\ new.secret # ""
    <3> HIDE DEF new, a, p
    <3>1. SecretOf(p) # ""
      BY <1>6 DEF Usable
    <3> QED
      BY <2>1, <3>1, RegistryFields
  <2>4. Named(new) = Named(registry) \cup {a}
    <3>1. new.urls = registry.urls \union {<<a, UrlOf(p)>>}
      BY <2>1 DEF Registry
    <3>2. <<a, UrlOf(p)>>[1] = a
      OBVIOUS
    <3> HIDE DEF new, a, p
    <3> QED
      BY <3>1, <3>2 DEF Named
  <2>5. Named(registry) = Signing(settings, SecretOf(p), n)
    BY <1>4, <1>6 DEF Good
  <2>6. Signing(settings, SecretOf(p), n + 1) = Signing(settings, SecretOf(p), n) \cup {a}
    BY <1>3, <1>6
  <2> HIDE DEF new, a, p
  <2> QED
    BY <2>2, <2>3, <2>4, <2>5, <2>6 DEF Good, new
<1> QED
  BY <1>5, <1>6

\* By induction over the profiles.
LEMMA BuiltIsGood ==
    ASSUME NEW settings \in [Agents -> Profiles]
    PROVE  Good(settings, Built(settings), Len(Order))
<1>1. PICK f : Stages(settings, Len(Order), f) /\ Built(settings) = f[Len(Order)]
  BY BuiltIsLast
<1>2. Len(Order) \in Nat
  BY BuiltIsLast
<1> DEFINE bad == {n \in 0..Len(Order) : ~ Good(settings, f[n], n)}
<1> SUFFICES ASSUME bad # {}
             PROVE  FALSE
  BY <1>1, <1>2
<1>3. PICK n \in bad : \A k \in bad : n <= k
  <2>1. bad \in SUBSET Nat
    OBVIOUS
  <2> HIDE DEF bad
  <2> QED
    BY <2>1, LeastNatural
<1>4. Good(settings, Start, 0)
  <2>1. Start.secret = "" /\ Start.urls = {}
    BY DEF Start, Registry
  <2>2. Start \in [secret : Secrets, urls : SUBSET (Agents \X {"loopback", "public"})]
    BY DEF Start, Registry, Secrets
  <2>3. 1..0 = {}
    OBVIOUS
  <2> QED
    BY <2>1, <2>2, <2>3 DEF Good, Named, Signing
<1>5. n # 0
  BY <1>1, <1>2, <1>3, <1>4 DEF Stages
<1>6. n - 1 \in 0..Len(Order) /\ n - 1 \notin bad /\ n - 1 \in Nat /\ n \in 1..Len(Order)
      /\ (n - 1) + 1 = n
  BY <1>2, <1>3, <1>5
<1>7. Good(settings, f[n - 1], n - 1)
  BY <1>6
<1>8. f[n] = Next1(settings, f[n - 1], n)
  BY <1>1, <1>5, <1>6 DEF Stages
<1>9. Good(settings, Next1(settings, f[n - 1], (n - 1) + 1), (n - 1) + 1)
  BY <1>6, <1>7, IntegrateIsGood
<1> QED
  BY <1>3, <1>6, <1>8, <1>9

-----------------------------------------------------------------------------
(* The types.                                                              *)

\* What files, wakers and histories hold.
ContentsInv ==
    /\ profiles \in [Agents -> Profiles]
    /\ edits \in 0..MaxEdits
    /\ {writing, file} \subseteq Registries /\ same \subseteq Registries
    /\ \A s \in Sessions :
        /\ {used[s], cache[s].waker} \subseteq Wakers(Registries)
        /\ may[s] \subseteq Registries

\* The files that are no registry built from profiles, and what is loaded.
LEMMA SpecialRegistries ==
    /\ {Nothing, Absent, Torn, Telegram} \subseteq Registries
    /\ NoWaker \in Wakers(Registries)
    /\ Empty.waker = NoWaker
    /\ \A r \in Registries : Loaded(r) \in Wakers(Registries)
<1>1. {Nothing, Absent, Torn, Telegram} \subseteq Registries
  BY DEF Registries
<1>2. Loaded(Absent) = NoWaker /\ Empty.waker = NoWaker
  BY NothingLoaded, CachedFields DEF Empty
<1> QED
  BY <1>1, <1>2 DEF Wakers

\* A change of the file keeps the types.
LEMMA ChangeOfContents ==
    ASSUME ContentsInv, Shape, NEW contents \in Registries, Change(contents), UNCHANGED process,
           profiles' \in [Agents -> Profiles], edits' \in 0..MaxEdits, writing' \in Registries
    PROVE  ContentsInv'
<1>1. file' \in Registries /\ same' \subseteq Registries
  BY DEF Change, ContentsInv
<1>2. \A s \in Sessions : may'[s] \subseteq Registries
  BY <1>1 DEF Change, ContentsInv
<1>3. used' = used /\ cache' = cache
  BY DEF process
<1> QED
  BY <1>1, <1>2, <1>3 DEF ContentsInv

\* Every step keeps the types.
LEMMA ContentsStep ==
    ASSUME ContentsInv, Shape, [Next]_vars
    PROVE  ContentsInv'
<1>1. CASE UNCHANGED vars
  BY <1>1 DEF vars, ContentsInv
<1>2. CASE EditProfile
  <2>1. profiles' \in [Agents -> Profiles] /\ edits' \in 0..MaxEdits
    BY <1>2, RegistryAssumption DEF EditProfile, ContentsInv
  <2> QED
    BY <1>2, <2>1 DEF EditProfile, ContentsInv, process
<1>3. CASE Truncate
  <2>1. Built(profiles) \in Registries
    BY BuiltIsGood DEF ContentsInv, Good, Registries
  <2> QED
    BY <1>3, <2>1, ChangeOfContents, SpecialRegistries DEF Truncate, ContentsInv
<1>4. CASE WriteRegistry
  BY <1>4, ChangeOfContents, SpecialRegistries DEF WriteRegistry, ContentsInv
<1>5. CASE Interrupt
  BY <1>5, SpecialRegistries DEF Interrupt, ContentsInv, process
<1>6. CASE RemoveFile
  BY <1>6, SpecialRegistries DEF RemoveFile, ContentsInv, process
<1>7. ASSUME NEW s \in Sessions, Call(s) \/ Restart(s)
      PROVE  ContentsInv'
  <2>0. UNCHANGED operator
    BY <1>7 DEF Call, Restart, Hit, Stat, IsFile, ReadText, Raise, Finish, process, operator
  <2>1. \A t \in Sessions \ {s} : used'[t] = used[t] /\ cache'[t] = cache[t] /\ may'[t] = may[t]
    BY <1>7 DEF Shape, Call, Restart, Hit, Stat, IsFile, ReadText, Raise, Finish
  <2>2. ASSUME NEW waker \in Wakers(Registries), Finish(s, waker)
        PROVE  {used'[s], cache'[s].waker} \subseteq Wakers(Registries) /\ may'[s] \subseteq Registries
    BY <2>2, CachedFields DEF Finish, Shape, ContentsInv
  <2>3. {used'[s], cache'[s].waker} \subseteq Wakers(Registries) /\ may'[s] \subseteq Registries
    <3>1. CASE Hit(s)
      BY <3>1 DEF Hit, Shape, ContentsInv
    <3>2. CASE Stat(s)
      BY <3>2, SpecialRegistries DEF Stat, Shape, ContentsInv
    <3>3. CASE IsFile(s)
      BY <2>2, <3>3, SpecialRegistries DEF IsFile, ContentsInv
    <3>4. CASE ReadText(s)
      BY <2>2, <3>4, SpecialRegistries DEF ReadText, ContentsInv
    <3>5. CASE Raise(s)
      BY <3>5, SpecialRegistries DEF Raise, Shape, ContentsInv
    <3>6. CASE Restart(s)
      BY <3>6, SpecialRegistries DEF Restart, Shape, ContentsInv
    <3> QED
      BY <1>7, <3>1, <3>2, <3>3, <3>4, <3>5, <3>6 DEF Call
  <2> QED
    BY <2>0, <2>1, <2>3 DEF ContentsInv, operator
<1> QED
  BY <1>1, <1>2, <1>3, <1>4, <1>5, <1>6, <1>7 DEF Next

\* The types hold before the first run.
LEMMA ContentsInit == Init => ContentsInv
BY SpecialRegistries, RegistryAssumption DEF Init, ContentsInv

\* Whatever the operator writes and however the sends go: the registry file holds
\* nothing or what some profiles lead to, modification times and bounds are
\* kept, and what a bridge keeps or uses is what load_registry made of a file.
THEOREM TypeCorrect == Spec => []TypeOK
<1>1. StalenessInv /\ [Next]_vars => StalenessInv'
  BY StalenessStep
<1>2. ContentsInv /\ StalenessInv /\ [Next]_vars => ContentsInv'
  BY ContentsStep DEF StalenessInv
<1>3. ContentsInv /\ StalenessInv => TypeOK
  <2> SUFFICES ASSUME ContentsInv, StalenessInv
               PROVE  TypeOK
    OBVIOUS
  <2>1. /\ mtime \in 0..(2 * MaxRuns) /\ Missing \in Nat /\ 0..mtime \subseteq 0..Missing
        /\ runs \in 0..MaxRuns
    BY MissingIsLater, RegistryAssumption DEF StalenessInv, ClockInv
  <2>2. /\ noted \in [Sessions -> 0..Missing]
        /\ \A s \in Sessions : cache[s].mtime \in 0..Missing
    BY <2>1 DEF StalenessInv, CacheInv, Shape
  <2> QED
    BY <2>1, <2>2 DEF StalenessInv, Shape, ContentsInv, TypeOK, Wakers
<1> QED
  BY StalenessInit, ContentsInit, <1>1, <1>2, <1>3, PTL DEF Spec

\* wake-registry init goes through the profiles one after the other; the first
\* usable one fixes the secret.  Whatever the profiles, it registers exactly the
\* agents whose gateways verify that secret.
THEOREM SecretsDoAgree == Spec => []SecretsAgree
<1>1. ContentsInv => SecretsAgree
  <2> SUFFICES ASSUME ContentsInv
               PROVE  Named(Built(profiles)) =
                        {a \in Agents : /\ Usable(profiles[a])
                                        /\ SecretOf(profiles[a]) = Built(profiles).secret}
    BY DEF SecretsAgree
  <2>1. Named(Built(profiles)) = Signing(profiles, Built(profiles).secret, Len(Order))
    BY BuiltIsGood DEF ContentsInv, Good
  <2>2. Agents = {Order[i] : i \in 1..Len(Order)}
    BY RegistryAssumption, LenProperties DEF Agents, Range
  <2> QED
    BY <2>1, <2>2 DEF Signing
<1>2. StalenessInv /\ [Next]_vars => StalenessInv'
  BY StalenessStep
<1>3. ContentsInv /\ StalenessInv /\ [Next]_vars => ContentsInv'
  BY ContentsStep DEF StalenessInv
<1> QED
  BY StalenessInit, ContentsInit, <1>1, <1>2, <1>3, PTL DEF Spec
=============================================================================
