--------------------------- MODULE CategoryIndex ---------------------------
(***************************************************************************)
(* The category API of the plugin, request by request: the controller      *)
(* (LiveTvCategoriesController), the shared metadata cache                 *)
(* (LiveTvCategoryIndex) and the Jellyfin adapter                          *)
(* (JellyfinLiveTvCompatibilityAdapter, TunerChannelReader).               *)
(*                                                                         *)
(* Every HTTP request is a thread of its own: pc[r] is where it stands in  *)
(* the code, and one action is the code between two points at which        *)
(* another request, the clock, a cancelled connection or an administrator  *)
(* can interleave.  Channels stand for their GUIDs, a snapshot for the set *)
(* of channels it categorises; CategorySnapshots models how the channels   *)
(* are grouped and paged.                                                  *)
(***************************************************************************)
EXTENDS Integers

CONSTANTS
    Requests,               \* slots for concurrent HTTP requests
    Users, Channels, Categories, Tuners,
    CategoryOf,             \* the category each channel's group-title makes
    Calls,                  \* the calls each request slot may carry, see CallType
    Lineups,                \* the sets of channels one tuner read may return
    CacheDuration,          \* LiveTvCategoryIndex.CacheDuration, in ticks
    DegradedCacheDuration,  \* LiveTvCategoryIndex.DegradedCacheDuration
    MaxTime,                \* bound: the clock stops here
    MaxChanges,             \* bound: how often policy or visibility changes
    None                    \* null

Auth == {"session", "apiKey", "anonymous"}

CallType ==
    [auth : Auth, caller : Users \cup {None}, requested : Users \cup {None},
     category : Categories \cup {None}, validPaging : BOOLEAN]

AllCalls == UNION {Calls[r] : r \in Requests}

\* A session belongs to a user; an API key and an anonymous call to none.
ASSUME CallAssumption ==
    /\ Calls \in [Requests -> SUBSET CallType]
    /\ \A c \in AllCalls : (c.auth = "session") <=> (c.caller # None)
    /\ None \notin Users \cup Categories

ASSUME SourceAssumption ==
    /\ CategoryOf \in [Channels -> Categories]
    /\ Lineups \subseteq SUBSET Channels

ASSUME DurationAssumption ==
    /\ CacheDuration \in Nat \ {0}
    /\ DegradedCacheDuration \in Nat \ {0}
    /\ DegradedCacheDuration =< CacheDuration
    /\ MaxTime \in Nat
    /\ MaxChanges \in Nat

VARIABLES
    now,            \* DateTimeOffset.UtcNow, in ticks
    access,         \* the account and its EnableLiveTvAccess policy, per user
    visible,        \* the channels Jellyfin shows each user
    changes,        \* counts the policy and visibility changes
    snapshot,       \* LiveTvCategoryIndex._snapshot
    buildLock,      \* the count of LiveTvCategoryIndex._buildLock
    diagnostics,    \* JellyfinLiveTvCompatibilityAdapter._diagnostics
    pc,             \* where each request stands
    call,           \* what each request asked for
    cancelled,      \* its CancellationToken
    held,           \* the snapshot GetSnapshotAsync returned to it
    job,            \* the category read it performs under the lock
    raised,         \* the exception that unwinds through the finally block
    previous,       \* the diagnostics ReadNative read before it writes them
    page,           \* the channels of the user's view the request is about
    answer,         \* the response
    \* history, read by the properties only
    lastRead,       \* the diagnostics of the last category read to complete
    since           \* what the user was allowed since held was obtained

envVars == <<access, visible, changes>>
cacheVars == <<snapshot, buildLock, diagnostics, lastRead>>
requestVars == <<pc, call, cancelled, held, job, raised, previous, page, answer, since>>
vars == <<now, envVars, cacheVars, requestVars>>

Access == {"granted", "denied", "missing"}
Statuses == {"pending", "200", "400", "401", "403", "404", "503", "cancelled"}
SourceStates == {"not-yet-queried", "ready", "degraded", "no-supported-tuners", "unavailable"}

\* partial and healthy record, for the properties, how many tuners failed and
\* succeeded in the read a snapshot was built from.
Snapshot ==
    [channels : SUBSET Channels, generatedAt : Nat, expiresAt : Nat,
     partial : Nat, healthy : Nat]

\* null is no snapshot.
ASSUME NoneAssumption == None \notin Snapshot

Diagnostics ==
    [state : SourceStates, eligible : Nat, successful : Nat, failed : Nat]

Job ==
    [todo : SUBSET Tuners, successful : Nat, failed : Nat, found : SUBSET Channels]

Answer == [status : Statuses, counted : SUBSET Channels, items : SUBSET Channels]
Allowed == [granted : BOOLEAN, channels : SUBSET Channels]

\* The points at which a request holds the build lock: between WaitAsync and
\* the Release of the finally block.
Building == {"native", "tuners", "store"}
Critical == {"recheck", "release"} \cup Building

\* The points after GetSnapshotAsync has a snapshot to return.
Projecting == {"view", "page", "confirm"}

Points ==
    {"idle", "resolve", "precheck", "lookup", "wait", "failed", "invalidate", "done"}
        \cup Critical \cup Projecting

Active(r) == pc[r] \notin {"idle", "done"}

Inside(r) == pc[r] \in Critical

HoldsSnapshot(r) == pc[r] \in Projecting \/ (pc[r] = "release" /\ raised[r] = "none")

\* ResolveUserAsync: the account the request is answered for.
UserOf(r) == IF call[r].auth = "session" THEN call[r].caller ELSE call[r].requested

NoCall == [auth |-> "anonymous", caller |-> None, requested |-> None,
           category |-> None, validPaging |-> TRUE]
NoJob == [todo |-> {}, successful |-> 0, failed |-> 0, found |-> {}]
NoAnswer == [status |-> "pending", counted |-> {}, items |-> {}]
NeverQueried == [state |-> "not-yet-queried", eligible |-> 0, successful |-> 0, failed |-> 0]
NothingAllowed == [granted |-> FALSE, channels |-> {}]

\* cached is not null && UtcNow < cached.ExpiresAtUtc
Fresh == snapshot # None /\ now < snapshot.expiresAt

Init ==
    /\ now = 0
    /\ access \in [Users -> {"granted"}]
    /\ visible \in [Users -> {Channels}]
    /\ changes = 0
    /\ snapshot = None
    /\ buildLock = 1
    /\ diagnostics = NeverQueried
    /\ lastRead = NeverQueried
    /\ pc = [r \in Requests |-> "idle"]
    /\ call = [r \in Requests |-> NoCall]
    /\ cancelled = [r \in Requests |-> FALSE]
    /\ held = [r \in Requests |-> None]
    /\ job = [r \in Requests |-> NoJob]
    /\ raised = [r \in Requests |-> "none"]
    /\ previous = [r \in Requests |-> NeverQueried]
    /\ page = [r \in Requests |-> {}]
    /\ answer = [r \in Requests |-> NoAnswer]
    /\ since = [r \in Requests |-> NothingAllowed]

-----------------------------------------------------------------------------
(* What the steps of a request are made of.                                *)

At(r, from) == pc[r] = from

GoTo(r, to) == pc' = [pc EXCEPT ![r] = to]

\* The request ends with this response, the only thing of it that remains.
Finish(r, status, counted, items) ==
    /\ GoTo(r, "done")
    /\ answer' = [answer EXCEPT ![r] =
                    [status |-> status, counted |-> counted, items |-> items]]
    /\ held' = [held EXCEPT ![r] = None]
    /\ page' = [page EXCEPT ![r] = {}]
    /\ previous' = [previous EXCEPT ![r] = NeverQueried]
    /\ raised' = [raised EXCEPT ![r] = "none"]
    /\ call' = [call EXCEPT ![r] = NoCall]
    /\ cancelled' = [cancelled EXCEPT ![r] = FALSE]
    /\ since' = [since EXCEPT ![r] = NothingAllowed]

Reject(r, status) == Finish(r, status, {}, {})

\* What Jellyfin lets user u see at this moment.
AllowedTo(u) ==
    IF u \in Users /\ access[u] = "granted"
    THEN [granted |-> TRUE, channels |-> visible[u]]
    ELSE NothingAllowed

\* The request now has snapshot s to project; what its user may see is
\* recorded from here on.
Obtain(r, s) ==
    /\ held' = [held EXCEPT ![r] = s]
    /\ since' = [since EXCEPT ![r] = AllowedTo(UserOf(r))]

\* Defect: no finally block, an exception leaves the lock taken.
RaiseWithoutFinally(r, what) ==
    /\ raised' = raised
    /\ job' = [job EXCEPT ![r] = NoJob]
    /\ GoTo(r, "invalidate")

\* An exception inside the try block of GetSnapshotAsync: the finally block
\* is next.
RaiseUnderLock(r, what) ==
    /\ raised' = [raised EXCEPT ![r] = what]
    /\ job' = [job EXCEPT ![r] = NoJob]
    /\ GoTo(r, "release")

\* ReadNative caught a failure of Jellyfin: it looks for a cancellation and
\* reads the diagnostics it is about to write back.
NativeFails(r) ==
    /\ ~cancelled[r]
    /\ previous' = [previous EXCEPT ![r] = diagnostics]
    /\ held' = [held EXCEPT ![r] = None]
    /\ page' = [page EXCEPT ![r] = {}]
    /\ GoTo(r, "failed")
    /\ UNCHANGED <<now, envVars, cacheVars, call, cancelled, job, raised, answer, since>>

\* A check that ends the request without a snapshot: a cancelled token, or
\* RequireLiveTvUser's CategoryAccessDeniedException, which ReadNative lets
\* through and the controller answers with Forbid.
StoppedByPolicy(r) ==
    /\ \/ cancelled[r] /\ Reject(r, "cancelled")
       \/ ~cancelled[r] /\ access[UserOf(r)] # "granted" /\ Reject(r, "403")
    /\ UNCHANGED <<now, envVars, cacheVars, job>>

NativeReadable(r) == ~cancelled[r] /\ access[UserOf(r)] = "granted"

-----------------------------------------------------------------------------
(* The client, the clock and the administrator.                            *)

\* A client sends the next request of slot r.
Send(r) ==
    /\ pc[r] \in {"idle", "done"}
    /\ \E c \in Calls[r] : call' = [call EXCEPT ![r] = c]
    /\ GoTo(r, "resolve")
    /\ answer' = [answer EXCEPT ![r] = NoAnswer]
    /\ UNCHANGED <<now, envVars, cacheVars, cancelled, held, job, raised, previous,
                   page, since>>

\* The client goes away while its request is being served.
Cancel(r) ==
    /\ Active(r)
    /\ ~cancelled[r]
    /\ cancelled' = [cancelled EXCEPT ![r] = TRUE]
    /\ UNCHANGED <<now, envVars, cacheVars, pc, call, held, job, raised,
                   previous, page, answer, since>>

Tick ==
    /\ now < MaxTime
    /\ now' = now + 1
    /\ UNCHANGED <<envVars, cacheVars, requestVars>>

\* Requests that already hold a snapshot may see what they may see now.
RecordAllowed ==
    since' = [r \in Requests |->
                IF HoldsSnapshot(r) /\ access'[UserOf(r)] = "granted"
                THEN [granted |-> TRUE,
                      channels |-> since[r].channels \cup visible'[UserOf(r)]]
                ELSE since[r]]

ChangePolicy(u) ==
    /\ changes < MaxChanges
    /\ changes' = changes + 1
    /\ \/ /\ \E a \in Access \ {access[u]} : access' = [access EXCEPT ![u] = a]
          /\ UNCHANGED visible
       \/ /\ \E V \in SUBSET Channels \ {visible[u]} : visible' = [visible EXCEPT ![u] = V]
          /\ UNCHANGED access
    /\ RecordAllowed
    /\ UNCHANGED <<now, cacheVars, pc, call, cancelled, held, job, raised,
                   previous, page, answer>>

-----------------------------------------------------------------------------
(* The controller before the index: ResolveUserAsync and the checks of     *)
(* ExecuteForUserAsync and GetCategoryChannels.                            *)

Resolution(c) ==
    IF c.auth = "anonymous" THEN "401"
    ELSE IF c.auth = "apiKey" /\ c.requested = None THEN "400"
    ELSE IF c.auth = "session" /\ c.requested \notin {None, c.caller} THEN "403"
    ELSE "resolved"

PolicyAnswer == [missing |-> "404", denied |-> "403"]

Resolve(r) ==
    /\ At(r, "resolve")
    /\ \/ Resolution(call[r]) # "resolved" /\ Reject(r, Resolution(call[r]))
       \/ /\ Resolution(call[r]) = "resolved"
          /\ access[UserOf(r)] # "granted"
          /\ Reject(r, PolicyAnswer[access[UserOf(r)]])
       \/ /\ Resolution(call[r]) = "resolved"
          /\ access[UserOf(r)] = "granted"
          /\ \/ ~call[r].validPaging /\ Reject(r, "400")
             \/ /\ call[r].validPaging
                /\ GoTo(r, "precheck")
                /\ UNCHANGED <<call, cancelled, held, raised, previous, page, answer, since>>
    /\ UNCHANGED <<now, envVars, cacheVars, job>>

-----------------------------------------------------------------------------
(* LiveTvCategoryIndex.GetForUserAsync and GetSnapshotAsync.               *)

\* The visibility check before any tuner or cache read; its result is unused.
PreCheck(r) ==
    /\ At(r, "precheck")
    /\ \/ StoppedByPolicy(r)
       \/ /\ NativeReadable(r)
          /\ GoTo(r, "lookup")
          /\ UNCHANGED <<now, envVars, cacheVars, call, cancelled, held, job,
                         raised, previous, page, answer, since>>
       \/ NativeFails(r)

\* The fast path, which takes no lock.
Lookup(r) ==
    /\ At(r, "lookup")
    /\ \/ /\ Fresh
          /\ Obtain(r, snapshot)
          /\ GoTo(r, "view")
       \/ /\ ~Fresh
          /\ GoTo(r, "wait")
          /\ UNCHANGED <<held, since>>
    /\ UNCHANGED <<now, envVars, cacheVars, call, cancelled, job, raised,
                   previous, page, answer>>

\* WaitAsync(cancellationToken) throws outside the try block.
AbandonWait(r) ==
    /\ At(r, "wait")
    /\ cancelled[r]
    /\ Reject(r, "cancelled")
    /\ UNCHANGED <<now, envVars, cacheVars, job>>

Acquire(r) ==
    /\ At(r, "wait")
    /\ buildLock > 0
    /\ buildLock' = buildLock - 1
    /\ GoTo(r, "recheck")
    /\ UNCHANGED <<now, envVars, snapshot, diagnostics, lastRead, call, cancelled,
                   held, job, raised, previous, page, answer, since>>

\* Defect: the cache is not looked at again once the lock is taken.
RecheckForgotten(r) ==
    /\ At(r, "recheck")
    /\ GoTo(r, "native")
    /\ UNCHANGED <<now, envVars, cacheVars, call, cancelled, held, job, raised,
                   previous, page, answer, since>>

\* Someone may have built the snapshot while this request waited.
Recheck(r) ==
    /\ At(r, "recheck")
    /\ \/ /\ Fresh
          /\ Obtain(r, snapshot)
          /\ GoTo(r, "release")
       \/ /\ ~Fresh
          /\ GoTo(r, "native")
          /\ UNCHANGED <<held, since>>
    /\ UNCHANGED <<now, envVars, cacheVars, call, cancelled, job, raised,
                   previous, page, answer>>

\* The completed category read becomes the diagnostics.
Report(d) == diagnostics' = d /\ lastRead' = d

\* ReadCategoriesAsync up to the tuner reads: the persisted channels and the
\* M3U hosts that are supported at this moment.
ReadNativeChannels(r) ==
    /\ At(r, "native")
    /\ \/ /\ cancelled[r]
          /\ RaiseUnderLock(r, "cancelled")
          /\ UNCHANGED <<diagnostics, lastRead>>
       \/ /\ ~cancelled[r]
          /\ \E hosts \in SUBSET Tuners :
                job' = [job EXCEPT ![r] = [NoJob EXCEPT !.todo = hosts]]
          /\ GoTo(r, "tuners")
          /\ UNCHANGED <<raised, diagnostics, lastRead>>
       \/ /\ ~cancelled[r]
          /\ Report([NeverQueried EXCEPT !.state = "unavailable"])
          /\ RaiseUnderLock(r, "unavailable")
    /\ UNCHANGED <<now, envVars, snapshot, buildLock, call, cancelled, held,
                   previous, page, answer, since>>

\* TunerChannelReader.ReadAsync, one reader: its channels are added, or its
\* failure is counted, or the request's cancellation ends the read.
ReadTuner(r) ==
    /\ At(r, "tuners")
    /\ \E t \in job[r].todo :
        \/ cancelled[r] /\ RaiseUnderLock(r, "cancelled")
        \/ /\ ~cancelled[r]
           /\ \/ \E channels \in Lineups :
                    job' = [job EXCEPT ![r].todo = @ \ {t}, ![r].successful = @ + 1,
                                       ![r].found = @ \cup channels]
              \/ job' = [job EXCEPT ![r].todo = @ \ {t}, ![r].failed = @ + 1]
           /\ UNCHANGED <<pc, raised>>
    /\ UNCHANGED <<now, envVars, cacheVars, call, cancelled, held, previous,
                   page, answer, since>>

SourceState(j) ==
    IF j.failed > 0 THEN "degraded"
    ELSE IF j.successful = 0 THEN "no-supported-tuners" ELSE "ready"

AllFailed(j) == j.failed > 0 /\ j.successful = 0

\* The end of ReadAsync and of ReadCategoriesAsync: every reader failed and
\* the source is unavailable, or the result is reported and returned.
FinishTuners(r) ==
    /\ At(r, "tuners")
    /\ job[r].todo = {}
    /\ \/ /\ cancelled[r]
          /\ RaiseUnderLock(r, "cancelled")
          /\ UNCHANGED <<diagnostics, lastRead>>
       \/ /\ ~cancelled[r]
          /\ AllFailed(job[r])
          /\ Report([state |-> "unavailable", eligible |-> job[r].failed,
                     successful |-> 0, failed |-> job[r].failed])
          /\ RaiseUnderLock(r, "unavailable")
       \/ /\ ~cancelled[r]
          /\ ~AllFailed(job[r])
          /\ Report([state |-> SourceState(job[r]),
                     eligible |-> job[r].successful + job[r].failed,
                     successful |-> job[r].successful, failed |-> job[r].failed])
          /\ GoTo(r, "store")
          /\ UNCHANGED <<job, raised>>
    /\ UNCHANGED <<now, envVars, snapshot, buildLock, call, cancelled, held,
                   previous, page, answer, since>>

\* Defect: a partial result is kept as long as a complete one.
TtlUniform(failed) == CacheDuration

TtlOf(failed) == IF failed > 0 THEN DegradedCacheDuration ELSE CacheDuration

Built(j) ==
    [channels |-> j.found, generatedAt |-> now, expiresAt |-> now + TtlOf(j.failed),
     partial |-> j.failed, healthy |-> j.successful]

\* GetSnapshotAsync after the read: the snapshot is dated, built and published.
Store(r) ==
    /\ At(r, "store")
    /\ \/ /\ cancelled[r]
          /\ RaiseUnderLock(r, "cancelled")
          /\ UNCHANGED <<snapshot, held, since>>
       \/ /\ ~cancelled[r]
          /\ snapshot' = Built(job[r])
          /\ Obtain(r, Built(job[r]))
          /\ job' = [job EXCEPT ![r] = NoJob]
          /\ GoTo(r, "release")
          /\ UNCHANGED raised
    /\ UNCHANGED <<now, envVars, buildLock, diagnostics, lastRead, call, cancelled,
                   previous, page, answer>>

\* The finally block, and where the return or the exception leads from it.
Release(r) ==
    /\ At(r, "release")
    /\ buildLock' = buildLock + 1
    /\ \/ /\ raised[r] = "none"
          /\ GoTo(r, "view")
          /\ UNCHANGED <<call, cancelled, held, raised, previous, page, answer, since>>
       \/ /\ raised[r] = "unavailable"
          /\ GoTo(r, "invalidate")
          /\ raised' = [raised EXCEPT ![r] = "none"]
          /\ UNCHANGED <<call, cancelled, held, previous, page, answer, since>>
       \/ /\ raised[r] = "cancelled"
          /\ Reject(r, "cancelled")
    /\ UNCHANGED <<now, envVars, snapshot, diagnostics, lastRead, job>>

InCategory(c) == {ch \in Channels : CategoryOf[ch] = c}

\* Defect: counts are taken from the shared snapshot.
ProjectionShared(r) == held[r].channels

\* CreateUserView of what the user can see now.
Projection(r) == held[r].channels \cap visible[UserOf(r)]

\* The second visibility read and CreateUserView, then the controller:
\* summaries are answered at once, a page only if its category has a channel.
View(r) ==
    /\ At(r, "view")
    /\ \/ StoppedByPolicy(r)
       \/ /\ NativeReadable(r)
          /\ LET mine == Projection(r)
                 asked == mine \cap InCategory(call[r].category)
             IN \/ call[r].category = None /\ Finish(r, "200", mine, {})
                \/ call[r].category # None /\ asked = {} /\ Reject(r, "404")
                \/ /\ call[r].category # None
                   /\ asked # {}
                   /\ page' = [page EXCEPT ![r] = asked]
                   /\ GoTo(r, "page")
                   /\ UNCHANGED <<call, cancelled, held, raised, previous, answer, since>>
          /\ UNCHANGED <<now, envVars, cacheVars, job>>
       \/ NativeFails(r)

\* GetChannelDtos up to the filter: what the user may no longer see is
\* dropped from the page; its total stays that of the view.
FilterPage(r) ==
    /\ At(r, "page")
    /\ \/ StoppedByPolicy(r)
       \/ /\ NativeReadable(r)
          /\ answer' = [answer EXCEPT ![r] =
                          [status |-> "pending", counted |-> page[r],
                           items |-> page[r] \cap visible[UserOf(r)]]]
          /\ GoTo(r, "confirm")
          /\ UNCHANGED <<now, envVars, cacheVars, call, cancelled, held, job,
                         raised, previous, page, since>>
       \/ NativeFails(r)

\* GetChannelDtos after the conversion: the last look at the token and at
\* the permission.
Confirm(r) ==
    /\ At(r, "confirm")
    /\ \/ StoppedByPolicy(r)
       \/ /\ NativeReadable(r)
          /\ Finish(r, "200", answer[r].counted, answer[r].items)
          /\ UNCHANGED <<now, envVars, cacheVars, job>>
       \/ NativeFails(r)

-----------------------------------------------------------------------------
(* The failure path.                                                       *)

\* Defect: the diagnostics are written back with the state they had.
MarkForgotten(r) ==
    /\ At(r, "failed")
    /\ diagnostics' = previous[r]
    /\ previous' = [previous EXCEPT ![r] = NeverQueried]
    /\ GoTo(r, "invalidate")
    /\ UNCHANGED <<now, envVars, snapshot, buildLock, lastRead, call, cancelled,
                   held, job, raised, page, answer, since>>

\* ReadNative writes back the diagnostics it read, marked unavailable.
MarkUnavailable(r) ==
    /\ At(r, "failed")
    /\ diagnostics' = [previous[r] EXCEPT !.state = "unavailable"]
    /\ previous' = [previous EXCEPT ![r] = NeverQueried]
    /\ GoTo(r, "invalidate")
    /\ UNCHANGED <<now, envVars, snapshot, buildLock, lastRead, call, cancelled,
                   held, job, raised, page, answer, since>>

\* ExecuteForUserAsync catches CategorySourceUnavailableException.
Invalidate(r) ==
    /\ At(r, "invalidate")
    /\ snapshot' = None
    /\ Reject(r, "503")
    /\ UNCHANGED <<now, envVars, buildLock, diagnostics, lastRead, job>>

Serve(r) ==
    \/ Resolve(r) \/ PreCheck(r) \/ Lookup(r) \/ AbandonWait(r) \/ Acquire(r)
    \/ Recheck(r) \/ ReadNativeChannels(r) \/ ReadTuner(r) \/ FinishTuners(r)
    \/ Store(r) \/ Release(r) \/ View(r) \/ FilterPage(r) \/ Confirm(r)
    \/ MarkUnavailable(r) \/ Invalidate(r)

Next ==
    \/ Tick
    \/ \E u \in Users : ChangePolicy(u)
    \/ \E r \in Requests : Send(r) \/ Cancel(r) \/ Serve(r)

Spec == Init /\ [][Next]_vars

\* The thread pool runs every request that can run, native and tuner calls
\* return or fail, and SemaphoreSlim hands the lock to its asynchronous
\* waiters in the order of their arrival.
Fairness == \A r \in Requests : WF_vars(Serve(r)) /\ SF_vars(Acquire(r))

FairSpec == Spec /\ Fairness

-----------------------------------------------------------------------------
(* Properties.                                                             *)

\* The variables keep their types; in particular the semaphore, created with
\* one permit and a maximum of one, is never released twice, and a snapshot
\* is there for every step that projects it.
TypeOK ==
    /\ now \in Nat
    /\ access \in [Users -> Access]
    /\ visible \in [Users -> SUBSET Channels]
    /\ changes \in Nat
    /\ snapshot \in Snapshot \cup {None}
    /\ buildLock \in {0, 1}
    /\ diagnostics \in Diagnostics
    /\ lastRead \in Diagnostics
    /\ pc \in [Requests -> Points]
    /\ call \in [Requests -> AllCalls \cup {NoCall}]
    /\ cancelled \in [Requests -> BOOLEAN]
    /\ held \in [Requests -> Snapshot \cup {None}]
    /\ job \in [Requests -> Job]
    /\ raised \in [Requests -> {"none", "unavailable", "cancelled"}]
    /\ previous \in [Requests -> Diagnostics]
    /\ page \in [Requests -> SUBSET Channels]
    /\ answer \in [Requests -> Answer]
    /\ since \in [Requests -> Allowed]

\* One request at a time is between WaitAsync and Release, so the tuners are
\* never read twice at once, and the lock is free exactly when none is: no
\* exception, cancellation or early return leaves it taken.
OneBuilder ==
    /\ \A r, s \in Requests : Inside(r) /\ Inside(s) => r = s
    /\ buildLock = 1 <=> \A r \in Requests : ~Inside(r)

\* The double-checked cache: while a request reads the tuners no fresh
\* snapshot is published, neither before it got the lock nor meanwhile, so
\* waiting requests never repeat a read that was already done for them.
NoRedundantRead == \A r \in Requests : pc[r] \in Building => ~Fresh

\* As long as the cached snapshot is served, the last category read to
\* complete is the one it was built from: a later failed, partial or
\* cancelled read cannot leave an older answer in service.
CacheMatchesLastRead ==
    Fresh => /\ lastRead.failed = snapshot.partial
             /\ lastRead.successful = snapshot.healthy

\* A read in which every tuner failed is never published or served as an
\* empty category list (architecture.md: "a 503 rather than an empty 200").
NoFailureServed ==
    \A s \in ({snapshot} \cup {held[r] : r \in Requests}) \ {None} :
        s.partial > 0 => s.healthy > 0

\* A response shows, counts included, only channels the user was allowed to
\* see at some moment after the shared snapshot was obtained, however long
\* the build took; and it is given only to a user who had access then.
CurrentVisibility ==
    [][\A r \in Requests : Active(r) /\ answer'[r].status = "200" =>
        /\ since[r].granted
        /\ answer'[r].counted \cup answer'[r].items \subseteq since[r].channels]_vars

\* "ready", "degraded" and "no-supported-tuners" are only reported with the
\* result of the last category read: a ReadNative failure that overwrites a
\* newer result can hide it but never present an older one as healthy.
HealthyDiagnosticsAreCurrent == diagnostics.state # "unavailable" => diagnostics = lastRead

\* Whatever snapshot a request is given was built less than CacheDuration
\* ago, and less than DegradedCacheDuration ago if a tuner was missing.
ServedWithinTtl ==
    [][\A r \in Requests :
        held'[r] # held[r] /\ held'[r] # None =>
            now - held'[r].generatedAt <
                (IF held'[r].partial > 0 THEN DegradedCacheDuration ELSE CacheDuration)]_vars

\* Every request is answered, whatever the others, the tuners or their
\* clients do: no build leaves the waiters behind.
EveryRequestAnswered == \A r \in Requests : Active(r) ~> ~Active(r)

\* The contract's Diagnostics: "Count-only snapshot of the last tuner read".
DiagnosticsCountLastRead ==
    /\ diagnostics.eligible = lastRead.eligible
    /\ diagnostics.successful = lastRead.successful
    /\ diagnostics.failed = lastRead.failed
=============================================================================
