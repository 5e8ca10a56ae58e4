------------------------ MODULE CategoryIndexProofs ------------------------
(***************************************************************************)
(* Proofs about CategoryIndex, for any number of requests, users, channels *)
(* and tuners and any cache durations.                                     *)
(*                                                                         *)
(* The inductive invariant adds to the invariants the runs check what they *)
(* rest on: which steps have a snapshot in hand, how a snapshot is dated,  *)
(* what the read about to be published reported, and that the history      *)
(* "since" has kept up with the policy while a snapshot is being projected.*)
(*                                                                         *)
(* From "The refinement" on: CategoryIndex implements CategoryService, its *)
(* initial states map to initial states of the service and each of its     *)
(* steps to a step of the service or to none.                              *)
(***************************************************************************)
EXTENDS CategoryRefinement, TLAPS

\* A step that projects a snapshot has one.
HeldWhenProjecting == \A r \in Requests : HoldsSnapshot(r) => held[r] \in Snapshot

\* The expiry was computed from the date and the completeness.
SnapshotDated ==
    snapshot # None => snapshot.expiresAt = snapshot.generatedAt + TtlOf(snapshot.partial)

\* The read that is about to be published is the last one reported, and it
\* is not a failure.
StoreReported ==
    \A r \in Requests : pc[r] = "store" =>
        /\ lastRead.failed = job[r].failed
        /\ lastRead.successful = job[r].successful
        /\ ~AllFailed(job[r])

\* The user of request r, once it has passed Resolve, is a user.
UserKnown(r) == pc[r] \notin {"idle", "resolve", "done"} => UserOf(r) \in Users

\* While request r projects a snapshot, since includes what its user is
\* allowed now, and whatever was put on its page.
SinceIsCurrent(r) ==
    HoldsSnapshot(r) =>
        /\ access[UserOf(r)] = "granted" => /\ since[r].granted
                                            /\ visible[UserOf(r)] \subseteq since[r].channels
        /\ pc[r] \in {"page", "confirm"} => page[r] \subseteq since[r].channels
        /\ pc[r] = "confirm" => /\ answer[r].counted = page[r]
                                /\ answer[r].items \subseteq page[r]

CacheInv ==
    /\ SnapshotDated
    /\ StoreReported
    /\ NoRedundantRead
    /\ CacheMatchesLastRead
    /\ NoFailureServed
    /\ HealthyDiagnosticsAreCurrent

\* No response is given before its step.
AnswerPending(r) == Active(r) => answer[r].status = "pending"

VisibilityInv == \A r \in Requests : UserKnown(r) /\ SinceIsCurrent(r) /\ AnswerPending(r)

IndInv == TypeOK /\ OneBuilder /\ HeldWhenProjecting /\ CacheInv /\ VisibilityInv

-----------------------------------------------------------------------------
(* Type correctness.                                                       *)

\* What any slot may carry is a call, and a session's call has a caller.
LEMMA CallsKnown ==
    /\ \A r \in Requests : Calls[r] \subseteq AllCalls
    /\ AllCalls \subseteq CallType
    /\ \A c \in AllCalls : (c.auth = "session") <=> (c.caller # None)
    /\ None \notin Users \cup Categories
  BY CallAssumption DEF AllCalls

LEMMA InitType == Init => TypeOK /\ HeldWhenProjecting
  BY CallAssumption, DurationAssumption
  DEF Init, TypeOK, HeldWhenProjecting, HoldsSnapshot, Projecting, Critical, Building,
      Points, Access, NeverQueried, Diagnostics, SourceStates, NoJob, Job, NoAnswer,
      Answer, Statuses, NothingAllowed, Allowed

\* What a response touches.
RequestsTyped ==
    /\ pc \in [Requests -> Points]
    /\ call \in [Requests -> AllCalls \cup {NoCall}]
    /\ cancelled \in [Requests -> BOOLEAN]
    /\ held \in [Requests -> Snapshot \cup {None}]
    /\ raised \in [Requests -> {"none", "unavailable", "cancelled"}]
    /\ previous \in [Requests -> Diagnostics]
    /\ page \in [Requests -> SUBSET Channels]
    /\ answer \in [Requests -> Answer]
    /\ since \in [Requests -> Allowed]
    /\ HeldWhenProjecting

\* A response leaves the request's variables well typed.
LEMMA FinishTyped ==
  ASSUME TypeOK, HeldWhenProjecting, NEW r \in Requests, NEW status \in Statuses,
         NEW counted \in SUBSET Channels, NEW items \in SUBSET Channels,
         Finish(r, status, counted, items)
  PROVE  RequestsTyped'
<1>1. /\ NeverQueried \in Diagnostics
      /\ NothingAllowed \in Allowed
      /\ [status |-> status, counted |-> counted, items |-> items] \in Answer
  BY DEF NeverQueried, Diagnostics, SourceStates, NothingAllowed, Allowed, Answer
<1>2. "done" \in Points
  BY DEF Points
<1>3. HeldWhenProjecting'
  BY DEF HeldWhenProjecting, HoldsSnapshot, Projecting, Finish, GoTo, TypeOK
<1> QED
  BY <1>1, <1>2, <1>3 DEF RequestsTyped, TypeOK, Finish, GoTo

LEMMA RejectTyped ==
  ASSUME TypeOK, HeldWhenProjecting, NEW r \in Requests, NEW status \in Statuses,
         Reject(r, status)
  PROVE  RequestsTyped'
<1>1. Finish(r, status, {}, {}) /\ {} \in SUBSET Channels
  BY DEF Reject
<1> QED
  BY <1>1, FinishTyped

LEMMA ResponseTyped ==
  ASSUME TypeOK, RequestsTyped', UNCHANGED <<now, envVars, cacheVars, job>>
  PROVE  TypeOK' /\ HeldWhenProjecting'
  BY DEF RequestsTyped, TypeOK, envVars, cacheVars

LEMMA NativeFailsTyped ==
  ASSUME TypeOK, HeldWhenProjecting, NEW r \in Requests, NativeFails(r)
  PROVE  TypeOK' /\ HeldWhenProjecting'
  BY DEF TypeOK, HeldWhenProjecting, HoldsSnapshot, Projecting, Points, NativeFails,
         GoTo, envVars, cacheVars

LEMMA StoppedTyped ==
  ASSUME TypeOK, HeldWhenProjecting, NEW r \in Requests, StoppedByPolicy(r)
  PROVE  TypeOK' /\ HeldWhenProjecting'
  BY RejectTyped, ResponseTyped DEF StoppedByPolicy, Statuses

LEMMA ResolutionTyped ==
  ASSUME NEW c
  PROVE  Resolution(c) \in {"401", "400", "403", "resolved"}
  BY DEF Resolution

\* What the policy allows is well typed, for any account.
LEMMA AllowedTyped ==
  ASSUME TypeOK, NEW u
  PROVE  AllowedTo(u) \in Allowed
  BY DEF AllowedTo, NothingAllowed, Allowed, TypeOK

\* An exception under the lock discards the read.
LEMMA NoJobTyped == NoJob \in Job
  BY DEF NoJob, Job

LEMMA RaiseTyped ==
  ASSUME TypeOK, HeldWhenProjecting, NEW r \in Requests,
         NEW what \in {"unavailable", "cancelled"}, RaiseUnderLock(r, what), held' = held
  PROVE  /\ pc' \in [Requests -> Points]
         /\ raised' \in [Requests -> {"none", "unavailable", "cancelled"}]
         /\ job' \in [Requests -> Job]
         /\ HeldWhenProjecting'
<1>1. HeldWhenProjecting'
  BY DEF HeldWhenProjecting, HoldsSnapshot, Projecting, RaiseUnderLock, GoTo, TypeOK
<1>2. "release" \in Points
  BY DEF Points, Critical
<1> QED
  BY <1>1, <1>2, NoJobTyped DEF RaiseUnderLock, GoTo, TypeOK

LEMMA TypeStep ==
    TypeOK /\ OneBuilder /\ HeldWhenProjecting /\ VisibilityInv /\ [Next]_vars
        => TypeOK' /\ HeldWhenProjecting'
<1> SUFFICES ASSUME TypeOK, OneBuilder, HeldWhenProjecting, VisibilityInv, [Next]_vars
             PROVE  TypeOK' /\ HeldWhenProjecting'
  OBVIOUS
<1> USE DEF HeldWhenProjecting, HoldsSnapshot, Projecting, At, GoTo, envVars, cacheVars
<1>1. CASE Tick
  BY <1>1 DEF Tick, TypeOK, requestVars
<1>2. ASSUME NEW u \in Users, ChangePolicy(u)
      PROVE  TypeOK' /\ HeldWhenProjecting'
  <2>1. /\ access' \in [Users -> Access]
        /\ visible' \in [Users -> SUBSET Channels]
        /\ changes' \in Nat
    BY <1>2 DEF ChangePolicy, TypeOK
  <2>2. \A r \in Requests : HoldsSnapshot(r) => UserOf(r) \in Users
    BY DEF VisibilityInv, UserKnown
  <2>3. since' \in [Requests -> Allowed]
    BY <1>2, <2>1, <2>2 DEF ChangePolicy, RecordAllowed, TypeOK, Allowed
  <2> QED
    BY <1>2, <2>1, <2>3 DEF ChangePolicy, TypeOK
<1>3. ASSUME NEW r \in Requests, Send(r)
      PROVE  TypeOK' /\ HeldWhenProjecting'
  BY <1>3, CallsKnown DEF Send, TypeOK, Points, NoAnswer, Answer, Statuses
<1>4. ASSUME NEW r \in Requests, Cancel(r)
      PROVE  TypeOK' /\ HeldWhenProjecting'
  BY <1>4 DEF Cancel, TypeOK
<1>5. ASSUME NEW r \in Requests, Resolve(r)
      PROVE  TypeOK' /\ HeldWhenProjecting'
  <2>1. CASE \E status \in Statuses : Reject(r, status)
    BY <1>5, <2>1, RejectTyped, ResponseTyped DEF Resolve
  <2>2. CASE pc' = [pc EXCEPT ![r] = "precheck"]
             /\ UNCHANGED <<call, cancelled, held, raised, previous, page, answer, since>>
    BY <1>5, <2>2 DEF Resolve, TypeOK, Points
  <2>3. Resolution(call[r]) # "resolved" => Resolution(call[r]) \in Statuses
    BY ResolutionTyped DEF Statuses
  <2>4. access[UserOf(r)] # "granted" /\ Resolution(call[r]) = "resolved"
          => PolicyAnswer[access[UserOf(r)]] \in Statuses
    <3>1. ASSUME Resolution(call[r]) = "resolved"
          PROVE  UserOf(r) \in Users
      BY <3>1, CallsKnown DEF Resolution, UserOf, TypeOK, CallType, Auth, NoCall
    <3> QED
      BY <3>1 DEF PolicyAnswer, TypeOK, Access, Statuses
  <2> QED
    BY <1>5, <2>1, <2>2, <2>3, <2>4 DEF Resolve, Statuses
<1>6. ASSUME NEW r \in Requests, PreCheck(r)
      PROVE  TypeOK' /\ HeldWhenProjecting'
  <2>1. CASE GoTo(r, "lookup")
             /\ UNCHANGED <<now, envVars, cacheVars, call, cancelled, held, job,
                            raised, previous, page, answer, since>>
    BY <2>1 DEF TypeOK, Points
  <2> QED
    BY <1>6, <2>1, StoppedTyped, NativeFailsTyped DEF PreCheck
<1>7. ASSUME NEW r \in Requests, Lookup(r)
      PROVE  TypeOK' /\ HeldWhenProjecting'
  BY <1>7, AllowedTyped DEF Lookup, Obtain, Fresh, TypeOK, Points
<1>8. ASSUME NEW r \in Requests, AbandonWait(r)
      PROVE  TypeOK' /\ HeldWhenProjecting'
  BY <1>8, RejectTyped, ResponseTyped DEF AbandonWait, Statuses
<1>9. ASSUME NEW r \in Requests, Acquire(r)
      PROVE  TypeOK' /\ HeldWhenProjecting'
  BY <1>9 DEF Acquire, TypeOK, Points, Critical
<1>10. ASSUME NEW r \in Requests, Recheck(r)
       PROVE  TypeOK' /\ HeldWhenProjecting'
  BY <1>10, AllowedTyped DEF Recheck, Obtain, Fresh, TypeOK, Points, Critical, Building
<1>11. ASSUME NEW r \in Requests, ReadNativeChannels(r)
       PROVE  TypeOK' /\ HeldWhenProjecting'
  <2>1. CASE cancelled[r]
    BY <1>11, <2>1, RaiseTyped DEF ReadNativeChannels, TypeOK
  <2>2. CASE RaiseUnderLock(r, "unavailable")
             /\ Report([NeverQueried EXCEPT !.state = "unavailable"])
    <3>1. [NeverQueried EXCEPT !.state = "unavailable"] \in Diagnostics
      BY DEF NeverQueried, Diagnostics, SourceStates
    <3> QED
      BY <1>11, <2>2, <3>1, RaiseTyped DEF ReadNativeChannels, Report, TypeOK
  <2>3. ASSUME NEW hosts \in SUBSET Tuners,
               job' = [job EXCEPT ![r] = [NoJob EXCEPT !.todo = hosts]],
               GoTo(r, "tuners"), UNCHANGED <<raised, diagnostics, lastRead>>
        PROVE  TypeOK' /\ HeldWhenProjecting'
    <3>1. [NoJob EXCEPT !.todo = hosts] \in Job
      BY DEF NoJob, Job
    <3>2. "tuners" \in Points
      BY DEF Points, Critical, Building
    <3> QED
      BY <1>11, <2>3, <3>1, <3>2 DEF ReadNativeChannels, TypeOK
  <2> QED
    BY <1>11, <2>1, <2>2, <2>3 DEF ReadNativeChannels
<1>12. ASSUME NEW r \in Requests, ReadTuner(r)
       PROVE  TypeOK' /\ HeldWhenProjecting'
  <2>1. CASE RaiseUnderLock(r, "cancelled")
    BY <1>12, <2>1, RaiseTyped DEF ReadTuner, TypeOK
  <2>2. ASSUME NEW t \in Tuners, NEW channels \in Lineups,
               \/ job' = [job EXCEPT ![r].todo = @ \ {t}, ![r].successful = @ + 1,
                                     ![r].found = @ \cup channels]
               \/ job' = [job EXCEPT ![r].todo = @ \ {t}, ![r].failed = @ + 1],
               UNCHANGED <<pc, raised>>
        PROVE  TypeOK' /\ HeldWhenProjecting'
    <3>1. job' \in [Requests -> Job]
      BY <2>2, SourceAssumption DEF TypeOK, Job
    <3> QED
      BY <1>12, <2>2, <3>1 DEF ReadTuner, TypeOK
  <2>3. ASSUME NEW t \in Tuners, job' = [job EXCEPT ![r].todo = @ \ {t}, ![r].failed = @ + 1],
               UNCHANGED <<pc, raised>>
        PROVE  TypeOK' /\ HeldWhenProjecting'
    <3>1. job' \in [Requests -> Job]
      BY <2>3 DEF TypeOK, Job
    <3> QED
      BY <1>12, <2>3, <3>1 DEF ReadTuner, TypeOK
  <2>4. job[r].todo \subseteq Tuners
    BY DEF TypeOK, Job
  <2> QED
    BY <1>12, <2>1, <2>2, <2>3, <2>4 DEF ReadTuner
<1>13. ASSUME NEW r \in Requests, FinishTuners(r)
       PROVE  TypeOK' /\ HeldWhenProjecting'
  <2>1. job[r].successful \in Nat /\ job[r].failed \in Nat
    BY DEF TypeOK, Job
  <2>2. SourceState(job[r]) \in SourceStates
    BY DEF SourceState, SourceStates
  <2>3. diagnostics' \in Diagnostics /\ lastRead' \in Diagnostics
    BY <1>13, <2>1, <2>2 DEF FinishTuners, Report, TypeOK, Diagnostics, SourceStates
  <2>4. "store" \in Points
    BY DEF Points, Critical, Building
  <2>5. CASE RaiseUnderLock(r, "cancelled") \/ RaiseUnderLock(r, "unavailable")
    BY <1>13, <2>3, <2>5, RaiseTyped DEF FinishTuners, TypeOK
  <2>6. CASE GoTo(r, "store") /\ UNCHANGED <<job, raised>>
    BY <1>13, <2>3, <2>4, <2>6 DEF FinishTuners, TypeOK
  <2> QED
    BY <1>13, <2>5, <2>6 DEF FinishTuners
<1>14. ASSUME NEW r \in Requests, Store(r)
       PROVE  TypeOK' /\ HeldWhenProjecting'
  <2>1. Built(job[r]) \in Snapshot
    BY DurationAssumption DEF Built, Snapshot, TtlOf, TypeOK, Job
  <2>2. CASE RaiseUnderLock(r, "cancelled") /\ UNCHANGED <<snapshot, held, since>>
    BY <1>14, <2>2, RaiseTyped DEF Store, TypeOK
  <2>3. CASE /\ snapshot' = Built(job[r])
             /\ Obtain(r, Built(job[r]))
             /\ job' = [job EXCEPT ![r] = NoJob]
             /\ GoTo(r, "release")
             /\ UNCHANGED raised
    <3>1. "release" \in Points
      BY DEF Points, Critical
    <3>2. job' \in [Requests -> Job]
      BY <2>3, NoJobTyped DEF TypeOK
    <3> QED
      BY <1>14, <2>1, <2>3, <3>1, <3>2, AllowedTyped DEF Store, Obtain, TypeOK
  <2> QED
    BY <1>14, <2>2, <2>3 DEF Store
<1>15. ASSUME NEW r \in Requests, Release(r)
       PROVE  TypeOK' /\ HeldWhenProjecting'
  <2>1. buildLock' \in {0, 1}
    BY <1>15 DEF Release, OneBuilder, Inside, Critical, TypeOK
  <2>2. CASE GoTo(r, "view") /\ raised[r] = "none"
             /\ UNCHANGED <<call, cancelled, held, raised, previous, page, answer, since>>
    BY <1>15, <2>1, <2>2 DEF Release, TypeOK, Points
  <2>3. CASE GoTo(r, "invalidate") /\ raised' = [raised EXCEPT ![r] = "none"]
             /\ UNCHANGED <<call, cancelled, held, previous, page, answer, since>>
    BY <1>15, <2>1, <2>3 DEF Release, TypeOK, Points
  <2>4. CASE Reject(r, "cancelled")
    <3>1. RequestsTyped'
      BY <2>4, RejectTyped DEF Statuses
    <3> QED
      BY <1>15, <2>1, <3>1 DEF Release, TypeOK, RequestsTyped
  <2> QED
    BY <1>15, <2>2, <2>3, <2>4 DEF Release
<1>16. ASSUME NEW r \in Requests, View(r)
       PROVE  TypeOK' /\ HeldWhenProjecting'
  <2>1. CASE StoppedByPolicy(r) \/ NativeFails(r)
    BY <2>1, StoppedTyped, NativeFailsTyped
  <2>2. CASE Reject(r, "404") /\ UNCHANGED <<now, envVars, cacheVars, job>>
    BY <2>2, RejectTyped, ResponseTyped DEF Statuses
  <2>3. Projection(r) \in SUBSET Channels
    BY <1>16 DEF View, Projection, TypeOK, Snapshot
  <2>4. CASE Finish(r, "200", Projection(r), {}) /\ UNCHANGED <<now, envVars, cacheVars, job>>
    BY <2>3, <2>4, FinishTyped, ResponseTyped DEF Statuses
  <2>5. CASE /\ page' = [page EXCEPT ![r] = Projection(r) \cap InCategory(call[r].category)]
             /\ GoTo(r, "page")
             /\ UNCHANGED <<call, cancelled, held, raised, previous, answer, since>>
             /\ UNCHANGED <<now, envVars, cacheVars, job>>
    BY <1>16, <2>3, <2>5 DEF View, TypeOK, Points
  <2> QED
    BY <1>16, <2>1, <2>2, <2>4, <2>5 DEF View
<1>17. ASSUME NEW r \in Requests, FilterPage(r)
       PROVE  TypeOK' /\ HeldWhenProjecting'
  <2>1. CASE StoppedByPolicy(r) \/ NativeFails(r)
    BY <2>1, StoppedTyped, NativeFailsTyped
  <2>2. ASSUME NativeReadable(r),
               answer' = [answer EXCEPT ![r] =
                            [status |-> "pending", counted |-> page[r],
                             items |-> page[r] \cap visible[UserOf(r)]]],
               GoTo(r, "confirm"),
               UNCHANGED <<now, envVars, cacheVars, call, cancelled, held, job,
                           raised, previous, page, since>>
        PROVE  TypeOK' /\ HeldWhenProjecting'
    <3>1. page[r] \cap visible[UserOf(r)] \subseteq Channels /\ page[r] \subseteq Channels
      BY DEF TypeOK
    <3>2. answer' \in [Requests -> Answer]
      BY <2>2, <3>1 DEF TypeOK, Answer, Statuses
    <3> QED
      BY <1>17, <2>2, <3>2 DEF FilterPage, TypeOK, Points
  <2> QED
    BY <1>17, <2>1, <2>2 DEF FilterPage
<1>18. ASSUME NEW r \in Requests, Confirm(r)
       PROVE  TypeOK' /\ HeldWhenProjecting'
  <2>1. answer[r].counted \in SUBSET Channels /\ answer[r].items \in SUBSET Channels
    BY DEF TypeOK, Answer
  <2> QED
    BY <1>18, <2>1, FinishTyped, ResponseTyped, StoppedTyped, NativeFailsTyped DEF Confirm, Statuses
<1>19. ASSUME NEW r \in Requests, MarkUnavailable(r)
       PROVE  TypeOK' /\ HeldWhenProjecting'
  BY <1>19 DEF MarkUnavailable, TypeOK, Points, NeverQueried, Diagnostics, SourceStates
<1>20. ASSUME NEW r \in Requests, Invalidate(r)
       PROVE  TypeOK' /\ HeldWhenProjecting'
  <2>1. RequestsTyped'
    BY <1>20, RejectTyped DEF Invalidate, Statuses
  <2> QED
    BY <1>20, <2>1 DEF Invalidate, TypeOK, RequestsTyped
<1>21. CASE UNCHANGED vars
  BY <1>21 DEF vars, TypeOK, requestVars
<1> QED
  BY <1>1, <1>2, <1>3, <1>4, <1>5, <1>6, <1>7, <1>8, <1>9, <1>10, <1>11, <1>12, <1>13,
     <1>14, <1>15, <1>16, <1>17, <1>18, <1>19, <1>20, <1>21 DEF Next, Serve

-----------------------------------------------------------------------------
(* The build lock.                                                         *)

\* Of a request's own steps only Acquire and Release cross the lock's
\* boundary, and no step moves another request.
LEMMA LockStep ==
  ASSUME TypeOK, NEW r \in Requests, Send(r) \/ Cancel(r) \/ Serve(r)
  PROVE  /\ \A s \in Requests \ {r} : pc'[s] = pc[s]
         /\ \/ (Inside(r) <=> Inside(r)') /\ buildLock' = buildLock
            \/ ~Inside(r) /\ Inside(r)' /\ buildLock > 0 /\ buildLock' = buildLock - 1
            \/ Inside(r) /\ ~Inside(r)' /\ buildLock' = buildLock + 1
<1> USE DEF At, GoTo, envVars, cacheVars, Inside, Critical, Building, Reject, Finish, TypeOK
<1>1. CASE Send(r) \/ Cancel(r) \/ Resolve(r) \/ Lookup(r) \/ AbandonWait(r)
           \/ Acquire(r) \/ Recheck(r)
  BY <1>1 DEF Send, Cancel, Resolve, Lookup, AbandonWait, Acquire, Recheck
<1>2. CASE ReadNativeChannels(r) \/ ReadTuner(r) \/ FinishTuners(r) \/ Store(r) \/ Release(r)
  BY <1>2 DEF ReadNativeChannels, ReadTuner, FinishTuners, Store, Release, RaiseUnderLock
<1>3. CASE PreCheck(r) \/ View(r) \/ FilterPage(r) \/ Confirm(r)
  BY <1>3 DEF PreCheck, View, FilterPage, Confirm, StoppedByPolicy, NativeFails
<1>4. CASE MarkUnavailable(r) \/ Invalidate(r)
  BY <1>4 DEF MarkUnavailable, Invalidate
<1> QED
  BY <1>1, <1>2, <1>3, <1>4 DEF Serve

LEMMA OneBuilderStep == TypeOK /\ OneBuilder /\ [Next]_vars => OneBuilder'
<1> SUFFICES ASSUME TypeOK, OneBuilder, [Next]_vars
             PROVE  OneBuilder'
  OBVIOUS
<1>1. CASE Tick \/ (\E u \in Users : ChangePolicy(u)) \/ UNCHANGED vars
  BY <1>1 DEF Tick, ChangePolicy, vars, cacheVars, requestVars, OneBuilder, Inside
<1>2. ASSUME NEW r \in Requests, Send(r) \/ Cancel(r) \/ Serve(r)
      PROVE  OneBuilder'
  <2>1. /\ \A s \in Requests \ {r} : Inside(s)' <=> Inside(s)
        /\ \/ (Inside(r) <=> Inside(r)') /\ buildLock' = buildLock
           \/ ~Inside(r) /\ Inside(r)' /\ buildLock > 0 /\ buildLock' = buildLock - 1
           \/ Inside(r) /\ ~Inside(r)' /\ buildLock' = buildLock + 1
    BY <1>2, LockStep DEF Inside
  <2>2. buildLock \in {0, 1}
    BY DEF TypeOK
  <2> QED
    BY <2>1, <2>2 DEF OneBuilder
<1> QED
  BY <1>1, <1>2 DEF Next

-----------------------------------------------------------------------------
(* The cache, its expiry and the diagnostics.                              *)

LEMMA InitCache == Init => OneBuilder /\ CacheInv
  BY DEF Init, OneBuilder, Inside, Critical, Building, CacheInv, SnapshotDated,
         StoreReported, NoRedundantRead, Fresh, CacheMatchesLastRead, NoFailureServed,
         HealthyDiagnosticsAreCurrent

\* A step that neither reads the source nor publishes: a request may take the
\* cached snapshot or drop its own, and none starts a category read.
LEMMA QuietStep ==
  ASSUME CacheInv, UNCHANGED <<now, snapshot, diagnostics, lastRead, job>>,
         \A r \in Requests : held'[r] \in {held[r], None, snapshot},
         \A r \in Requests : pc'[r] \in Building => pc'[r] = pc[r]
  PROVE  CacheInv'
<1>1. SnapshotDated' /\ StoreReported' /\ NoRedundantRead' /\ CacheMatchesLastRead'
      /\ HealthyDiagnosticsAreCurrent'
  BY DEF CacheInv, SnapshotDated, StoreReported, NoRedundantRead, Fresh, AllFailed,
         CacheMatchesLastRead, HealthyDiagnosticsAreCurrent, Building
<1>2. NoFailureServed'
  BY DEF CacheInv, NoFailureServed
<1> QED
  BY <1>1, <1>2 DEF CacheInv

\* Under the lock no other request stands at a category read.
LEMMA AloneInBuilding ==
  ASSUME OneBuilder, NEW r \in Requests, NEW s \in Requests, Inside(r), pc[s] \in Building
  PROVE  s = r
  BY DEF OneBuilder, Inside, Critical

\* A request under the lock leaves it with an exception: at most the
\* diagnostics were reported.
LEMMA RaiseStep ==
  ASSUME TypeOK, OneBuilder, CacheInv, NEW r \in Requests, pc[r] \in Building,
         NEW what, RaiseUnderLock(r, what), UNCHANGED <<now, snapshot, held>>,
         \/ UNCHANGED <<diagnostics, lastRead>>
         \/ \E d : Report(d)
  PROVE  CacheInv'
<1>1. \A s \in Requests : pc'[s] \notin Building
  BY AloneInBuilding DEF RaiseUnderLock, GoTo, TypeOK, Inside, Critical, Building
<1>2. ~Fresh /\ ~Fresh'
  BY DEF CacheInv, NoRedundantRead, Fresh
<1>3. SnapshotDated' /\ StoreReported' /\ NoRedundantRead' /\ CacheMatchesLastRead'
  BY <1>1, <1>2 DEF CacheInv, SnapshotDated, StoreReported, NoRedundantRead,
                    CacheMatchesLastRead, Building
<1>4. NoFailureServed' /\ HealthyDiagnosticsAreCurrent'
  BY DEF CacheInv, NoFailureServed, HealthyDiagnosticsAreCurrent, Report
<1> QED
  BY <1>3, <1>4 DEF CacheInv

LEMMA CacheStep ==
    TypeOK /\ OneBuilder /\ CacheInv /\ [Next]_vars => CacheInv'
<1> SUFFICES ASSUME TypeOK, OneBuilder, CacheInv, [Next]_vars
             PROVE  CacheInv'
  OBVIOUS
<1> USE DEF At, GoTo, envVars, cacheVars
<1>1. CASE (\E u \in Users : ChangePolicy(u)) \/ UNCHANGED vars
  BY <1>1, QuietStep DEF ChangePolicy, vars, requestVars
<1>2. CASE Tick
  <2>1. Fresh' => Fresh
    BY <1>2 DEF Tick, Fresh, TypeOK, Snapshot
  <2> QED
    BY <1>2, <2>1 DEF Tick, requestVars, CacheInv, SnapshotDated, StoreReported, AllFailed,
       NoRedundantRead, CacheMatchesLastRead, NoFailureServed, HealthyDiagnosticsAreCurrent
<1>3. ASSUME NEW r \in Requests,
             \/ Send(r) \/ Cancel(r) \/ Resolve(r) \/ Lookup(r) \/ AbandonWait(r)
             \/ Acquire(r) \/ Release(r)
      PROVE  CacheInv'
  <2>1. \A s \in Requests : held'[s] \in {held[s], None, snapshot}
    BY <1>3 DEF Send, Cancel, Resolve, Lookup, Obtain, AbandonWait, Acquire, Release,
                Reject, Finish, TypeOK
  <2>2. \A s \in Requests : pc'[s] \in Building => pc'[s] = pc[s]
    BY <1>3 DEF Send, Cancel, Resolve, Lookup, Obtain, AbandonWait, Acquire, Release,
                Reject, Finish, TypeOK, Building
  <2> QED
    BY <1>3, <2>1, <2>2, QuietStep
    DEF Send, Cancel, Resolve, Lookup, AbandonWait, Acquire, Release
<1>4. ASSUME NEW r \in Requests, PreCheck(r) \/ View(r) \/ FilterPage(r) \/ Confirm(r)
      PROVE  CacheInv'
  <2>1. \A s \in Requests : held'[s] \in {held[s], None}
    BY <1>4 DEF PreCheck, View, FilterPage, Confirm, StoppedByPolicy, NativeFails,
                Reject, Finish, TypeOK
  <2>2. \A s \in Requests : pc'[s] \in Building => pc'[s] = pc[s]
    BY <1>4 DEF PreCheck, View, FilterPage, Confirm, StoppedByPolicy, NativeFails,
                Reject, Finish, TypeOK, Building
  <2> QED
    BY <1>4, <2>1, <2>2, QuietStep
    DEF PreCheck, View, FilterPage, Confirm, StoppedByPolicy, NativeFails
<1>5. ASSUME NEW r \in Requests, Recheck(r)
      PROVE  CacheInv'
  <2>1. CASE Fresh
    BY <1>5, <2>1, QuietStep DEF Recheck, Obtain, TypeOK, Building
  <2>2. CASE ~Fresh
    <3>1. /\ UNCHANGED <<now, snapshot, lastRead, diagnostics, held, job>>
          /\ ~Fresh'
          /\ \A s \in Requests : pc'[s] = "store" => pc[s] = "store"
      BY <1>5, <2>2 DEF Recheck, Fresh, TypeOK
    <3> QED
      BY <3>1 DEF CacheInv, SnapshotDated, StoreReported, NoRedundantRead, AllFailed,
                  CacheMatchesLastRead, NoFailureServed, HealthyDiagnosticsAreCurrent
  <2> QED
    BY <2>1, <2>2
<1>6. ASSUME NEW r \in Requests, ReadNativeChannels(r)
      PROVE  CacheInv'
  <2>1. CASE RaiseUnderLock(r, "cancelled") \/ RaiseUnderLock(r, "unavailable")
    BY <1>6, <2>1, RaiseStep DEF ReadNativeChannels, Building
  <2>2. CASE GoTo(r, "tuners") /\ UNCHANGED <<raised, diagnostics, lastRead>>
    <3>1. /\ ~Fresh
          /\ \A s \in Requests : pc'[s] # "store"
      BY <1>6, <2>2, AloneInBuilding
      DEF ReadNativeChannels, TypeOK, CacheInv, NoRedundantRead, Building, Inside, Critical
    <3>2. UNCHANGED <<now, snapshot, lastRead, diagnostics, held>>
      BY <1>6, <2>2 DEF ReadNativeChannels
    <3> QED
      BY <3>1, <3>2 DEF CacheInv, SnapshotDated, StoreReported, NoRedundantRead, Fresh,
                        CacheMatchesLastRead, NoFailureServed, HealthyDiagnosticsAreCurrent
  <2> QED
    BY <1>6, <2>1, <2>2 DEF ReadNativeChannels
<1>7. ASSUME NEW r \in Requests, ReadTuner(r)
      PROVE  CacheInv'
  <2>1. CASE RaiseUnderLock(r, "cancelled")
    BY <1>7, <2>1, RaiseStep DEF ReadTuner, Building
  <2>2. CASE UNCHANGED <<pc, raised>>
    <3>1. /\ ~Fresh
          /\ \A s \in Requests : pc[s] # "store"
      BY <1>7, AloneInBuilding
      DEF ReadTuner, CacheInv, NoRedundantRead, Building, Inside, Critical
    <3> QED
      BY <1>7, <2>2, <3>1
      DEF ReadTuner, CacheInv, SnapshotDated, StoreReported, NoRedundantRead, Fresh,
          CacheMatchesLastRead, NoFailureServed, HealthyDiagnosticsAreCurrent
  <2> QED
    BY <1>7, <2>1, <2>2 DEF ReadTuner
<1>8. ASSUME NEW r \in Requests, FinishTuners(r)
      PROVE  CacheInv'
  <2>1. CASE RaiseUnderLock(r, "cancelled") \/ RaiseUnderLock(r, "unavailable")
    BY <1>8, <2>1, RaiseStep DEF FinishTuners, Building
  <2>2. CASE GoTo(r, "store") /\ ~AllFailed(job[r]) /\ UNCHANGED <<job, raised>>
    <3>1. /\ ~Fresh
          /\ \A s \in Requests : pc'[s] = "store" => s = r
      BY <1>8, <2>2, AloneInBuilding
      DEF FinishTuners, TypeOK, CacheInv, NoRedundantRead, Building, Inside, Critical
    <3>2. lastRead' = [state |-> SourceState(job[r]),
                       eligible |-> job[r].successful + job[r].failed,
                       successful |-> job[r].successful, failed |-> job[r].failed]
          /\ diagnostics' = lastRead'
      <4>1. raised' = raised /\ pc'[r] = "store"
        BY <1>8, <2>2 DEF TypeOK, FinishTuners
      <4>2. ~RaiseUnderLock(r, "cancelled") /\ ~RaiseUnderLock(r, "unavailable")
        BY <4>1 DEF RaiseUnderLock, TypeOK
      <4> QED
        BY <1>8, <4>2 DEF FinishTuners, Report
    <3>3. UNCHANGED <<now, snapshot, held>>
      BY <1>8 DEF FinishTuners
    <3> QED
      BY <2>2, <3>1, <3>2, <3>3
      DEF CacheInv, SnapshotDated, StoreReported, NoRedundantRead, Fresh, AllFailed,
          CacheMatchesLastRead, NoFailureServed, HealthyDiagnosticsAreCurrent
  <2> QED
    BY <1>8, <2>1, <2>2 DEF FinishTuners
<1>9. ASSUME NEW r \in Requests, Store(r)
      PROVE  CacheInv'
  <2>1. CASE RaiseUnderLock(r, "cancelled") /\ UNCHANGED <<snapshot, held, since>>
    BY <1>9, <2>1, RaiseStep DEF Store, Building
  <2>2. CASE /\ snapshot' = Built(job[r])
             /\ Obtain(r, Built(job[r]))
             /\ GoTo(r, "release")
    <3>1. \A s \in Requests : pc'[s] \notin Building
      BY <1>9, <2>2, AloneInBuilding
      DEF Store, Building, Inside, Critical, TypeOK
    <3>2. /\ lastRead.failed = Built(job[r]).partial
          /\ lastRead.successful = Built(job[r]).healthy
          /\ Built(job[r]).partial > 0 => Built(job[r]).healthy > 0
      BY <1>9 DEF Store, CacheInv, StoreReported, AllFailed, Built, TypeOK, Job
    <3>3. SnapshotDated'
      BY <2>2 DEF SnapshotDated, Built, TtlOf
    <3>4. \A s \in Requests : held'[s] \in {held[s], Built(job[r])}
      BY <2>2 DEF Obtain, TypeOK
    <3>5. NoFailureServed'
      BY <2>2, <3>2, <3>4 DEF CacheInv, NoFailureServed
    <3> QED
      BY <1>9, <2>2, <3>1, <3>2, <3>3, <3>5
      DEF Store, CacheInv, StoreReported, NoRedundantRead, CacheMatchesLastRead,
          HealthyDiagnosticsAreCurrent, Building
  <2> QED
    BY <1>9, <2>1, <2>2 DEF Store
<1>10. ASSUME NEW r \in Requests, MarkUnavailable(r)
       PROVE  CacheInv'
  <2>1. /\ diagnostics'.state = "unavailable"
        /\ UNCHANGED <<now, snapshot, lastRead, job, held>>
        /\ \A s \in Requests : pc'[s] \in Building => pc'[s] = pc[s]
    BY <1>10 DEF MarkUnavailable, TypeOK, Diagnostics, Building
  <2> QED
    BY <2>1 DEF CacheInv, SnapshotDated, StoreReported, NoRedundantRead, Fresh, AllFailed,
                CacheMatchesLastRead, NoFailureServed, HealthyDiagnosticsAreCurrent, Building
<1>11. ASSUME NEW r \in Requests, Invalidate(r)
       PROVE  CacheInv'
  <2>1. /\ snapshot' = None
        /\ UNCHANGED <<now, diagnostics, lastRead, job>>
        /\ \A s \in Requests : held'[s] \in {held[s], None}
        /\ \A s \in Requests : pc'[s] \in Building => pc'[s] = pc[s]
    BY <1>11 DEF Invalidate, Reject, Finish, TypeOK, Building
  <2> QED
    BY <2>1 DEF CacheInv, SnapshotDated, StoreReported, NoRedundantRead, Fresh, AllFailed,
                CacheMatchesLastRead, NoFailureServed, HealthyDiagnosticsAreCurrent, Building
<1> QED
  BY <1>1, <1>2, <1>3, <1>4, <1>5, <1>6, <1>7, <1>8, <1>9, <1>10, <1>11 DEF Next, Serve

-----------------------------------------------------------------------------
(* Visibility.                                                             *)

LEMMA InitVisibility == Init => VisibilityInv
<1> SUFFICES ASSUME Init, NEW r \in Requests
             PROVE  UserKnown(r) /\ SinceIsCurrent(r) /\ AnswerPending(r)
  BY DEF VisibilityInv
<1>1. pc[r] = "idle"
  BY DEF Init
<1> QED
  BY <1>1 DEF UserKnown, SinceIsCurrent, HoldsSnapshot, Projecting, AnswerPending, Active

\* A step of one request leaves the others alone.
LEMMA OthersUntouched ==
  ASSUME TypeOK, NEW r \in Requests, Send(r) \/ Cancel(r) \/ Serve(r),
         NEW s \in Requests \ {r}
  PROVE  /\ pc'[s] = pc[s] /\ call'[s] = call[s] /\ raised'[s] = raised[s]
         /\ since'[s] = since[s] /\ page'[s] = page[s] /\ answer'[s] = answer[s]
         /\ held'[s] = held[s] /\ UNCHANGED <<access, visible>>
<1> USE DEF At, GoTo, envVars, cacheVars, Reject, Finish, TypeOK
<1>1. CASE Send(r) \/ Cancel(r) \/ Resolve(r) \/ Lookup(r) \/ AbandonWait(r)
           \/ Acquire(r) \/ Recheck(r)
  BY <1>1 DEF Send, Cancel, Resolve, Lookup, AbandonWait, Acquire, Recheck, Obtain
<1>2. CASE ReadNativeChannels(r) \/ ReadTuner(r) \/ FinishTuners(r) \/ Store(r) \/ Release(r)
  BY <1>2 DEF ReadNativeChannels, ReadTuner, FinishTuners, Store, Release, RaiseUnderLock, Obtain
<1>3. CASE PreCheck(r) \/ View(r) \/ FilterPage(r) \/ Confirm(r)
  BY <1>3 DEF PreCheck, View, FilterPage, Confirm, StoppedByPolicy, NativeFails
<1>4. CASE MarkUnavailable(r) \/ Invalidate(r)
  BY <1>4 DEF MarkUnavailable, Invalidate
<1> QED
  BY <1>1, <1>2, <1>3, <1>4 DEF Serve

\* Only Send and the end of a request change what it asked for, and only
\* Resolve starts serving it.
LEMMA UserStep ==
  ASSUME TypeOK, NEW r \in Requests, Send(r) \/ Cancel(r) \/ Serve(r), UserKnown(r)
  PROVE  UserKnown(r)'
<1> USE DEF At, GoTo, envVars, cacheVars, Reject, Finish, UserKnown, UserOf
<1>1. CASE Resolve(r)
  BY <1>1, CallsKnown DEF Resolve, TypeOK, Resolution, CallType, Auth, NoCall
<1>2. CASE Send(r) \/ Cancel(r) \/ Lookup(r) \/ AbandonWait(r) \/ Acquire(r) \/ Recheck(r)
  BY <1>2 DEF Send, Cancel, Lookup, AbandonWait, Acquire, Recheck, TypeOK, Active
<1>3. CASE ReadNativeChannels(r) \/ ReadTuner(r) \/ FinishTuners(r) \/ Store(r) \/ Release(r)
  BY <1>3 DEF ReadNativeChannels, ReadTuner, FinishTuners, Store, Release, TypeOK
<1>4. CASE PreCheck(r) \/ View(r) \/ FilterPage(r) \/ Confirm(r)
  BY <1>4 DEF PreCheck, View, FilterPage, Confirm, StoppedByPolicy, NativeFails, TypeOK
<1>5. CASE MarkUnavailable(r) \/ Invalidate(r)
  BY <1>5 DEF MarkUnavailable, Invalidate, TypeOK
<1> QED
  BY <1>1, <1>2, <1>3, <1>4, <1>5 DEF Serve

\* A request that obtains a snapshot starts a new record of what is allowed.
LEMMA ObtainStep ==
  ASSUME TypeOK, NEW r \in Requests, NEW s, Obtain(r, s), UserOf(r) \in Users,
         UNCHANGED <<access, visible, call>>, pc'[r] \notin {"page", "confirm"}
  PROVE  SinceIsCurrent(r)'
<1>1. since'[r] = AllowedTo(UserOf(r))
  BY DEF Obtain, TypeOK
<1>2. UserOf(r)' = UserOf(r)
  BY DEF UserOf
<1> QED
  BY <1>1, <1>2 DEF SinceIsCurrent, AllowedTo

LEMMA SinceStep ==
  ASSUME TypeOK, NEW r \in Requests, Send(r) \/ Cancel(r) \/ Serve(r),
         UserKnown(r), SinceIsCurrent(r)
  PROVE  SinceIsCurrent(r)'
<1> USE DEF At, GoTo, envVars, cacheVars, SinceIsCurrent, HoldsSnapshot, Projecting, UserOf
<1>1. CASE \E status, counted, items : Finish(r, status, counted, items)
  BY <1>1 DEF Finish, TypeOK
<1>2. CASE \E what \in {"unavailable", "cancelled"} : RaiseUnderLock(r, what)
  BY <1>2 DEF RaiseUnderLock, TypeOK
<1>3. CASE NativeFails(r)
  BY <1>3 DEF NativeFails, TypeOK
<1>4. CASE Send(r) \/ Cancel(r) \/ Acquire(r) \/ MarkUnavailable(r)
  BY <1>4 DEF Send, Cancel, Acquire, MarkUnavailable, TypeOK
<1>5. CASE Resolve(r) \/ PreCheck(r) \/ AbandonWait(r) \/ Invalidate(r)
  BY <1>1, <1>3, <1>5
  DEF Resolve, PreCheck, AbandonWait, Invalidate, StoppedByPolicy, Reject, TypeOK
<1>6. CASE Lookup(r) \/ Recheck(r)
  <2>1. UserOf(r) \in Users
    BY <1>6 DEF Lookup, Recheck, UserKnown
  <2>2. CASE Fresh
    <3>1. Obtain(r, snapshot) /\ pc'[r] \in {"view", "release"} /\ UNCHANGED <<access, visible, call>>
      BY <1>6, <2>2 DEF Lookup, Recheck, TypeOK
    <3> QED
      BY <2>1, <3>1, ObtainStep
  <2>3. CASE ~Fresh
    BY <1>6, <2>3 DEF Lookup, Recheck, TypeOK
  <2> QED
    BY <2>2, <2>3
<1>7. CASE ReadNativeChannels(r) \/ ReadTuner(r) \/ FinishTuners(r)
  BY <1>2, <1>7 DEF ReadNativeChannels, ReadTuner, FinishTuners, TypeOK
<1>8. CASE Store(r)
  <2>1. UserOf(r) \in Users
    BY <1>8 DEF Store, UserKnown
  <2>2. CASE RaiseUnderLock(r, "cancelled")
    BY <1>2, <2>2
  <2>3. CASE Obtain(r, Built(job[r])) /\ GoTo(r, "release")
    <3>1. pc'[r] \notin {"page", "confirm"} /\ UNCHANGED <<access, visible, call>>
      BY <1>8, <2>3 DEF Store, TypeOK
    <3> QED
      BY <2>1, <2>3, <3>1, ObtainStep
  <2> QED
    BY <1>8, <2>2, <2>3 DEF Store
<1>9. CASE Release(r)
  BY <1>1, <1>9 DEF Release, Reject, TypeOK
<1>10. CASE View(r)
  BY <1>1, <1>3, <1>10
  DEF View, StoppedByPolicy, Reject, NativeReadable, Projection, TypeOK
<1>11. CASE FilterPage(r)
  BY <1>1, <1>3, <1>11 DEF FilterPage, StoppedByPolicy, Reject, TypeOK
<1>12. CASE Confirm(r)
  BY <1>1, <1>3, <1>12 DEF Confirm, StoppedByPolicy, Reject, TypeOK
<1> QED
  BY <1>4, <1>5, <1>6, <1>7, <1>8, <1>9, <1>10, <1>11, <1>12 DEF Serve

\* A 200 is given by View or by Confirm, to a user who has access then.
LEMMA AnswerStep ==
  ASSUME TypeOK, NEW r \in Requests, Send(r) \/ Cancel(r) \/ Serve(r), AnswerPending(r)
  PROVE  /\ AnswerPending(r)'
         /\ Active(r) /\ answer'[r].status = "200" =>
              \/ /\ pc[r] = "view" /\ NativeReadable(r)
                 /\ answer'[r] = [status |-> "200", counted |-> Projection(r), items |-> {}]
              \/ /\ pc[r] = "confirm" /\ NativeReadable(r)
                 /\ answer'[r] = [status |-> "200", counted |-> answer[r].counted,
                                  items |-> answer[r].items]
<1> USE DEF At, GoTo, envVars, cacheVars, AnswerPending, Active, Finish, TypeOK
<1>1. CASE \E status \in Statuses \ {"200"} : Reject(r, status)
  BY <1>1 DEF Reject
<1>2. CASE Send(r) \/ Cancel(r) \/ MarkUnavailable(r) \/ Lookup(r) \/ Acquire(r) \/ Recheck(r)
  BY <1>2 DEF Send, Cancel, MarkUnavailable, Lookup, Acquire, Recheck, NoAnswer
<1>3. CASE ReadNativeChannels(r) \/ ReadTuner(r) \/ FinishTuners(r) \/ Store(r)
  BY <1>3 DEF ReadNativeChannels, ReadTuner, FinishTuners, Store
<1>4. CASE StoppedByPolicy(r) \/ AbandonWait(r) \/ Invalidate(r)
  BY <1>1, <1>4 DEF StoppedByPolicy, AbandonWait, Invalidate, Statuses
<1>5. CASE NativeFails(r) /\ pc[r] \notin {"idle", "done"}
  BY <1>5 DEF NativeFails
<1>6. CASE Release(r)
  BY <1>1, <1>6 DEF Release, Statuses
<1>7. CASE Resolve(r)
  <2>1. Resolution(call[r]) # "resolved" => Resolution(call[r]) \in Statuses \ {"200"}
    BY ResolutionTyped DEF Statuses
  <2>2. access[UserOf(r)] # "granted" /\ Resolution(call[r]) = "resolved"
          => PolicyAnswer[access[UserOf(r)]] \in Statuses \ {"200"}
    <3>1. ASSUME Resolution(call[r]) = "resolved"
          PROVE  UserOf(r) \in Users
      BY <3>1, CallsKnown DEF Resolution, UserOf, CallType, Auth, NoCall
    <3> QED
      BY <3>1 DEF PolicyAnswer, Access, Statuses
  <2> QED
    BY <1>1, <1>7, <2>1, <2>2 DEF Resolve, Statuses
<1>8. CASE PreCheck(r)
  BY <1>4, <1>5, <1>8 DEF PreCheck
<1>9. CASE View(r)
  BY <1>1, <1>4, <1>5, <1>9 DEF View, Statuses
<1>10. CASE FilterPage(r)
  BY <1>4, <1>5, <1>10 DEF FilterPage
<1>11. CASE Confirm(r)
  BY <1>4, <1>5, <1>11 DEF Confirm
<1> QED
  BY <1>2, <1>3, <1>4, <1>6, <1>7, <1>8, <1>9, <1>10, <1>11 DEF Serve

LEMMA VisibilityStep == TypeOK /\ VisibilityInv /\ [Next]_vars => VisibilityInv'
<1> SUFFICES ASSUME TypeOK, VisibilityInv, [Next]_vars,
                    NEW r \in Requests
             PROVE  UserKnown(r)' /\ SinceIsCurrent(r)' /\ AnswerPending(r)'
  BY DEF VisibilityInv
<1> USE DEF UserKnown, SinceIsCurrent, HoldsSnapshot, UserOf, AnswerPending, Active
<1>1. CASE Tick \/ UNCHANGED vars
  BY <1>1 DEF Tick, vars, envVars, requestVars, VisibilityInv
<1>2. ASSUME NEW u \in Users, ChangePolicy(u)
      PROVE  UserKnown(r)' /\ SinceIsCurrent(r)' /\ AnswerPending(r)'
  <2>1. /\ UNCHANGED <<pc, call, raised, page, answer>>
        /\ UserKnown(r) /\ SinceIsCurrent(r) /\ AnswerPending(r)
    BY <1>2 DEF ChangePolicy, VisibilityInv
  <2>2. HoldsSnapshot(r) =>
          since'[r] = IF access'[UserOf(r)] = "granted"
                      THEN [granted |-> TRUE,
                            channels |-> since[r].channels \cup visible'[UserOf(r)]]
                      ELSE since[r]
    BY <1>2 DEF ChangePolicy, RecordAllowed
  <2> QED
    BY <2>1, <2>2
<1>3. ASSUME NEW s \in Requests, Send(s) \/ Cancel(s) \/ Serve(s)
      PROVE  UserKnown(r)' /\ SinceIsCurrent(r)' /\ AnswerPending(r)'
  <2>1. CASE s = r
    BY <1>3, <2>1, UserStep, SinceStep, AnswerStep DEF VisibilityInv
  <2>2. CASE s # r
    <3>1. /\ pc'[r] = pc[r] /\ call'[r] = call[r] /\ raised'[r] = raised[r]
          /\ since'[r] = since[r] /\ page'[r] = page[r] /\ answer'[r] = answer[r]
          /\ UNCHANGED <<access, visible>>
      BY <1>3, <2>2, OthersUntouched
    <3> QED
      BY <3>1 DEF VisibilityInv
  <2> QED
    BY <2>1, <2>2
<1> QED
  BY <1>1, <1>2, <1>3 DEF Next

-----------------------------------------------------------------------------
(* The theorems.                                                           *)

LEMMA Inductive == Spec => []IndInv
<1>1. Init => IndInv
  BY InitType, InitCache, InitVisibility DEF IndInv
<1>2. IndInv /\ [Next]_vars => IndInv'
  BY TypeStep, OneBuilderStep, CacheStep, VisibilityStep DEF IndInv
<1> QED
  BY <1>1, <1>2, PTL DEF Spec

\* The semaphore of GetSnapshotAsync never has more than its one permit and
\* every step finds what it reads, whatever the requests do.
THEOREM TypeCorrect == Spec => []TypeOK
<1>1. IndInv => TypeOK
  BY DEF IndInv
<1> QED
  BY <1>1, Inductive, PTL

\* At most one request reads the tuners, and the lock is never leaked.
THEOREM LockSafe == Spec => []OneBuilder
<1>1. IndInv => OneBuilder
  BY DEF IndInv
<1> QED
  BY <1>1, Inductive, PTL

\* No request reads the tuners while a fresh snapshot is published.
THEOREM ReadsAreNeeded == Spec => []NoRedundantRead
<1>1. IndInv => NoRedundantRead
  BY DEF IndInv, CacheInv
<1> QED
  BY <1>1, Inductive, PTL

\* A snapshot in service is the result of the last category read.
THEOREM CacheIsLastRead == Spec => []CacheMatchesLastRead
<1>1. IndInv => CacheMatchesLastRead
  BY DEF IndInv, CacheInv
<1> QED
  BY <1>1, Inductive, PTL

\* A read in which every tuner failed never becomes an empty category list.
THEOREM FailuresAreNotServed == Spec => []NoFailureServed
<1>1. IndInv => NoFailureServed
  BY DEF IndInv, CacheInv
<1> QED
  BY <1>1, Inductive, PTL

\* Diagnostics that do not say "unavailable" are those of the last read.
THEOREM DiagnosticsAreHonest == Spec => []HealthyDiagnosticsAreCurrent
<1>1. IndInv => HealthyDiagnosticsAreCurrent
  BY DEF IndInv, CacheInv
<1> QED
  BY <1>1, Inductive, PTL

\* A request is given the cached snapshot or the one it built.
LEMMA HeldStep ==
  ASSUME TypeOK, NEW r \in Requests, Send(r) \/ Cancel(r) \/ Serve(r)
  PROVE  \/ held'[r] \in {held[r], None}
         \/ Fresh /\ held'[r] = snapshot
         \/ held'[r] = Built(job[r])
<1> USE DEF Reject, Finish, Obtain, TypeOK
<1>1. CASE Send(r) \/ Cancel(r) \/ Resolve(r) \/ Lookup(r) \/ AbandonWait(r)
           \/ Acquire(r) \/ Recheck(r)
  BY <1>1 DEF Send, Cancel, Resolve, Lookup, AbandonWait, Acquire, Recheck
<1>2. CASE ReadNativeChannels(r) \/ ReadTuner(r) \/ FinishTuners(r) \/ Store(r) \/ Release(r)
  BY <1>2 DEF ReadNativeChannels, ReadTuner, FinishTuners, Store, Release
<1>3. CASE PreCheck(r) \/ View(r) \/ FilterPage(r) \/ Confirm(r)
  BY <1>3 DEF PreCheck, View, FilterPage, Confirm, StoppedByPolicy, NativeFails
<1>4. CASE MarkUnavailable(r) \/ Invalidate(r)
  BY <1>4 DEF MarkUnavailable, Invalidate
<1> QED
  BY <1>1, <1>2, <1>3, <1>4 DEF Serve

\* A snapshot is handed to a request only within its time to live.
LEMMA WithinTtlStep ==
  ASSUME IndInv, [Next]_vars, NEW r \in Requests, held'[r] # held[r], held'[r] # None
  PROVE  now - held'[r].generatedAt <
           (IF held'[r].partial > 0 THEN DegradedCacheDuration ELSE CacheDuration)
<1> USE DEF IndInv, TypeOK
<1>1. \/ Fresh /\ held'[r] = snapshot
      \/ held'[r] = Built(job[r])
  <2>1. PICK s \in Requests : Send(s) \/ Cancel(s) \/ Serve(s)
    BY DEF Next, Tick, ChangePolicy, vars, requestVars
  <2>2. s = r
    BY <2>1, OthersUntouched
  <2> QED
    BY <2>1, <2>2, HeldStep
<1>2. CASE Fresh /\ held'[r] = snapshot
  <2>1. /\ snapshot \in Snapshot
        /\ snapshot.expiresAt = snapshot.generatedAt + TtlOf(snapshot.partial)
        /\ now < snapshot.expiresAt
    BY <1>2 DEF CacheInv, SnapshotDated, Fresh
  <2> QED
    BY <1>2, <2>1, DurationAssumption DEF TtlOf, Snapshot
<1>3. CASE held'[r] = Built(job[r])
  BY <1>3, DurationAssumption DEF Built, Job
<1> QED
  BY <1>1, <1>2, <1>3

THEOREM FreshnessSafe == Spec => ServedWithinTtl
<1>1. IndInv /\ [Next]_vars =>
        [\A r \in Requests :
            held'[r] # held[r] /\ held'[r] # None =>
                now - held'[r].generatedAt <
                    (IF held'[r].partial > 0 THEN DegradedCacheDuration ELSE CacheDuration)]_vars
  BY WithinTtlStep
<1> QED
  BY <1>1, Inductive, PTL DEF Spec, ServedWithinTtl

\* What a 200 shows, its user was allowed since the snapshot was obtained.
LEMMA CurrentVisibilityStep ==
  ASSUME IndInv, [Next]_vars, NEW r \in Requests, Active(r), answer'[r].status = "200"
  PROVE  /\ since[r].granted
         /\ answer'[r].counted \cup answer'[r].items \subseteq since[r].channels
<1>1. UserKnown(r) /\ SinceIsCurrent(r) /\ AnswerPending(r)
  BY DEF IndInv, VisibilityInv
<1>2. answer'[r] # answer[r]
  BY <1>1 DEF AnswerPending
<1>3. PICK s \in Requests : Send(s) \/ Cancel(s) \/ Serve(s)
  BY <1>2 DEF Next, Tick, ChangePolicy, vars, requestVars
<1>4. s = r
  BY <1>2, <1>3, OthersUntouched DEF IndInv
<1>5. \/ /\ pc[r] = "view" /\ NativeReadable(r)
         /\ answer'[r] = [status |-> "200", counted |-> Projection(r), items |-> {}]
      \/ /\ pc[r] = "confirm" /\ NativeReadable(r)
         /\ answer'[r] = [status |-> "200", counted |-> answer[r].counted,
                          items |-> answer[r].items]
  BY <1>1, <1>3, <1>4, AnswerStep DEF IndInv
<1> QED
  BY <1>1, <1>5 DEF SinceIsCurrent, HoldsSnapshot, Projecting, NativeReadable, Projection

THEOREM VisibilitySafe == Spec => CurrentVisibility
<1>1. IndInv /\ [Next]_vars =>
        [\A r \in Requests : Active(r) /\ answer'[r].status = "200" =>
            /\ since[r].granted
            /\ answer'[r].counted \cup answer'[r].items \subseteq since[r].channels]_vars
  BY CurrentVisibilityStep
<1> QED
  BY <1>1, Inductive, PTL DEF Spec, CurrentVisibility

-----------------------------------------------------------------------------
(* The refinement.  IndInv says what a request that projects a snapshot    *)
(* has in hand; here it is joined by the converse, a request that does not *)
(* project one holds none.                                                 *)

\* An exception waits for the finally block only, and a request has a
\* snapshot only where it has one to return or to project.
BasisExact ==
    \A r \in Requests :
        /\ pc[r] # "release" => raised[r] = "none"
        /\ ~HoldsSnapshot(r) => held[r] = None

LEMMA BasisStep ==
  ASSUME TypeOK, BasisExact, NEW r \in Requests, Send(r) \/ Cancel(r) \/ Serve(r)
  PROVE  /\ pc'[r] # "release" => raised'[r] = "none"
         /\ ~HoldsSnapshot(r)' => held'[r] = None
<1>1. /\ pc[r] # "release" => raised[r] = "none"
      /\ pc[r] \notin Projecting /\ ~(pc[r] = "release" /\ raised[r] = "none")
            => held[r] = None
  BY DEF BasisExact, HoldsSnapshot
<1> USE <1>1 DEF At, GoTo, Reject, Finish, TypeOK, HoldsSnapshot, Projecting
<1>2. CASE Send(r) \/ Cancel(r) \/ Resolve(r) \/ AbandonWait(r) \/ Acquire(r)
  BY <1>2 DEF Send, Cancel, Resolve, AbandonWait, Acquire
<1>3. CASE Lookup(r) \/ Recheck(r) \/ Store(r)
  BY <1>3 DEF Lookup, Recheck, Store, Obtain, RaiseUnderLock
<1>4. CASE ReadNativeChannels(r) \/ ReadTuner(r) \/ FinishTuners(r) \/ Release(r)
  BY <1>4 DEF ReadNativeChannels, ReadTuner, FinishTuners, Release, RaiseUnderLock
<1>5. CASE PreCheck(r) \/ View(r) \/ FilterPage(r) \/ Confirm(r)
  BY <1>5 DEF PreCheck, View, FilterPage, Confirm, StoppedByPolicy, NativeFails
<1>6. CASE MarkUnavailable(r) \/ Invalidate(r)
  BY <1>6 DEF MarkUnavailable, Invalidate
<1> QED
  BY <1>2, <1>3, <1>4, <1>5, <1>6 DEF Serve

LEMMA BasisInductive == Spec => []BasisExact
<1>1. Init => BasisExact
  BY DEF Init, BasisExact, HoldsSnapshot, Projecting
<1>2. TypeOK /\ BasisExact /\ [Next]_vars => BasisExact'
  <2> SUFFICES ASSUME TypeOK, BasisExact, [Next]_vars
               PROVE  BasisExact'
    OBVIOUS
  <2>1. CASE Tick \/ (\E u \in Users : ChangePolicy(u)) \/ UNCHANGED vars
    BY <2>1 DEF Tick, ChangePolicy, vars, requestVars, BasisExact, HoldsSnapshot
  <2>2. ASSUME NEW r \in Requests, Send(r) \/ Cancel(r) \/ Serve(r)
        PROVE  BasisExact'
    <3>1. \A s \in Requests \ {r} :
            pc'[s] = pc[s] /\ raised'[s] = raised[s] /\ held'[s] = held[s]
      BY <2>2, OthersUntouched
    <3> QED
      BY <2>2, <3>1, BasisStep DEF BasisExact, HoldsSnapshot
  <2> QED
    BY <2>1, <2>2 DEF Next
<1>3. IndInv => TypeOK
  BY DEF IndInv
<1> QED
  BY <1>1, <1>2, <1>3, Inductive, PTL DEF Spec

-----------------------------------------------------------------------------
(* How the mapping moves.                                                  *)

\* A step of one request changes what is mapped of that request only.
LEMMA MappedStep ==
  ASSUME TypeOK, NEW r \in Requests, Send(r) \/ Cancel(r) \/ Serve(r)
  PROVE  /\ Phases' = [Phases EXCEPT ![r] = PhaseOf(pc'[r])]
         /\ Drafts' = [Drafts EXCEPT ![r] =
                          IF pc'[r] = "confirm" THEN answer'[r].items ELSE {}]
         /\ Answers' = [Answers EXCEPT ![r] = IF pc'[r] = "done" THEN answer'[r] ELSE NoAnswer]
<1>1. \A s \in Requests \ {r} : pc'[s] = pc[s] /\ answer'[s] = answer[s]
  BY OthersUntouched
<1> QED
  BY <1>1 DEF Phases, Drafts, Answers

\* Nothing of the service moves while the request stays within one phase.
LEMMA HiddenStep ==
  ASSUME TypeOK, NEW r \in Requests, Send(r) \/ Cancel(r) \/ Serve(r),
         UNCHANGED <<now, access, visible, snapshot, call, held, page, answer>>,
         PhaseOf(pc'[r]) = PhaseOf(pc[r])
  PROVE  UNCHANGED Service!vars
<1>1. (pc'[r] = "confirm" <=> pc[r] = "confirm") /\ (pc'[r] = "done" <=> pc[r] = "done")
  BY DEF PhaseOf
<1>2. Phases' = Phases
  BY MappedStep DEF Phases
<1>3. Drafts' = Drafts
  BY <1>1, MappedStep DEF Drafts
<1>4. Answers' = Answers
  BY <1>1, MappedStep DEF Answers
<1> QED
  BY <1>2, <1>3, <1>4 DEF Service!vars, Service!envVars, Service!requestVars

\* A response of the code is one of the service.
LEMMA FinishMapped ==
  ASSUME TypeOK, NEW r \in Requests, Serve(r), pc[r] \notin {"idle", "done"},
         NEW status, NEW counted, NEW items, Finish(r, status, counted, items),
         UNCHANGED <<now, access, visible>>
  PROVE  Service!Finish(r, status, counted, items)
<1>1. pc'[r] = "done"
      /\ answer'[r] = [status |-> status, counted |-> counted, items |-> items]
  BY DEF Finish, GoTo, TypeOK
<1>2. /\ Phases' = [Phases EXCEPT ![r] = "done"]
      /\ Drafts' = [Drafts EXCEPT ![r] = {}]
      /\ Answers' = [Answers EXCEPT ![r] =
                        [status |-> status, counted |-> counted, items |-> items]]
  BY <1>1, MappedStep DEF PhaseOf
<1>3. Phases[r] \notin {"idle", "done"}
  BY DEF Phases, PhaseOf
<1> QED
  BY <1>2, <1>3 DEF Service!Finish, Finish, NoCall, Service!NoCall, Service!envVars

\* The user of a request that is being served has an account or has lost it.
LEMMA SameUser ==
  ASSUME NEW r \in Requests
  PROVE  /\ Service!UserOf(r) = UserOf(r)
         /\ UserOf(r) \in Users => Service!Account(r) = access[UserOf(r)]
  BY DEF Service!UserOf, UserOf, Service!Account

\* A refusal that the code gives, the service gives.
LEMMA RefuseMapped ==
  ASSUME TypeOK, NEW r \in Requests, Serve(r), pc[r] \notin {"idle", "done"},
         NEW status \in {"400", "401", "403", "404", "cancelled"},
         Reject(r, status), Service!Reason(r, status),
         UNCHANGED <<now, access, visible, snapshot>>
  PROVE  Service!Refuse(r)
<1>1. Service!Finish(r, status, {}, {})
  BY FinishMapped DEF Reject
<1> QED
  BY <1>1 DEF Service!Refuse

LEMMA StoppedMapped ==
  ASSUME TypeOK, NEW r \in Requests, Serve(r), pc[r] \notin {"idle", "done"},
         UserOf(r) \in Users, StoppedByPolicy(r)
  PROVE  Service!Refuse(r)
<1>1. UNCHANGED <<now, access, visible, snapshot>>
  BY DEF StoppedByPolicy, envVars, cacheVars
<1>2. CASE Reject(r, "cancelled")
  BY <1>1, <1>2, RefuseMapped DEF Service!Reason
<1>3. CASE access[UserOf(r)] # "granted" /\ Reject(r, "403")
  <2>1. Service!Reason(r, "403")
    BY <1>3, SameUser DEF Service!Reason, Service!MayWatch
  <2> QED
    BY <1>1, <1>3, <2>1, RefuseMapped
<1> QED
  BY <1>2, <1>3 DEF StoppedByPolicy

LEMMA NativeFailsMapped ==
  ASSUME TypeOK, NEW r \in Requests, Serve(r), NativeFails(r),
         pc[r] \in {"precheck", "view", "page", "confirm"}
  PROVE  Service!GiveUp(r)
<1>1. /\ pc'[r] = "failed"
      /\ held' = [held EXCEPT ![r] = None]
      /\ page' = [page EXCEPT ![r] = {}]
      /\ UNCHANGED <<now, access, visible, snapshot, call, answer>>
  BY DEF NativeFails, GoTo, TypeOK, envVars, cacheVars
<1>2. /\ Phases' = [Phases EXCEPT ![r] = "asked"]
      /\ Drafts' = [Drafts EXCEPT ![r] = {}]
      /\ Answers' = [Answers EXCEPT ![r] = NoAnswer]
  BY <1>1, MappedStep DEF PhaseOf
<1>3. Answers[r] = NoAnswer /\ Phases[r] \in {"asked", "paged", "filled"}
  BY DEF Answers, Phases, PhaseOf
<1>4. Answers' = Answers
  BY <1>2, <1>3 DEF Answers
<1> QED
  BY <1>1, <1>2, <1>3, <1>4 DEF Service!GiveUp, Service!envVars

-----------------------------------------------------------------------------
(* The steps of a request.                                                 *)

LEMMA SendMapped ==
  ASSUME TypeOK, NEW r \in Requests, Send(r)
  PROVE  Service!Ask(r)
<1>1. pc[r] \in {"idle", "done"} /\ pc'[r] = "resolve"
      /\ answer' = [answer EXCEPT ![r] = NoAnswer]
  BY DEF Send, GoTo, TypeOK
<1>2. /\ Phases' = [Phases EXCEPT ![r] = "asked"]
      /\ Drafts' = [Drafts EXCEPT ![r] = {}]
      /\ Answers' = [Answers EXCEPT ![r] = NoAnswer]
  BY <1>1, MappedStep DEF PhaseOf
<1>3. Phases[r] \in {"idle", "done"} /\ Drafts' = Drafts
  BY <1>1, <1>2 DEF Phases, Drafts, PhaseOf
<1> QED
  BY <1>2, <1>3 DEF Send, Service!Ask, Service!NoAnswer, NoAnswer, envVars, cacheVars,
                    Service!envVars

LEMMA ResolveMapped ==
  ASSUME TypeOK, NEW r \in Requests, Resolve(r)
  PROVE  Service!Refuse(r) \/ UNCHANGED Service!vars
<1>1. Serve(r) /\ pc[r] = "resolve" /\ UNCHANGED <<now, access, visible, snapshot>>
  BY DEF Serve, Resolve, At, envVars, cacheVars
<1>2. Resolution(call[r]) = "resolved" => UserOf(r) \in Users
  BY CallsKnown DEF Resolution, UserOf, TypeOK, CallType, Auth, NoCall
<1>3. CASE Resolution(call[r]) # "resolved" /\ Reject(r, Resolution(call[r]))
  <2>1. Service!Reason(r, Resolution(call[r]))
    BY <1>3 DEF Resolution, Service!Reason, Service!Malformed, Service!Foreign
  <2> QED
    BY <1>1, <1>3, <2>1, ResolutionTyped, RefuseMapped
<1>4. CASE /\ Resolution(call[r]) = "resolved"
           /\ access[UserOf(r)] # "granted"
           /\ Reject(r, PolicyAnswer[access[UserOf(r)]])
  <2>1. access[UserOf(r)] \in {"denied", "missing"}
    BY <1>2, <1>4 DEF TypeOK, Access
  <2>2. PolicyAnswer[access[UserOf(r)]] \in {"403", "404"}
        /\ Service!Reason(r, PolicyAnswer[access[UserOf(r)]])
    BY <1>2, <1>4, <2>1, SameUser DEF PolicyAnswer, Service!Reason, Service!MayWatch
  <2> QED
    BY <1>1, <1>4, <2>2, RefuseMapped
<1>5. CASE ~call[r].validPaging /\ Reject(r, "400")
  BY <1>1, <1>5, RefuseMapped DEF Service!Reason, Service!Malformed
<1>6. CASE /\ GoTo(r, "precheck")
           /\ UNCHANGED <<call, cancelled, held, raised, previous, page, answer, since>>
  BY <1>1, <1>6, HiddenStep DEF GoTo, PhaseOf, TypeOK
<1> QED
  BY <1>3, <1>4, <1>5, <1>6 DEF Resolve

\* A request that gets a snapshot takes it as its basis.
LEMMA UseMapped ==
  ASSUME TypeOK, BasisExact, NEW r \in Requests, Serve(r),
         pc[r] \in {"lookup", "recheck", "store"}, pc'[r] \in {"view", "release"},
         NEW s, held' = [held EXCEPT ![r] = s],
         UNCHANGED <<now, access, visible, call, page, answer>>
  PROVE  Service!Use(r, s)
<1>1. /\ Phases' = [Phases EXCEPT ![r] = "asked"]
      /\ Drafts' = [Drafts EXCEPT ![r] = {}]
      /\ Answers' = [Answers EXCEPT ![r] = NoAnswer]
  BY MappedStep DEF PhaseOf
<1>2. Phases[r] = "asked" /\ Phases' = Phases /\ Drafts' = Drafts /\ Answers' = Answers
  BY <1>1 DEF Phases, Drafts, Answers, PhaseOf
<1>3. held[r] = None
  BY DEF BasisExact, HoldsSnapshot, Projecting
<1> QED
  BY <1>2, <1>3 DEF Service!Use, Service!envVars

LEMMA CachedMapped ==
  ASSUME TypeOK, BasisExact, NEW r \in Requests, Lookup(r) \/ Recheck(r)
  PROVE  Service!TakeCurrent(r) \/ UNCHANGED Service!vars
<1>1. /\ Serve(r) /\ pc[r] \in {"lookup", "recheck"}
      /\ UNCHANGED <<now, access, visible, snapshot, call, page, answer>>
  BY DEF Serve, Lookup, Recheck, At, envVars, cacheVars
<1>2. CASE Fresh
  <2>1. held' = [held EXCEPT ![r] = snapshot] /\ pc'[r] \in {"view", "release"}
    BY <1>2 DEF Lookup, Recheck, Obtain, GoTo, TypeOK
  <2>2. Service!Use(r, snapshot)
    BY <1>1, <2>1, UseMapped
  <2> QED
    BY <1>1, <1>2, <2>2 DEF Service!TakeCurrent, Service!Fresh, Fresh
<1>3. CASE ~Fresh
  <2>1. held' = held /\ pc'[r] \in {"wait", "native"}
    BY <1>3 DEF Lookup, Recheck, GoTo, TypeOK
  <2> QED
    BY <1>1, <2>1, HiddenStep DEF PhaseOf
<1> QED
  BY <1>2, <1>3

\* Under the lock, nothing but Store is seen from outside.
LEMMA BuildMapped ==
  ASSUME TypeOK, NEW r \in Requests,
         Acquire(r) \/ ReadNativeChannels(r) \/ ReadTuner(r) \/ FinishTuners(r)
  PROVE  UNCHANGED Service!vars
<1>1. /\ Serve(r)
      /\ UNCHANGED <<now, access, visible, snapshot, call, held, page, answer>>
  BY DEF Serve, Acquire, ReadNativeChannels, ReadTuner, FinishTuners, Report, envVars, cacheVars
<1>2. pc[r] \in {"wait", "native", "tuners"}
      /\ pc'[r] \in {"recheck", "tuners", "store", "release"}
  BY DEF Acquire, ReadNativeChannels, ReadTuner, FinishTuners, RaiseUnderLock, At, GoTo, TypeOK
<1> QED
  BY <1>1, <1>2, HiddenStep DEF PhaseOf

LEMMA StoreMapped ==
  ASSUME IndInv, BasisExact, NEW r \in Requests, Store(r)
  PROVE  Service!ReadSnapshot(r) \/ UNCHANGED Service!vars
<1>1. TypeOK /\ Serve(r) /\ pc[r] = "store"
      /\ UNCHANGED <<now, access, visible, call, page, answer>>
  BY DEF IndInv, Serve, Store, At, envVars
<1>2. CASE RaiseUnderLock(r, "cancelled") /\ UNCHANGED <<snapshot, held, since>>
  BY <1>1, <1>2, HiddenStep DEF RaiseUnderLock, GoTo, PhaseOf, TypeOK
<1>3. CASE /\ snapshot' = Built(job[r])
           /\ Obtain(r, Built(job[r]))
           /\ GoTo(r, "release")
  <2>1. held' = [held EXCEPT ![r] = snapshot'] /\ pc'[r] = "release"
    BY <1>1, <1>3 DEF Obtain, GoTo, TypeOK
  <2>2. Service!Use(r, snapshot')
    BY <1>1, <2>1, UseMapped
  <2>3. ~Service!Fresh
    BY <1>1 DEF IndInv, CacheInv, NoRedundantRead, Building, Fresh, Service!Fresh
  <2>4. ~AllFailed(job[r]) /\ job[r] \in Job
    BY <1>1 DEF IndInv, CacheInv, StoreReported, TypeOK
  <2>5. Built(job[r]) \in Snapshot
    BY <1>1, <2>4, DurationAssumption DEF Built, Snapshot, TtlOf, TypeOK, Job
  <2>6. snapshot' # None
    BY <1>3, <2>5, NoneAssumption
  <2>7. Service!Readable(snapshot')
    BY <1>3, <2>4 DEF Service!Readable, Built, TtlOf, AllFailed, Job
  <2> QED
    BY <2>2, <2>3, <2>6, <2>7 DEF Service!ReadSnapshot
<1> QED
  BY <1>2, <1>3 DEF Store

LEMMA LeaveMapped ==
  ASSUME TypeOK, NEW r \in Requests, AbandonWait(r) \/ Release(r)
  PROVE  Service!Refuse(r) \/ UNCHANGED Service!vars
<1>1. /\ Serve(r) /\ pc[r] \in {"wait", "release"}
      /\ UNCHANGED <<now, access, visible, snapshot>>
  BY DEF Serve, AbandonWait, Release, At, envVars, cacheVars
<1>2. CASE Reject(r, "cancelled")
  BY <1>1, <1>2, RefuseMapped DEF Service!Reason
<1>3. CASE /\ pc[r] = "release" /\ pc'[r] \in {"view", "invalidate"}
           /\ UNCHANGED <<call, held, page, answer>>
  BY <1>1, <1>3, HiddenStep DEF PhaseOf
<1> QED
  BY <1>2, <1>3 DEF AbandonWait, Release, At, GoTo, TypeOK

-----------------------------------------------------------------------------
(* What a request answers.                                                 *)

LEMMA PreCheckMapped ==
  ASSUME TypeOK, NEW r \in Requests, UserKnown(r), PreCheck(r)
  PROVE  Service!Refuse(r) \/ Service!GiveUp(r) \/ UNCHANGED Service!vars
<1>1. Serve(r) /\ pc[r] = "precheck" /\ UserOf(r) \in Users
  BY DEF Serve, PreCheck, At, UserKnown
<1>2. CASE GoTo(r, "lookup")
           /\ UNCHANGED <<now, envVars, cacheVars, call, cancelled, held, job,
                          raised, previous, page, answer, since>>
  BY <1>1, <1>2, HiddenStep DEF GoTo, PhaseOf, TypeOK, envVars, cacheVars
<1> QED
  BY <1>1, <1>2, StoppedMapped, NativeFailsMapped DEF PreCheck

LEMMA ViewMapped ==
  ASSUME TypeOK, HeldWhenProjecting, NEW r \in Requests, UserKnown(r), View(r)
  PROVE  Service!Refuse(r) \/ Service!GiveUp(r) \/ Service!List(r) \/ Service!ChoosePage(r)
<1>1. /\ Serve(r) /\ pc[r] = "view" /\ UserOf(r) \in Users
      /\ held[r] \in Snapshot /\ held[r] # None
  BY NoneAssumption DEF Serve, View, At, UserKnown, HeldWhenProjecting, HoldsSnapshot, Projecting
<1>2. CASE StoppedByPolicy(r) \/ NativeFails(r)
  BY <1>1, <1>2, StoppedMapped, NativeFailsMapped
<1> DEFINE asked == Projection(r) \cap InCategory(call[r].category)
<1>3. /\ Service!Projected(r) = Projection(r)
      /\ Service!InCategory(r) = asked
  BY <1>1, SameUser
  DEF Service!Projected, Service!InCategory, Projection, InCategory, Snapshot
<1>4. Phases[r] = "asked" /\ (NativeReadable(r) => Service!MayWatch(r))
  BY <1>1, SameUser DEF Phases, PhaseOf, NativeReadable, Service!MayWatch
<1>5. CASE /\ NativeReadable(r) /\ call[r].category = None
           /\ Finish(r, "200", Projection(r), {})
           /\ UNCHANGED <<now, envVars, cacheVars, job>>
  <2>1. Service!Finish(r, "200", Projection(r), {})
    BY <1>1, <1>5, FinishMapped DEF envVars
  <2> QED
    BY <1>1, <1>3, <1>4, <1>5, <2>1 DEF Service!List, cacheVars
<1>6. CASE /\ NativeReadable(r) /\ call[r].category # None /\ asked = {}
           /\ Reject(r, "404")
           /\ UNCHANGED <<now, envVars, cacheVars, job>>
  <2>1. Service!Reason(r, "404")
    BY <1>1, <1>3, <1>6 DEF Service!Reason, Service!NothingLeft
  <2> QED
    BY <1>1, <1>6, <2>1, RefuseMapped DEF envVars, cacheVars
<1>7. CASE /\ NativeReadable(r) /\ call[r].category # None /\ asked # {}
           /\ page' = [page EXCEPT ![r] = asked]
           /\ GoTo(r, "page")
           /\ UNCHANGED <<call, cancelled, held, raised, previous, answer, since>>
           /\ UNCHANGED <<now, envVars, cacheVars, job>>
  <2>1. pc'[r] = "page"
    BY <1>7 DEF GoTo, TypeOK
  <2>2. /\ Phases' = [Phases EXCEPT ![r] = "paged"]
        /\ Drafts' = [Drafts EXCEPT ![r] = {}]
        /\ Answers' = [Answers EXCEPT ![r] = NoAnswer]
    BY <1>1, <2>1, MappedStep DEF PhaseOf
  <2>3. Drafts' = Drafts /\ Answers' = Answers
    BY <1>1, <2>2 DEF Drafts, Answers
  <2> QED
    BY <1>1, <1>3, <1>4, <1>7, <2>2, <2>3
    DEF Service!ChoosePage, Service!envVars, envVars, cacheVars
<1> QED
  BY <1>2, <1>5, <1>6, <1>7 DEF View

LEMMA FilterMapped ==
  ASSUME TypeOK, NEW r \in Requests, UserKnown(r), FilterPage(r)
  PROVE  Service!Refuse(r) \/ Service!GiveUp(r) \/ Service!FillPage(r)
<1>1. Serve(r) /\ pc[r] = "page" /\ UserOf(r) \in Users
  BY DEF Serve, FilterPage, At, UserKnown
<1>2. CASE StoppedByPolicy(r) \/ NativeFails(r)
  BY <1>1, <1>2, StoppedMapped, NativeFailsMapped
<1>3. CASE /\ NativeReadable(r)
           /\ answer' = [answer EXCEPT ![r] =
                           [status |-> "pending", counted |-> page[r],
                            items |-> page[r] \cap visible[UserOf(r)]]]
           /\ GoTo(r, "confirm")
           /\ UNCHANGED <<now, envVars, cacheVars, call, held, page>>
  <2>1. pc'[r] = "confirm" /\ answer'[r].items = page[r] \cap visible[UserOf(r)]
    BY <1>3 DEF GoTo, TypeOK
  <2>2. /\ Phases' = [Phases EXCEPT ![r] = "filled"]
        /\ Drafts' = [Drafts EXCEPT ![r] = page[r] \cap visible[UserOf(r)]]
        /\ Answers' = [Answers EXCEPT ![r] = NoAnswer]
    BY <1>1, <2>1, MappedStep DEF PhaseOf
  <2>3. Answers' = Answers /\ Phases[r] = "paged" /\ Service!MayWatch(r)
    BY <1>1, <1>3, <2>2, SameUser
    DEF Answers, Phases, PhaseOf, NativeReadable, Service!MayWatch
  <2> QED
    BY <1>3, <2>2, <2>3, SameUser
    DEF Service!FillPage, Service!envVars, envVars, cacheVars
<1> QED
  BY <1>2, <1>3 DEF FilterPage

LEMMA ConfirmMapped ==
  ASSUME TypeOK, NEW r \in Requests, UserKnown(r), SinceIsCurrent(r), Confirm(r)
  PROVE  Service!Refuse(r) \/ Service!GiveUp(r) \/ Service!Deliver(r)
<1>1. Serve(r) /\ pc[r] = "confirm" /\ UserOf(r) \in Users
  BY DEF Serve, Confirm, At, UserKnown
<1>2. CASE StoppedByPolicy(r) \/ NativeFails(r)
  BY <1>1, <1>2, StoppedMapped, NativeFailsMapped
<1>3. CASE /\ NativeReadable(r)
           /\ Finish(r, "200", answer[r].counted, answer[r].items)
           /\ UNCHANGED <<now, envVars, cacheVars, job>>
  <2>1. Service!Finish(r, "200", answer[r].counted, answer[r].items)
    BY <1>1, <1>3, FinishMapped DEF envVars
  <2>2. answer[r].counted = page[r] /\ answer[r].items = Drafts[r]
    BY <1>1 DEF SinceIsCurrent, HoldsSnapshot, Projecting, Drafts
  <2>3. Phases[r] = "filled" /\ Service!MayWatch(r)
    BY <1>1, <1>3, SameUser DEF Phases, PhaseOf, NativeReadable, Service!MayWatch
  <2> QED
    BY <1>3, <2>1, <2>2, <2>3 DEF Service!Deliver, cacheVars
<1> QED
  BY <1>2, <1>3 DEF Confirm

LEMMA FailureMapped ==
  ASSUME TypeOK, BasisExact, NEW r \in Requests, MarkUnavailable(r) \/ Invalidate(r)
  PROVE  Service!Withdraw(r) \/ UNCHANGED Service!vars
<1>1. Serve(r)
  BY DEF Serve
<1>2. CASE MarkUnavailable(r)
  <2>1. pc[r] = "failed" /\ pc'[r] = "invalidate"
        /\ UNCHANGED <<now, access, visible, snapshot, call, held, page, answer>>
    BY <1>2 DEF MarkUnavailable, At, GoTo, TypeOK, envVars
  <2> QED
    BY <1>1, <2>1, HiddenStep DEF PhaseOf
<1>3. CASE Invalidate(r)
  <2>1. /\ pc[r] = "invalidate" /\ snapshot' = None
        /\ Finish(r, "503", {}, {})
        /\ UNCHANGED <<now, access, visible>>
    BY <1>3 DEF Invalidate, At, Reject, envVars
  <2>2. Service!Finish(r, "503", {}, {})
    BY <1>1, <2>1, FinishMapped
  <2>3. held[r] = None
    BY <2>1 DEF BasisExact, HoldsSnapshot, Projecting
  <2> QED
    BY <2>1, <2>2, <2>3 DEF Service!Withdraw
<1> QED
  BY <1>2, <1>3

-----------------------------------------------------------------------------
LEMMA InitMapped == Init => Service!Init
  BY DEF Init, Service!Init, Phases, Drafts, Answers, PhaseOf, NoAnswer, Service!NoAnswer,
         NoCall, Service!NoCall

LEMMA StepMapped == IndInv /\ BasisExact /\ [Next]_vars => [Service!Next]_Service!vars
<1> SUFFICES ASSUME IndInv, BasisExact, [Next]_vars
             PROVE  [Service!Next]_Service!vars
  OBVIOUS
<1>0. TypeOK /\ HeldWhenProjecting
      /\ \A r \in Requests : UserKnown(r) /\ SinceIsCurrent(r)
  BY DEF IndInv, VisibilityInv
<1>1. CASE UNCHANGED vars
  BY <1>1 DEF vars, envVars, cacheVars, requestVars, Phases, Drafts, Answers,
              Service!vars, Service!envVars, Service!requestVars
<1>2. CASE Tick
  <2>1. Service!Tick
    BY <1>2 DEF Tick, envVars, cacheVars, requestVars, Phases, Drafts, Answers,
                Service!Tick, Service!requestVars
  <2> QED
    BY <2>1 DEF Service!Next
<1>3. ASSUME NEW u \in Users, ChangePolicy(u)
      PROVE  [Service!Next]_Service!vars
  <2>1. UNCHANGED <<now, snapshot, Phases, call, held, page, Drafts, Answers>>
    BY <1>3 DEF ChangePolicy, cacheVars, Phases, Drafts, Answers
  <2>2. \/ /\ \E a \in Access : access' = [access EXCEPT ![u] = a]
           /\ visible' = visible
        \/ /\ \E V \in SUBSET Channels : visible' = [visible EXCEPT ![u] = V]
           /\ access' = access
    BY <1>3 DEF ChangePolicy
  <2>3. Service!ChangePolicy(u)
    BY <2>1, <2>2 DEF Service!ChangePolicy, Service!requestVars, Access
  <2> QED
    BY <2>3 DEF Service!Next
<1>4. ASSUME NEW r \in Requests, Cancel(r)
      PROVE  UNCHANGED Service!vars
  BY <1>4 DEF Cancel, envVars, cacheVars, Phases, Drafts, Answers, Service!vars,
              Service!envVars, Service!requestVars
<1>5. ASSUME NEW r \in Requests, Send(r)
      PROVE  Service!Ask(r)
  BY <1>0, <1>5, SendMapped
<1>6. ASSUME NEW r \in Requests, Serve(r)
      PROVE  Service!Serve(r) \/ UNCHANGED Service!vars
  <2>1. CASE Resolve(r) \/ PreCheck(r) \/ AbandonWait(r) \/ Release(r)
    BY <1>0, <2>1, ResolveMapped, PreCheckMapped, LeaveMapped DEF Service!Serve
  <2>2. CASE Lookup(r) \/ Recheck(r) \/ Store(r)
    BY <1>0, <2>2, CachedMapped, StoreMapped DEF Service!Serve
  <2>3. CASE Acquire(r) \/ ReadNativeChannels(r) \/ ReadTuner(r) \/ FinishTuners(r)
    BY <1>0, <2>3, BuildMapped
  <2>4. CASE View(r) \/ FilterPage(r) \/ Confirm(r)
    BY <1>0, <2>4, ViewMapped, FilterMapped, ConfirmMapped DEF Service!Serve
  <2>5. CASE MarkUnavailable(r) \/ Invalidate(r)
    BY <1>0, <2>5, FailureMapped DEF Service!Serve
  <2> QED
    BY <1>6, <2>1, <2>2, <2>3, <2>4, <2>5 DEF Serve
<1> QED
  BY <1>1, <1>2, <1>3, <1>4, <1>5, <1>6 DEF Next, Service!Next

\* Whatever the requests, the tuners, the clock and the administrator do,
\* the cache, the lock and the adapter are seen from outside as one current
\* snapshot that each request projects for its user.
THEOREM Implementation == Spec => ImplementsService
<1>1. Init => Service!Init
  BY InitMapped
<1>2. IndInv /\ BasisExact /\ [Next]_vars => [Service!Next]_Service!vars
  BY StepMapped
<1> QED
  BY <1>1, <1>2, Inductive, BasisInductive, PTL DEF Spec, ImplementsService, Service!Spec
=============================================================================
