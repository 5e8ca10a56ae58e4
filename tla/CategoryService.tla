-------------------------- MODULE CategoryService --------------------------
(***************************************************************************)
(* What the category API promises, without its cache, its lock, its tuner  *)
(* reads and the threads that serve the requests.                          *)
(*                                                                         *)
(* One snapshot of the channels is current at a time.  A request takes it  *)
(* as its basis while it is fresh, or replaces it, when it is not, by one  *)
(* dated now; everything the request answers is projected from its basis   *)
(* through what its user may see at that moment.  A request may be refused *)
(* at any point, with a status that says why.  CategoryIndex shows that    *)
(* the plugin's code does nothing else.                                    *)
(***************************************************************************)
EXTENDS Integers

CONSTANTS
    Requests, Users, Channels, Categories,
    CategoryOf,             \* the category of each channel
    Calls,                  \* the calls each request slot may carry
    CacheDuration,          \* how long a complete snapshot is fresh
    DegradedCacheDuration,  \* how long one that misses a tuner is fresh
    None

VARIABLES
    now,        \* the clock
    access,     \* whether each user may watch Live TV: granted, denied, missing
    visible,    \* the channels each user may see
    current,    \* the current snapshot
    phase,      \* where each request stands
    call,       \* what it asked for
    basis,      \* the snapshot it answers from
    page,       \* the channels it has been asked a page of
    draft,      \* the ones it is about to answer
    answer      \* its response

envVars == <<now, access, visible>>
requestVars == <<phase, call, basis, page, draft, answer>>
vars == <<envVars, current, requestVars>>

NoCall == [auth |-> "anonymous", caller |-> None, requested |-> None,
           category |-> None, validPaging |-> TRUE]
NoAnswer == [status |-> "pending", counted |-> {}, items |-> {}]

Init ==
    /\ now = 0
    /\ access \in [Users -> {"granted"}]
    /\ visible \in [Users -> {Channels}]
    /\ current = None
    /\ phase = [r \in Requests |-> "idle"]
    /\ call = [r \in Requests |-> NoCall]
    /\ basis = [r \in Requests |-> None]
    /\ page = [r \in Requests |-> {}]
    /\ draft = [r \in Requests |-> {}]
    /\ answer = [r \in Requests |-> NoAnswer]

-----------------------------------------------------------------------------
\* The account a request is answered for.
UserOf(r) == IF call[r].auth = "session" THEN call[r].caller ELSE call[r].requested

Account(r) == IF UserOf(r) \in Users THEN access[UserOf(r)] ELSE "none"

MayWatch(r) == Account(r) = "granted"

Fresh == current # None /\ now < current.expiresAt

\* What the request's user may see of its basis.
Projected(r) == basis[r].channels \cap visible[UserOf(r)]

InCategory(r) == {ch \in Projected(r) : CategoryOf[ch] = call[r].category}

\* A snapshot that is read now: fresh for as long as its completeness allows,
\* and never the empty result of a read in which everything failed.
Readable(s) ==
    /\ s.generatedAt = now
    /\ s.expiresAt = now + (IF s.partial > 0 THEN DegradedCacheDuration ELSE CacheDuration)
    /\ s.partial > 0 => s.healthy > 0

-----------------------------------------------------------------------------
(* The environment. *)

Tick ==
    /\ now' = now + 1
    /\ UNCHANGED <<access, visible, current, requestVars>>

ChangePolicy(u) ==
    /\ \/ /\ \E a \in {"granted", "denied", "missing"} : access' = [access EXCEPT ![u] = a]
          /\ UNCHANGED visible
       \/ /\ \E V \in SUBSET Channels : visible' = [visible EXCEPT ![u] = V]
          /\ UNCHANGED access
    /\ UNCHANGED <<now, current, requestVars>>

Ask(r) ==
    /\ phase[r] \in {"idle", "done"}
    /\ \E c \in Calls[r] : call' = [call EXCEPT ![r] = c]
    /\ phase' = [phase EXCEPT ![r] = "asked"]
    /\ answer' = [answer EXCEPT ![r] = NoAnswer]
    /\ UNCHANGED <<envVars, current, basis, page, draft>>

-----------------------------------------------------------------------------
(* The service. *)

\* The request takes snapshot s as its basis.
Use(r, s) ==
    /\ phase[r] = "asked"
    /\ basis[r] = None
    /\ basis' = [basis EXCEPT ![r] = s]
    /\ UNCHANGED <<envVars, phase, call, page, draft, answer>>

TakeCurrent(r) ==
    /\ Fresh
    /\ Use(r, current)
    /\ UNCHANGED current

\* A snapshot is read only if none that is fresh is there.
ReadSnapshot(r) ==
    /\ ~ Fresh
    /\ current' # None /\ Readable(current')
    /\ Use(r, current')

\* The end of a request: nothing of it remains but its response.
Finish(r, status, counted, items) ==
    /\ phase[r] \notin {"idle", "done"}
    /\ phase' = [phase EXCEPT ![r] = "done"]
    /\ answer' = [answer EXCEPT ![r] =
                    [status |-> status, counted |-> counted, items |-> items]]
    /\ call' = [call EXCEPT ![r] = NoCall]
    /\ basis' = [basis EXCEPT ![r] = None]
    /\ page' = [page EXCEPT ![r] = {}]
    /\ draft' = [draft EXCEPT ![r] = {}]
    /\ UNCHANGED envVars

Malformed(c) == (c.auth = "apiKey" /\ c.requested = None) \/ ~ c.validPaging

Foreign(c) == c.auth = "session" /\ c.requested \notin {None, c.caller}

\* The category asked for has nothing left for this user.
NothingLeft(r) == basis[r] # None /\ call[r].category # None /\ InCategory(r) = {}

\* What a refusal says is so: the call is wrong, the user may not, the
\* account or the category is not there.
Reason(r, status) ==
    \/ status = "400" /\ Malformed(call[r])
    \/ status = "401" /\ call[r].auth = "anonymous"
    \/ status = "403" /\ (Foreign(call[r]) \/ ~ MayWatch(r))
    \/ status = "404" /\ (Account(r) = "missing" \/ NothingLeft(r))
    \/ status = "cancelled"

Refuse(r) ==
    /\ \E status \in {"400", "401", "403", "404", "cancelled"} :
          Reason(r, status) /\ Finish(r, status, {}, {})
    /\ UNCHANGED current

\* Jellyfin or the tuners failed: the basis is given up, ...
GiveUp(r) ==
    /\ phase[r] \in {"asked", "paged", "filled"}
    /\ phase' = [phase EXCEPT ![r] = "asked"]
    /\ basis' = [basis EXCEPT ![r] = None]
    /\ page' = [page EXCEPT ![r] = {}]
    /\ draft' = [draft EXCEPT ![r] = {}]
    /\ UNCHANGED <<envVars, current, call, answer>>

\* ... and the current snapshot with the answer.
Withdraw(r) ==
    /\ Finish(r, "503", {}, {})
    /\ basis[r] = None
    /\ current' = None

\* The list of categories, counted for this user at this moment.
List(r) ==
    /\ phase[r] = "asked" /\ basis[r] # None
    /\ call[r].category = None
    /\ MayWatch(r)
    /\ Finish(r, "200", Projected(r), {})
    /\ UNCHANGED current

\* The category is there: its channels are those the page is cut from.
ChoosePage(r) ==
    /\ phase[r] = "asked" /\ basis[r] # None
    /\ call[r].category # None
    /\ InCategory(r) # {}
    /\ MayWatch(r)
    /\ phase' = [phase EXCEPT ![r] = "paged"]
    /\ page' = [page EXCEPT ![r] = InCategory(r)]
    /\ UNCHANGED <<envVars, current, call, basis, draft, answer>>

\* What the user may see of the page when its channels are read.
FillPage(r) ==
    /\ phase[r] = "paged"
    /\ MayWatch(r)
    /\ phase' = [phase EXCEPT ![r] = "filled"]
    /\ draft' = [draft EXCEPT ![r] = page[r] \cap visible[UserOf(r)]]
    /\ UNCHANGED <<envVars, current, call, basis, page, answer>>

Deliver(r) ==
    /\ phase[r] = "filled"
    /\ MayWatch(r)
    /\ Finish(r, "200", page[r], draft[r])
    /\ UNCHANGED current

Serve(r) ==
    \/ TakeCurrent(r) \/ ReadSnapshot(r)
    \/ Refuse(r) \/ GiveUp(r) \/ Withdraw(r)
    \/ List(r) \/ ChoosePage(r) \/ FillPage(r) \/ Deliver(r)

\* A step of what is hidden here: locks, tuners, threads.
Work == UNCHANGED vars

Next ==
    \/ Work
    \/ Tick
    \/ \E r \in Requests : Ask(r) \/ Serve(r)
    \/ \E u \in Users : ChangePolicy(u)

Spec == Init /\ [][Next]_vars

=============================================================================
