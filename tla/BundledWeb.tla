------------------------------ MODULE BundledWeb ------------------------------
(***************************************************************************)
(* Which web client a request gets (PluginWebClientStartupFilter), while   *)
(* an administrator changes the version override on the plugin's settings  *)
(* page (configPage.html) and files and server change underneath.          *)
(*                                                                         *)
(* The pipeline is built once, when the server starts; the saved setting   *)
(* and the presence of the files are looked up again by every request.     *)
(* The settings page may be left and shown again while its calls are on    *)
(* their way; each call is answered, refused or lost.  Logging, paths and  *)
(* cache headers are left out.                                             *)
(***************************************************************************)
EXTENDS FiniteSets

CONSTANTS
    Requests,           \* requests for files of the web client
    Calls               \* slots for the settings page's calls in flight

VARIABLES
    up,                 \* the server runs
    tested,             \* its version is one of supportedServerVersions
    manifest,           \* the plugin's compatibility declaration is valid
    installed,          \* the bundled branch is in the pipeline
    assets,             \* web/index.html is beside the plugin
    saved,              \* AllowUntestedServerVersions in the saved configuration
    request,            \* the requests
    fields,             \* the settings page's fields are enabled
    checked,            \* the override's check box
    message,            \* error or status of the settings page
    calls               \* the settings page's calls

serverVars == <<up, tested, manifest, installed>>
pageVars == <<fields, checked, message>>
vars == <<serverVars, assets, saved, request, pageVars, calls>>

Setting == {"on", "off"}

\* allowed is history: the bundled client might have been served at some
\* moment since the request arrived.
Request ==
    [point : {"idle", "evaluate", "serve", "done"}, enabled : BOOLEAN,
     client : {"none", "stock", "bundled"}, allowed : BOOLEAN]

Idle == [point |-> "idle", enabled |-> FALSE, client |-> "none", allowed |-> FALSE]

\* A load reads the setting ("get", "answer"); a save reads the configuration
\* ("get"), writes it ("put") and is confirmed ("answer").
Call ==
    [kind : {"load"}, point : {"get", "answer"}, value : Setting]
    \cup [kind : {"save"}, point : {"get", "put", "answer"}, value : Setting]
    \cup {[kind |-> "none"]}

NoCall == [kind |-> "none"]

Init ==
    /\ up = FALSE
    /\ tested \in BOOLEAN
    /\ manifest \in BOOLEAN
    /\ installed = FALSE
    /\ assets \in BOOLEAN
    /\ saved = "off"
    /\ request = [r \in Requests |-> Idle]
    /\ fields = FALSE
    /\ checked = "off"
    /\ message = "closed"
    /\ calls = [c \in Calls |-> NoCall]

-----------------------------------------------------------------------------
(* The web client. *)

CanServeBundledWeb == manifest /\ (saved = "on" \/ tested)

\* The outcome of an earlier request is reused.
EnabledOnce ==
    LET earlier == {r \in Requests : request[r].point = "done"}
    IN IF earlier = {} THEN assets /\ CanServeBundledWeb
       ELSE \E r \in earlier : request[r].enabled

\* GetCurrentBundledWebState(...).Enabled
Enabled == assets /\ CanServeBundledWeb

\* What a request in the pipeline is allowed to get, now or before.
RecordAllowed(requests, ok) ==
    [r \in Requests |->
        IF requests[r].point \in {"evaluate", "serve"}
        THEN [requests[r] EXCEPT !.allowed = @ \/ ok]
        ELSE requests[r]]

\* A request enters the pipeline.
Arrive(r) ==
    /\ up
    /\ request[r].point \in {"idle", "done"}
    /\ request' = RecordAllowed([request EXCEPT ![r] = [Idle EXCEPT !.point = "evaluate"]],
                                CanServeBundledWeb)
    /\ UNCHANGED <<serverVars, assets, saved, pageVars, calls>>

\* The predicate of UseWhen.
Evaluate(r) ==
    /\ request[r].point = "evaluate"
    /\ request' = [request EXCEPT ![r].point = "serve",
                                  ![r].enabled = installed /\ Enabled]
    /\ UNCHANGED <<serverVars, assets, saved, pageVars, calls>>

\* Static files pass a request on when there is no such file.
Serve(r) ==
    /\ request[r].point = "serve"
    /\ request' = [request EXCEPT
                      ![r].point = "done",
                      ![r].client = IF request[r].enabled /\ assets THEN "bundled" ELSE "stock"]
    /\ UNCHANGED <<serverVars, assets, saved, pageVars, calls>>

\* Configure; another version of the server or the plugin may be started.
Start ==
    /\ ~ up
    /\ up' = TRUE
    /\ tested' \in BOOLEAN
    /\ manifest' \in BOOLEAN
    /\ installed' = (manifest' /\ assets)
    /\ UNCHANGED <<assets, saved, request, pageVars, calls>>

Stop ==
    /\ up
    /\ up' = FALSE
    /\ request' = [r \in Requests |-> Idle]
    /\ UNCHANGED <<tested, manifest, installed, assets, saved, pageVars, calls>>

\* The plugin's directory is changed by hand or by an update.
ChangeAssets ==
    /\ assets' = ~ assets
    /\ UNCHANGED <<serverVars, saved, request, pageVars, calls>>

Saving(value) ==
    /\ saved' = value
    /\ request' = RecordAllowed(request, manifest /\ (value = "on" \/ tested))

\* Another administrator, or the file edited while the server is stopped.
ChangeSetting ==
    /\ \E value \in Setting \ {saved} : Saving(value)
    /\ UNCHANGED <<serverVars, assets, pageVars, calls>>

-----------------------------------------------------------------------------
(* The settings page. *)

Send(c, call) == calls[c] = NoCall /\ calls' = [calls EXCEPT ![c] = call]

\* pageshow
PageShow ==
    /\ \E c \in Calls : Send(c, [kind |-> "load", point |-> "get", value |-> checked])
    /\ message' = "none"
    /\ fields' = FALSE
    /\ UNCHANGED <<serverVars, assets, saved, request, checked>>

Check ==
    /\ fields
    /\ \E value \in Setting \ {checked} : checked' = value
    /\ UNCHANGED <<serverVars, assets, saved, request, fields, message, calls>>

Submit ==
    /\ fields
    /\ \E c \in Calls : Send(c, [kind |-> "save", point |-> "get", value |-> checked])
    /\ message' = "none"
    /\ fields' = FALSE
    /\ UNCHANGED <<serverVars, assets, saved, request, checked>>

\* What was read is shown, or becomes the configuration to write.
AfterGet(call) ==
    IF call.kind = "load" THEN [call EXCEPT !.point = "answer", !.value = saved]
    ELSE [call EXCEPT !.point = "put"]

\* getPluginConfiguration at the server
Get(c) ==
    /\ up
    /\ calls[c].kind # "none" /\ calls[c].point = "get"
    /\ calls' = [calls EXCEPT ![c] = AfterGet(calls[c])]
    /\ UNCHANGED <<serverVars, assets, saved, request, pageVars>>

\* updatePluginConfiguration at the server
Put(c) ==
    /\ up
    /\ calls[c].kind = "save" /\ calls[c].point = "put"
    /\ calls' = [calls EXCEPT ![c].point = "answer"]
    /\ Saving(calls[c].value)
    /\ UNCHANGED <<serverVars, assets, pageVars>>

Loaded(c) ==
    /\ calls[c].kind = "load" /\ calls[c].point = "answer"
    /\ checked' = calls[c].value
    /\ fields' = TRUE
    /\ calls' = [calls EXCEPT ![c] = NoCall]
    /\ UNCHANGED <<serverVars, assets, saved, request, message>>

SavedOk(c) ==
    /\ calls[c].kind = "save" /\ calls[c].point = "answer"
    /\ fields' = TRUE
    /\ message' = IF calls[c].value = "on" THEN "savedOn" ELSE "savedOff"
    /\ calls' = [calls EXCEPT ![c] = NoCall]
    /\ UNCHANGED <<serverVars, assets, saved, request, checked>>

\* The fields stay disabled after a save that failed.
AfterFailureDisabled(kind) == fields

\* Only a failed load leaves the fields as they are.
AfterFailure(kind) == IF kind = "save" THEN TRUE ELSE fields

\* A refusal, or an answer that never comes back, whatever was carried out.
Failed(c) ==
    /\ calls[c] # NoCall
    /\ fields' = AfterFailure(calls[c].kind)
    /\ message' = IF calls[c].kind = "save" THEN "notSaved" ELSE "notLoaded"
    /\ calls' = [calls EXCEPT ![c] = NoCall]
    /\ UNCHANGED <<serverVars, assets, saved, request, checked>>

Client == \E r \in Requests : Arrive(r) \/ Evaluate(r) \/ Serve(r)
Server == Start \/ Stop \/ ChangeAssets \/ ChangeSetting
SettingsPage ==
    PageShow \/ Check \/ Submit
    \/ \E c \in Calls : Get(c) \/ Put(c) \/ Loaded(c) \/ SavedOk(c) \/ Failed(c)

Next == Client \/ Server \/ SettingsPage

Spec == Init /\ [][Next]_vars

-----------------------------------------------------------------------------
(* Properties. *)

TypeOK ==
    /\ {up, tested, manifest, installed, assets, fields} \subseteq BOOLEAN
    /\ {saved, checked} \subseteq Setting
    /\ request \in [Requests -> Request]
    /\ message \in {"closed", "none", "savedOn", "savedOff", "notLoaded", "notSaved"}
    /\ calls \in [Calls -> Call]

\* "live opt-out" (README.md:21): a request is answered with the bundled
\* client only if the declaration is valid and, at some moment while it was
\* served, the version was tested or the override was on; no earlier request,
\* earlier version or lost save counts (the predicate at line 73).
OptOutIsLive ==
    \A r \in Requests : request[r].client = "bundled" => request[r].allowed

\* The form never goes dead: whenever its fields are disabled a call is on its
\* way whose end enables them or shows an error, or the page says that it could
\* not load, although calls of an earlier showing end in between.
FormIsNeverDead ==
    fields \/ message \in {"closed", "notLoaded"} \/ (\E c \in Calls : calls[c] # NoCall)

=============================================================================
