--------------------------- MODULE BundledWebProofs ---------------------------
(***************************************************************************)
(* Proofs about BundledWeb, for any number of requests and of calls.       *)
(*                                                                         *)
(* That a request is served what it is allowed rests on what happens       *)
(* between its steps: a request that has still to be evaluated has         *)
(* recorded whatever holds now, and no request outlives the server whose   *)
(* version it was evaluated for.                                           *)
(***************************************************************************)
EXTENDS BundledWeb, TLAPS

\* A restart, with another version perhaps, finds no request.
DownIsEmpty == ~ up => \A r \in Requests : request[r] = Idle

\* Before its evaluation, whatever would allow the bundled client is recorded.
RecordedBefore ==
    CanServeBundledWeb =>
        \A r \in Requests : request[r].point = "evaluate" => request[r].allowed

\* After it, what was decided was allowed.
EnabledIsAllowed ==
    \A r \in Requests :
        request[r].point = "serve" /\ request[r].enabled => request[r].allowed

ClientInv == DownIsEmpty /\ RecordedBefore /\ EnabledIsAllowed /\ OptOutIsLive

IndInv == TypeOK /\ ClientInv /\ FormIsNeverDead

-----------------------------------------------------------------------------
(* Operators. *)

LEMMA IdleTyped == Idle \in Request /\ Idle.client = "none" /\ Idle.point = "idle"
  BY DEF Idle, Request

\* Recording changes nothing but allowed, and never takes it back.
LEMMA Recorded ==
  ASSUME NEW requests \in [Requests -> Request], NEW ok \in BOOLEAN
  PROVE  /\ RecordAllowed(requests, ok) \in [Requests -> Request]
         /\ \A r \in Requests :
              /\ RecordAllowed(requests, ok)[r].point = requests[r].point
              /\ RecordAllowed(requests, ok)[r].enabled = requests[r].enabled
              /\ RecordAllowed(requests, ok)[r].client = requests[r].client
              /\ requests[r].allowed => RecordAllowed(requests, ok)[r].allowed
              /\ requests[r].point = "evaluate" /\ ok => RecordAllowed(requests, ok)[r].allowed
              /\ requests[r].point = "idle" => RecordAllowed(requests, ok)[r] = requests[r]
<1>1. \A r \in Requests : requests[r] \in Request
  OBVIOUS
<1> QED
  BY <1>1 DEF RecordAllowed, Request

LEMMA CallsTyped ==
  /\ NoCall \in Call
  /\ \A value \in Setting :
       /\ [kind |-> "load", point |-> "get", value |-> value] \in Call \ {NoCall}
       /\ [kind |-> "save", point |-> "get", value |-> value] \in Call \ {NoCall}
  BY DEF Call, NoCall

LEMMA CanServeTyped == TypeOK => CanServeBundledWeb \in BOOLEAN
  BY DEF TypeOK, CanServeBundledWeb

LEMMA InitInd == Init => IndInv
<1> SUFFICES ASSUME Init PROVE IndInv
  OBVIOUS
<1>1. TypeOK
  BY IdleTyped, CallsTyped DEF Init, TypeOK, Setting
<1>2. ClientInv
  BY IdleTyped DEF Init, ClientInv, DownIsEmpty, RecordedBefore, EnabledIsAllowed, OptOutIsLive
<1>3. FormIsNeverDead
  BY DEF Init, FormIsNeverDead
<1> QED
  BY <1>1, <1>2, <1>3 DEF IndInv

-----------------------------------------------------------------------------
(* The web client: steps of requests and of the server. *)

\* What the settings page rests on.
LEMMA FormUntouched ==
  ASSUME IndInv, UNCHANGED <<pageVars, calls>>
  PROVE  FormIsNeverDead'
  BY DEF IndInv, FormIsNeverDead, pageVars

LEMMA ArriveInd ==
  ASSUME IndInv, NEW r \in Requests, Arrive(r)
  PROVE  IndInv'
<1> DEFINE arrived == [request EXCEPT ![r] = [Idle EXCEPT !.point = "evaluate"]]
<1>1. /\ arrived \in [Requests -> Request]
      /\ arrived[r].client = "none" /\ arrived[r].point = "evaluate"
      /\ \A q \in Requests \ {r} : arrived[q] = request[q]
  BY DEF IndInv, TypeOK, Idle, Request
<1>2. CanServeBundledWeb \in BOOLEAN
  BY CanServeTyped DEF IndInv
<1>3. request' = RecordAllowed(arrived, CanServeBundledWeb) /\ up
  BY DEF Arrive
<1> HIDE DEF arrived
<1>4. UNCHANGED <<up, tested, manifest, installed, assets, saved, fields, checked, message, calls>>
  BY DEF Arrive, serverVars, pageVars
<1>5. /\ request' \in [Requests -> Request]
      /\ \A q \in Requests :
           /\ request'[q].point = arrived[q].point
           /\ request'[q].enabled = arrived[q].enabled
           /\ request'[q].client = arrived[q].client
           /\ arrived[q].allowed => request'[q].allowed
           /\ arrived[q].point = "evaluate" /\ CanServeBundledWeb => request'[q].allowed
  BY <1>1, <1>2, <1>3, Recorded, ZenonT(30)
<1>6. TypeOK'
  BY <1>4, <1>5 DEF IndInv, TypeOK
<1>7. DownIsEmpty'
  BY <1>3, <1>4 DEF DownIsEmpty
<1>8. RecordedBefore'
  <2>1. CanServeBundledWeb' = CanServeBundledWeb
    BY <1>4 DEF CanServeBundledWeb
  <2> QED
    BY <1>5, <2>1 DEF RecordedBefore
<1>9. EnabledIsAllowed'
  <2>1. \A q \in Requests : arrived[q].point = "serve" /\ arrived[q].enabled => arrived[q].allowed
    BY <1>1 DEF IndInv, ClientInv, EnabledIsAllowed
  <2> QED
    BY <1>5, <2>1 DEF EnabledIsAllowed
<1>10. OptOutIsLive'
  <2>1. \A q \in Requests : arrived[q].client = "bundled" => arrived[q].allowed
    BY <1>1 DEF IndInv, ClientInv, OptOutIsLive
  <2> QED
    BY <1>5, <2>1 DEF OptOutIsLive
<1> QED
  BY <1>4, <1>6, <1>7, <1>8, <1>9, <1>10, FormUntouched DEF IndInv, ClientInv, pageVars

LEMMA EvaluateInd ==
  ASSUME IndInv, NEW r \in Requests, Evaluate(r)
  PROVE  IndInv'
<1>1. /\ request[r] \in Request /\ request[r].point = "evaluate"
      /\ request' = [request EXCEPT ![r].point = "serve", ![r].enabled = installed /\ Enabled]
      /\ UNCHANGED <<up, tested, manifest, installed, assets, saved, fields, checked, message, calls>>
  BY DEF IndInv, TypeOK, Evaluate, serverVars, pageVars
<1>2. /\ request'[r].point = "serve" /\ request'[r].enabled = (installed /\ Enabled)
      /\ request'[r].client = request[r].client /\ request'[r].allowed = request[r].allowed
      /\ \A q \in Requests \ {r} : request'[q] = request[q]
  BY <1>1 DEF IndInv, TypeOK, Request
<1>3. TypeOK'
  BY <1>1, CanServeTyped DEF IndInv, TypeOK, Enabled, Request
<1>4. Enabled => request[r].allowed
  BY <1>1 DEF IndInv, ClientInv, RecordedBefore, Enabled
<1>5. up
  BY <1>1, IdleTyped DEF IndInv, ClientInv, DownIsEmpty
<1>6. ClientInv'
  BY <1>1, <1>2, <1>4, <1>5
  DEF IndInv, ClientInv, DownIsEmpty, RecordedBefore, EnabledIsAllowed, OptOutIsLive,
      CanServeBundledWeb
<1> QED
  BY <1>1, <1>3, <1>6, FormUntouched DEF IndInv, pageVars

LEMMA ServeInd ==
  ASSUME IndInv, NEW r \in Requests, Serve(r)
  PROVE  IndInv'
<1> DEFINE served == IF request[r].enabled /\ assets THEN "bundled" ELSE "stock"
<1>1. /\ request[r] \in Request /\ request[r].point = "serve"
      /\ request' = [request EXCEPT ![r].point = "done", ![r].client = served]
      /\ UNCHANGED <<up, tested, manifest, installed, assets, saved, fields, checked, message, calls>>
  BY DEF IndInv, TypeOK, Serve, serverVars, pageVars
<1>2. /\ request'[r].point = "done" /\ request'[r].client = served
      /\ request'[r].allowed = request[r].allowed
      /\ \A q \in Requests \ {r} : request'[q] = request[q]
  BY <1>1 DEF IndInv, TypeOK, Request
<1>3. TypeOK'
  BY <1>1 DEF IndInv, TypeOK, Request
<1>4. served = "bundled" => request[r].allowed
  BY <1>1 DEF IndInv, ClientInv, EnabledIsAllowed
<1>5. up
  BY <1>1, IdleTyped DEF IndInv, ClientInv, DownIsEmpty
<1>6. ClientInv'
  BY <1>1, <1>2, <1>4, <1>5
  DEF IndInv, ClientInv, DownIsEmpty, RecordedBefore, EnabledIsAllowed, OptOutIsLive,
      CanServeBundledWeb
<1> QED
  BY <1>1, <1>3, <1>6, FormUntouched DEF IndInv, pageVars

LEMMA StartInd ==
  ASSUME IndInv, Start
  PROVE  IndInv'
<1>1. UNCHANGED <<assets, saved, request, fields, checked, message, calls>>
  BY DEF Start, pageVars
<1>2. \A r \in Requests : request'[r] = Idle
  BY <1>1 DEF Start, IndInv, ClientInv, DownIsEmpty
<1>3. TypeOK'
  BY <1>1 DEF Start, IndInv, TypeOK
<1>4. ClientInv'
  BY <1>2, IdleTyped DEF ClientInv, DownIsEmpty, RecordedBefore, EnabledIsAllowed, OptOutIsLive
<1> QED
  BY <1>1, <1>3, <1>4, FormUntouched DEF IndInv, pageVars

LEMMA StopInd ==
  ASSUME IndInv, Stop
  PROVE  IndInv'
<1>1. UNCHANGED <<fields, checked, message, calls>>
  BY DEF Stop, pageVars
<1>2. TypeOK'
  BY <1>1, IdleTyped DEF Stop, IndInv, TypeOK
<1>3. ClientInv'
  BY IdleTyped DEF Stop, ClientInv, DownIsEmpty, RecordedBefore, EnabledIsAllowed, OptOutIsLive
<1> QED
  BY <1>1, <1>2, <1>3, FormUntouched DEF IndInv, pageVars

LEMMA ChangeAssetsInd ==
  ASSUME IndInv, ChangeAssets
  PROVE  IndInv'
<1>1. UNCHANGED <<up, tested, manifest, installed, saved, request, fields, checked, message, calls>>
  BY DEF ChangeAssets, serverVars, pageVars
<1>2. TypeOK'
  BY <1>1 DEF ChangeAssets, IndInv, TypeOK
<1>3. ClientInv'
  BY <1>1
  DEF IndInv, ClientInv, DownIsEmpty, RecordedBefore, EnabledIsAllowed, OptOutIsLive,
      CanServeBundledWeb
<1> QED
  BY <1>1, <1>2, <1>3, FormUntouched DEF IndInv, pageVars

\* Whoever saves, requests that wait for their evaluation record it.
LEMMA SavingInd ==
  ASSUME IndInv, NEW value \in Setting, Saving(value),
         UNCHANGED <<serverVars, assets>>
  PROVE  request' \in [Requests -> Request] /\ ClientInv'
<1> DEFINE ok == manifest /\ (value = "on" \/ tested)
<1>1. ok \in BOOLEAN /\ request \in [Requests -> Request]
  BY DEF IndInv, TypeOK
<1>2. request' = RecordAllowed(request, ok) /\ CanServeBundledWeb' = ok /\ up' = up
  BY DEF Saving, CanServeBundledWeb, serverVars
<1> HIDE DEF ok
<1>3. DownIsEmpty'
  BY <1>1, <1>2, Recorded, IdleTyped DEF IndInv, ClientInv, DownIsEmpty
<1>4. /\ request' \in [Requests -> Request]
      /\ \A q \in Requests :
           /\ request'[q].point = request[q].point
           /\ request'[q].enabled = request[q].enabled
           /\ request'[q].client = request[q].client
           /\ request[q].allowed => request'[q].allowed
           /\ request[q].point = "evaluate" /\ ok => request'[q].allowed
  BY <1>1, <1>2, Recorded, ZenonT(30)
<1>5. RecordedBefore'
  <2>1. \A q \in Requests : request'[q].point = "evaluate" /\ ok => request'[q].allowed
    BY <1>4
  <2> QED
    BY <2>1, <1>2 DEF RecordedBefore
<1>6. EnabledIsAllowed'
  <2>1. EnabledIsAllowed
    BY DEF IndInv, ClientInv
  <2> QED
    BY <1>4, <2>1 DEF EnabledIsAllowed
<1>7. OptOutIsLive'
  <2>1. OptOutIsLive
    BY DEF IndInv, ClientInv
  <2> QED
    BY <1>4, <2>1 DEF OptOutIsLive
<1> QED
  BY <1>3, <1>4, <1>5, <1>6, <1>7 DEF ClientInv

LEMMA ChangeSettingInd ==
  ASSUME IndInv, ChangeSetting
  PROVE  IndInv'
<1>1. PICK value \in Setting : Saving(value)
  BY DEF ChangeSetting
<1>2. UNCHANGED <<serverVars, assets, pageVars, calls>>
  BY DEF ChangeSetting
<1>3. request' \in [Requests -> Request] /\ ClientInv'
  BY <1>1, <1>2, SavingInd
<1>4. TypeOK'
  BY <1>1, <1>2, <1>3 DEF IndInv, TypeOK, Saving, serverVars, pageVars
<1> QED
  BY <1>2, <1>3, <1>4, FormUntouched DEF IndInv

-----------------------------------------------------------------------------
(* The settings page. *)

\* What the requests rest on.
LEMMA ClientUntouched ==
  ASSUME IndInv, UNCHANGED <<serverVars, assets, saved, request>>
  PROVE  ClientInv'
  BY DEF IndInv, ClientInv, DownIsEmpty, RecordedBefore, EnabledIsAllowed, OptOutIsLive,
      CanServeBundledWeb, serverVars

\* A call that has been sent is on its way.
LEMMA SendInd ==
  ASSUME IndInv, NEW c \in Calls, NEW call \in Call \ {NoCall}, Send(c, call)
  PROVE  calls' \in [Calls -> Call] /\ (\E d \in Calls : calls'[d] # NoCall)
  BY DEF IndInv, TypeOK, Send

LEMMA PageShowInd ==
  ASSUME IndInv, PageShow
  PROVE  IndInv'
<1>1. UNCHANGED <<up, tested, manifest, installed, assets, saved, request, checked>>
  BY DEF PageShow, serverVars
<1>2. calls' \in [Calls -> Call] /\ (\E d \in Calls : calls'[d] # NoCall)
  BY CallsTyped, SendInd DEF PageShow, IndInv, TypeOK
<1>3. TypeOK' /\ FormIsNeverDead'
  BY <1>1, <1>2 DEF PageShow, IndInv, TypeOK, FormIsNeverDead
<1> QED
  BY <1>1, <1>3, ClientUntouched DEF IndInv, serverVars

LEMMA CheckInd ==
  ASSUME IndInv, Check
  PROVE  IndInv'
<1>1. UNCHANGED <<up, tested, manifest, installed, assets, saved, request, fields, message, calls>>
  BY DEF Check, serverVars
<1>2. TypeOK' /\ FormIsNeverDead'
  BY <1>1 DEF Check, IndInv, TypeOK, FormIsNeverDead
<1> QED
  BY <1>1, <1>2, ClientUntouched DEF IndInv, serverVars

LEMMA SubmitInd ==
  ASSUME IndInv, Submit
  PROVE  IndInv'
<1>1. UNCHANGED <<up, tested, manifest, installed, assets, saved, request, checked>>
  BY DEF Submit, serverVars
<1>2. calls' \in [Calls -> Call] /\ (\E d \in Calls : calls'[d] # NoCall)
  BY CallsTyped, SendInd DEF Submit, IndInv, TypeOK
<1>3. TypeOK' /\ FormIsNeverDead'
  BY <1>1, <1>2 DEF Submit, IndInv, TypeOK, FormIsNeverDead
<1> QED
  BY <1>1, <1>3, ClientUntouched DEF IndInv, serverVars

\* A call that goes on stays on its way.
LEMMA GetInd ==
  ASSUME IndInv, NEW c \in Calls, Get(c)
  PROVE  IndInv'
<1>1. UNCHANGED <<up, tested, manifest, installed, assets, saved, request, fields, checked, message>>
  BY DEF Get, serverVars, pageVars
<1>2. AfterGet(calls[c]) \in Call \ {NoCall}
  <2>1. calls[c] \in Call /\ calls[c] # NoCall /\ saved \in Setting
    BY DEF Get, IndInv, TypeOK, NoCall
  <2>2. CASE calls[c] \in [kind : {"load"}, point : {"get", "answer"}, value : Setting]
    BY <2>1, <2>2 DEF AfterGet, Call, NoCall
  <2>3. CASE calls[c] \in [kind : {"save"}, point : {"get", "put", "answer"}, value : Setting]
    BY <2>1, <2>3 DEF AfterGet, Call, NoCall
  <2> QED
    BY <2>1, <2>2, <2>3 DEF Call, NoCall
<1>3. calls' \in [Calls -> Call] /\ calls'[c] # NoCall
  BY <1>2 DEF Get, IndInv, TypeOK
<1>4. TypeOK' /\ FormIsNeverDead'
  BY <1>1, <1>3 DEF IndInv, TypeOK, FormIsNeverDead
<1> QED
  BY <1>1, <1>4, ClientUntouched DEF IndInv, serverVars

LEMMA PutInd ==
  ASSUME IndInv, NEW c \in Calls, Put(c)
  PROVE  IndInv'
<1>1. UNCHANGED <<serverVars, assets, pageVars>> /\ Saving(calls[c].value)
  BY DEF Put
<1>2. calls[c] \in [kind : {"save"}, point : {"get", "put", "answer"}, value : Setting]
  BY DEF Put, IndInv, TypeOK, Call
<1>3. request' \in [Requests -> Request] /\ ClientInv'
  BY <1>1, <1>2, SavingInd
<1>4. calls' \in [Calls -> Call] /\ calls'[c] # NoCall
  <2>1. [calls[c] EXCEPT !.point = "answer"] \in Call \ {NoCall}
    BY <1>2 DEF Call, NoCall
  <2> QED
    BY <2>1 DEF Put, IndInv, TypeOK
<1>5. TypeOK' /\ FormIsNeverDead'
  BY <1>1, <1>2, <1>3, <1>4
  DEF IndInv, TypeOK, FormIsNeverDead, Saving, serverVars, pageVars
<1> QED
  BY <1>3, <1>5 DEF IndInv

\* A call that ends leaves the form usable or an error on the page.
LEMMA EndInd ==
  ASSUME IndInv, NEW c \in Calls, Loaded(c) \/ SavedOk(c) \/ Failed(c)
  PROVE  IndInv'
<1>1. UNCHANGED <<up, tested, manifest, installed, assets, saved, request>>
  BY DEF Loaded, SavedOk, Failed, serverVars
<1>2. calls' \in [Calls -> Call]
  BY CallsTyped DEF Loaded, SavedOk, Failed, IndInv, TypeOK
<1>3. fields' \in BOOLEAN /\ checked' \in Setting
  <2>1. fields' \in BOOLEAN
    BY DEF Loaded, SavedOk, Failed, AfterFailure, IndInv, TypeOK
  <2>2. calls[c].kind = "load" => calls[c].value \in Setting
    BY DEF IndInv, TypeOK, Call
  <2>3. checked' = checked \/ (calls[c].kind = "load" /\ checked' = calls[c].value)
    BY DEF Loaded, SavedOk, Failed
  <2> QED
    BY <2>1, <2>2, <2>3 DEF IndInv, TypeOK
<1>4. message' \in {"closed", "none", "savedOn", "savedOff", "notLoaded", "notSaved"}
  BY DEF Loaded, SavedOk, Failed, IndInv, TypeOK
<1>5. TypeOK'
  BY <1>1, <1>2, <1>3, <1>4 DEF IndInv, TypeOK
<1>6. FormIsNeverDead'
  BY DEF Loaded, SavedOk, Failed, AfterFailure, FormIsNeverDead
<1> QED
  BY <1>1, <1>5, <1>6, ClientUntouched DEF IndInv, serverVars

-----------------------------------------------------------------------------
(* Theorems. *)

LEMMA StutterInd ==
  ASSUME IndInv, UNCHANGED vars
  PROVE  IndInv'
<1>1. UNCHANGED <<up, tested, manifest, installed, assets, saved, request, fields, checked, message, calls>>
  BY DEF vars, serverVars, pageVars
<1> QED
  BY <1>1
  DEF IndInv, TypeOK, ClientInv, DownIsEmpty, RecordedBefore, EnabledIsAllowed, OptOutIsLive,
      CanServeBundledWeb, FormIsNeverDead

LEMMA NextInd == IndInv /\ [Next]_vars => IndInv'
<1> SUFFICES ASSUME IndInv, [Next]_vars PROVE IndInv'
  OBVIOUS
<1>1. CASE Client
  BY <1>1, ArriveInd, EvaluateInd, ServeInd DEF Client
<1>2. CASE Server
  BY <1>2, StartInd, StopInd, ChangeAssetsInd, ChangeSettingInd DEF Server
<1>3. CASE SettingsPage
  BY <1>3, PageShowInd, CheckInd, SubmitInd, GetInd, PutInd, EndInd DEF SettingsPage
<1>4. CASE UNCHANGED vars
  BY <1>4, StutterInd
<1> QED
  BY <1>1, <1>2, <1>3, <1>4 DEF Next

\* The inductive invariant holds in every reachable state.
THEOREM Inductive == Spec => []IndInv
  BY InitInd, NextInd, PTL DEF Spec

\* Type correctness: no call, request or message of the settings page and the
\* pipeline has a shape the code does not give it.
THEOREM TypeCorrect == Spec => []TypeOK
<1>1. IndInv => TypeOK
  BY DEF IndInv
<1> QED
  BY <1>1, Inductive, PTL

\* The opt-out is live: however many requests wait in the pipeline while the
\* setting, the files and the server change, none is answered with the bundled
\* client that was not allowed to be (the predicate in Configure).
THEOREM LiveOptOut == Spec => []OptOutIsLive
<1>1. IndInv => OptOutIsLive
  BY DEF IndInv, ClientInv
<1> QED
  BY <1>1, Inductive, PTL

\* The settings form never goes dead, however often the page is shown and
\* however many calls are on their way (pageshow and submit in configPage.html).
THEOREM FormUsable == Spec => []FormIsNeverDead
<1>1. IndInv => FormIsNeverDead
  BY DEF IndInv
<1> QED
  BY <1>1, Inductive, PTL

=============================================================================
