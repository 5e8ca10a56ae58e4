------------------------- MODULE StandaloneAppProofs -------------------------
(***************************************************************************)
(* Proofs about StandaloneApp, for any accounts, categories, page sizes,   *)
(* totals and depths of the history, and any number of late answers.       *)
(*                                                                         *)
(* The inductive invariant ties the request that is awaited to what the    *)
(* page shows: a sign-in is awaited on the form, channels are awaited for  *)
(* the selected category and page, and the form has no page behind it.     *)
(***************************************************************************)
EXTENDS StandaloneApp, TLAPS

RequestIsCurrent ==
    pendingRequest # None =>
        /\ pendingRequest.kind = "login" => view = "login"
        /\ pendingRequest.kind = "channels" =>
              /\ view = "channels"
              /\ selectedCategory # None
              /\ pendingRequest.category = selectedCategory
              /\ pendingRequest.start = startIndex

FormIsEmpty == view = "login" => channelsPage = None

IndInv == TypeOK /\ SignedOutIsClean /\ RequestIsCurrent /\ FormIsEmpty /\ PageIsSelected

-----------------------------------------------------------------------------
(* Lemmas about pages.                                                     *)

EntryType == [category : Categories \cup {None}, start : PageStarts]
SavedType == [user : Users, category : Categories \cup {None}, start : PageStarts]
ShownType == [user : Users, category : Categories, start : PageStarts]

LEMMA Multiple == ASSUME NEW k \in Nat PROVE (k * PageSize) % PageSize = 0
  BY PageAssumption

LEMMA Quotient ==
  ASSUME NEW n \in Nat, n % PageSize = 0
  PROVE  n \div PageSize \in Nat /\ n = (n \div PageSize) * PageSize
  BY PageAssumption

LEMMA NextStart == ASSUME NEW n \in PageStarts, n + PageSize =< MaxTotal PROVE n + PageSize \in PageStarts
<1> DEFINE q == n \div PageSize
<1>1. n \in Nat /\ PageSize \in Nat \ {0} /\ MaxTotal \in Nat
  BY PageAssumption DEF PageStarts
<1>2. q \in Nat /\ n = q * PageSize
  BY <1>1, Quotient DEF PageStarts
<1> HIDE DEF q
<1>3. n + PageSize = (q + 1) * PageSize /\ q + 1 \in Nat
  BY <1>1, <1>2
<1>4. (n + PageSize) % PageSize = 0
  BY <1>3, Multiple
<1> QED BY <1>1, <1>4 DEF PageStarts

LEMMA PreviousStart == ASSUME NEW n \in PageStarts, n > PageSize PROVE n - PageSize \in PageStarts
<1> DEFINE q == n \div PageSize
<1>1. n \in 0..MaxTotal /\ PageSize \in Nat \ {0} /\ MaxTotal \in Nat
  BY PageAssumption DEF PageStarts
<1>2. q \in Nat /\ n = q * PageSize
  BY <1>1, Quotient DEF PageStarts
<1> HIDE DEF q
<1>3. q # 0
  BY <1>1, <1>2
<1>4. n - PageSize = (q - 1) * PageSize /\ q - 1 \in Nat
  BY <1>1, <1>2, <1>3
<1>5. (n - PageSize) % PageSize = 0
  BY <1>4, Multiple
<1> QED BY <1>1, <1>5 DEF PageStarts

LEMMA FirstStart == 0 \in PageStarts
<1>1. (0 * PageSize) % PageSize = 0
  BY Multiple
<1> QED BY <1>1, PageAssumption DEF PageStarts

LEMMA LastStart == ASSUME NEW total \in 1..MaxTotal PROVE LastPage(total) \in PageStarts
<1> DEFINE q == (total - 1) \div PageSize
<1>1. total - 1 \in Nat /\ total - 1 =< MaxTotal /\ PageSize \in Nat \ {0} /\ MaxTotal \in Nat
  BY PageAssumption
<1>2. q \in Nat /\ q * PageSize =< total - 1
  BY <1>1
<1> HIDE DEF q
<1>3. (q * PageSize) % PageSize = 0 /\ q * PageSize \in Nat
  BY <1>1, <1>2, Multiple
<1>4. q * PageSize \in PageStarts
  BY <1>1, <1>2, <1>3 DEF PageStarts
<1> QED BY <1>4 DEF LastPage, q

-----------------------------------------------------------------------------
(* Lemmas about the functions the handlers are built from.                 *)

LEMMA RequestTyped ==
  ASSUME NEW kind \in Kinds, NEW user \in Users, NEW category \in Categories \cup {None},
         NEW start \in PageStarts, NEW restore \in BOOLEAN
  PROVE  Request(kind, user, category, start, restore) \in RequestType
  BY DEF Request, RequestType

LEMMA SendTyped ==
  ASSUME TypeOK, NEW request \in RequestType, NEW r, Send(request, r)
  PROVE  pendingRequest' = request /\ superseded' \subseteq RequestType
  BY DEF TypeOK, Send, Abort

LEMMA DoneTyped ==
  ASSUME TypeOK, NEW r, Done(r)
  PROVE  pendingRequest' = None /\ superseded' \subseteq RequestType
  BY DEF TypeOK, Done

LEMMA SaveTyped ==
  ASSUME TypeOK, NEW user \in Users, NEW category \in Categories \cup {None},
         NEW start \in PageStarts, Save(user, category, start)
  PROVE  stored' \in SavedType /\ stored'.user = user
  BY NameAssumption DEF Save, Saved, SavedType

LEMMA ReplaceTyped ==
  ASSUME TypeOK, NEW category \in Categories \cup {None}, NEW start \in PageStarts,
         ReplaceState(category, start)
  PROVE  history' \in Seq(EntryType) /\ position' \in DOMAIN history'
<1>1. history \in Seq(EntryType) /\ position \in DOMAIN history
  BY DEF TypeOK, EntryType
<1>2. Entry(category, start) \in EntryType
  BY DEF Entry, EntryType
<1> QED BY <1>1, <1>2 DEF ReplaceState

LEMMA PushTyped ==
  ASSUME TypeOK, NEW category \in Categories \cup {None}, NEW start \in PageStarts,
         PushState(category, start)
  PROVE  history' \in Seq(EntryType) /\ position' \in DOMAIN history'
<1> DEFINE kept == SubSeq(history, 1, position)
<1>1. history \in Seq(EntryType) /\ position \in 1..Len(history)
  BY DEF TypeOK, EntryType
<1>2. Entry(category, start) \in EntryType
  BY DEF Entry, EntryType
<1>3. kept \in Seq(EntryType) /\ Len(kept) = position
  BY <1>1
<1> HIDE DEF kept
<1>4. /\ Append(kept, Entry(category, start)) \in Seq(EntryType)
      /\ Len(Append(kept, Entry(category, start))) = position + 1
  BY <1>2, <1>3
<1> QED BY <1>1, <1>3, <1>4 DEF PushState, kept

\* What every caller of loadChannels gets.
LEMMA LoadTyped ==
  ASSUME TypeOK, session \in Users, NEW category \in Categories, NEW start \in PageStarts,
         NEW r, LoadChannels(category, start, r)
  PROVE  /\ selectedCategory' = category /\ startIndex' = start
         /\ view' = "channels" /\ status' = TRUE /\ error' = FALSE /\ retryAction' = "none"
         /\ channelsPage' = None /\ previousEnabled' = FALSE /\ nextEnabled' = FALSE
         /\ pendingRequest' \in RequestType /\ superseded' \subseteq RequestType
         /\ pendingRequest'.kind = "channels"
         /\ pendingRequest'.category = category /\ pendingRequest'.start = start
         /\ stored' \in SavedType /\ stored'.user = session
<1>1. Request("channels", session, category, start, FALSE) \in RequestType
  BY RequestTyped DEF Kinds
<1>2. /\ pendingRequest' = Request("channels", session, category, start, FALSE)
      /\ superseded' \subseteq RequestType
  BY <1>1, SendTyped DEF LoadChannels
<1>3. stored' \in SavedType /\ stored'.user = session
  BY SaveTyped DEF LoadChannels
<1>4. /\ Request("channels", session, category, start, FALSE).kind = "channels"
      /\ Request("channels", session, category, start, FALSE).category = category
      /\ Request("channels", session, category, start, FALSE).start = start
  BY DEF Request
<1>5. /\ selectedCategory' = category /\ startIndex' = start
      /\ view' = "channels" /\ status' = TRUE /\ error' = FALSE /\ retryAction' = "none"
      /\ channelsPage' = None /\ previousEnabled' = FALSE /\ nextEnabled' = FALSE
  BY DEF LoadChannels, ClearPage, ClearError
<1> QED BY <1>1, <1>2, <1>3, <1>4, <1>5

LEMMA AnsweredIsPending ==
  ASSUME TypeOK, NEW kind, NEW r \in Answered(kind)
  PROVE  r = pendingRequest /\ r \in RequestType /\ r.kind = kind /\ pendingRequest # None
  BY RequestAssumption DEF TypeOK, Answered, InFlight, CurrentGeneration

-----------------------------------------------------------------------------
(* What several handlers do preserves the invariant.                       *)

\* Every caller of loadChannels.
LEMMA LoadPreserves ==
  ASSUME IndInv, session \in Users, NEW category \in Categories, NEW start \in PageStarts,
         NEW r, LoadChannels(category, start, r),
         session' = session, account' = account, categoryEntries' \subseteq Categories,
         totalChannels' \in 0..MaxTotal, signInEnabled' \in BOOLEAN,
         history' \in Seq(EntryType), position' \in DOMAIN history',
         contract' \in {"unchecked", "supported", "unsupported"}
  PROVE  IndInv'
<1>1. /\ selectedCategory' = category /\ startIndex' = start
      /\ view' = "channels" /\ status' = TRUE /\ error' = FALSE /\ retryAction' = "none"
      /\ channelsPage' = None /\ previousEnabled' = FALSE /\ nextEnabled' = FALSE
      /\ pendingRequest' \in RequestType /\ superseded' \subseteq RequestType
      /\ pendingRequest'.kind = "channels"
      /\ pendingRequest'.category = category /\ pendingRequest'.start = start
      /\ stored' \in SavedType /\ stored'.user = session
  BY LoadTyped DEF IndInv
<1>2. TypeOK'
  BY <1>1 DEF IndInv, TypeOK, SavedType, EntryType
<1>3. SignedOutIsClean'
  BY <1>1, NameAssumption DEF IndInv, SignedOutIsClean
<1>4. RequestIsCurrent' /\ FormIsEmpty' /\ PageIsSelected'
  BY <1>1, NameAssumption DEF RequestIsCurrent, FormIsEmpty, PageIsSelected, Categories
<1> QED BY <1>2, <1>3, <1>4 DEF IndInv

\* Signing out and an expired session leave nothing behind.
LEMMA ClearPreserves ==
  ASSUME IndInv, NEW r, ClearSession(r)
  PROVE  IndInv'
<1>1. history' \in Seq(EntryType) /\ position' \in DOMAIN history'
  <2>1. ReplaceState(None, startIndex) /\ startIndex \in PageStarts
    BY DEF ClearSession, IndInv, TypeOK
  <2> QED BY <2>1, ReplaceTyped DEF IndInv
<1>2. superseded' \subseteq RequestType
  BY DEF ClearSession, Abort, IndInv, TypeOK
<1>3. /\ session' = None /\ selectedCategory' = None /\ categoryEntries' = {}
      /\ stored' = None /\ channelsPage' = None /\ view' = "login" /\ pendingRequest' = None
      /\ status' = FALSE /\ signInEnabled' = TRUE /\ error' = TRUE /\ retryAction' = "none"
      /\ account' = None /\ contract' = "unchecked"
      /\ UNCHANGED <<startIndex, totalChannels, previousEnabled, nextEnabled>>
  BY DEF ClearSession, ShowError
<1>4. TypeOK'
  BY <1>1, <1>2, <1>3 DEF IndInv, TypeOK, EntryType
<1>5. SignedOutIsClean'
  BY <1>3 DEF SignedOutIsClean
<1>6. RequestIsCurrent' /\ FormIsEmpty' /\ PageIsSelected'
  BY <1>3 DEF RequestIsCurrent, FormIsEmpty, PageIsSelected
<1> QED BY <1>4, <1>5, <1>6 DEF IndInv

\* A session is there whenever another request than a sign-in is awaited.
LEMMA SessionThere ==
  ASSUME IndInv, pendingRequest # None, pendingRequest.kind # "login"
  PROVE  session \in Users
  BY DEF IndInv, TypeOK, SignedOutIsClean

\* loadCategories and checkCompatibility send a request that is about nothing
\* selected.
LEMMA AskPreserves ==
  ASSUME IndInv, session \in Users,
         pendingRequest' \in RequestType, superseded' \subseteq RequestType,
         pendingRequest'.kind \in {"compatibility", "categories"},
         stored' = stored \/ (stored' \in SavedType /\ stored'.user = session),
         status' \in BOOLEAN, startIndex' \in PageStarts,
         selectedCategory' = None \/ UNCHANGED <<selectedCategory, startIndex>>,
         history' \in Seq(EntryType), position' \in DOMAIN history',
         contract' \in {"unchecked", "supported", "unsupported"},
         UNCHANGED <<session, categoryEntries, totalChannels, retryAction, view, error,
                     pagingVars, signInEnabled, account>>
  PROVE  IndInv'
<1>1. TypeOK'
  BY DEF IndInv, TypeOK, SavedType, EntryType, pagingVars
<1>2. SignedOutIsClean'
  BY NameAssumption DEF IndInv, SignedOutIsClean
<1>3. RequestIsCurrent'
  BY DEF RequestIsCurrent
<1>4. FormIsEmpty' /\ PageIsSelected'
  BY DEF IndInv, FormIsEmpty, PageIsSelected, pagingVars
<1> QED BY <1>1, <1>2, <1>3, <1>4 DEF IndInv

\* An answer after which nothing is awaited.
LEMMA EndPreserves ==
  ASSUME IndInv, session \in Users, pendingRequest' = None, superseded' \subseteq RequestType,
         stored' = stored \/ (stored' \in SavedType /\ stored'.user = session),
         status' \in BOOLEAN, error' \in BOOLEAN,
         retryAction' \in {"none", "categories", "channels"},
         view' \in {"categories", view}, categoryEntries' \subseteq Categories,
         selectedCategory' \in {None, selectedCategory},
         contract' \in {"unchecked", "supported", "unsupported"},
         UNCHANGED <<session, startIndex, totalChannels, pagingVars, signInEnabled,
                     history, position, account>>
  PROVE  IndInv'
<1>1. TypeOK'
  BY DEF IndInv, TypeOK, SavedType, pagingVars
<1>2. SignedOutIsClean'
  BY NameAssumption DEF IndInv, SignedOutIsClean
<1>3. RequestIsCurrent'
  BY DEF RequestIsCurrent
<1>4. FormIsEmpty' /\ PageIsSelected'
  BY DEF IndInv, FormIsEmpty, PageIsSelected, pagingVars
<1> QED BY <1>1, <1>2, <1>3, <1>4 DEF IndInv

-----------------------------------------------------------------------------
(* The handlers.                                                           *)

LEMMA SubmitLoginStep == ASSUME IndInv, NEW user \in Users, SubmitLogin(user) PROVE IndInv'
<1>1. Request("login", user, None, 0, FALSE) \in RequestType
  BY RequestTyped, FirstStart DEF Kinds
<1>2. pendingRequest' = Request("login", user, None, 0, FALSE) /\ superseded' \subseteq RequestType
  BY <1>1, SendTyped DEF SubmitLogin, IndInv
<1>3. pendingRequest'.kind = "login"
  BY <1>2 DEF Request
<1>4. /\ view = "login" /\ signInEnabled' = FALSE /\ status' = TRUE
      /\ error' = FALSE /\ retryAction' = "none"
      /\ UNCHANGED <<scriptVars, view, pagingVars, browserVars, ghostVars>>
  BY DEF SubmitLogin, ClearError
<1>5. TypeOK'
  BY <1>1, <1>2, <1>4 DEF IndInv, TypeOK, scriptVars, pagingVars, browserVars, ghostVars
<1>6. SignedOutIsClean'
  BY <1>3, <1>4 DEF IndInv, SignedOutIsClean, scriptVars, pagingVars, browserVars, ghostVars
<1>7. RequestIsCurrent' /\ FormIsEmpty' /\ PageIsSelected'
  BY <1>3, <1>4 DEF IndInv, RequestIsCurrent, FormIsEmpty, PageIsSelected, scriptVars, pagingVars
<1> QED BY <1>5, <1>6, <1>7 DEF IndInv

LEMMA LoginAcceptedStep == ASSUME IndInv, NEW r \in Answered("login"), LoginAccepted(r) PROVE IndInv'
<1>1. r = pendingRequest /\ r \in RequestType /\ r.kind = "login" /\ pendingRequest # None
  BY AnsweredIsPending DEF IndInv
<1>2. r.user \in Users /\ r.user # None
  BY <1>1, NameAssumption DEF RequestType
<1>3. view = "login" /\ channelsPage = None
  BY <1>1 DEF IndInv, RequestIsCurrent, FormIsEmpty
<1>4. selectedCategory \in Categories \cup {None} /\ startIndex \in PageStarts
  BY DEF IndInv, TypeOK
<1>5. stored' \in SavedType /\ stored'.user = r.user
  BY <1>2, <1>4, SaveTyped DEF LoginAccepted, IndInv
<1>6. history' \in Seq(EntryType) /\ position' \in DOMAIN history'
  BY <1>4, ReplaceTyped DEF LoginAccepted, IndInv
<1>7. Request("compatibility", r.user, None, 0, FALSE) \in RequestType
  BY <1>2, RequestTyped, FirstStart DEF Kinds
<1>8. /\ pendingRequest' = Request("compatibility", r.user, None, 0, FALSE)
      /\ superseded' \subseteq RequestType
  BY <1>7, SendTyped DEF LoginAccepted, CheckCompatibility, IndInv
<1>9. pendingRequest'.kind = "compatibility"
  BY <1>8 DEF Request
<1>10. /\ session' = r.user /\ signInEnabled' = TRUE /\ status' = TRUE
       /\ account' = r.user /\ contract' = "unchecked"
       /\ UNCHANGED <<selectedCategory, startIndex, categoryEntries, totalChannels,
                      retryAction, view, error, pagingVars>>
  BY DEF LoginAccepted, CheckCompatibility
<1>11. TypeOK'
  BY <1>2, <1>5, <1>6, <1>7, <1>8, <1>10 DEF IndInv, TypeOK, SavedType, EntryType, pagingVars
<1>12. SignedOutIsClean'
  BY <1>2, <1>5, <1>10 DEF SignedOutIsClean
<1>13. RequestIsCurrent' /\ FormIsEmpty' /\ PageIsSelected'
  BY <1>3, <1>9, <1>10 DEF RequestIsCurrent, FormIsEmpty, PageIsSelected, pagingVars
<1> QED BY <1>11, <1>12, <1>13 DEF IndInv

LEMMA LoginRejectedStep == ASSUME IndInv, NEW r \in Answered("login"), LoginRejected(r) PROVE IndInv'
<1>1. pendingRequest' = None /\ superseded' \subseteq RequestType
  BY DoneTyped DEF LoginRejected, IndInv
<1>2. /\ signInEnabled' = TRUE /\ status' = FALSE /\ error' = TRUE /\ retryAction' = "none"
      /\ UNCHANGED <<scriptVars, view, pagingVars, browserVars, ghostVars>>
  BY DEF LoginRejected, ShowError
<1>3. UNCHANGED <<session, selectedCategory, startIndex, categoryEntries, totalChannels,
                  view, channelsPage, previousEnabled, nextEnabled,
                  stored, history, position, account, contract>>
  BY <1>2 DEF scriptVars, pagingVars, browserVars, ghostVars
<1>4. TypeOK'
  <2>1. /\ pendingRequest' \in RequestType \cup {None} /\ superseded' \subseteq RequestType
        /\ signInEnabled' \in BOOLEAN /\ status' \in BOOLEAN /\ error' \in BOOLEAN
        /\ retryAction' \in {"none", "categories", "channels"}
    BY <1>1, <1>2
  <2>2. TypeOK
    BY DEF IndInv
  <2> QED
    BY <1>3, <2>1, <2>2 DEF TypeOK
<1>5. SignedOutIsClean'
  BY <1>1, <1>2, <1>3 DEF IndInv, SignedOutIsClean, scriptVars, pagingVars, browserVars, ghostVars
<1>6. RequestIsCurrent' /\ FormIsEmpty' /\ PageIsSelected'
  BY <1>1, <1>2, <1>3 DEF IndInv, RequestIsCurrent, FormIsEmpty, PageIsSelected, pagingVars
<1> QED BY <1>4, <1>5, <1>6 DEF IndInv

LEMMA ClearStep ==
  ASSUME IndInv, SignOut \/ \E r \in InFlight : SessionExpired(r)
  PROVE  IndInv'
<1>1. PICK r \in InFlight \cup {None} : ClearSession(r)
  BY DEF SignOut, SessionExpired
<1> QED BY <1>1, ClearPreserves

LEMMA ContractUnsupportedStep ==
  ASSUME IndInv, NEW r \in Answered("compatibility"), ContractUnsupported(r)
  PROVE  IndInv'
<1>1. session \in Users
  BY AnsweredIsPending, SessionThere DEF IndInv
<1>2. pendingRequest' = None /\ superseded' \subseteq RequestType
  BY DoneTyped DEF ContractUnsupported, IndInv
<1>3. stored' \in SavedType /\ stored'.user = session
  <2>1. Save(session, None, startIndex) /\ startIndex \in PageStarts
    BY DEF ContractUnsupported, IndInv, TypeOK
  <2> QED BY <1>1, <2>1, SaveTyped DEF IndInv
<1>4. /\ selectedCategory' = None /\ categoryEntries' = {AllChannels} /\ view' = "categories"
      /\ status' = FALSE /\ error' = TRUE /\ retryAction' = "none" /\ contract' = "unsupported"
      /\ UNCHANGED <<session, startIndex, totalChannels, pagingVars, signInEnabled,
                     history, position, account>>
  BY DEF ContractUnsupported, RenderCategories, ShowError
<1> QED BY <1>1, <1>2, <1>3, <1>4, EndPreserves DEF Categories

LEMMA CompatibilityForbiddenStep ==
  ASSUME IndInv, NEW r \in Answered("compatibility"), CompatibilityForbidden(r)
  PROVE  IndInv'
<1>1. session \in Users
  BY AnsweredIsPending, SessionThere DEF IndInv
<1>2. pendingRequest' = None /\ superseded' \subseteq RequestType
  BY DoneTyped DEF CompatibilityForbidden, IndInv
<1>3. contract \in {"unchecked", "supported", "unsupported"}
  BY DEF IndInv, TypeOK
<1>4. /\ selectedCategory' = None /\ categoryEntries' = {} /\ view' = "categories"
      /\ status' = FALSE /\ error' = TRUE /\ retryAction' = "none"
      /\ UNCHANGED <<session, startIndex, totalChannels, pagingVars, signInEnabled,
                     history, position, account, stored, contract>>
  BY DEF CompatibilityForbidden, RenderCategories, ShowError, browserVars, ghostVars
<1> QED BY <1>1, <1>2, <1>3, <1>4, EndPreserves

LEMMA CompatibilityCheckedStep ==
  ASSUME IndInv, NEW r \in Answered("compatibility"), NEW verdict \in {"supported", contract},
         CompatibilityChecked(r, verdict)
  PROVE  IndInv'
<1>1. session \in Users
  BY AnsweredIsPending, SessionThere DEF IndInv
<1>2. contract' \in {"unchecked", "supported", "unsupported"}
  BY DEF CompatibilityChecked, IndInv, TypeOK
<1>3. /\ selectedCategory \in Categories \cup {None} /\ startIndex \in PageStarts
      /\ categoryEntries \subseteq Categories /\ totalChannels \in 0..MaxTotal
      /\ signInEnabled \in BOOLEAN /\ history \in Seq(EntryType) /\ position \in DOMAIN history
  BY DEF IndInv, TypeOK, EntryType
<1>4. CASE r.restore /\ selectedCategory # None
  <2>1. /\ LoadChannels(selectedCategory, startIndex, r)
        /\ UNCHANGED <<session, categoryEntries, totalChannels, signInEnabled,
                       history, position, account>>
    BY <1>4 DEF CompatibilityChecked
  <2>2. selectedCategory \in Categories
    BY <1>3, <1>4
  <2> QED BY <1>1, <1>2, <1>3, <2>1, <2>2, LoadPreserves
<1>5. CASE ~ (r.restore /\ selectedCategory # None)
  <2>1. /\ LoadCategories(session, r)
        /\ UNCHANGED <<scriptVars, retryAction, view, error, pagingVars,
                       signInEnabled, browserVars, account>>
    BY <1>5 DEF CompatibilityChecked
  <2>2. Request("categories", session, None, 0, FALSE) \in RequestType
    BY <1>1, RequestTyped, FirstStart DEF Kinds
  <2>3. /\ pendingRequest' = Request("categories", session, None, 0, FALSE)
        /\ superseded' \subseteq RequestType /\ status' = TRUE
    BY <2>1, <2>2, SendTyped DEF LoadCategories, IndInv
  <2>4. pendingRequest'.kind = "categories"
    BY <2>3 DEF Request
  <2> QED BY <1>1, <1>2, <1>3, <2>1, <2>2, <2>3, <2>4, AskPreserves DEF scriptVars, browserVars
<1> QED BY <1>4, <1>5

LEMMA CategoriesLoadedStep ==
  ASSUME IndInv, NEW r \in Answered("categories"), NEW listed \in SUBSET Listed,
         CategoriesLoaded(r, listed)
  PROVE  IndInv'
<1>1. session \in Users
  BY AnsweredIsPending, SessionThere DEF IndInv
<1>2. pendingRequest' = None /\ superseded' \subseteq RequestType
  BY DoneTyped DEF CategoriesLoaded, IndInv
<1>3. /\ selectedCategory \in Categories \cup {None} /\ startIndex \in PageStarts
      /\ contract \in {"unchecked", "supported", "unsupported"}
  BY DEF IndInv, TypeOK
<1>4. stored' \in SavedType /\ stored'.user = session
  BY <1>1, <1>3, SaveTyped DEF CategoriesLoaded, IndInv
<1>5. /\ categoryEntries' = listed \cup {AllChannels} /\ view' = "categories"
      /\ status' = FALSE /\ error' = FALSE /\ retryAction' = "none"
      /\ UNCHANGED <<session, selectedCategory, startIndex, totalChannels, pagingVars,
                     signInEnabled, history, position, account, contract>>
  BY DEF CategoriesLoaded, RenderCategories, ClearError, ghostVars
<1> QED BY <1>1, <1>2, <1>3, <1>4, <1>5, EndPreserves DEF Categories

LEMMA CategoriesForbiddenStep ==
  ASSUME IndInv, NEW r \in Answered("categories"), CategoriesForbidden(r)
  PROVE  IndInv'
<1>1. session \in Users
  BY AnsweredIsPending, SessionThere DEF IndInv
<1>2. pendingRequest' = None /\ superseded' \subseteq RequestType
  BY DoneTyped DEF CategoriesForbidden, IndInv
<1>3. contract \in {"unchecked", "supported", "unsupported"}
  BY DEF IndInv, TypeOK
<1>4. /\ categoryEntries' = {} /\ view' = "categories"
      /\ status' = FALSE /\ error' = TRUE /\ retryAction' = "categories"
      /\ UNCHANGED <<session, selectedCategory, startIndex, totalChannels, pagingVars,
                     signInEnabled, history, position, account, stored, contract>>
  BY DEF CategoriesForbidden, RenderCategories, ShowError, browserVars, ghostVars
<1> QED BY <1>1, <1>2, <1>3, <1>4, EndPreserves

LEMMA CategoriesFailedStep ==
  ASSUME IndInv, NEW r \in Answered("categories"), CategoriesFailed(r)
  PROVE  IndInv'
<1>1. session \in Users
  BY AnsweredIsPending, SessionThere DEF IndInv
<1>2. pendingRequest' = None /\ superseded' \subseteq RequestType
  BY DoneTyped DEF CategoriesFailed, IndInv
<1>3. /\ selectedCategory \in Categories \cup {None} /\ startIndex \in PageStarts
      /\ contract \in {"unchecked", "supported", "unsupported"}
  BY DEF IndInv, TypeOK
<1>4. stored' \in SavedType /\ stored'.user = session
  BY <1>1, <1>3, SaveTyped DEF CategoriesFailed, IndInv
<1>5. /\ categoryEntries' = {AllChannels} /\ view' = "categories"
      /\ status' = FALSE /\ error' = TRUE /\ retryAction' = "categories"
      /\ UNCHANGED <<session, selectedCategory, startIndex, totalChannels, pagingVars,
                     signInEnabled, history, position, account, contract>>
  BY DEF CategoriesFailed, RenderCategories, ShowError, ghostVars
<1> QED BY <1>1, <1>2, <1>3, <1>4, <1>5, EndPreserves DEF Categories

\* Outside the sign-in form there is a session.
LEMMA ViewHasSession == ASSUME IndInv, view # "login" PROVE session \in Users
  BY DEF IndInv, TypeOK, SignedOutIsClean

LEMMA OpenStep == ASSUME IndInv, NEW category \in Categories, Open(category) PROVE IndInv'
<1>1. session \in Users
  BY ViewHasSession DEF Open
<1>2. history' \in Seq(EntryType) /\ position' \in DOMAIN history'
  BY PushTyped, FirstStart DEF Open, IndInv
<1>3. /\ LoadChannels(category, 0, None)
      /\ UNCHANGED <<session, categoryEntries, totalChannels, signInEnabled, account, contract>>
  BY DEF Open, ghostVars
<1>4. /\ categoryEntries \subseteq Categories /\ totalChannels \in 0..MaxTotal
      /\ signInEnabled \in BOOLEAN /\ contract \in {"unchecked", "supported", "unsupported"}
  BY DEF IndInv, TypeOK
<1> QED BY <1>1, <1>2, <1>3, <1>4, FirstStart, LoadPreserves

LEMMA ChannelsBeyondEndStep ==
  ASSUME IndInv, NEW r \in Answered("channels"), NEW total \in 0..MaxTotal,
         ChannelsBeyondEnd(r, total)
  PROVE  IndInv'
<1>1. session \in Users
  BY AnsweredIsPending, SessionThere DEF IndInv
<1>2. selectedCategory \in Categories
  BY AnsweredIsPending DEF IndInv, TypeOK, RequestIsCurrent
<1>3. LastPage(total) \in PageStarts
  BY LastStart, PageAssumption DEF ChannelsBeyondEnd
<1>4. history' \in Seq(EntryType) /\ position' \in DOMAIN history'
  BY <1>2, <1>3, ReplaceTyped DEF ChannelsBeyondEnd, IndInv
<1>5. /\ LoadChannels(selectedCategory, LastPage(total), r) /\ totalChannels' = total
      /\ UNCHANGED <<session, categoryEntries, signInEnabled, account, contract>>
  BY DEF ChannelsBeyondEnd, ghostVars
<1>6. /\ categoryEntries \subseteq Categories
      /\ signInEnabled \in BOOLEAN /\ contract \in {"unchecked", "supported", "unsupported"}
  BY DEF IndInv, TypeOK
<1> QED BY <1>1, <1>2, <1>3, <1>4, <1>5, <1>6, LoadPreserves

LEMMA ChannelsLoadedStep ==
  ASSUME IndInv, NEW r \in Answered("channels"), NEW total \in 0..MaxTotal,
         ChannelsLoaded(r, total)
  PROVE  IndInv'
<1>1. session \in Users
  BY AnsweredIsPending, SessionThere DEF IndInv
<1>2. /\ selectedCategory \in Categories /\ startIndex \in PageStarts
      /\ r.category = selectedCategory /\ r.start = startIndex
  BY AnsweredIsPending DEF IndInv, TypeOK, RequestIsCurrent
<1>3. pendingRequest' = None /\ superseded' \subseteq RequestType
  BY DoneTyped DEF ChannelsLoaded, IndInv
<1>4. stored' \in SavedType /\ stored'.user = session
  BY <1>1, <1>2, SaveTyped DEF ChannelsLoaded, IndInv
<1>5. history' \in Seq(EntryType) /\ position' \in DOMAIN history'
  BY <1>2, ReplaceTyped DEF ChannelsLoaded, IndInv
<1>6. /\ totalChannels' = total
      /\ channelsPage' = Saved(session, selectedCategory, startIndex)
      /\ previousEnabled' \in BOOLEAN /\ nextEnabled' \in BOOLEAN /\ status' = FALSE
      /\ UNCHANGED <<session, selectedCategory, startIndex, categoryEntries, retryAction,
                     view, error, signInEnabled, account, contract>>
  BY <1>2 DEF ChannelsLoaded, ghostVars
<1>7. channelsPage' \in ShownType
  BY <1>1, <1>2, <1>6 DEF Saved, ShownType
<1>8. view = "channels"
  BY AnsweredIsPending DEF IndInv, RequestIsCurrent
<1>9. TypeOK'
  BY <1>3, <1>4, <1>5, <1>6, <1>7 DEF IndInv, TypeOK, SavedType, ShownType, EntryType
<1>10. SignedOutIsClean'
  BY <1>1, <1>3, <1>4, <1>6, NameAssumption DEF IndInv, SignedOutIsClean
<1>11. RequestIsCurrent' /\ FormIsEmpty'
  BY <1>3, <1>6, <1>8 DEF RequestIsCurrent, FormIsEmpty
<1>12. PageIsSelected'
  BY <1>6 DEF PageIsSelected, Saved
<1> QED BY <1>9, <1>10, <1>11, <1>12 DEF IndInv

LEMMA ChannelsFailedStep ==
  ASSUME IndInv, NEW r \in Answered("channels"), ChannelsFailed(r)
  PROVE  IndInv'
<1>1. session \in Users
  BY AnsweredIsPending, SessionThere DEF IndInv
<1>2. pendingRequest' = None /\ superseded' \subseteq RequestType
  BY DoneTyped DEF ChannelsFailed, IndInv
<1>3. /\ contract \in {"unchecked", "supported", "unsupported"}
      /\ categoryEntries \subseteq Categories
  BY DEF IndInv, TypeOK
<1>4. /\ status' = FALSE /\ error' = TRUE /\ retryAction' = "channels"
      /\ UNCHANGED <<session, selectedCategory, startIndex, categoryEntries, totalChannels,
                     view, pagingVars, signInEnabled, history, position, account, stored,
                     contract>>
  BY DEF ChannelsFailed, ShowError, scriptVars, browserVars, ghostVars
<1> QED BY <1>1, <1>2, <1>3, <1>4, EndPreserves

\* The start a paging button moves to.
LEMMA TurnPreserves ==
  ASSUME IndInv, view = "channels", NEW start \in PageStarts, TurnTo(start)
  PROVE  IndInv'
<1>1. session \in Users
  BY ViewHasSession
<1>2. /\ selectedCategory \in Categories \cup {None}
      /\ categoryEntries \subseteq Categories /\ totalChannels \in 0..MaxTotal
      /\ signInEnabled \in BOOLEAN /\ history \in Seq(EntryType) /\ position \in DOMAIN history
      /\ contract \in {"unchecked", "supported", "unsupported"}
  BY DEF IndInv, TypeOK, EntryType
<1>3. CASE selectedCategory # None
  <2>1. selectedCategory \in Categories
    BY <1>2, <1>3
  <2>2. /\ LoadChannels(selectedCategory, start, None)
        /\ UNCHANGED <<session, categoryEntries, totalChannels, signInEnabled,
                       history, position, account, contract>>
    BY <1>3 DEF TurnTo, ghostVars
  <2> QED BY <1>1, <1>2, <2>1, <2>2, LoadPreserves
<1>4. CASE selectedCategory = None
  <2>1. /\ startIndex' = start
        /\ UNCHANGED <<session, selectedCategory, categoryEntries, totalChannels,
                       retryAction, pendingRequest, superseded, view, status, error,
                       pagingVars, signInEnabled, browserVars, ghostVars>>
    BY <1>4 DEF TurnTo
  <2>2. TypeOK'
    BY <2>1 DEF IndInv, TypeOK, pagingVars, browserVars, ghostVars
  <2>3. SignedOutIsClean'
    BY <2>1 DEF IndInv, SignedOutIsClean, pagingVars, browserVars, ghostVars
  <2>4. RequestIsCurrent' /\ FormIsEmpty' /\ PageIsSelected'
    BY <1>4, <2>1 DEF IndInv, RequestIsCurrent, FormIsEmpty, PageIsSelected, pagingVars
  <2> QED BY <2>2, <2>3, <2>4 DEF IndInv
<1> QED BY <1>3, <1>4

LEMMA PagingStep == ASSUME IndInv, PreviousPage \/ NextPage PROVE IndInv'
<1>1. startIndex \in PageStarts /\ totalChannels \in 0..MaxTotal
  BY DEF IndInv, TypeOK
<1>2. CASE PreviousPage
  <2> DEFINE start == IF startIndex > PageSize THEN startIndex - PageSize ELSE 0
  <2>1. start \in PageStarts
    BY <1>1, PreviousStart, FirstStart
  <2>2. view = "channels" /\ TurnTo(start)
    BY <1>2 DEF PreviousPage
  <2> QED BY <2>1, <2>2, TurnPreserves
<1>3. CASE NextPage
  <2>1. startIndex + PageSize =< MaxTotal
    BY <1>1, <1>3, PageAssumption DEF NextPage, PageStarts
  <2>2. startIndex + PageSize \in PageStarts
    BY <1>1, <2>1, NextStart
  <2> QED BY <1>3, <2>2, TurnPreserves DEF NextPage
<1> QED BY <1>2, <1>3

LEMMA OpenChannelStep == ASSUME IndInv, OpenChannel PROVE IndInv'
<1>1. session \in Users
  BY ViewHasSession DEF OpenChannel
<1>2. selectedCategory \in Categories \cup {None} /\ startIndex \in PageStarts
  BY DEF IndInv, TypeOK
<1>3. stored' \in SavedType /\ stored'.user = session
  BY <1>1, <1>2, SaveTyped DEF OpenChannel, IndInv
<1>4. history' \in Seq(EntryType) /\ position' \in DOMAIN history'
  BY <1>2, ReplaceTyped DEF OpenChannel, IndInv
<1>5. UNCHANGED <<scriptVars, retryAction, pendingRequest, superseded, view, status,
                  error, pagingVars, signInEnabled, ghostVars>>
  BY DEF OpenChannel
<1>6. TypeOK'
  BY <1>3, <1>4, <1>5 DEF IndInv, TypeOK, SavedType, EntryType, scriptVars, pagingVars, ghostVars
<1>7. SignedOutIsClean'
  BY <1>1, <1>3, <1>5, NameAssumption DEF IndInv, SignedOutIsClean, scriptVars, pagingVars, ghostVars
<1>8. RequestIsCurrent' /\ FormIsEmpty' /\ PageIsSelected'
  BY <1>5 DEF IndInv, RequestIsCurrent, FormIsEmpty, PageIsSelected, scriptVars, pagingVars
<1> QED BY <1>6, <1>7, <1>8 DEF IndInv

LEMMA BackToCategoriesStep == ASSUME IndInv, BackToCategories PROVE IndInv'
<1>1. session \in Users
  BY DEF BackToCategories, IndInv, TypeOK, SignedOutIsClean
<1>2. stored' \in SavedType /\ stored'.user = session
  BY <1>1, FirstStart, SaveTyped DEF BackToCategories, IndInv
<1>3. history' \in Seq(EntryType) /\ position' \in DOMAIN history'
  BY FirstStart, ReplaceTyped DEF BackToCategories, IndInv
<1>4. Request("categories", session, None, 0, FALSE) \in RequestType
  BY <1>1, RequestTyped, FirstStart DEF Kinds
<1>5. /\ pendingRequest' = Request("categories", session, None, 0, FALSE)
      /\ superseded' \subseteq RequestType /\ status' = TRUE
  BY <1>4, SendTyped DEF BackToCategories, LoadCategories, IndInv
<1>6. pendingRequest'.kind = "categories"
  BY <1>5 DEF Request
<1>7. /\ selectedCategory' = None /\ startIndex' \in PageStarts
      /\ contract' \in {"unchecked", "supported", "unsupported"}
      /\ UNCHANGED <<session, categoryEntries, totalChannels, retryAction, view, error,
                     pagingVars, signInEnabled, account>>
  BY FirstStart DEF BackToCategories, ghostVars, IndInv, TypeOK
<1> QED BY <1>1, <1>2, <1>3, <1>4, <1>5, <1>6, <1>7, AskPreserves

LEMMA RetryStep == ASSUME IndInv, Retry PROVE IndInv'
<1>1. session \in Users
  BY DEF Retry, IndInv, TypeOK, SignedOutIsClean
<1>2. /\ selectedCategory \in Categories \cup {None} /\ startIndex \in PageStarts
      /\ categoryEntries \subseteq Categories /\ totalChannels \in 0..MaxTotal
      /\ signInEnabled \in BOOLEAN /\ history \in Seq(EntryType) /\ position \in DOMAIN history
      /\ contract \in {"unchecked", "supported", "unsupported"}
  BY DEF IndInv, TypeOK, EntryType
<1>3. CASE retryAction = "categories"
  <2>1. /\ LoadCategories(session, None)
        /\ UNCHANGED <<scriptVars, retryAction, view, error, pagingVars, signInEnabled,
                       browserVars, ghostVars>>
    BY <1>3 DEF Retry
  <2>2. Request("categories", session, None, 0, FALSE) \in RequestType
    BY <1>1, RequestTyped, FirstStart DEF Kinds
  <2>3. /\ pendingRequest' = Request("categories", session, None, 0, FALSE)
        /\ superseded' \subseteq RequestType /\ status' = TRUE
    BY <2>1, <2>2, SendTyped DEF LoadCategories, IndInv
  <2>4. pendingRequest'.kind = "categories"
    BY <2>3 DEF Request
  <2> QED BY <1>1, <1>2, <2>1, <2>2, <2>3, <2>4, AskPreserves DEF scriptVars, browserVars, ghostVars
<1>4. CASE retryAction = "channels"
  <2>1. /\ LoadChannels(selectedCategory, startIndex, None) /\ selectedCategory # None
        /\ UNCHANGED <<session, categoryEntries, totalChannels, signInEnabled,
                       history, position, account, contract>>
    BY <1>4 DEF Retry, ghostVars
  <2>2. selectedCategory \in Categories
    BY <1>2, <2>1
  <2> QED BY <1>1, <1>2, <2>1, <2>2, LoadPreserves
<1> QED BY <1>3, <1>4 DEF Retry

LEMMA TraverseStep == ASSUME IndInv, NEW p \in DOMAIN history, Traverse(p) PROVE IndInv'
<1>1. /\ position' = p
      /\ UNCHANGED <<session, categoryEntries, totalChannels, signInEnabled, history,
                     account, contract>>
  BY DEF Traverse, ghostVars
<1>2. /\ history[p] \in EntryType
      /\ categoryEntries \subseteq Categories /\ totalChannels \in 0..MaxTotal
      /\ signInEnabled \in BOOLEAN /\ history \in Seq(EntryType) /\ session \in Users \cup {None}
      /\ contract \in {"unchecked", "supported", "unsupported"}
  <2>1. history \in Seq(EntryType)
    BY DEF IndInv, TypeOK, EntryType
  <2> QED BY <2>1 DEF IndInv, TypeOK
<1>3. history[p].category \in Categories \cup {None} /\ history[p].start \in PageStarts
  BY <1>2 DEF EntryType
<1>4. history' \in Seq(EntryType) /\ position' \in DOMAIN history'
  BY <1>1, <1>2
<1>5. CASE session = None
  <2>1. UNCHANGED <<selectedCategory, startIndex, retryAction, pendingRequest,
                    superseded, view, status, error, pagingVars, stored>>
    BY <1>5 DEF Traverse
  <2>2. TypeOK'
    BY <1>1, <1>4, <2>1 DEF IndInv, TypeOK, EntryType, pagingVars
  <2>3. SignedOutIsClean'
    BY <1>1, <2>1 DEF IndInv, SignedOutIsClean, pagingVars
  <2>4. RequestIsCurrent' /\ FormIsEmpty' /\ PageIsSelected'
    BY <1>1, <2>1 DEF IndInv, RequestIsCurrent, FormIsEmpty, PageIsSelected, pagingVars
  <2> QED BY <2>2, <2>3, <2>4 DEF IndInv
<1>6. CASE session # None /\ history[p].category # None
  <2>1. LoadChannels(history[p].category, history[p].start, None)
    BY <1>6 DEF Traverse
  <2>2. history[p].category \in Categories /\ session \in Users
    BY <1>2, <1>3, <1>6
  <2> QED BY <1>1, <1>2, <1>3, <1>4, <2>1, <2>2, LoadPreserves
<1>7. CASE session # None /\ history[p].category = None
  <2>1. /\ selectedCategory' = None /\ startIndex' = history[p].start
        /\ Save(session, None, history[p].start)
        /\ LoadCategories(session, None)
        /\ UNCHANGED <<retryAction, view, error, pagingVars>>
    BY <1>7 DEF Traverse
  <2>2. session \in Users
    BY <1>2, <1>7
  <2>3. stored' \in SavedType /\ stored'.user = session
    BY <1>3, <2>1, <2>2, SaveTyped DEF IndInv
  <2>4. Request("categories", session, None, 0, FALSE) \in RequestType
    BY <2>2, RequestTyped, FirstStart DEF Kinds
  <2>5. /\ pendingRequest' = Request("categories", session, None, 0, FALSE)
        /\ superseded' \subseteq RequestType /\ status' = TRUE
    BY <2>1, <2>4, SendTyped DEF LoadCategories, IndInv
  <2>6. pendingRequest'.kind = "categories"
    BY <2>5 DEF Request
  <2> QED BY <1>1, <1>2, <1>3, <1>4, <2>1, <2>2, <2>3, <2>4, <2>5, <2>6, AskPreserves
<1> QED BY <1>5, <1>6, <1>7

LEMMA RestoreStep == ASSUME IndInv, Restore PROVE IndInv'
<1>1. session \in Users
  BY DEF Restore, IndInv, TypeOK
<1>2. /\ selectedCategory \in Categories \cup {None} /\ startIndex \in PageStarts
      /\ history \in Seq(EntryType) /\ position \in DOMAIN history
      /\ contract \in {"unchecked", "supported", "unsupported"}
  BY DEF IndInv, TypeOK, EntryType
<1>3. stored' \in SavedType /\ stored'.user = session
  BY <1>1, <1>2, SaveTyped DEF Restore, IndInv
<1>4. Request("compatibility", session, None, 0, TRUE) \in RequestType
  BY <1>1, RequestTyped, FirstStart DEF Kinds
<1>5. /\ pendingRequest' = Request("compatibility", session, None, 0, TRUE)
      /\ superseded' \subseteq RequestType /\ status' = TRUE
  BY <1>4, SendTyped DEF Restore, CheckCompatibility, IndInv
<1>6. pendingRequest'.kind = "compatibility"
  BY <1>5 DEF Request
<1>7. UNCHANGED <<scriptVars, retryAction, view, error, pagingVars, signInEnabled,
                  history, position, ghostVars>>
  BY DEF Restore
<1> QED BY <1>1, <1>2, <1>3, <1>4, <1>5, <1>6, <1>7, AskPreserves DEF scriptVars, ghostVars

LEMMA ReloadStep == ASSUME IndInv, NEW hidden \in BOOLEAN, Reload(hidden) PROVE IndInv'
<1> DEFINE kept == IF hidden /\ session # None
                   THEN Saved(session, selectedCategory, startIndex) ELSE stored
           place == IF kept = None THEN Entry(None, 0) ELSE Entry(kept.category, kept.start)
<1>1. /\ stored' = kept
      /\ session' = (IF kept = None THEN None ELSE kept.user)
      /\ selectedCategory' = place.category
      /\ startIndex' = place.start
      /\ ReplaceState(place.category, place.start)
      /\ pendingRequest' = (IF kept = None THEN None
                            ELSE Request("compatibility", kept.user, None, 0, TRUE))
      /\ status' \in BOOLEAN
      /\ superseded' = {} /\ categoryEntries' = {} /\ totalChannels' = 0
      /\ error' = FALSE /\ retryAction' = "none" /\ view' = "login" /\ channelsPage' = None
      /\ previousEnabled' = TRUE /\ nextEnabled' = TRUE /\ signInEnabled' = TRUE
      /\ contract' = "unchecked" /\ account' = account
  BY DEF Reload, ClearError
<1>2. kept \in SavedType \cup {None} /\ (kept # None => kept.user = account)
  <2>1. CASE hidden /\ session # None
    <3>1. session = account /\ session \in Users
      BY <2>1 DEF IndInv, TypeOK, SignedOutIsClean
    <3>2. Saved(session, selectedCategory, startIndex) \in SavedType
      BY <3>1 DEF IndInv, TypeOK, Saved, SavedType
    <3>3. Saved(session, selectedCategory, startIndex).user = account
      BY <3>1 DEF Saved
    <3> QED BY <2>1, <3>2, <3>3
  <2>2. CASE ~ (hidden /\ session # None)
    BY <2>2 DEF IndInv, TypeOK, SignedOutIsClean, SavedType
  <2> QED BY <2>1, <2>2
<1> HIDE DEF kept
<1>3. /\ place.category \in Categories \cup {None} /\ place.start \in PageStarts
      /\ kept = None => place.category = None
  <2>1. CASE kept = None
    <3>1. Entry(None, 0).category = None /\ Entry(None, 0).start = 0
      BY DEF Entry
    <3> QED BY <2>1, <3>1, FirstStart
  <2>2. CASE kept # None
    <3>1. Entry(kept.category, kept.start).category = kept.category
      BY DEF Entry
    <3>2. Entry(kept.category, kept.start).start = kept.start
      BY DEF Entry
    <3>3. kept.category \in Categories \cup {None} /\ kept.start \in PageStarts
      BY <1>2, <2>2 DEF SavedType
    <3>4. place.category = kept.category /\ place.start = kept.start
      BY <2>2, <3>1, <3>2
    <3> HIDE DEF place
    <3> QED BY <2>2, <3>3, <3>4
  <2> QED BY <2>1, <2>2
<1> HIDE DEF place
<1>4. history' \in Seq(EntryType) /\ position' \in DOMAIN history'
  BY <1>1, <1>3, ReplaceTyped DEF IndInv
<1>5. kept # None => /\ Request("compatibility", kept.user, None, 0, TRUE) \in RequestType
                     /\ Request("compatibility", kept.user, None, 0, TRUE).kind = "compatibility"
                     /\ kept.user \in Users
  <2>1. kept # None => kept.user \in Users
    BY <1>2 DEF SavedType
  <2>2. kept # None => Request("compatibility", kept.user, None, 0, TRUE) \in RequestType
    BY <2>1, RequestTyped, FirstStart DEF Kinds
  <2>3. Request("compatibility", kept.user, None, 0, TRUE).kind = "compatibility"
    BY DEF Request
  <2> QED BY <2>1, <2>2, <2>3
<1>6. TypeOK'
  <2>1. /\ session' \in Users \cup {None}
        /\ selectedCategory' \in Categories \cup {None}
        /\ startIndex' \in PageStarts
    BY <1>1, <1>2, <1>3 DEF SavedType
  <2>2. pendingRequest' \in RequestType \cup {None}
    BY <1>1, <1>5
  <2>3. stored' \in SavedType \cup {None}
    BY <1>1, <1>2
  <2>4. totalChannels' \in 0..MaxTotal
    BY <1>1, PageAssumption
  <2>5. /\ categoryEntries' \subseteq Categories /\ superseded' \subseteq RequestType
        /\ retryAction' \in {"none", "categories", "channels"}
        /\ view' \in {"login", "categories", "channels"}
        /\ status' \in BOOLEAN /\ error' \in BOOLEAN /\ channelsPage' = None
        /\ previousEnabled' \in BOOLEAN /\ nextEnabled' \in BOOLEAN /\ signInEnabled' \in BOOLEAN
        /\ contract' \in {"unchecked", "supported", "unsupported"}
    BY <1>1
  <2>6. account' \in Users \cup {None}
    BY <1>1 DEF IndInv, TypeOK
  <2> QED BY <2>1, <2>2, <2>3, <2>4, <2>5, <2>6, <1>4 DEF TypeOK, SavedType, EntryType
<1>7. SignedOutIsClean'
  BY <1>1, <1>2, <1>3, <1>5, NameAssumption DEF IndInv, SignedOutIsClean
<1>8. RequestIsCurrent' /\ FormIsEmpty' /\ PageIsSelected'
  BY <1>1, <1>5 DEF RequestIsCurrent, FormIsEmpty, PageIsSelected
<1> QED BY <1>6, <1>7, <1>8 DEF IndInv

LEMMA IgnoreStep == ASSUME IndInv, NEW r \in superseded, Ignore(r) PROVE IndInv'
<1>1. /\ superseded' = superseded \ {r}
      /\ UNCHANGED <<scriptVars, retryAction, pendingRequest, view, status, error,
                     pagingVars, signInEnabled, browserVars, ghostVars>>
  BY DEF Ignore
<1>2. TypeOK'
  BY <1>1 DEF IndInv, TypeOK, scriptVars, pagingVars, browserVars, ghostVars
<1>3. SignedOutIsClean'
  BY <1>1 DEF IndInv, SignedOutIsClean, scriptVars, pagingVars, browserVars, ghostVars
<1>4. RequestIsCurrent' /\ FormIsEmpty' /\ PageIsSelected'
  BY <1>1 DEF IndInv, RequestIsCurrent, FormIsEmpty, PageIsSelected, scriptVars, pagingVars
<1> QED BY <1>2, <1>3, <1>4 DEF IndInv

-----------------------------------------------------------------------------
(* The theorems.                                                           *)

LEMMA InitHolds == Init => IndInv
<1> SUFFICES ASSUME Init PROVE IndInv
  OBVIOUS
<1>1. history \in Seq(EntryType) /\ position \in DOMAIN history
  <2>1. Entry(None, 0) \in EntryType
    BY FirstStart DEF Entry, EntryType
  <2>2. <<Entry(None, 0)>> \in Seq(EntryType) /\ 1 \in DOMAIN <<Entry(None, 0)>>
    BY <2>1
  <2> QED BY <2>2 DEF Init
<1>2. TypeOK
  <2>1. /\ session = None /\ selectedCategory = None /\ startIndex \in PageStarts
        /\ categoryEntries = {} /\ retryAction = "none" /\ pendingRequest = None
        /\ superseded = {} /\ view = "login" /\ status = FALSE /\ error = FALSE
        /\ channelsPage = None /\ previousEnabled = TRUE /\ nextEnabled = TRUE
        /\ signInEnabled = TRUE /\ stored = None /\ account = None /\ contract = "unchecked"
    BY FirstStart DEF Init
  <2>2. totalChannels \in 0..MaxTotal
    BY PageAssumption DEF Init
  <2> QED BY <2>1, <2>2, <1>1 DEF TypeOK, EntryType
<1>3. SignedOutIsClean
  BY DEF Init, SignedOutIsClean
<1> QED BY <1>2, <1>3 DEF IndInv, RequestIsCurrent, FormIsEmpty, PageIsSelected, Init

LEMMA AnswerStep == ASSUME IndInv, Answer PROVE IndInv'
<1>1. CASE \E r \in Answered("login") : LoginAccepted(r) \/ LoginRejected(r) \/ SessionExpired(r)
  BY <1>1, LoginAcceptedStep, LoginRejectedStep, ClearStep DEF Answered
<1>2. CASE \E r \in Answered("compatibility") :
              \/ ContractUnsupported(r)
              \/ CompatibilityForbidden(r)
              \/ \E verdict \in {"supported", contract} : CompatibilityChecked(r, verdict)
              \/ SessionExpired(r)
  BY <1>2, ContractUnsupportedStep, CompatibilityForbiddenStep, CompatibilityCheckedStep,
     ClearStep DEF Answered
<1>3. CASE \E r \in Answered("categories") :
              \/ \E listed \in SUBSET Listed : CategoriesLoaded(r, listed)
              \/ CategoriesForbidden(r)
              \/ CategoriesFailed(r)
              \/ SessionExpired(r)
  BY <1>3, CategoriesLoadedStep, CategoriesForbiddenStep, CategoriesFailedStep,
     ClearStep DEF Answered
<1>4. CASE \E r \in Answered("channels") :
              \/ \E total \in 0..MaxTotal : ChannelsBeyondEnd(r, total) \/ ChannelsLoaded(r, total)
              \/ ChannelsFailed(r)
              \/ SessionExpired(r)
  BY <1>4, ChannelsBeyondEndStep, ChannelsLoadedStep, ChannelsFailedStep, ClearStep DEF Answered
<1> QED BY <1>1, <1>2, <1>3, <1>4 DEF Answer

LEMMA InputStep == ASSUME IndInv, Input PROVE IndInv'
<1>1. CASE \E user \in Users : SubmitLogin(user)
  BY <1>1, SubmitLoginStep
<1>2. CASE SignOut
  BY <1>2, ClearStep
<1>3. CASE \E category \in Categories : Open(category)
  BY <1>3, OpenStep
<1>4. CASE PreviousPage \/ NextPage
  BY <1>4, PagingStep
<1>5. CASE OpenChannel \/ BackToCategories \/ Retry \/ Restore
  BY <1>5, OpenChannelStep, BackToCategoriesStep, RetryStep, RestoreStep
<1>6. CASE \E p \in DOMAIN history : Traverse(p)
  BY <1>6, TraverseStep
<1>7. CASE \E hidden \in BOOLEAN : Reload(hidden)
  BY <1>7, ReloadStep
<1> QED BY <1>1, <1>2, <1>3, <1>4, <1>5, <1>6, <1>7 DEF Input

LEMMA StutterHolds == ASSUME IndInv, UNCHANGED vars PROVE IndInv'
<1>1. UNCHANGED <<scriptVars, retryAction, pendingRequest, superseded, view, status,
                  error, pagingVars, signInEnabled, browserVars, ghostVars>>
  BY DEF vars
<1>2. TypeOK'
  BY <1>1 DEF IndInv, TypeOK, scriptVars, pagingVars, browserVars, ghostVars
<1>3. SignedOutIsClean'
  BY <1>1 DEF IndInv, SignedOutIsClean, scriptVars, pagingVars, browserVars, ghostVars
<1>4. RequestIsCurrent' /\ FormIsEmpty' /\ PageIsSelected'
  BY <1>1 DEF IndInv, RequestIsCurrent, FormIsEmpty, PageIsSelected, scriptVars, pagingVars
<1> QED BY <1>2, <1>3, <1>4 DEF IndInv

LEMMA NextHolds == IndInv /\ [Next]_vars => IndInv'
<1> SUFFICES ASSUME IndInv, [Next]_vars PROVE IndInv'
  OBVIOUS
<1>1. CASE Answer
  BY <1>1, AnswerStep
<1>2. CASE \E r \in superseded : Ignore(r)
  BY <1>2, IgnoreStep
<1>3. CASE Input
  BY <1>3, InputStep
<1>4. CASE UNCHANGED vars
  BY <1>4, StutterHolds
<1> QED BY <1>1, <1>2, <1>3, <1>4 DEF Next, Network

LEMMA InvariantHolds == Spec => []IndInv
<1>1. Init => IndInv
  BY InitHolds
<1>2. IndInv /\ [Next]_vars => IndInv'
  BY NextHolds
<1> QED BY <1>1, <1>2, PTL DEF Spec

\* Every variable keeps its type, and every start that is selected, shown,
\* saved or kept in the history is that of a page (loadChannels and its paging).
THEOREM TypeCorrect == Spec => []TypeOK
<1>1. IndInv => TypeOK
  BY DEF IndInv
<1> QED BY <1>1, InvariantHolds, PTL

\* Nothing of an account survives its sign-out (clearSession, request).
THEOREM SignedOutSafe == Spec => []SignedOutIsClean
<1>1. IndInv => SignedOutIsClean
  BY DEF IndInv
<1> QED BY <1>1, InvariantHolds, PTL

\* The channels on the screen are the session's and the selection's
\* (loadChannels).
THEOREM PageSafe == Spec => []PageIsSelected
<1>1. IndInv => PageIsSelected
  BY DEF IndInv
<1> QED BY <1>1, InvariantHolds, PTL

-----------------------------------------------------------------------------
(* The page at rest.  A request for channels is only awaited on an empty   *)
(* page, with its place saved and nothing to retry: whatever its answer,   *)
(* the page that comes to rest can be used, returned to and paged.         *)

AwaitedIsSaved ==
    pendingRequest # None /\ pendingRequest.kind = "channels" =>
        /\ retryAction = "none"
        /\ channelsPage = None
        /\ stored = Saved(session, selectedCategory, startIndex)

Rest == RestIsUsable /\ PageIsRestorable /\ PagingIsCurrent /\ AwaitedIsSaved

LEMMA LoadRests ==
  ASSUME IndInv, session \in Users, NEW category \in Categories, NEW start \in PageStarts,
         NEW r, LoadChannels(category, start, r), session' = session
  PROVE  Rest'
<1>1. /\ selectedCategory' = category /\ startIndex' = start /\ retryAction' = "none"
      /\ status' = TRUE /\ channelsPage' = None /\ previousEnabled' = FALSE
      /\ nextEnabled' = FALSE /\ pendingRequest' \in RequestType
  BY LoadTyped DEF IndInv
<1>2. pendingRequest' # None
  BY <1>1, RequestAssumption
<1>3. stored' = Saved(session, category, start)
  BY NameAssumption DEF LoadChannels, Save
<1> QED BY <1>1, <1>2, <1>3
        DEF Rest, RestIsUsable, PageIsRestorable, PagingIsCurrent, AwaitedIsSaved

\* Every request that is not for channels.
LEMMA AskRests ==
  ASSUME Rest, pendingRequest' \in RequestType, pendingRequest'.kind # "channels",
         status' = TRUE,
         selectedCategory' = None \/ UNCHANGED <<selectedCategory, startIndex>>,
         UNCHANGED <<view, totalChannels, pagingVars>>
  PROVE  Rest'
<1>1. pendingRequest' # None
  BY RequestAssumption
<1>2. RestIsUsable' /\ PageIsRestorable' /\ AwaitedIsSaved'
  BY <1>1 DEF RestIsUsable, PageIsRestorable, AwaitedIsSaved
<1>3. PagingIsCurrent'
  BY DEF Rest, PagingIsCurrent, pagingVars
<1> QED BY <1>2, <1>3 DEF Rest

LEMMA ClearRests == ASSUME NEW r, ClearSession(r) PROVE Rest'
  BY DEF ClearSession, ShowError, Rest, RestIsUsable, PageIsRestorable, PagingIsCurrent,
         AwaitedIsSaved

\* Every answer that leaves the list of categories on the screen.
LEMMA EndRests ==
  ASSUME pendingRequest' = None, status' = FALSE, view' = "categories",
         categoryEntries' # {} \/ error' = TRUE,
         retryAction' = "none" \/ (retryAction' = "categories" /\ error' = TRUE)
  PROVE  Rest'
  BY DEF Rest, RestIsUsable, PageIsRestorable, PagingIsCurrent, AwaitedIsSaved

LEMMA LoginRests ==
  ASSUME IndInv, Rest, NEW r \in Answered("login"),
         LoginAccepted(r) \/ LoginRejected(r) \/ SessionExpired(r)
  PROVE  Rest'
<1>1. r = pendingRequest /\ r \in RequestType /\ r.kind = "login" /\ pendingRequest # None
  BY AnsweredIsPending DEF IndInv
<1>2. CASE LoginAccepted(r)
  <2>1. Request("compatibility", r.user, None, 0, FALSE) \in RequestType
    <3>1. r.user \in Users
      BY <1>1 DEF RequestType
    <3> QED BY <3>1, RequestTyped, FirstStart DEF Kinds
  <2>2. pendingRequest' = Request("compatibility", r.user, None, 0, FALSE) /\ status' = TRUE
    BY <1>2 DEF LoginAccepted, CheckCompatibility, Send
  <2>3. pendingRequest'.kind = "compatibility"
    BY <2>2 DEF Request
  <2>4. UNCHANGED <<selectedCategory, startIndex, totalChannels, view, pagingVars>>
    BY <1>2 DEF LoginAccepted
  <2> QED BY <2>1, <2>2, <2>3, <2>4, AskRests
<1>3. CASE LoginRejected(r)
  <2>1. view = "login"
    BY <1>1 DEF IndInv, RequestIsCurrent
  <2>2. /\ signInEnabled' = TRUE /\ status' = FALSE /\ retryAction' = "none"
        /\ pendingRequest' = None /\ view' = view
    BY <1>3 DEF LoginRejected, ShowError, Done
  <2> QED BY <2>1, <2>2
          DEF Rest, RestIsUsable, PageIsRestorable, PagingIsCurrent, AwaitedIsSaved
<1> QED BY <1>2, <1>3, ClearRests DEF SessionExpired

LEMMA CompatibilityRests ==
  ASSUME IndInv, Rest, NEW r \in Answered("compatibility"),
         \/ ContractUnsupported(r)
         \/ CompatibilityForbidden(r)
         \/ \E verdict \in {"supported", contract} : CompatibilityChecked(r, verdict)
         \/ SessionExpired(r)
  PROVE  Rest'
<1>1. r = pendingRequest /\ r \in RequestType /\ r.kind = "compatibility" /\ pendingRequest # None
  BY AnsweredIsPending DEF IndInv
<1>2. session \in Users
  BY <1>1, SessionThere
<1>3. CASE ContractUnsupported(r)
  <2>1. /\ categoryEntries' = {AllChannels} /\ view' = "categories" /\ status' = FALSE
        /\ retryAction' = "none" /\ pendingRequest' = None
    BY <1>3 DEF ContractUnsupported, RenderCategories, ShowError, Done
  <2> QED BY <2>1, EndRests
<1>4. CASE CompatibilityForbidden(r)
  <2>1. /\ error' = TRUE /\ view' = "categories" /\ status' = FALSE
        /\ retryAction' = "none" /\ pendingRequest' = None
    BY <1>4 DEF CompatibilityForbidden, RenderCategories, ShowError, Done
  <2> QED BY <2>1, EndRests
<1>5. ASSUME NEW verdict, CompatibilityChecked(r, verdict) PROVE Rest'
  <2>1. CASE r.restore /\ selectedCategory # None
    <3>1. LoadChannels(selectedCategory, startIndex, r) /\ session' = session
      BY <1>5, <2>1 DEF CompatibilityChecked
    <3>2. selectedCategory \in Categories /\ startIndex \in PageStarts
      BY <2>1 DEF IndInv, TypeOK
    <3> QED BY <1>2, <3>1, <3>2, LoadRests
  <2>2. CASE ~ (r.restore /\ selectedCategory # None)
    <3>1. /\ LoadCategories(session, r)
          /\ UNCHANGED <<scriptVars, view, pagingVars>>
      BY <1>5, <2>2 DEF CompatibilityChecked
    <3>2. Request("categories", session, None, 0, FALSE) \in RequestType
      BY <1>2, RequestTyped, FirstStart DEF Kinds
    <3>3. pendingRequest' = Request("categories", session, None, 0, FALSE) /\ status' = TRUE
      BY <3>1 DEF LoadCategories, Send
    <3>4. pendingRequest'.kind = "categories"
      BY <3>3 DEF Request
    <3> QED BY <3>1, <3>2, <3>3, <3>4, AskRests DEF scriptVars
  <2> QED BY <2>1, <2>2
<1> QED BY <1>3, <1>4, <1>5, ClearRests DEF SessionExpired

LEMMA CategoriesRests ==
  ASSUME NEW r,
         \/ \E listed \in SUBSET Listed : CategoriesLoaded(r, listed)
         \/ CategoriesForbidden(r)
         \/ CategoriesFailed(r)
         \/ SessionExpired(r)
  PROVE  Rest'
<1>1. ASSUME NEW listed \in SUBSET Listed, CategoriesLoaded(r, listed) PROVE Rest'
  <2>1. /\ categoryEntries' = listed \cup {AllChannels} /\ view' = "categories"
        /\ status' = FALSE /\ retryAction' = "none" /\ pendingRequest' = None
    BY <1>1 DEF CategoriesLoaded, RenderCategories, ClearError, Done
  <2> QED BY <2>1, EndRests
<1>2. CASE CategoriesForbidden(r)
  <2>1. /\ error' = TRUE /\ view' = "categories" /\ status' = FALSE
        /\ retryAction' = "categories" /\ pendingRequest' = None
    BY <1>2 DEF CategoriesForbidden, RenderCategories, ShowError, Done
  <2> QED BY <2>1, EndRests
<1>3. CASE CategoriesFailed(r)
  <2>1. /\ error' = TRUE /\ view' = "categories" /\ status' = FALSE
        /\ retryAction' = "categories" /\ pendingRequest' = None
    BY <1>3 DEF CategoriesFailed, RenderCategories, ShowError, Done
  <2> QED BY <2>1, EndRests
<1> QED BY <1>1, <1>2, <1>3, ClearRests DEF SessionExpired

LEMMA ChannelsLoadedRests ==
  ASSUME IndInv, Rest, NEW r \in Answered("channels"), NEW total \in 0..MaxTotal,
         ChannelsLoaded(r, total)
  PROVE  Rest'
<1>1. r = pendingRequest /\ r \in RequestType /\ r.kind = "channels" /\ pendingRequest # None
  BY AnsweredIsPending DEF IndInv
<1>2. session \in Users /\ session # None
  BY <1>1, SessionThere, NameAssumption
<1>3. /\ view = "channels" /\ selectedCategory # None /\ r.category = selectedCategory
      /\ r.start = startIndex /\ retryAction = "none"
  BY <1>1 DEF IndInv, RequestIsCurrent, Rest, AwaitedIsSaved
<1>4. /\ selectedCategory \in Categories /\ startIndex \in PageStarts
      /\ position \in DOMAIN history /\ history \in Seq(EntryType)
  BY <1>3 DEF IndInv, TypeOK, EntryType
<1>5. /\ channelsPage' = Saved(session, selectedCategory, startIndex)
      /\ previousEnabled' = (startIndex # 0) /\ nextEnabled' = (startIndex + PageSize < total)
      /\ status' = FALSE /\ totalChannels' = total /\ pendingRequest' = None
      /\ UNCHANGED <<session, selectedCategory, startIndex, retryAction, view>>
  BY <1>3 DEF ChannelsLoaded, Done
<1>6. channelsPage' # None
  <2>1. Saved(session, selectedCategory, startIndex) \in ShownType
    BY <1>2, <1>4 DEF Saved, ShownType
  <2> QED BY <1>5, <2>1, ShownAssumption DEF ShownType
<1>7. stored' = Saved(session, selectedCategory, startIndex)
  BY <1>2 DEF ChannelsLoaded, Save
<1>8. history'[position'] = Entry(selectedCategory, startIndex)
  BY <1>4 DEF ChannelsLoaded, ReplaceState
<1>9. RestIsUsable'
  BY <1>3, <1>5, <1>6 DEF RestIsUsable
<1>10. PageIsRestorable' /\ AwaitedIsSaved'
  BY <1>3, <1>5, <1>7, <1>8 DEF PageIsRestorable, AwaitedIsSaved
<1>11. PagingIsCurrent'
  <2>1. startIndex \in Nat
    BY <1>4 DEF PageStarts
  <2>2. nextEnabled' => startIndex' + PageSize < totalChannels'
    BY <1>5
  <2>3. previousEnabled' => startIndex' > 0
    <3>1. previousEnabled' => startIndex # 0
      BY <1>5
    <3>2. startIndex # 0 => startIndex > 0
      BY <2>1
    <3>3. startIndex' = startIndex
      BY <1>5
    <3> QED BY <3>1, <3>2, <3>3
  <2> QED BY <1>6, <2>2, <2>3 DEF PagingIsCurrent
<1> QED BY <1>9, <1>10, <1>11 DEF Rest

LEMMA ChannelsRests ==
  ASSUME IndInv, Rest, NEW r \in Answered("channels"),
         \/ \E total \in 0..MaxTotal : ChannelsBeyondEnd(r, total) \/ ChannelsLoaded(r, total)
         \/ ChannelsFailed(r)
         \/ SessionExpired(r)
  PROVE  Rest'
<1>1. r = pendingRequest /\ r \in RequestType /\ r.kind = "channels" /\ pendingRequest # None
  BY AnsweredIsPending DEF IndInv
<1>2. session \in Users
  BY <1>1, SessionThere
<1>3. /\ view = "channels" /\ selectedCategory \in Categories /\ selectedCategory # None
      /\ retryAction = "none" /\ channelsPage = None
      /\ stored = Saved(session, selectedCategory, startIndex)
  BY <1>1 DEF IndInv, TypeOK, RequestIsCurrent, Rest, AwaitedIsSaved
<1>4. ASSUME NEW total \in 0..MaxTotal, ChannelsBeyondEnd(r, total) PROVE Rest'
  <2>1. /\ LoadChannels(selectedCategory, LastPage(total), r)
        /\ session' = session /\ total > 0
    BY <1>4 DEF ChannelsBeyondEnd
  <2>2. LastPage(total) \in PageStarts
    BY <1>4, <2>1, LastStart, PageAssumption
  <2> QED BY <1>2, <1>3, <2>1, <2>2, LoadRests
<1>5. CASE ChannelsFailed(r)
  <2>1. /\ status' = FALSE /\ error' = TRUE /\ retryAction' = "channels"
        /\ pendingRequest' = None
        /\ UNCHANGED <<scriptVars, view, pagingVars, browserVars>>
    BY <1>5 DEF ChannelsFailed, ShowError, Done
  <2>2. RestIsUsable'
    BY <1>3, <2>1 DEF RestIsUsable
  <2>3. PageIsRestorable' /\ AwaitedIsSaved'
    BY <1>3, <2>1 DEF PageIsRestorable, AwaitedIsSaved, scriptVars, pagingVars, browserVars
  <2>4. PagingIsCurrent'
    BY <2>1 DEF Rest, PagingIsCurrent, scriptVars, pagingVars
  <2> QED BY <2>2, <2>3, <2>4 DEF Rest
<1> QED BY <1>4, <1>5, ChannelsLoadedRests, ClearRests DEF SessionExpired

LEMMA SubmitLoginRests ==
  ASSUME IndInv, Rest, NEW user \in Users, SubmitLogin(user)
  PROVE  Rest'
<1>1. Request("login", user, None, 0, FALSE) \in RequestType
  BY RequestTyped, FirstStart DEF Kinds
<1>2. /\ pendingRequest' = Request("login", user, None, 0, FALSE) /\ status' = TRUE
      /\ UNCHANGED <<scriptVars, view, pagingVars>>
  BY DEF SubmitLogin, Send
<1>3. pendingRequest'.kind = "login"
  BY <1>2 DEF Request
<1> QED BY <1>1, <1>2, <1>3, AskRests DEF scriptVars

\* A category is opened, or another page of it is turned to, in a session.
LEMMA OpenRests == ASSUME IndInv, NEW category \in Categories, Open(category) PROVE Rest'
<1>1. session \in Users
  BY ViewHasSession DEF Open
<1>2. LoadChannels(category, 0, None) /\ session' = session
  BY DEF Open
<1> QED BY <1>1, <1>2, FirstStart, LoadRests

LEMMA TurnRests ==
  ASSUME IndInv, Rest, view = "channels", NEW start \in PageStarts, TurnTo(start)
  PROVE  Rest'
<1>1. session \in Users
  BY ViewHasSession
<1>2. CASE selectedCategory # None
  <2>1. LoadChannels(selectedCategory, start, None) /\ session' = session
    BY <1>2 DEF TurnTo
  <2>2. selectedCategory \in Categories
    BY <1>2 DEF IndInv, TypeOK
  <2> QED BY <1>1, <2>1, <2>2, LoadRests
<1>3. CASE selectedCategory = None
  <2>1. pendingRequest # None /\ pendingRequest.kind # "channels"
    BY <1>3 DEF IndInv, RequestIsCurrent, Rest, PageIsRestorable
  <2>2. UNCHANGED <<selectedCategory, pendingRequest, status>>
    BY <1>3 DEF TurnTo
  <2>3. RestIsUsable' /\ PageIsRestorable' /\ AwaitedIsSaved'
    BY <2>1, <2>2 DEF Rest, RestIsUsable, PageIsRestorable, AwaitedIsSaved
  <2>4. PagingIsCurrent'
    BY <1>3, <2>2 DEF PagingIsCurrent
  <2> QED BY <2>3, <2>4 DEF Rest
<1> QED BY <1>2, <1>3

LEMMA PagingRests == ASSUME IndInv, Rest, PreviousPage \/ NextPage PROVE Rest'
<1>1. startIndex \in PageStarts /\ totalChannels \in 0..MaxTotal
  BY DEF IndInv, TypeOK
<1>2. CASE PreviousPage
  <2> DEFINE start == IF startIndex > PageSize THEN startIndex - PageSize ELSE 0
  <2>1. start \in PageStarts
    BY <1>1, PreviousStart, FirstStart
  <2>2. view = "channels" /\ TurnTo(start)
    BY <1>2 DEF PreviousPage
  <2> QED BY <2>1, <2>2, TurnRests
<1>3. CASE NextPage
  <2>1. startIndex + PageSize =< MaxTotal
    BY <1>1, <1>3, PageAssumption DEF NextPage, PageStarts
  <2>2. startIndex + PageSize \in PageStarts
    BY <1>1, <2>1, NextStart
  <2> QED BY <1>3, <2>2, TurnRests DEF NextPage
<1> QED BY <1>2, <1>3

\* A channel is opened from a page, so no channels are awaited.
LEMMA OpenChannelRests == ASSUME IndInv, Rest, OpenChannel PROVE Rest'
<1>1. session # None
  BY ViewHasSession, NameAssumption DEF OpenChannel
<1>2. /\ view = "channels" /\ channelsPage # None
      /\ stored' = Saved(session, selectedCategory, startIndex)
      /\ UNCHANGED <<scriptVars, retryAction, pendingRequest, view, status, error,
                     pagingVars, signInEnabled>>
  BY <1>1 DEF OpenChannel, Save
<1>3. history'[position'] = Entry(selectedCategory, startIndex)
  <2>1. position \in DOMAIN history
    BY DEF IndInv, TypeOK
  <2> QED BY <2>1 DEF OpenChannel, ReplaceState
<1>4. RestIsUsable'
  BY <1>2 DEF Rest, RestIsUsable, scriptVars, pagingVars
<1>5. PageIsRestorable'
  BY <1>2, <1>3 DEF Rest, PageIsRestorable, scriptVars, pagingVars
<1>6. PagingIsCurrent' /\ AwaitedIsSaved'
  BY <1>2 DEF Rest, PagingIsCurrent, AwaitedIsSaved, scriptVars, pagingVars
<1> QED BY <1>4, <1>5, <1>6 DEF Rest

\* The list of categories is asked for again.
LEMMA ListRests ==
  ASSUME IndInv, Rest, session \in Users, LoadCategories(session, None),
         selectedCategory' = None \/ UNCHANGED <<selectedCategory, startIndex>>,
         UNCHANGED <<view, totalChannels, pagingVars>>
  PROVE  Rest'
<1>1. Request("categories", session, None, 0, FALSE) \in RequestType
  BY RequestTyped, FirstStart DEF Kinds
<1>2. pendingRequest' = Request("categories", session, None, 0, FALSE) /\ status' = TRUE
  BY DEF LoadCategories, Send
<1>3. pendingRequest'.kind = "categories"
  BY <1>2 DEF Request
<1> QED BY <1>1, <1>2, <1>3, AskRests

LEMMA BackRests == ASSUME IndInv, Rest, BackToCategories PROVE Rest'
<1>1. session \in Users
  BY DEF BackToCategories, IndInv, TypeOK, SignedOutIsClean
<1>2. /\ LoadCategories(session, None) /\ selectedCategory' = None
      /\ UNCHANGED <<view, totalChannels, pagingVars>>
  BY DEF BackToCategories
<1> QED BY <1>1, <1>2, ListRests

LEMMA RetryRests == ASSUME IndInv, Rest, Retry PROVE Rest'
<1>1. session \in Users
  BY DEF Retry, IndInv, TypeOK, SignedOutIsClean
<1>2. CASE retryAction = "categories"
  <2>1. LoadCategories(session, None) /\ UNCHANGED <<scriptVars, view, pagingVars>>
    BY <1>2 DEF Retry
  <2> QED BY <1>1, <2>1, ListRests DEF scriptVars
<1>3. CASE retryAction = "channels"
  <2>1. /\ LoadChannels(selectedCategory, startIndex, None) /\ selectedCategory # None
        /\ session' = session
    BY <1>3 DEF Retry
  <2>2. selectedCategory \in Categories /\ startIndex \in PageStarts
    BY <2>1 DEF IndInv, TypeOK
  <2> QED BY <1>1, <2>1, <2>2, LoadRests
<1> QED BY <1>2, <1>3 DEF Retry

LEMMA TraverseRests == ASSUME IndInv, Rest, NEW p \in DOMAIN history, Traverse(p) PROVE Rest'
<1>1. UNCHANGED <<session, categoryEntries, totalChannels, signInEnabled>>
  BY DEF Traverse
<1>2. history[p].category \in Categories \cup {None} /\ history[p].start \in PageStarts
  <2>1. history \in Seq(EntryType)
    BY DEF IndInv, TypeOK, EntryType
  <2>2. history[p] \in EntryType
    BY <2>1
  <2> QED BY <2>2 DEF EntryType
<1>3. CASE session = None
  <2>1. view = "login" /\ (pendingRequest # None => pendingRequest.kind = "login")
    BY <1>3 DEF IndInv, SignedOutIsClean
  <2>2. UNCHANGED <<retryAction, pendingRequest, view, status, error, pagingVars>>
    BY <1>3 DEF Traverse
  <2>3. RestIsUsable'
    BY <1>1, <2>1, <2>2 DEF Rest, RestIsUsable
  <2>4. PageIsRestorable' /\ PagingIsCurrent' /\ AwaitedIsSaved'
    BY <2>1, <2>2 DEF PageIsRestorable, PagingIsCurrent, AwaitedIsSaved
  <2> QED BY <2>3, <2>4 DEF Rest
<1>4. CASE session # None
  <2>1. session \in Users
    BY <1>4 DEF IndInv, TypeOK
  <2>2. CASE history[p].category # None
    <3>1. LoadChannels(history[p].category, history[p].start, None)
      BY <1>4, <2>2 DEF Traverse
    <3> QED BY <1>1, <1>2, <2>1, <2>2, <3>1, LoadRests
  <2>3. CASE history[p].category = None
    <3>1. /\ LoadCategories(session, None) /\ selectedCategory' = None
          /\ UNCHANGED <<view, pagingVars>>
      BY <1>4, <2>3 DEF Traverse
    <3> QED BY <1>1, <2>1, <3>1, ListRests
  <2> QED BY <2>2, <2>3
<1> QED BY <1>3, <1>4

LEMMA RestoreRests == ASSUME IndInv, Rest, Restore PROVE Rest'
<1>1. session \in Users
  BY DEF Restore, IndInv, TypeOK
<1>2. Request("compatibility", session, None, 0, TRUE) \in RequestType
  BY <1>1, RequestTyped, FirstStart DEF Kinds
<1>3. /\ pendingRequest' = Request("compatibility", session, None, 0, TRUE) /\ status' = TRUE
      /\ UNCHANGED <<scriptVars, view, pagingVars>>
  BY DEF Restore, CheckCompatibility, Send
<1>4. pendingRequest'.kind = "compatibility"
  BY <1>3 DEF Request
<1> QED BY <1>2, <1>3, <1>4, AskRests DEF scriptVars

\* The page that is loaded again shows the form, with the check of the saved
\* session awaited behind it if there is one.
LEMMA ReloadRests == ASSUME IndInv, NEW hidden \in BOOLEAN, Reload(hidden) PROVE Rest'
<1> DEFINE kept == IF hidden /\ session # None
                   THEN Saved(session, selectedCategory, startIndex) ELSE stored
           check == Request("compatibility", kept.user, None, 0, TRUE)
<1>1. /\ pendingRequest' = (IF kept = None THEN None ELSE check)
      /\ status' = (kept # None) /\ view' = "login" /\ signInEnabled' = TRUE
      /\ retryAction' = "none"
  BY DEF Reload, ClearError
<1>2. kept # None => check \in RequestType
  <2>1. CASE hidden /\ session # None
    <3>1. kept.user = session /\ session \in Users
      BY <2>1 DEF IndInv, TypeOK, Saved
    <3> QED BY <3>1, RequestTyped, FirstStart DEF Kinds
  <2>2. CASE ~ (hidden /\ session # None) /\ stored # None
    <3>1. kept.user = stored.user /\ stored.user \in Users
      BY <2>2 DEF IndInv, TypeOK
    <3> QED BY <3>1, RequestTyped, FirstStart DEF Kinds
  <2> QED BY <2>1, <2>2
<1>3. check.kind = "compatibility"
  BY DEF Request
<1> HIDE DEF kept, check
<1> QED BY <1>1, <1>2, <1>3, RequestAssumption
        DEF Rest, RestIsUsable, PageIsRestorable, PagingIsCurrent, AwaitedIsSaved

LEMMA IgnoreRests == ASSUME Rest, NEW r \in superseded, Ignore(r) PROVE Rest'
<1>1. UNCHANGED <<scriptVars, retryAction, pendingRequest, view, status, error,
                  pagingVars, signInEnabled, browserVars>>
  BY DEF Ignore
<1>2. RestIsUsable' /\ AwaitedIsSaved'
  BY <1>1 DEF Rest, RestIsUsable, AwaitedIsSaved, scriptVars, pagingVars, browserVars
<1>3. PageIsRestorable' /\ PagingIsCurrent'
  BY <1>1 DEF Rest, PageIsRestorable, PagingIsCurrent, scriptVars, pagingVars, browserVars
<1> QED BY <1>2, <1>3 DEF Rest

LEMMA StutterRests == ASSUME Rest, UNCHANGED vars PROVE Rest'
<1>1. UNCHANGED <<scriptVars, retryAction, pendingRequest, view, status, error,
                  pagingVars, signInEnabled, browserVars>>
  BY DEF vars
<1>2. RestIsUsable' /\ AwaitedIsSaved'
  BY <1>1 DEF Rest, RestIsUsable, AwaitedIsSaved, scriptVars, pagingVars, browserVars
<1>3. PageIsRestorable' /\ PagingIsCurrent'
  BY <1>1 DEF Rest, PageIsRestorable, PagingIsCurrent, scriptVars, pagingVars, browserVars
<1> QED BY <1>2, <1>3 DEF Rest

LEMMA AnswerRests == ASSUME IndInv, Rest, Answer PROVE Rest'
<1>1. CASE \E r \in Answered("login") : LoginAccepted(r) \/ LoginRejected(r) \/ SessionExpired(r)
  BY <1>1, LoginRests
<1>2. CASE \E r \in Answered("compatibility") :
              \/ ContractUnsupported(r)
              \/ CompatibilityForbidden(r)
              \/ \E verdict \in {"supported", contract} : CompatibilityChecked(r, verdict)
              \/ SessionExpired(r)
  BY <1>2, CompatibilityRests
<1>3. CASE \E r \in Answered("categories") :
              \/ \E listed \in SUBSET Listed : CategoriesLoaded(r, listed)
              \/ CategoriesForbidden(r)
              \/ CategoriesFailed(r)
              \/ SessionExpired(r)
  BY <1>3, CategoriesRests
<1>4. CASE \E r \in Answered("channels") :
              \/ \E total \in 0..MaxTotal : ChannelsBeyondEnd(r, total) \/ ChannelsLoaded(r, total)
              \/ ChannelsFailed(r)
              \/ SessionExpired(r)
  BY <1>4, ChannelsRests
<1> QED BY <1>1, <1>2, <1>3, <1>4 DEF Answer

LEMMA InputRests == ASSUME IndInv, Rest, Input PROVE Rest'
<1>1. CASE \E user \in Users : SubmitLogin(user)
  BY <1>1, SubmitLoginRests
<1>2. CASE SignOut
  BY <1>2, ClearRests DEF SignOut
<1>3. CASE \E category \in Categories : Open(category)
  BY <1>3, OpenRests
<1>4. CASE PreviousPage \/ NextPage
  BY <1>4, PagingRests
<1>5. CASE OpenChannel \/ BackToCategories \/ Retry \/ Restore
  BY <1>5, OpenChannelRests, BackRests, RetryRests, RestoreRests
<1>6. CASE \E p \in DOMAIN history : Traverse(p)
  BY <1>6, TraverseRests
<1>7. CASE \E hidden \in BOOLEAN : Reload(hidden)
  BY <1>7, ReloadRests
<1> QED BY <1>1, <1>2, <1>3, <1>4, <1>5, <1>6, <1>7 DEF Input

LEMMA NextRests == IndInv /\ Rest /\ [Next]_vars => Rest'
<1> SUFFICES ASSUME IndInv, Rest, [Next]_vars PROVE Rest'
  OBVIOUS
<1>1. CASE \E r \in superseded : Ignore(r)
  BY <1>1, IgnoreRests
<1> QED BY <1>1, AnswerRests, InputRests, StutterRests DEF Next, Network

LEMMA RestHolds == Spec => []Rest
<1>1. Init => Rest
  BY DEF Init, Rest, RestIsUsable, PageIsRestorable, PagingIsCurrent, AwaitedIsSaved
<1>2. IndInv /\ Rest /\ [Next]_vars => Rest'
  BY NextRests
<1> QED BY <1>1, <1>2, InvariantHolds, PTL DEF Spec

\* With nothing in flight the page can be used: no loading text, a form, a
\* list, a page of channels or an error, and a retry button of that view
\* (status, message, the catch of every loader).
THEOREM UsableAtRest == Spec => []RestIsUsable
<1>1. Rest => RestIsUsable
  BY DEF Rest
<1> QED BY <1>1, RestHolds, PTL

\* A page at rest is the one that is saved, so that a reload and the Back
\* button of the player return to it (save, historyState).
THEOREM PageRestorable == Spec => []PageIsRestorable
<1>1. Rest => PageIsRestorable
  BY DEF Rest
<1> QED BY <1>1, RestHolds, PTL

\* A paging button that can be pressed leads to a page of the selected
\* category (loadChannels, its paging buttons).
THEOREM PagingSafe == Spec => []PagingIsCurrent
<1>1. Rest => PagingIsCurrent
  BY DEF Rest
<1> QED BY <1>1, RestHolds, PTL

=============================================================================
