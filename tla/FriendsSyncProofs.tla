------------------------- MODULE FriendsSyncProofs -------------------------
(* The safety properties of FriendsSync hold for every set of characters, every
   choice of the options and every bound.                                   *)
EXTENDS FriendsSync, TLAPS

----------------------------------------------------------------------------
(* What the operators of the model return.                                  *)

LEMMA RetryType == Retry \in {"now", "later"}
  BY DEF Retry

LEMMA DirtiedType == \A type \in Types : Dirtied(type) \in SUBSET Lists
  BY DEF Dirtied, Lists, Types

LEMMA CoversType == \A kind \in Kinds : Covers(kind) \in SUBSET Lists
  BY DEF Covers, Lists, Kinds

LEMMA AcceptedType == \A r \in Request : Accepted(r) \in BOOLEAN
  BY DEF Accepted, Request, Types

LEMMA BecomesType == ASSUME NEW type PROVE Becomes(type) \in Status
  BY DEF Becomes, Status

LEMMA EchoOfType == ASSUME NEW type PROVE EchoOf(type) \in SUBSET Kinds
  BY DEF EchoOf, Kinds

LEMMA UndoneType == ASSUME NEW entry \in Entry PROVE Undone(entry) \in SUBSET Types
  BY DEF Undone, Types

LEMMA MenuItemsType == ASSUME NEW entry \in Entry PROVE MenuItems(entry) \in SUBSET Types
  BY DEF MenuItems, Types

LEMMA RegroupedType == ASSUME NEW g \in Groups, NEW entry
                       PROVE  Regrouped(g, entry) \in Groups
  BY DEF Regrouped, Groups

LEMMA UnknownType == Unknown \in Entry
  BY BoundsAssumption DEF Unknown, Entry, Status, Ids

LEMMA NobodyType == Nobody \in Snapshot
  BY BoundsAssumption DEF Nobody, Snapshot, Status, Ids

LEMMA AskingType == ASSUME NEW lists \in SUBSET Lists PROVE Asking(lists) \in Update
  BY NobodyType DEF Asking, Update

LEMMA NoUpdateType == NoUpdate \in Update
  BY AskingType DEF NoUpdate

LEMMA WithStatusType ==
    ASSUME NEW table \in [Names -> Entry], NEW status \in Status, NEW answer \in Snapshot
    PROVE  WithStatus(table, status, answer) \in [Names -> Entry]
<1> SUFFICES ASSUME NEW n \in Names
             PROVE  WithStatus(table, status, answer)[n] \in Entry
  BY DEF WithStatus
<1>1. table[n] \in Entry /\ answer.id[n] \in Ids /\ "NOT_FRIEND" \in Status
  BY DEF Snapshot, Status
<1>2. [table[n] EXCEPT !.status = status, !.code = answer.id[n]] \in Entry
  BY <1>1 DEF Entry
<1>3. [table[n] EXCEPT !.status = "NOT_FRIEND"] \in Entry
  BY <1>1 DEF Entry
<1> QED
  BY <1>1, <1>2, <1>3 DEF WithStatus

LEMMA WithBookmarksType ==
    ASSUME NEW table \in [Names -> Entry], NEW answer
    PROVE  WithBookmarks(table, answer) \in [Names -> Entry]
<1> SUFFICES ASSUME NEW n \in Names
             PROVE  WithBookmarks(table, answer)[n] \in Entry
  BY DEF WithBookmarks
<1>1. table[n] \in Entry /\ (n \in answer.marks) \in BOOLEAN
  OBVIOUS
<1>2. [table[n] EXCEPT !.bookmarked = n \in answer.marks] \in Entry
  BY <1>1 DEF Entry
<1> QED
  BY <1>2 DEF WithBookmarks

LEMMA CleanedType == ASSUME NEW table \in [Names -> Entry]
                     PROVE  Cleaned(table) \in [Names -> Entry]
  BY UnknownType DEF Cleaned

LEMMA MergedType ==
    ASSUME NEW table \in [Names -> Entry], NEW answer \in Snapshot, NEW ask
    PROVE  Merged(table, ask, answer) \in [Names -> Entry]
  BY WithStatusType, WithBookmarksType, CleanedType DEF Merged, Status

LEMMA NewRequestType ==
    ASSUME NEW n \in Names, NEW type \in Types, friends \in [Names -> Entry],
           clicks \in 0 .. MaxClicks, clicks < MaxClicks
    PROVE  NewRequest(n, type) \in Request
<1>1. friends[n].code \in Ids /\ 0 \in Ids
  BY BoundsAssumption DEF Entry, Ids
<1>2. clicks + 1 \in 1 .. MaxClicks
  BY BoundsAssumption
<1> QED
  BY <1>1, <1>2 DEF NewRequest, Request

LEMMA FriendActionsType ==
    ASSUME TypeOK, clicks < MaxClicks,
           NEW n \in Names, NEW types \in SUBSET Types, FriendActions(n, types)
    PROVE  /\ requests' \in SUBSET Request
           /\ dirty' \in SUBSET Lists
           /\ update_timer' \in {"off", "now", "later"}
           /\ update_request' \in Update
<1> DEFINE issued == {type \in types : Issuable(n, type)}
<1>1. {NewRequest(n, type) : type \in issued} \in SUBSET Request
  BY NewRequestType DEF TypeOK
<1>2. UNION {Dirtied(type) : type \in issued} \in SUBSET Lists
  BY DirtiedType
<1> QED
  BY <1>1, <1>2, NoUpdateType DEF FriendActions, TypeOK, KeepUpdates, ClearUpdates

LEMMA SetRelType ==
    ASSUME TypeOK, NEW n \in Names, NEW status \in Status, SetRel(n, status),
           status \in {"PENDING_IN", "PENDING_OUT"} => ids < MaxId
    PROVE  /\ rel' \in [Names -> Status]
           /\ id' \in [Names -> Ids]
           /\ ids' \in 0 .. MaxId
<1>1. ids + 1 \in Ids \/ ~(status \in {"PENDING_IN", "PENDING_OUT"})
  BY BoundsAssumption DEF TypeOK, Ids
<1>2. 0 \in Ids
  BY BoundsAssumption DEF Ids
<1> QED
  BY <1>1, <1>2 DEF SetRel, TypeOK, Ids

LEMMA NotifyType == ASSUME TypeOK, NEW kind \in Kinds, Notify(kind)
                    PROVE  rtb' \in Seq(Kinds)
  BY DEF TypeOK, Notify
----------------------------------------------------------------------------
(* Type correctness.                                                        *)

LEMMA TypeInit == Init => TypeOK
<1> SUFFICES ASSUME Init
             PROVE  TypeOK
  OBVIOUS
<1>1. /\ 0 \in Ids
      /\ 0 \in 0 .. MaxId
      /\ 0 \in 0 .. MaxChanges
      /\ 0 \in 0 .. MaxClicks
      /\ 0 \in 0 .. MaxFailures
      /\ 0 \in 0 .. MaxSessions
  BY BoundsAssumption DEF Ids
<1>2. << >> \in Seq(Kinds)
  OBVIOUS
<1> QED
  BY <1>1, <1>2, NoUpdateType, UnknownType DEF Init, TypeOK, Status, Groups

\* A step of the session, of the timers or of the fetching of the lists.
LEMMA TypeStepClient ==
    ASSUME TypeOK,
           \/ Load \/ Identified \/ GotOnline \/ Unload
           \/ TimerFires \/ UpdateOk \/ UpdateFails \/ ReceiveRTB
    PROVE  TypeOK'
<1> USE DEF ui, site, used
<1>1. CASE Load
  BY <1>1, BoundsAssumption DEF Load, TypeOK
<1>2. CASE Identified
  BY <1>2 DEF Identified, TypeOK
<1>3. CASE GotOnline
  BY <1>3, NoUpdateType DEF GotOnline, SyncTimer, TypeOK
<1>4. CASE Unload
  BY <1>4, NoUpdateType, UnknownType DEF Unload, ClearUpdates, TypeOK
<1>5. CASE TimerFires
  BY <1>5, AskingType DEF TimerFires, TypeOK
<1>6. CASE UpdateOk
  <2>1. update_request.answer \in Snapshot
    BY DEF TypeOK, Update
  <2>2. friends' \in [Names -> Entry]
    BY <1>6, <2>1, MergedType DEF UpdateOk, TypeOK
  <2>3. group' \in [Names -> Groups]
    BY <1>6, RegroupedType DEF UpdateOk, TypeOK
  <2>4. prompts' \in SUBSET Names /\ auth_requests' \in SUBSET Names
    BY <1>6 DEF UpdateOk, TypeOK
  <2>5. dirty' \in SUBSET Lists
    BY <1>6 DEF UpdateOk, TypeOK
  <2>6. update_timer' \in {"off", "now", "later"} /\ update_request' \in Update
    BY <1>6, RetryType, NoUpdateType DEF UpdateOk, SyncTimer
  <2> QED
    BY <1>6, <2>2, <2>3, <2>4, <2>5, <2>6 DEF UpdateOk, TypeOK
<1>7. CASE UpdateFails
  BY <1>7, BoundsAssumption, RetryType, NoUpdateType DEF UpdateFails, SyncTimer, TypeOK
<1>8. CASE ReceiveRTB
  <2>1. Head(rtb) \in Kinds /\ rtb' \in Seq(Kinds)
    BY <1>8 DEF ReceiveRTB, TypeOK
  <2>2. dirty' \in SUBSET Lists
    BY <1>8, <2>1, CoversType DEF ReceiveRTB, TypeOK
  <2>3. update_timer' \in {"off", "now", "later"} /\ update_request' \in Update
    BY <1>8, NoUpdateType DEF ReceiveRTB, SyncTimer, KeepUpdates, TypeOK
  <2> QED
    BY <1>8, <2>1, <2>2, <2>3 DEF ReceiveRTB, TypeOK
<1> QED
  BY <1>1, <1>2, <1>3, <1>4, <1>5, <1>6, <1>7, <1>8

\* A step of an action request.
LEMMA TypeStepRequest ==
    ASSUME TypeOK, NEW r \in requests,
           ActionReturns(r) \/ ActionFails(r) \/ SiteProcesses(r)
    PROVE  TypeOK'
<1> USE DEF ui, site, used
<1>0. r \in Request /\ r.who \in Names /\ r.type \in Types
  BY DEF TypeOK, Request
<1>1. ASSUME NEW success, ActionEnds(r, success)
      PROVE  /\ requests' \in SUBSET Request
             /\ cannot_bookmark' \in SUBSET Names
             /\ update_timer' \in {"off", "now", "later"}
             /\ update_request' \in Update
  <2>1. requests' \in SUBSET Request
    BY <1>1 DEF ActionEnds, TypeOK
  <2>2. cannot_bookmark' \in SUBSET Names
    BY <1>0, <1>1 DEF ActionEnds, TypeOK
  <2>3. update_timer' \in {"off", "now", "later"} /\ update_request' \in Update
    BY <1>1, NoUpdateType DEF ActionEnds, SyncTimer, KeepUpdates, TypeOK
  <2> QED
    BY <2>1, <2>2, <2>3
<1>2. CASE ActionReturns(r)
  BY <1>1, <1>2 DEF ActionReturns, TypeOK
<1>3. CASE ActionFails(r)
  <2>1. /\ requests' \in SUBSET Request
        /\ cannot_bookmark' \in SUBSET Names
        /\ update_timer' \in {"off", "now", "later"}
        /\ update_request' \in Update
    BY <1>1, <1>3, Zenon DEF ActionFails
  <2>2. failures' \in 0 .. MaxFailures
    BY <1>3, BoundsAssumption DEF ActionFails, TypeOK
  <2> QED
    BY <1>3, <2>1, <2>2 DEF ActionFails, TypeOK
<1>4. CASE SiteProcesses(r)
  <2>1. [r EXCEPT !.answered = TRUE, !.ok = Accepted(r)] \in Request
    BY <1>0, AcceptedType DEF Request
  <2>2. requests' \in SUBSET Request
    BY <1>4, <2>1 DEF SiteProcesses, TypeOK
  <2>3. CASE ~Accepted(r)
    BY <1>4, <2>2, <2>3 DEF SiteProcesses, TypeOK
  <2>4. CASE Accepted(r)
    <3>1. Perform(r)
      BY <1>4, <2>4 DEF SiteProcesses
    <3>2. /\ rel' \in [Names -> Status]
          /\ id' \in [Names -> Ids]
          /\ ids' \in 0 .. MaxId
          /\ marks' \in SUBSET Names
      <4>1. CASE r.type \in {"BOOKMARK_ADD", "BOOKMARK_REMOVE"}
        BY <1>0, <3>1, <4>1 DEF Perform, TypeOK
      <4>2. CASE r.type \notin {"BOOKMARK_ADD", "BOOKMARK_REMOVE"}
        <5>1. Becomes(r.type) \in {"PENDING_IN", "PENDING_OUT"} => ids < MaxId
          BY <2>4 DEF Becomes, Accepted
        <5>2. SetRel(r.who, Becomes(r.type)) /\ marks' = marks
          BY <3>1, <4>2 DEF Perform
        <5> QED
          BY <1>0, <5>1, <5>2, BecomesType, SetRelType DEF TypeOK
      <4> QED
        BY <4>1, <4>2
    <3>3. rtb' \in Seq(Kinds)
      <4>1. rtb' = rtb \/ \E kind \in EchoOf(r.type) : Notify(kind)
        BY <3>1 DEF Perform
      <4> QED
        BY <4>1, EchoOfType, NotifyType DEF TypeOK
    <3> QED
      BY <1>4, <2>2, <3>2, <3>3 DEF SiteProcesses, TypeOK
  <2> QED
    BY <2>3, <2>4
<1> QED
  BY <1>2, <1>3, <1>4

\* A step of the user.
LEMMA TypeStepUser == ASSUME TypeOK, UserNext PROVE TypeOK'
<1> USE DEF client, ui, site, used
<1>1. ASSUME NEW n \in Names, OpenMenu(n) PROVE TypeOK'
  <2>1. menu' \in SUBSET (Names \X Types)
    BY <1>1, MenuItemsType DEF OpenMenu, TypeOK
  <2> QED
    BY <1>1, <2>1 DEF OpenMenu, TypeOK
<1>2. ASSUME NEW n \in Names, NEW types \in SUBSET Types, Click, FriendActions(n, types)
      PROVE  /\ requests' \in SUBSET Request
             /\ dirty' \in SUBSET Lists
             /\ update_timer' \in {"off", "now", "later"}
             /\ update_request' \in Update
             /\ ids' = ids
             /\ changes' = changes
             /\ clicks' \in 0 .. MaxClicks
             /\ failures' = failures
             /\ sessions' = sessions
  BY <1>2, FriendActionsType, BoundsAssumption DEF Click, TypeOK
<1>3. ASSUME NEW n \in Names, NEW type \in Types, PickMenuItem(n, type) PROVE TypeOK'
  BY <1>2, <1>3 DEF PickMenuItem, TypeOK
<1>4. ASSUME NEW n \in Names, NEW type \in Types, AnswerPrompt(n, type) PROVE TypeOK'
  BY <1>2, <1>4 DEF AnswerPrompt, TypeOK
<1>5. ASSUME NEW n \in Names, RemoveBuddy(n) PROVE TypeOK'
  <2>1. Undone(friends[n]) \in SUBSET Types
    BY UndoneType DEF TypeOK
  <2>2. group' \in [Names -> Groups] /\ prompts' \in SUBSET Names
    BY <1>5 DEF RemoveBuddy, TypeOK, Groups
  <2> QED
    BY <1>2, <1>5, <2>1, <2>2 DEF RemoveBuddy, TypeOK
<1>6. ASSUME NEW n \in Names, NEW g \in Groups \ {"none"}, PlaceBuddy(n, g) PROVE TypeOK'
  BY <1>6, BoundsAssumption DEF PlaceBuddy, Click, TypeOK
<1> QED
  BY <1>1, <1>3, <1>4, <1>5, <1>6 DEF UserNext, Types

\* A change made by others, or an answer of the site.
LEMMA TypeStepSite == ASSUME TypeOK, OthersNext \/ SiteAnswersUpdate PROVE TypeOK'
<1> USE DEF client, ui, site, used
<1>1. ASSUME NEW n \in Names, NEW before \in Status, NEW after \in Status,
             after # "PENDING_OUT",
             NEW kind \in Kinds, RelationChanges(n, before, after, kind)
      PROVE  TypeOK'
  <2>1. /\ rel' \in [Names -> Status]
        /\ id' \in [Names -> Ids]
        /\ ids' \in 0 .. MaxId
    BY <1>1, SetRelType DEF RelationChanges
  <2>2. rtb' \in Seq(Kinds)
    BY <1>1, NotifyType DEF RelationChanges
  <2> QED
    BY <1>1, <2>1, <2>2, BoundsAssumption DEF RelationChanges, Change, TypeOK
<1>2. ASSUME NEW n \in Names, BookmarkChanges(n) PROVE TypeOK'
  <2>1. rtb' \in Seq(Kinds)
    BY <1>2, NotifyType DEF BookmarkChanges, Kinds
  <2> QED
    BY <1>2, <2>1, BoundsAssumption DEF BookmarkChanges, Change, TypeOK
<1>3. ASSUME NEW n \in Names, NEW status \in Status, SilentChange(n, status) PROVE TypeOK'
  <2>1. /\ rel' \in [Names -> Status]
        /\ id' \in [Names -> Ids]
        /\ ids' \in 0 .. MaxId
    BY <1>3, SetRelType DEF SilentChange
  <2> QED
    BY <1>3, <2>1, BoundsAssumption DEF SilentChange, Change, TypeOK
<1>4. CASE SiteAnswersUpdate
  <2>1. [rel |-> rel, id |-> id, marks |-> marks] \in Snapshot
    BY DEF TypeOK, Snapshot
  <2>2. update_request' \in Update
    BY <1>4, <2>1 DEF SiteAnswersUpdate, TypeOK, Update
  <2> QED
    BY <1>4, <2>2 DEF SiteAnswersUpdate, TypeOK
<1>5. OthersNext => TypeOK'
  BY <1>1, <1>2, <1>3 DEF OthersNext, IncomingRequest, RequestAccepted, FriendRemovesUs,
     Status, Kinds
<1> QED
  BY <1>4, <1>5

LEMMA TypeStep == TypeOK /\ [Next]_vars => TypeOK'
<1> SUFFICES ASSUME TypeOK, [Next]_vars
             PROVE  TypeOK'
  OBVIOUS
<1>1. CASE UNCHANGED vars
  BY <1>1 DEF vars, client, ui, site, used, TypeOK
<1>2. CASE Next
  BY <1>2, TypeStepClient, TypeStepRequest, TypeStepUser, TypeStepSite
     DEF Next, ClientNext, SiteNext, FailNext
<1> QED
  BY <1>1, <1>2

\* Every variable keeps its type: in particular an answer of the site or a
\* notification never makes a list dirty that does not exist, and a merge leaves
\* a table of well-formed entries.
THEOREM TypeCorrect == Spec => []TypeOK
  BY TypeInit, TypeStep, PTL DEF Spec
----------------------------------------------------------------------------
(* The safety of the fetching: a user who acts once online (~EarlyActions).  *)

\* An update that is not in flight asks for nothing.
LEMMA NoUpdateIdle == NoUpdate.ask = {} /\ \A lists : Asking(lists).ask = lists
  BY DEF NoUpdate, Asking

\* What the actions of the user do to the requests and the updates.
LEMMA SafetyFriendActions ==
    ASSUME SafetyInv, NEW n, NEW types, phase = "online", phase' = phase,
           FriendActions(n, types)
    PROVE  NoReadDuringWrite' /\ OneRound' /\ NoLostRefresh' /\ WritesOnline' /\ Idle'
<1> DEFINE issued == {type \in types : Issuable(n, type)}
<1>1. CASE issued = {}
  <2>1. requests' = requests /\ dirty' = dirty
    BY <1>1 DEF FriendActions
  <2>2. update_timer' = update_timer /\ update_request' = update_request
    BY <1>1 DEF FriendActions, KeepUpdates
  <2> QED
    BY <2>1, <2>2 DEF SafetyInv, NoReadDuringWrite, OneRound, NoLostRefresh,
       WritesOnline, Idle, InFlight
<1>2. CASE issued # {}
  <2>1. requests' # {}
    BY <1>2 DEF FriendActions
  <2>2. update_timer' = "off" /\ ~InFlight'
    BY <1>2, NoUpdateIdle DEF FriendActions, ClearUpdates, InFlight
  <2> QED
    BY <2>1, <2>2 DEF NoReadDuringWrite, OneRound, NoLostRefresh, WritesOnline, Idle
<1> QED
  BY <1>1, <1>2

\* What the end of an action request does to them.
LEMMA SafetyActionEnds ==
    ASSUME SafetyInv, NEW r \in requests, NEW success, ActionEnds(r, success),
           phase' = phase
    PROVE  NoReadDuringWrite' /\ OneRound' /\ NoLostRefresh' /\ WritesOnline' /\ Idle'
<1>1. phase = "online" /\ ~InFlight /\ update_timer = "off"
  BY DEF SafetyInv, WritesOnline, NoReadDuringWrite
<1>2. CASE requests' = {}
  <2>1. update_timer' = "now" /\ ~InFlight'
    BY <1>2, NoUpdateIdle DEF ActionEnds, MayRefresh, SyncTimer, InFlight
  <2> QED
    BY <1>1, <1>2, <2>1 DEF NoReadDuringWrite, OneRound, NoLostRefresh, WritesOnline, Idle
<1>3. CASE requests' # {}
  <2>1. update_timer' = "off" /\ ~InFlight'
    BY <1>1, <1>3 DEF ActionEnds, MayRefresh, KeepUpdates, InFlight
  <2> QED
    BY <1>1, <1>3, <2>1 DEF NoReadDuringWrite, OneRound, NoLostRefresh, WritesOnline, Idle
<1> QED
  BY <1>2, <1>3

LEMMA SafetyInit == Init => SafetyInv
  BY TypeInit, NoUpdateIdle DEF Init, SafetyInv, NoReadDuringWrite, OneRound,
     NoLostRefresh, WritesOnline, Idle, InFlight

\* The step that sends no request, ends none and leaves the updates alone.
LEMMA SafetyStutter ==
    ASSUME SafetyInv,
           UNCHANGED <<phase, update_request, update_timer, dirty>>,
           requests' = {} <=> requests = {},
           rtb' = rtb \/ phase \in {"identified", "online"}
    PROVE  NoReadDuringWrite' /\ OneRound' /\ NoLostRefresh' /\ WritesOnline' /\ Idle'
  BY DEF SafetyInv, NoReadDuringWrite, OneRound, NoLostRefresh, WritesOnline, Idle, InFlight

LEMMA SafetyStep == ~EarlyActions /\ SafetyInv /\ [Next]_vars => SafetyInv'
<1> SUFFICES ASSUME ~EarlyActions, SafetyInv, [Next]_vars
             PROVE  SafetyInv'
  OBVIOUS
<1> DEFINE Rest == NoReadDuringWrite /\ OneRound /\ NoLostRefresh /\ WritesOnline /\ Idle
<1>1. TypeOK'
  BY TypeStep DEF SafetyInv
<1> SUFFICES Rest'
  BY <1>1 DEF SafetyInv
<1> USE DEF client, ui, site, used
<1>2. CASE Load
  BY <1>2 DEF Load, SafetyInv, NoReadDuringWrite, OneRound, NoLostRefresh, WritesOnline,
     Idle, InFlight
<1>3. CASE Identified
  BY <1>3 DEF Identified, SafetyInv, NoReadDuringWrite, OneRound, NoLostRefresh,
     WritesOnline, Idle, InFlight
<1>4. CASE GotOnline
  BY <1>4, NoUpdateIdle DEF GotOnline, SyncTimer, SafetyInv, NoReadDuringWrite, OneRound,
     NoLostRefresh, WritesOnline, Idle, InFlight
<1>5. CASE Unload
  BY <1>5, NoUpdateIdle DEF Unload, ClearUpdates, NoReadDuringWrite, OneRound,
     NoLostRefresh, WritesOnline, Idle, InFlight
<1>6. CASE TimerFires
  <2>1. requests = {} /\ requests' = {} /\ phase \notin {"off", "loaded"} /\ phase' = phase
    BY <1>6 DEF TimerFires, SafetyInv, NoReadDuringWrite, Idle
  <2>2. update_timer' = "off" /\ (dirty' = {} \/ InFlight')
    BY <1>6, NoUpdateIdle DEF TimerFires, InFlight
  <2> QED
    BY <2>1, <2>2 DEF NoReadDuringWrite, OneRound, NoLostRefresh, WritesOnline, Idle
<1>7. CASE UpdateOk \/ UpdateFails
  <2>1. requests = {} /\ requests' = {} /\ phase \notin {"off", "loaded"} /\ phase' = phase
    BY <1>7 DEF UpdateOk, UpdateFails, SafetyInv, NoReadDuringWrite, Idle
  <2>2. update_timer' # "off" /\ ~InFlight'
    BY <1>7, NoUpdateIdle, RetryType DEF UpdateOk, UpdateFails, SyncTimer, InFlight
  <2> QED
    BY <2>1, <2>2 DEF NoReadDuringWrite, OneRound, NoLostRefresh, WritesOnline, Idle
<1>8. CASE ReceiveRTB
  <2>1. phase \notin {"off", "loaded"} /\ phase' = phase /\ requests' = requests
    BY <1>8 DEF ReceiveRTB, SafetyInv, Idle
  <2>2. CASE requests = {}
    <3>1. update_timer' = "now" /\ ~InFlight'
      BY <1>8, <2>2, NoUpdateIdle DEF ReceiveRTB, MayRefresh, SyncTimer, InFlight
    <3> QED
      BY <2>1, <2>2, <3>1 DEF NoReadDuringWrite, OneRound, NoLostRefresh, WritesOnline, Idle
  <2>3. CASE requests # {}
    <3>1. UNCHANGED <<update_timer, update_request>>
      BY <1>8, <2>3 DEF ReceiveRTB, MayRefresh, KeepUpdates
    <3> QED
      BY <2>1, <2>3, <3>1 DEF SafetyInv, NoReadDuringWrite, OneRound, NoLostRefresh,
         WritesOnline, Idle, InFlight
  <2> QED
    BY <2>2, <2>3
<1>9. ASSUME NEW r \in requests, ActionReturns(r) \/ ActionFails(r) PROVE Rest'
  <2>1. phase' = phase /\ \E success : ActionEnds(r, success)
    BY <1>9 DEF ActionReturns, ActionFails
  <2> QED
    BY <2>1, SafetyActionEnds
<1>10. ASSUME NEW r \in requests, SiteProcesses(r) PROVE Rest'
  <2>1. requests # {} /\ requests' # {}
    BY <1>10 DEF SiteProcesses
  <2>2. phase = "online"
    BY <2>1 DEF SafetyInv, WritesOnline
  <2> QED
    BY <1>10, <2>1, <2>2, SafetyStutter DEF SiteProcesses
<1>11. CASE SiteAnswersUpdate
  <2>1. InFlight /\ InFlight'
    BY <1>11 DEF SiteAnswersUpdate, InFlight, SafetyInv, TypeOK, Update
  <2>2. UNCHANGED <<phase, update_timer, dirty, requests, rtb>>
    BY <1>11 DEF SiteAnswersUpdate
  <2> QED
    BY <2>1, <2>2 DEF SafetyInv, NoReadDuringWrite, OneRound, NoLostRefresh, WritesOnline,
       Idle
<1>12. CASE UserNext
  <2>1. ASSUME NEW n \in Names, OpenMenu(n) PROVE Rest'
    BY <2>1, SafetyStutter DEF OpenMenu
  <2>2. ASSUME NEW n \in Names, NEW types, phase = "online", phase' = phase,
               FriendActions(n, types)
        PROVE  Rest'
    BY <2>2, SafetyFriendActions
  <2>3. ASSUME NEW n \in Names, NEW type, PickMenuItem(n, type) \/ AnswerPrompt(n, type)
        PROVE  Rest'
    BY <2>2, <2>3 DEF PickMenuItem, AnswerPrompt, Connected
  <2>4. ASSUME NEW n \in Names, RemoveBuddy(n) PROVE Rest'
    <3>1. FriendActions(n, Undone(friends[n])) /\ phase = "online" /\ phase' = phase
      BY <2>4 DEF RemoveBuddy
    <3>2. \E types : FriendActions(n, types)
      BY <3>1
    <3> QED
      BY <2>2, <3>1, <3>2
  <2>5. ASSUME NEW n \in Names, NEW g \in Groups, PlaceBuddy(n, g) PROVE Rest'
    BY <2>5, SafetyStutter DEF PlaceBuddy
  <2> QED
    BY <1>12, <2>1, <2>3, <2>4, <2>5 DEF UserNext
<1>13. CASE OthersNext
  <2>1. ASSUME NEW n, NEW before, NEW after, NEW kind,
               RelationChanges(n, before, after, kind)
        PROVE  Rest'
    BY <2>1, SafetyStutter DEF RelationChanges, Change, Notify
  <2>2. ASSUME NEW n, BookmarkChanges(n) PROVE Rest'
    BY <2>2, SafetyStutter DEF BookmarkChanges, Change, Notify
  <2>3. ASSUME NEW n, NEW status, SilentChange(n, status) PROVE Rest'
    BY <2>3, SafetyStutter DEF SilentChange, Change
  <2> QED
    BY <1>13, <2>1, <2>2, <2>3 DEF OthersNext, IncomingRequest, RequestAccepted,
       FriendRemovesUs
<1>14. CASE UNCHANGED vars
  BY <1>14, SafetyStutter DEF vars
<1> QED
  BY <1>2, <1>3, <1>4, <1>5, <1>6, <1>7, <1>8, <1>9, <1>10, <1>11, <1>12, <1>13, <1>14
     DEF Next, ClientNext, SiteNext, FailNext

LEMMA Safety == ~EarlyActions /\ Spec => []SafetyInv
<1>1. Init => SafetyInv
  BY SafetyInit
<1>2. ~EarlyActions /\ SafetyInv /\ [Next]_vars => SafetyInv'
  BY SafetyStep
<1>3. ASSUME ~EarlyActions PROVE Spec => []SafetyInv
  BY <1>1, <1>2, <1>3, PTL DEF Spec
<1> QED
  BY <1>3

\* Whatever the order of clicks, answers, notifications and failures, the lists
\* are never fetched while the site may be working on an action.
THEOREM NeverReadsDuringWrite == ~EarlyActions => (Spec => []NoReadDuringWrite)
<1> SUFFICES ASSUME ~EarlyActions PROVE Spec => []NoReadDuringWrite
  OBVIOUS
<1>1. SafetyInv => NoReadDuringWrite
  BY DEF SafetyInv
<1> QED
  BY <1>1, Safety, PTL

\* The timer never starts a second round over the one in flight.
THEOREM OneRoundAtATime == ~EarlyActions => (Spec => []OneRound)
<1> SUFFICES ASSUME ~EarlyActions PROVE Spec => []OneRound
  OBVIOUS
<1>1. SafetyInv => OneRound
  BY DEF SafetyInv
<1> QED
  BY <1>1, Safety, PTL

\* A list that is known to be out of date is never forgotten.
THEOREM NoRefreshIsLost == ~EarlyActions => (Spec => []NoLostRefresh)
<1> SUFFICES ASSUME ~EarlyActions PROVE Spec => []NoLostRefresh
  OBVIOUS
<1>1. SafetyInv => NoLostRefresh
  BY DEF SafetyInv
<1> QED
  BY <1>1, Safety, PTL

----------------------------------------------------------------------------
(* From here on: the table agrees with the site, for a user who acts once online
   (~EarlyActions), and changes that are all announced (~Silent).

   First, the merging of an answer, one character at a time.                *)

\* An entry says of a status what the answer says.
Agree(entry, status, answer, n) ==
    /\ entry.status = status <=> answer.rel[n] = status
    /\ answer.rel[n] = status /\ status # "MUTUAL" => entry.code = answer.id[n]

ListedStatuses == {"MUTUAL", "PENDING_IN", "PENDING_OUT"}

\* Merging the list of one status makes the entry right about it and spoils no
\* other status that the entry is right about.
LEMMA WithStatusAgrees ==
    ASSUME NEW table \in [Names -> Entry], NEW status \in ListedStatuses,
           NEW answer, NEW n \in Names
    PROVE  LET merged == WithStatus(table, status, answer)[n]
           IN  /\ merged.bookmarked = table[n].bookmarked
               /\ Agree(merged, status, answer, n)
               /\ \A other \in ListedStatuses :
                      Agree(table[n], other, answer, n) => Agree(merged, other, answer, n)
<1> DEFINE entry  == table[n]
           merged == WithStatus(table, status, answer)[n]
<1>1. merged = IF answer.rel[n] = status
               THEN [entry EXCEPT !.status = status, !.code = answer.id[n]]
               ELSE IF entry.status = status
                    THEN [entry EXCEPT !.status = "NOT_FRIEND"]
                    ELSE entry
  BY DEF WithStatus
<1>2. entry \in Entry
  OBVIOUS
<1> HIDE DEF entry, merged
<1>3. CASE answer.rel[n] = status
  <2>1. /\ merged.status = status
        /\ merged.code = answer.id[n]
        /\ merged.bookmarked = entry.bookmarked
    BY <1>1, <1>2, <1>3 DEF Entry
  <2> QED
    BY <1>3, <2>1 DEF Agree, entry, merged
<1>4. CASE answer.rel[n] # status /\ entry.status = status
  <2>1. /\ merged.status = "NOT_FRIEND"
        /\ merged.code = entry.code
        /\ merged.bookmarked = entry.bookmarked
    BY <1>1, <1>2, <1>4 DEF Entry
  <2> QED
    BY <1>4, <2>1 DEF Agree, ListedStatuses, entry, merged
<1>5. CASE answer.rel[n] # status /\ entry.status # status
  <2>1. merged = entry
    BY <1>1, <1>5
  <2> QED
    BY <1>5, <2>1 DEF Agree, entry, merged
<1> QED
  BY <1>3, <1>4, <1>5

\* Which list has the characters of a status.
ListOf(status) == IF status = "MUTUAL" THEN "friendlist"
                  ELSE IF status = "PENDING_IN" THEN "requestlist"
                  ELSE "requestpending"

\* A merge makes the entries right about every list that was asked for, and they
\* stay right about the others.
LEMMA MergedAgrees ==
    ASSUME NEW table \in [Names -> Entry], NEW answer \in Snapshot, NEW ask,
           NEW n \in Names
    PROVE  LET merged == Merged(table, ask, answer)[n]
           IN  /\ merged.bookmarked = IF "bookmarklist" \in ask THEN n \in answer.marks
                                                                ELSE table[n].bookmarked
               /\ \A status \in ListedStatuses :
                      ListOf(status) \in ask \/ Agree(table[n], status, answer, n)
                      => Agree(merged, status, answer, n)
<1> DEFINE b == IF "bookmarklist" \in ask THEN WithBookmarks(table, answer) ELSE table
           f == IF "friendlist" \in ask THEN WithStatus(b, "MUTUAL", answer) ELSE b
           i == IF "requestlist" \in ask THEN WithStatus(f, "PENDING_IN", answer) ELSE f
           o == IF "requestpending" \in ask THEN WithStatus(i, "PENDING_OUT", answer) ELSE i
           marked == IF "bookmarklist" \in ask THEN n \in answer.marks
                                               ELSE table[n].bookmarked
<1>1. /\ b \in [Names -> Entry]
      /\ f \in [Names -> Entry]
      /\ i \in [Names -> Entry]
      /\ o \in [Names -> Entry]
  BY WithBookmarksType, WithStatusType DEF Status
<1>2. /\ b[n].bookmarked = marked
      /\ b[n].status = table[n].status
      /\ b[n].code = table[n].code
  <2>1. table[n] \in Entry
    OBVIOUS
  <2>2. CASE "bookmarklist" \in ask
    <3>1. b[n] = [table[n] EXCEPT !.bookmarked = n \in answer.marks]
      BY <2>2 DEF WithBookmarks
    <3> QED
      BY <2>1, <2>2, <3>1 DEF Entry
  <2>3. CASE "bookmarklist" \notin ask
    BY <2>3
  <2> QED
    BY <2>2, <2>3
<1> HIDE DEF b
<1>3. \A status \in ListedStatuses :
          Agree(table[n], status, answer, n) => Agree(b[n], status, answer, n)
  BY <1>2 DEF Agree
<1>4. /\ f[n].bookmarked = b[n].bookmarked
      /\ "friendlist" \in ask => Agree(f[n], "MUTUAL", answer, n)
      /\ \A status \in ListedStatuses :
             Agree(b[n], status, answer, n) => Agree(f[n], status, answer, n)
  BY <1>1, WithStatusAgrees DEF ListedStatuses
<1> HIDE DEF f
<1>5. /\ i[n].bookmarked = f[n].bookmarked
      /\ "requestlist" \in ask => Agree(i[n], "PENDING_IN", answer, n)
      /\ \A status \in ListedStatuses :
             Agree(f[n], status, answer, n) => Agree(i[n], status, answer, n)
  BY <1>1, WithStatusAgrees DEF ListedStatuses
<1> HIDE DEF i
<1>6. /\ o[n].bookmarked = i[n].bookmarked
      /\ "requestpending" \in ask => Agree(o[n], "PENDING_OUT", answer, n)
      /\ \A status \in ListedStatuses :
             Agree(i[n], status, answer, n) => Agree(o[n], status, answer, n)
  BY <1>1, WithStatusAgrees DEF ListedStatuses
<1>7. Merged(table, ask, answer)[n] = IF Unused(o[n]) THEN Unknown ELSE o[n]
  BY DEF Merged, Cleaned, b, f, i
<1> HIDE DEF o
<1>8. o[n].bookmarked \in BOOLEAN
  BY <1>1 DEF Entry
<1>9. /\ Merged(table, ask, answer)[n].bookmarked = o[n].bookmarked
      /\ \A status \in ListedStatuses :
             Agree(o[n], status, answer, n)
             => Agree(Merged(table, ask, answer)[n], status, answer, n)
  <2>1. CASE Unused(o[n])
    <3>1. Merged(table, ask, answer)[n] = Unknown
      BY <1>7, <2>1
    <3>2. Unknown.bookmarked = FALSE /\ Unknown.status = "NOT_FRIEND"
      BY DEF Unknown
    <3>3. o[n].bookmarked = FALSE /\ o[n].status = "NOT_FRIEND"
      BY <1>8, <2>1 DEF Unused
    <3>4. Merged(table, ask, answer)[n].bookmarked = o[n].bookmarked
      BY <3>1, <3>2, <3>3
    <3>5. \A status \in ListedStatuses :
              Agree(o[n], status, answer, n) => Agree(Unknown, status, answer, n)
      BY <3>2, <3>3 DEF Agree, ListedStatuses
    <3> QED
      BY <3>1, <3>4, <3>5
  <2>2. CASE ~Unused(o[n])
    BY <1>7, <2>2
  <2> QED
    BY <2>1, <2>2
<1>10. \A status \in ListedStatuses :
           ListOf(status) \in ask \/ Agree(table[n], status, answer, n)
           => Agree(o[n], status, answer, n)
  BY <1>3, <1>4, <1>5, <1>6 DEF ListOf, ListedStatuses
<1> QED
  BY <1>2, <1>4, <1>5, <1>6, <1>9, <1>10

----------------------------------------------------------------------------
(* From characters to lists.                                                *)

LEMMA ListedBookmarks == \A s : Listed("bookmarklist", s) = s.marks
  BY DEF Listed

\* Lists that are the same for every character are the same.
LEMMA ListedSame ==
    ASSUME NEW s, NEW t, NEW status \in ListedStatuses,
           \A n \in Names : /\ s.rel[n] = status <=> t.rel[n] = status
                            /\ t.rel[n] = status /\ status # "MUTUAL" => s.id[n] = t.id[n]
    PROVE  Listed(ListOf(status), s) = Listed(ListOf(status), t)
<1>1. CASE status = "MUTUAL"
  BY <1>1 DEF Listed, ListOf
<1>2. ASSUME status # "MUTUAL"
      PROVE  {<<n, s.id[n]>> : n \in {m \in Names : s.rel[m] = status}} =
             {<<n, t.id[n]>> : n \in {m \in Names : t.rel[m] = status}}
  BY <1>2
<1>3. CASE status = "PENDING_IN"
  <2>1. /\ Listed("requestlist", s) =
               {<<n, s.id[n]>> : n \in {m \in Names : s.rel[m] = "PENDING_IN"}}
        /\ Listed("requestlist", t) =
               {<<n, t.id[n]>> : n \in {m \in Names : t.rel[m] = "PENDING_IN"}}
    BY DEF Listed
  <2> QED
    BY <1>2, <1>3, <2>1 DEF ListOf
<1>4. CASE status = "PENDING_OUT"
  <2>1. /\ Listed("requestpending", s) =
               {<<n, s.id[n]>> : n \in {m \in Names : s.rel[m] = "PENDING_OUT"}}
        /\ Listed("requestpending", t) =
               {<<n, t.id[n]>> : n \in {m \in Names : t.rel[m] = "PENDING_OUT"}}
    BY DEF Listed
  <2> QED
    BY <1>2, <1>4, <2>1 DEF ListOf
<1> QED
  BY <1>1, <1>3, <1>4 DEF ListedStatuses

\* Lists that are the same are the same for every character.
LEMMA SameListed ==
    ASSUME NEW s, NEW t, NEW status \in ListedStatuses,
           Listed(ListOf(status), s) = Listed(ListOf(status), t),
           NEW n \in Names
    PROVE  /\ s.rel[n] = status <=> t.rel[n] = status
           /\ t.rel[n] = status /\ status # "MUTUAL" => s.id[n] = t.id[n]
<1> DEFINE With(x) == {<<m, x.id[m]>> : m \in {k \in Names : x.rel[k] = status}}
<1>1. CASE status = "MUTUAL"
  <2>1. {m \in Names : s.rel[m] = "MUTUAL"} = {m \in Names : t.rel[m] = "MUTUAL"}
    BY <1>1 DEF Listed, ListOf
  <2> QED
    BY <1>1, <2>1
<1>2. CASE status # "MUTUAL"
  <2>1. With(s) = With(t)
    <3>1. CASE status = "PENDING_IN"
      BY <3>1 DEF Listed, ListOf
    <3>2. CASE status = "PENDING_OUT"
      BY <3>2 DEF Listed, ListOf
    <3> QED
      BY <1>2, <3>1, <3>2 DEF ListedStatuses
  <2>2. ASSUME NEW x, NEW y, With(x) = With(y), x.rel[n] = status
        PROVE  y.rel[n] = status /\ x.id[n] = y.id[n]
    <3>1. <<n, x.id[n]>> \in With(x)
      BY <2>2
    <3>2. <<n, x.id[n]>> \in With(y)
      BY <2>2, <3>1
    <3>3. PICK m \in {k \in Names : y.rel[k] = status} : <<n, x.id[n]>> = <<m, y.id[m]>>
      BY <3>2
    <3> QED
      BY <3>3
  <2> QED
    BY <2>1, <2>2
<1> QED
  BY <1>1, <1>2

\* What a table says, in the form of an answer.
TableOf(table) == [rel   |-> [n \in Names |-> table[n].status],
                   id    |-> [n \in Names |-> table[n].code],
                   marks |-> {n \in Names : table[n].bookmarked}]

\* A merged table agrees with the answer on the lists that were asked for, and on
\* those on which it agreed before.
LEMMA MergedLists ==
    ASSUME NEW table \in [Names -> Entry], NEW answer \in Snapshot, NEW ask,
           NEW list \in Lists,
           list \in ask \/ Listed(list, TableOf(table)) = Listed(list, answer)
    PROVE  Listed(list, TableOf(Merged(table, ask, answer))) = Listed(list, answer)
<1> DEFINE merged == Merged(table, ask, answer)
<1>1. \A n \in Names :
          /\ merged[n].bookmarked = IF "bookmarklist" \in ask THEN n \in answer.marks
                                                               ELSE table[n].bookmarked
          /\ \A status \in ListedStatuses :
                 ListOf(status) \in ask \/ Agree(table[n], status, answer, n)
                 => Agree(merged[n], status, answer, n)
  BY MergedAgrees
<1>2. \A t : /\ \A n \in Names : /\ TableOf(t).rel[n] = t[n].status
                                 /\ TableOf(t).id[n] = t[n].code
             /\ TableOf(t).marks = {n \in Names : t[n].bookmarked}
  BY DEF TableOf
<1>3. answer.marks \in SUBSET Names
  BY DEF Snapshot
<1> HIDE DEF merged
<1>4. CASE list = "bookmarklist"
  <2>1. CASE "bookmarklist" \in ask
    <3>1. TableOf(merged).marks = {n \in Names : n \in answer.marks}
      BY <1>1, <1>2, <2>1
    <3>2. TableOf(merged).marks = answer.marks
      BY <1>3, <3>1
    <3> QED
      BY <1>4, <3>2, ListedBookmarks DEF merged
  <2>2. CASE "bookmarklist" \notin ask
    <3>1. TableOf(merged).marks = TableOf(table).marks
      BY <1>1, <1>2, <2>2
    <3> QED
      BY <1>4, <2>2, <3>1, ListedBookmarks DEF merged
  <2> QED
    BY <2>1, <2>2
<1>5. CASE list # "bookmarklist"
  <2>1. PICK status \in ListedStatuses : list = ListOf(status)
    BY <1>5 DEF Lists, ListedStatuses, ListOf
  <2>2. ASSUME NEW n \in Names PROVE Agree(merged[n], status, answer, n)
    <3>1. list \in ask \/ Agree(table[n], status, answer, n)
      <4>1. CASE Listed(list, TableOf(table)) = Listed(list, answer)
        <5>1. /\ TableOf(table).rel[n] = status <=> answer.rel[n] = status
              /\ answer.rel[n] = status /\ status # "MUTUAL"
                 => TableOf(table).id[n] = answer.id[n]
          BY <2>1, <4>1, SameListed
        <5> QED
          BY <1>2, <5>1 DEF Agree
      <4> QED
        BY <4>1
    <3> QED
      BY <1>1, <2>1, <3>1
  <2>3. \A n \in Names :
            /\ TableOf(merged).rel[n] = status <=> answer.rel[n] = status
            /\ answer.rel[n] = status /\ status # "MUTUAL"
               => TableOf(merged).id[n] = answer.id[n]
    BY <1>2, <2>2 DEF Agree
  <2>4. Listed(ListOf(status), TableOf(merged)) = Listed(ListOf(status), answer)
    BY <2>3, ListedSame
  <2> QED
    BY <2>1, <2>4 DEF merged
<1> QED
  BY <1>4, <1>5
----------------------------------------------------------------------------
(* What a step keeps, list by list.                                         *)

LEMMA TableKept == ASSUME friends' = friends, NEW list
                   PROVE  Listed(list, Table)' = Listed(list, Table)
  BY DEF Listed, Table

LEMMA SiteKept == ASSUME UNCHANGED site, NEW list
                  PROVE  Listed(list, SiteNow)' = Listed(list, SiteNow)
  BY DEF Listed, SiteNow, site

LEMMA AnswerKept == ASSUME update_request' = update_request, NEW list
                    PROVE  Listed(list, update_request.answer)' =
                           Listed(list, update_request.answer)
  BY DEF Listed

LEMMA AnnouncedKept == ASSUME rtb' = rtb, NEW list
                       PROVE  Announced(list)' <=> Announced(list)
  BY DEF Announced

LEMMA AnnouncedAppend ==
    ASSUME rtb \in Seq(Kinds), NEW kind \in Kinds, rtb' = Append(rtb, kind), NEW list
    PROVE  Announced(list)' <=> Announced(list) \/ list \in Covers(kind)
<1>1. /\ Len(rtb') = Len(rtb) + 1
      /\ rtb'[Len(rtb) + 1] = kind
      /\ \A k \in 1 .. Len(rtb) : rtb'[k] = rtb[k]
      /\ Len(rtb) \in Nat
  OBVIOUS
<1>2. 1 .. Len(rtb') = (1 .. Len(rtb)) \cup {Len(rtb) + 1}
  BY <1>1
<1> QED
  BY <1>1, <1>2 DEF Announced

LEMMA AnnouncedTail ==
    ASSUME rtb \in Seq(Kinds), rtb # << >>, rtb' = Tail(rtb), NEW list, Announced(list)
    PROVE  Announced(list)' \/ list \in Covers(Head(rtb))
<1>1. PICK k \in 1 .. Len(rtb) : list \in Covers(rtb[k])
  BY DEF Announced
<1>2. CASE k = 1
  BY <1>1, <1>2
<1>3. CASE k # 1
  <2>1. k - 1 \in 1 .. Len(rtb') /\ rtb'[k - 1] = rtb[k]
    BY <1>1, <1>3
  <2> QED
    BY <1>1, <2>1 DEF Announced
<1> QED
  BY <1>2, <1>3

\* A step that changes neither the table nor the site.
LEMMA CoherentKept ==
    ASSUME Coherent, friends' = friends, UNCHANGED site,
           phase' # "off" => phase # "off", dirty \subseteq dirty',
           \A list \in Lists : Announced(list) => Announced(list)' \/ list \in dirty'
    PROVE  Coherent'
<1> SUFFICES ASSUME phase' # "off", NEW list \in Lists, list \notin dirty', ~Announced(list)'
             PROVE  Listed(list, Table)' = Listed(list, SiteNow)'
  BY DEF Coherent
<1>1. Listed(list, Table) = Listed(list, SiteNow)
  BY DEF Coherent
<1> QED
  BY <1>1, TableKept, SiteKept

LEMMA FreshKept ==
    ASSUME AnswerIsFresh, UNCHANGED site, rtb' = rtb, update_request' = update_request
    PROVE  AnswerIsFresh'
<1> SUFFICES ASSUME InFlight, update_request.answered, NEW list \in Lists,
                    ~Announced(list)'
             PROVE  Listed(list, update_request.answer)' = Listed(list, SiteNow)'
  BY DEF AnswerIsFresh, InFlight
<1>1. Listed(list, update_request.answer) = Listed(list, SiteNow)
  BY AnnouncedKept DEF AnswerIsFresh
<1> QED
  BY <1>1, AnswerKept, SiteKept

\* Somebody else changes some lists on the site, which a client that is
\* identified is told.
LEMMA OthersKeep ==
    ASSUME CoherenceInv, UNCHANGED client, NEW touched,
           \A list \in Lists : list \in touched \/ Listed(list, SiteNow)' = Listed(list, SiteNow),
           \A list \in Lists : Announced(list) => Announced(list)',
           phase \in {"identified", "online"} => \A list \in touched : Announced(list)'
    PROVE  AllDoubted' /\ WritesAreDirty' /\ AnswerIsFresh' /\ Coherent'
<1> USE DEF client
<1>1. AllDoubted' /\ WritesAreDirty'
  BY DEF CoherenceInv, AllDoubted, WritesAreDirty
<1>2. Coherent'
  <2> SUFFICES ASSUME phase # "off", NEW list \in Lists, list \notin dirty, ~Announced(list)'
               PROVE  Listed(list, Table)' = Listed(list, SiteNow)'
    BY DEF Coherent
  <2>1. phase \in {"identified", "online"}
    BY DEF CoherenceInv, SafetyInv, TypeOK, AllDoubted
  <2>2. Listed(list, SiteNow)' = Listed(list, SiteNow)
    BY <2>1
  <2>3. Listed(list, Table) = Listed(list, SiteNow)
    BY DEF CoherenceInv, Coherent
  <2> QED
    BY <2>2, <2>3, TableKept
<1>3. AnswerIsFresh'
  <2> SUFFICES ASSUME InFlight, update_request.answered, NEW list \in Lists,
                      ~Announced(list)'
               PROVE  Listed(list, update_request.answer)' = Listed(list, SiteNow)'
    BY DEF AnswerIsFresh, InFlight
  <2>1. phase \in {"identified", "online"}
    BY DEF CoherenceInv, SafetyInv, TypeOK, Idle
  <2>2. Listed(list, SiteNow)' = Listed(list, SiteNow)
    BY <2>1
  <2>3. Listed(list, update_request.answer) = Listed(list, SiteNow)
    BY DEF CoherenceInv, AnswerIsFresh
  <2> QED
    BY <2>2, <2>3, AnswerKept
<1> QED
  BY <1>1, <1>2, <1>3

\* A new relation touches the list a character leaves and the one it enters.
LEMMA SetRelTouches ==
    ASSUME TypeOK, NEW n \in Names, NEW status \in Status, SetRel(n, status),
           marks' = marks, NEW list \in Lists,
           list = ListOf(rel[n]) => rel[n] = "NOT_FRIEND",
           list = ListOf(status) => status = "NOT_FRIEND"
    PROVE  Listed(list, SiteNow)' = Listed(list, SiteNow)
<1>1. CASE list = "bookmarklist"
  BY <1>1, ListedBookmarks DEF SiteNow
<1>2. CASE list # "bookmarklist"
  <2>1. PICK other \in ListedStatuses : list = ListOf(other)
    BY <1>2 DEF Lists, ListedStatuses, ListOf
  <2>2. rel[n] # other /\ status # other
    BY <2>1 DEF ListedStatuses, ListOf
  <2>3. rel' = [rel EXCEPT ![n] = status]
    BY DEF SetRel
  <2>4. \A m \in Names : m # n => id'[m] = id[m]
    BY DEF SetRel, TypeOK
  <2>5. \A m \in Names : /\ rel'[m] = other <=> rel[m] = other
                         /\ rel[m] = other => id'[m] = id[m]
    BY <2>2, <2>3, <2>4 DEF TypeOK
  <2> DEFINE before == [rel |-> rel, id |-> id, marks |-> marks]
             after == [rel |-> rel', id |-> id', marks |-> marks']
  <2>6. Listed(list, after) = Listed(list, before)
    BY <2>1, <2>5, ListedSame
  <2>7. Listed(list, SiteNow)' = Listed(list, after)
    BY DEF Listed, SiteNow
  <2> QED
    BY <2>6, <2>7 DEF SiteNow
<1> QED
  BY <1>1, <1>2
----------------------------------------------------------------------------
(* The steps.                                                               *)

LEMMA CoherenceInit == Init => CoherenceInv
  BY SafetyInit, NoUpdateIdle DEF Init, CoherenceInv, AllDoubted, WritesAreDirty,
     AnswerIsFresh, Coherent, InFlight

\* The merge of an answer: what was asked for is right because the answer is as
\* fresh as the site, the rest because it was right and the answer agrees with it.
LEMMA CoherenceUpdateOk ==
    ASSUME CoherenceInv, TypeOK, UpdateOk
    PROVE  Coherent'
<1> SUFFICES ASSUME NEW list \in Lists, list \notin dirty', ~Announced(list)'
             PROVE  Listed(list, Table)' = Listed(list, SiteNow)'
  BY DEF Coherent
<1> DEFINE ask == update_request.ask
           answer == update_request.answer
<1>1. answer \in Snapshot /\ InFlight /\ update_request.answered
  BY DEF UpdateOk, TypeOK, Update
<1>2. phase # "off"
  BY <1>1 DEF CoherenceInv, SafetyInv, Idle
<1>3. ~Announced(list)
  BY AnnouncedKept DEF UpdateOk
<1>4. Listed(list, answer) = Listed(list, SiteNow)
  BY <1>1, <1>3 DEF CoherenceInv, AnswerIsFresh
<1>5. list \in ask \/ Listed(list, TableOf(friends)) = Listed(list, answer)
  <2>1. ASSUME list \notin ask PROVE Listed(list, Table) = Listed(list, SiteNow)
    <3>1. list \notin dirty
      BY <2>1 DEF UpdateOk
    <3> QED
      BY <1>2, <1>3, <3>1 DEF CoherenceInv, Coherent
  <2> QED
    BY <1>4, <2>1 DEF Table, TableOf
<1>6. Listed(list, TableOf(Merged(friends, ask, answer))) = Listed(list, answer)
  BY <1>1, <1>5, MergedLists DEF TypeOK
<1>7. Listed(list, Table)' = Listed(list, TableOf(Merged(friends, ask, answer)))
  BY DEF UpdateOk, Table, TableOf, Listed
<1>8. Listed(list, SiteNow)' = Listed(list, SiteNow)
  BY SiteKept DEF UpdateOk
<1> QED
  BY <1>4, <1>6, <1>7, <1>8

\* The site carries out an action: it touches only lists that are dirty.
LEMMA CoherencePerform ==
    ASSUME CoherenceInv, TypeOK, NEW r \in requests, SiteProcesses(r), phase = "online"
    PROVE  Coherent'
<1> USE DEF ui
<1>0. r.who \in Names /\ r.type \in Types /\ r \in Request
  BY DEF TypeOK, Request
<1>1. UNCHANGED <<phase, friends, dirty>>
  BY DEF SiteProcesses
<1>2. CASE ~Accepted(r)
  BY <1>1, <1>2, CoherentKept, AnnouncedKept DEF SiteProcesses, CoherenceInv
<1>3. CASE Accepted(r)
  <2>1. Perform(r)
    BY <1>3 DEF SiteProcesses
  <2>2. \A list \in Lists : Announced(list) => Announced(list)'
    <3>1. CASE rtb' = rtb
      BY <3>1, AnnouncedKept
    <3>2. CASE rtb' # rtb
      <4>1. PICK kind \in EchoOf(r.type) : Notify(kind)
        BY <2>1, <3>2 DEF Perform
      <4>2. kind \in Kinds /\ rtb' = Append(rtb, kind)
        BY <4>1, EchoOfType DEF Notify
      <4> QED
        BY <4>2, AnnouncedAppend DEF TypeOK
    <3> QED
      BY <3>1, <3>2
  <2>3. ASSUME NEW list \in Lists, list \notin Dirtied(r.type)
        PROVE  Listed(list, SiteNow)' = Listed(list, SiteNow)
    <3>1. CASE r.type \in {"BOOKMARK_ADD", "BOOKMARK_REMOVE"}
      <4>1. list # "bookmarklist"
        BY <2>3, <3>1 DEF Dirtied
      <4>2. rel' = rel /\ id' = id
        BY <2>1, <3>1 DEF Perform
      <4> QED
        BY <4>1, <4>2 DEF Listed, SiteNow, Lists
    <3>2. CASE r.type \notin {"BOOKMARK_ADD", "BOOKMARK_REMOVE"}
      <4>1. SetRel(r.who, Becomes(r.type)) /\ marks' = marks
        BY <2>1, <3>2 DEF Perform
      <4>2. CASE r.type = "FRIEND_REQUEST"
        <5>1. rel[r.who] = "NOT_FRIEND" /\ Becomes(r.type) = "PENDING_OUT"
              /\ Dirtied(r.type) = {"requestpending"}
          BY <1>3, <4>2 DEF Accepted, Becomes, Dirtied
        <5> QED
          BY <1>0, <2>3, <4>1, <5>1, BecomesType, SetRelTouches DEF ListOf
      <4>3. CASE r.type = "FRIEND_CANCEL"
        <5>1. rel[r.who] = "PENDING_OUT" /\ Becomes(r.type) = "NOT_FRIEND"
              /\ Dirtied(r.type) = {"requestpending"}
          BY <1>3, <4>3 DEF Accepted, Becomes, Dirtied
        <5> QED
          BY <1>0, <2>3, <4>1, <5>1, BecomesType, SetRelTouches DEF ListOf
      <4>4. CASE r.type = "FRIEND_REMOVE"
        <5>1. rel[r.who] = "MUTUAL" /\ Becomes(r.type) = "NOT_FRIEND"
              /\ Dirtied(r.type) = {"friendlist"}
          BY <1>3, <4>4 DEF Accepted, Becomes, Dirtied
        <5> QED
          BY <1>0, <2>3, <4>1, <5>1, BecomesType, SetRelTouches DEF ListOf
      <4>5. CASE r.type = "FRIEND_AUTHORIZE"
        <5>1. rel[r.who] = "PENDING_IN" /\ Becomes(r.type) = "MUTUAL"
              /\ Dirtied(r.type) = {"requestlist", "friendlist"}
          BY <1>3, <4>5 DEF Accepted, Becomes, Dirtied
        <5> QED
          BY <1>0, <2>3, <4>1, <5>1, BecomesType, SetRelTouches DEF ListOf
      <4>6. CASE r.type = "FRIEND_DENY"
        <5>1. rel[r.who] = "PENDING_IN" /\ Becomes(r.type) = "NOT_FRIEND"
              /\ Dirtied(r.type) = {"requestlist"}
          BY <1>3, <4>6 DEF Accepted, Becomes, Dirtied
        <5> QED
          BY <1>0, <2>3, <4>1, <5>1, BecomesType, SetRelTouches DEF ListOf
      <4> QED
        BY <1>0, <3>2, <4>2, <4>3, <4>4, <4>5, <4>6 DEF Types
    <3> QED
      BY <3>1, <3>2
  <2>4. Dirtied(r.type) \subseteq dirty
    BY DEF CoherenceInv, WritesAreDirty
  <2> SUFFICES ASSUME NEW list \in Lists, list \notin dirty, ~Announced(list)'
               PROVE  Listed(list, Table)' = Listed(list, SiteNow)'
    BY <1>1 DEF Coherent
  <2>5. Listed(list, Table) = Listed(list, SiteNow)
    BY <2>2 DEF CoherenceInv, Coherent
  <2>6. Listed(list, SiteNow)' = Listed(list, SiteNow)
    BY <2>3, <2>4
  <2> QED
    BY <1>1, <2>5, <2>6, TableKept
<1> QED
  BY <1>2, <1>3
\* The actions of the user mark dirty what they may change, before they change it.
LEMMA CoherenceFriendActions ==
    ASSUME CoherenceInv, NoReadDuringWrite', NEW n, NEW types, FriendActions(n, types),
           UNCHANGED <<phase, friends, site, rtb>>, phase = "online"
    PROVE  AllDoubted' /\ WritesAreDirty' /\ AnswerIsFresh' /\ Coherent'
<1> DEFINE issued == {type \in types : Issuable(n, type)}
<1>1. AllDoubted'
  BY DEF AllDoubted
<1>2. Coherent'
  BY CoherentKept, AnnouncedKept DEF FriendActions, CoherenceInv
<1>3. WritesAreDirty'
  <2>1. \A type : NewRequest(n, type).type = type
    BY DEF NewRequest
  <2>2. /\ requests' = requests \cup {NewRequest(n, type) : type \in issued}
        /\ dirty' = dirty \cup UNION {Dirtied(type) : type \in issued}
    BY DEF FriendActions
  <2> SUFFICES ASSUME NEW r \in requests'
               PROVE  Dirtied(r.type) \subseteq dirty'
    BY DEF WritesAreDirty
  <2>3. CASE r \in requests
    BY <2>2, <2>3 DEF CoherenceInv, WritesAreDirty
  <2>4. ASSUME NEW type \in issued, r = NewRequest(n, type)
        PROVE  Dirtied(r.type) \subseteq dirty'
    BY <2>1, <2>2, <2>4
  <2> QED
    BY <2>2, <2>3, <2>4
<1>4. AnswerIsFresh'
  <2>1. CASE issued = {}
    BY <2>1, FreshKept DEF FriendActions, KeepUpdates, CoherenceInv
  <2>2. CASE issued # {}
    BY <2>2, NoUpdateIdle DEF FriendActions, ClearUpdates, AnswerIsFresh, InFlight
  <2> QED
    BY <2>1, <2>2
<1> QED
  BY <1>1, <1>2, <1>3, <1>4

\* What others do is announced.
LEMMA CoherenceOthers ==
    ASSUME CoherenceInv, TypeOK, ~Silent, OthersNext
    PROVE  AllDoubted' /\ WritesAreDirty' /\ AnswerIsFresh' /\ Coherent'
<1> DEFINE Rest == AllDoubted /\ WritesAreDirty /\ AnswerIsFresh /\ Coherent
<1>1. ASSUME NEW kind \in Kinds, Notify(kind)
      PROVE  /\ \A list \in Lists : Announced(list) => Announced(list)'
             /\ phase \in {"identified", "online"} =>
                    \A list \in Covers(kind) : Announced(list)'
  <2>1. CASE phase \in {"identified", "online"}
    <3>1. rtb' = Append(rtb, kind)
      BY <1>1, <2>1 DEF Notify
    <3> QED
      BY <3>1, AnnouncedAppend DEF TypeOK
  <2>2. CASE phase \notin {"identified", "online"}
    <3>1. rtb' = rtb
      BY <1>1, <2>2 DEF Notify
    <3> QED
      BY <2>2, <3>1, AnnouncedKept
  <2> QED
    BY <2>1, <2>2
<1>2. ASSUME NEW n \in Names, NEW before \in Status, NEW after \in Status,
             NEW kind \in Kinds, RelationChanges(n, before, after, kind),
             \A list \in Lists \ Covers(kind) :
                 /\ list = ListOf(before) => before = "NOT_FRIEND"
                 /\ list = ListOf(after) => after = "NOT_FRIEND"
      PROVE  Rest'
  <2>1. rel[n] = before /\ SetRel(n, after) /\ Notify(kind) /\ marks' = marks
        /\ UNCHANGED client
    BY <1>2 DEF RelationChanges, Change
  <2>2. \A list \in Lists : list \in Covers(kind)
                             \/ Listed(list, SiteNow)' = Listed(list, SiteNow)
    BY <1>2, <2>1, SetRelTouches
  <2> QED
    BY <1>1, <2>1, <2>2, OthersKeep
<1>3. ASSUME NEW n \in Names, IncomingRequest(n) PROVE Rest'
  <2>1. Covers("friendrequest") = {"requestlist"}
    BY DEF Covers
  <2> QED
    BY <1>2, <1>3, <2>1 DEF IncomingRequest, ListOf, Status, Kinds
<1>4. ASSUME NEW n \in Names, RequestAccepted(n) PROVE Rest'
  <2>1. Covers("friendadd") = {"requestpending", "friendlist"}
    BY DEF Covers
  <2> QED
    BY <1>2, <1>4, <2>1 DEF RequestAccepted, ListOf, Status, Kinds
<1>5. ASSUME NEW n \in Names, FriendRemovesUs(n) PROVE Rest'
  <2>1. Covers("friendremove") = {"friendlist"}
    BY DEF Covers
  <2> QED
    BY <1>2, <1>5, <2>1 DEF FriendRemovesUs, ListOf, Status, Kinds
<1>6. ASSUME NEW n \in Names, BookmarkChanges(n) PROVE Rest'
  <2>1. Covers("track") = {"bookmarklist"}
    BY DEF Covers
  <2>2. rel' = rel /\ id' = id /\ Notify("track") /\ UNCHANGED client
    BY <1>6 DEF BookmarkChanges, Change
  <2>3. \A list \in Lists : list \in Covers("track")
                             \/ Listed(list, SiteNow)' = Listed(list, SiteNow)
    BY <2>1, <2>2 DEF Listed, SiteNow, Lists
  <2> QED
    BY <1>1, <2>2, <2>3, OthersKeep DEF Kinds
<1> QED
  BY <1>3, <1>4, <1>5, <1>6 DEF OthersNext, SilentChange

LEMMA CoherenceStep ==
    ~EarlyActions /\ ~Silent /\ CoherenceInv /\ [Next]_vars => CoherenceInv'
<1> SUFFICES ASSUME ~EarlyActions, ~Silent, CoherenceInv, [Next]_vars
             PROVE  CoherenceInv'
  OBVIOUS
<1> DEFINE Rest == AllDoubted /\ WritesAreDirty /\ AnswerIsFresh /\ Coherent
<1>0. SafetyInv /\ SafetyInv' /\ TypeOK
  BY SafetyStep DEF CoherenceInv, SafetyInv
<1> SUFFICES Rest'
  BY <1>0 DEF CoherenceInv
<1> USE DEF ui, used
<1>1. CASE Load
  <2>1. requests' = {} /\ ~InFlight' /\ phase' = "loaded" /\ dirty' = Lists
    BY <1>0, <1>1 DEF Load, SafetyInv, WritesOnline, Idle
  <2> QED
    BY <2>1 DEF AllDoubted, WritesAreDirty, AnswerIsFresh, Coherent
<1>2. CASE Identified
  <2>1. AllDoubted' /\ WritesAreDirty'
    BY <1>2 DEF Identified, CoherenceInv, AllDoubted, WritesAreDirty
  <2>2. AnswerIsFresh'
    BY <1>2, FreshKept DEF Identified, CoherenceInv
  <2>3. Coherent'
    BY <1>2, CoherentKept, AnnouncedKept DEF Identified, CoherenceInv
  <2> QED
    BY <2>1, <2>2, <2>3
<1>3. CASE GotOnline \/ UpdateFails \/ TimerFires
  <2>1. UNCHANGED <<friends, site, rtb, dirty, requests>> /\ phase # "off"
    BY <1>0, <1>3 DEF GotOnline, UpdateFails, TimerFires, SafetyInv, Idle
  <2>2. AllDoubted' /\ WritesAreDirty'
    BY <1>3, <2>1 DEF GotOnline, UpdateFails, TimerFires, CoherenceInv, AllDoubted,
       WritesAreDirty
  <2>3. Coherent'
    BY <2>1, CoherentKept, AnnouncedKept DEF CoherenceInv
  <2>4. AnswerIsFresh'
    <3>1. CASE update_request' = update_request
      BY <2>1, <3>1, FreshKept DEF CoherenceInv
    <3>2. CASE update_request' # update_request
      <4>1. \E lists : update_request' = Asking(lists)
        BY <1>3, <3>2 DEF GotOnline, UpdateFails, TimerFires, SyncTimer, NoUpdate
      <4> QED
        BY <4>1 DEF AnswerIsFresh, Asking
    <3> QED
      BY <3>1, <3>2
  <2> QED
    BY <2>2, <2>3, <2>4
<1>4. CASE Unload
  BY <1>4, NoUpdateIdle DEF Unload, ClearUpdates, AllDoubted, WritesAreDirty,
     AnswerIsFresh, Coherent, InFlight
<1>5. CASE UpdateOk
  <2>1. requests' = {} /\ ~InFlight' /\ phase' = phase /\ phase # "loaded"
    BY <1>0, <1>5, NoUpdateIdle DEF UpdateOk, SyncTimer, SafetyInv, NoReadDuringWrite,
       Idle, InFlight
  <2> QED
    BY <1>0, <1>5, <2>1, CoherenceUpdateOk DEF AllDoubted, WritesAreDirty, AnswerIsFresh
<1>6. CASE ReceiveRTB
  <2>1. /\ UNCHANGED <<phase, requests, friends, site>>
        /\ dirty' = dirty \cup Covers(Head(rtb))
        /\ rtb # << >> /\ rtb' = Tail(rtb)
    BY <1>6 DEF ReceiveRTB
  <2>2. phase # "loaded"
    BY <1>0, <2>1 DEF SafetyInv, Idle
  <2>3. Coherent'
    BY <1>0, <2>1, CoherentKept, AnnouncedTail DEF CoherenceInv, TypeOK
  <2>4. ~InFlight'
    BY <1>0, <1>6, NoUpdateIdle DEF ReceiveRTB, MayRefresh, SyncTimer, SafetyInv,
       NoReadDuringWrite, InFlight
  <2> QED
    BY <2>1, <2>2, <2>3, <2>4 DEF CoherenceInv, AllDoubted, WritesAreDirty, AnswerIsFresh
<1>7. ASSUME NEW r \in requests, ActionReturns(r) \/ ActionFails(r) PROVE Rest'
  <2>1. UNCHANGED <<phase, friends, dirty, site, rtb>> /\ requests' \subseteq requests
    BY <1>7 DEF ActionReturns, ActionFails, ActionEnds
  <2>2. phase = "online" /\ ~InFlight
    BY <1>0 DEF SafetyInv, WritesOnline, NoReadDuringWrite
  <2>3. ~InFlight'
    BY <1>7, <2>2, NoUpdateIdle DEF ActionReturns, ActionFails, ActionEnds, SyncTimer,
       KeepUpdates, InFlight
  <2>4. Coherent'
    BY <2>1, CoherentKept, AnnouncedKept DEF CoherenceInv
  <2> QED
    BY <2>1, <2>2, <2>3, <2>4 DEF CoherenceInv, AllDoubted, WritesAreDirty, AnswerIsFresh
<1>8. ASSUME NEW r \in requests, SiteProcesses(r) PROVE Rest'
  <2>1. phase = "online" /\ ~InFlight
    BY <1>0 DEF SafetyInv, WritesOnline, NoReadDuringWrite
  <2>2. UNCHANGED <<phase, update_request, dirty>>
    BY <1>8 DEF SiteProcesses
  <2>3. [r EXCEPT !.answered = TRUE, !.ok = Accepted(r)].type = r.type
    BY <1>0 DEF TypeOK, Request
  <2>4. WritesAreDirty'
    BY <1>8, <2>2, <2>3 DEF SiteProcesses, CoherenceInv, WritesAreDirty
  <2> QED
    BY <1>0, <1>8, <2>1, <2>2, <2>4, CoherencePerform DEF AllDoubted, AnswerIsFresh, InFlight
<1>9. CASE SiteAnswersUpdate
  <2>1. UNCHANGED <<phase, friends, dirty, requests, site, rtb>>
    BY <1>9 DEF SiteAnswersUpdate
  <2>2. update_request'.answer = SiteNow'
    BY <1>0, <1>9 DEF SiteAnswersUpdate, SiteNow, site, TypeOK, Update
  <2>3. AnswerIsFresh'
    BY <2>2 DEF AnswerIsFresh
  <2>4. Coherent'
    BY <2>1, CoherentKept, AnnouncedKept DEF CoherenceInv
  <2> QED
    BY <2>1, <2>3, <2>4 DEF CoherenceInv, AllDoubted, WritesAreDirty
<1>10. CASE UserNext
  <2>1. ASSUME NEW n, NEW types, FriendActions(n, types), phase = "online",
               UNCHANGED <<phase, friends, site, rtb>>
        PROVE  Rest'
    BY <1>0, <2>1, CoherenceFriendActions DEF SafetyInv
  <2>2. ASSUME NEW n \in Names, NEW type, PickMenuItem(n, type) \/ AnswerPrompt(n, type)
        PROVE  Rest'
    BY <2>1, <2>2 DEF PickMenuItem, AnswerPrompt, Connected
  <2>3. ASSUME NEW n \in Names, RemoveBuddy(n) PROVE Rest'
    <3>1. /\ \E types : FriendActions(n, types)
          /\ phase = "online"
          /\ UNCHANGED <<phase, friends, site, rtb>>
      BY <2>3 DEF RemoveBuddy
    <3> QED
      BY <2>1, <3>1
  <2>4. ASSUME UNCHANGED client, UNCHANGED site, rtb' = rtb PROVE Rest'
    BY <2>4, CoherentKept, FreshKept, AnnouncedKept
       DEF client, CoherenceInv, AllDoubted, WritesAreDirty
  <2>5. ASSUME NEW n \in Names, OpenMenu(n) \/ \E g \in Groups : PlaceBuddy(n, g)
        PROVE  Rest'
    BY <2>4, <2>5 DEF OpenMenu, PlaceBuddy
  <2> QED
    BY <1>10, <2>2, <2>3, <2>5 DEF UserNext
<1>11. CASE OthersNext
  BY <1>0, <1>11, CoherenceOthers
<1>12. CASE UNCHANGED vars
  BY <1>12, CoherentKept, FreshKept, AnnouncedKept
     DEF vars, client, CoherenceInv, AllDoubted, WritesAreDirty
<1> QED
  BY <1>1, <1>2, <1>3, <1>4, <1>5, <1>6, <1>7, <1>8, <1>9, <1>10, <1>11, <1>12
     DEF Next, ClientNext, SiteNext, FailNext

\* When every change is announced and the user acts once online, the table of
\* friends says of every list that is believed right what the site says: for any
\* number of characters, requests, failures and sessions, in any order.
THEOREM TableIsCoherent == ~EarlyActions /\ ~Silent => (Spec => []Coherent)
<1> SUFFICES ASSUME ~EarlyActions, ~Silent PROVE Spec => []Coherent
  OBVIOUS
<1>1. Init => CoherenceInv
  BY CoherenceInit
<1>2. CoherenceInv /\ [Next]_vars => CoherenceInv'
  BY CoherenceStep
<1>3. CoherenceInv => Coherent
  BY DEF CoherenceInv
<1> QED
  BY <1>1, <1>2, <1>3, PTL DEF Spec

----------------------------------------------------------------------------
(* FriendsSync implements FriendsMirror.                                     *)

\* Only the end of an update or of the session changes the table.
LEMMA TableSteps ==
    [Next]_vars => UpdateOk \/ Unload \/ friends' = friends
  BY DEF Next, vars, client, ui, site, used, Load, Identified, GotOnline, Unload,
     ClientNext, TimerFires, UpdateOk, ActionReturns, ReceiveRTB, SiteNext,
     SiteAnswersUpdate, SiteProcesses, UserNext, OpenMenu, PickMenuItem, AnswerPrompt,
     RemoveBuddy, PlaceBuddy, OthersNext, IncomingRequest, RequestAccepted,
     FriendRemovesUs, RelationChanges, BookmarkChanges, SilentChange, Change, FailNext,
     UpdateFails, ActionFails

\* A list is trusted again only after it has been fetched.
LEMMA DirtySteps ==
    [Next]_vars => UpdateOk \/ Unload \/ dirty \subseteq dirty' \/ dirty' = Lists
  BY DEF Next, vars, client, ui, site, used, Load, Identified, GotOnline, Unload,
     ClientNext, TimerFires, UpdateOk, ActionReturns, ReceiveRTB, SiteNext,
     SiteAnswersUpdate, SiteProcesses, UserNext, OpenMenu, PickMenuItem, AnswerPrompt,
     RemoveBuddy, PlaceBuddy, FriendActions, OthersNext, IncomingRequest,
     RequestAccepted, FriendRemovesUs, RelationChanges, BookmarkChanges, SilentChange,
     Change, FailNext, UpdateFails, ActionFails

\* Notifications leave the queue at its head, and their lists become dirty.
LEMMA NotificationSteps ==
    ASSUME TypeOK, [Next]_vars
    PROVE  \/ Unload
           \/ rtb' = rtb
           \/ \E kind \in Kinds : rtb' = Append(rtb, kind)
           \/ rtb # << >> /\ rtb' = Tail(rtb) /\ dirty' = dirty \cup Covers(Head(rtb))
<1> USE DEF client, ui, site, used
<1>1. CASE ReceiveRTB
  BY <1>1 DEF ReceiveRTB
<1>2. ASSUME NEW kind \in Kinds, Notify(kind)
      PROVE  rtb' = rtb \/ \E k \in Kinds : rtb' = Append(rtb, k)
  BY <1>2 DEF Notify
<1>3. ASSUME NEW r \in requests, SiteProcesses(r)
      PROVE  rtb' = rtb \/ \E kind \in Kinds : Notify(kind)
  <2>1. rtb' = rtb \/ \E kind \in EchoOf(r.type) : Notify(kind)
    BY <1>3 DEF SiteProcesses, Perform
  <2> QED
    BY <2>1, EchoOfType
<1>4. CASE OthersNext
  BY <1>2, <1>4 DEF OthersNext, IncomingRequest, RequestAccepted, FriendRemovesUs,
     RelationChanges, BookmarkChanges, SilentChange, Kinds
<1>5. CASE Load \/ Identified \/ GotOnline \/ TimerFires \/ UpdateOk \/ SiteAnswersUpdate
           \/ UpdateFails \/ UNCHANGED vars
  BY <1>5 DEF Load, Identified, GotOnline, TimerFires, UpdateOk, SiteAnswersUpdate,
     UpdateFails, vars
<1>6. ASSUME NEW r \in requests, ActionReturns(r) \/ ActionFails(r) PROVE rtb' = rtb
  BY <1>6 DEF ActionReturns, ActionFails
<1>7. CASE UserNext
  BY <1>7 DEF UserNext, OpenMenu, PickMenuItem, AnswerPrompt, RemoveBuddy, PlaceBuddy
<1> QED
  BY <1>1, <1>2, <1>3, <1>4, <1>5, <1>6, <1>7 DEF Next, ClientNext, SiteNext, FailNext

\* A session is only left by Unload.
LEMMA PhaseSteps == [Next]_vars => phase' = "off" \/ phase # "off" \/ dirty' = Lists
  BY DEF Next, vars, client, ui, site, used, Load, Identified, GotOnline, Unload,
     ClientNext, TimerFires, UpdateOk, ActionReturns, ReceiveRTB, SiteNext,
     SiteAnswersUpdate, SiteProcesses, UserNext, OpenMenu, PickMenuItem, AnswerPrompt,
     RemoveBuddy, PlaceBuddy, OthersNext, IncomingRequest, RequestAccepted,
     FriendRemovesUs, RelationChanges, BookmarkChanges, SilentChange, Change, FailNext,
     UpdateFails, ActionFails

\* No step but the end of an update makes the plugin trust a list.
LEMMA TrustShrinks ==
    ASSUME TypeOK, [Next]_vars, ~UpdateOk, ~Unload
    PROVE  Trusted' \subseteq Trusted
<1> SUFFICES ASSUME NEW list \in Lists, phase' # "off", list \notin dirty', ~Announced(list)'
             PROVE  phase # "off" /\ list \notin dirty /\ ~Announced(list)
  BY DEF Trusted
<1>1. phase # "off"
  BY PhaseSteps
<1>2. list \notin dirty
  BY DirtySteps
<1>3. ~Announced(list)
  <2> SUFFICES ASSUME Announced(list) PROVE FALSE
    OBVIOUS
  <2>1. CASE rtb' = rtb
    BY <2>1, AnnouncedKept
  <2>2. CASE \E kind \in Kinds : rtb' = Append(rtb, kind)
    BY <2>2, AnnouncedAppend DEF TypeOK
  <2>3. CASE rtb # << >> /\ rtb' = Tail(rtb) /\ dirty' = dirty \cup Covers(Head(rtb))
    BY <2>3, AnnouncedTail DEF TypeOK
  <2> QED
    BY <2>1, <2>2, <2>3, NotificationSteps
<1> QED
  BY <1>1, <1>2, <1>3

----------------------------------------------------------------------------
\* The initial states of the synchroniser are initial states of the mirror.
LEMMA MirrorInit == Init => Mirror!Init
  BY DEF Init, Mirror!Init, Trusted

\* Trusted lists are right.
LEMMA TrustedAreRight ==
    Coherent => \A list \in Trusted : Listed(list, Table) = Listed(list, SiteNow)
  BY DEF Coherent, Trusted

\* A step of the synchroniser is a step of the mirror.
LEMMA MirrorStep ==
    ASSUME CoherenceInv, CoherenceInv', [Next]_vars
    PROVE  Mirror!Next
<1>0. /\ TypeOK /\ Coherent /\ Coherent'
      /\ Trusted \in SUBSET Lists /\ Trusted' \in SUBSET Lists
  BY DEF CoherenceInv, SafetyInv, Trusted
<1>1. /\ \A list \in Trusted : Listed(list, Table) = Listed(list, SiteNow)
      /\ \A list \in Trusted' : Listed(list, Table)' = Listed(list, SiteNow)'
  BY <1>0, TrustedAreRight DEF Coherent, Trusted
<1>2. CASE Unload
  <2>1. Trusted' = {} /\ \A list \in Lists : Listed(list, SiteNow)' = Listed(list, SiteNow)
    BY <1>2, SiteKept DEF Unload, Trusted
  <2>2. Mirror!Forget
    BY <2>1 DEF Mirror!Forget
  <2> QED
    BY <2>2 DEF Mirror!Next
<1>3. CASE UpdateOk
  <2>1. \A list \in Lists : Listed(list, SiteNow)' = Listed(list, SiteNow)
    BY <1>3, SiteKept DEF UpdateOk
  <2>2. Trusted \subseteq Trusted'
    BY <1>3, AnnouncedKept DEF UpdateOk, Trusted
  <2>3. \A list \in Trusted' : Listed(list, Table)' = Listed(list, SiteNow)
    BY <1>0, <1>1, <2>1
  <2>4. \A list \in Trusted : Listed(list, Table)' = Listed(list, Table)
    BY <1>1, <2>2, <2>3
  <2>5. Mirror!Fill
    BY <1>0, <2>1, <2>2, <2>3, <2>4 DEF Mirror!Fill
  <2> QED
    BY <1>0, <2>5 DEF Mirror!Next
<1>4. CASE ~Unload /\ ~UpdateOk
  <2>1. Trusted' \subseteq Trusted
    BY <1>0, <1>4, TrustShrinks
  <2>2. \A list \in Lists : Listed(list, Table)' = Listed(list, Table)
    BY <1>4, TableSteps, TableKept
  <2>3. \A list \in Trusted' : Listed(list, SiteNow)' = Listed(list, SiteNow)
    BY <1>0, <1>1, <2>1, <2>2
  <2>4. Mirror!Change
    BY <1>0, <2>1, <2>2, <2>3 DEF Mirror!Change
  <2> QED
    BY <2>4 DEF Mirror!Next
<1> QED
  BY <1>2, <1>3, <1>4

\* The synchroniser implements the mirror: every step of a client, of the site, of
\* the user or of the others changes, doubts, fills or forgets lists as the mirror
\* allows, or changes nothing the mirror shows.
THEOREM SyncImplementsMirror == ~EarlyActions /\ ~Silent => (Spec => ImplementsMirror)
<1> SUFFICES ASSUME ~EarlyActions, ~Silent PROVE Spec => ImplementsMirror
  OBVIOUS
<1>1. Init => CoherenceInv
  BY CoherenceInit
<1>2. CoherenceInv /\ [Next]_vars => CoherenceInv'
  BY CoherenceStep
<1>3. Init => Mirror!Init
  BY MirrorInit
<1>4. CoherenceInv /\ CoherenceInv' /\ [Next]_vars => [Mirror!Next]_(Mirror!mirror)
  BY MirrorStep
<1> QED
  BY <1>1, <1>2, <1>3, <1>4, PTL DEF Spec, ImplementsMirror, Mirror!Spec

----------------------------------------------------------------------------
(* What a synchronisation does to the buddy list.                           *)

LEMMA AskActions ==
    ASSUME AskIsDirty, NEW n, NEW types, FriendActions(n, types)
    PROVE  AskIsDirty'
<1> DEFINE issued == {type \in types : Issuable(n, type)}
<1>1. CASE issued = {}
  <2>1. dirty' = dirty /\ update_request' = update_request
    BY <1>1 DEF FriendActions, KeepUpdates
  <2> QED
    BY <2>1 DEF AskIsDirty, InFlight
<1>2. CASE issued # {}
  <2>1. ~InFlight'
    BY <1>2, NoUpdateIdle DEF FriendActions, ClearUpdates, InFlight
  <2> QED
    BY <2>1 DEF AskIsDirty
<1> QED
  BY <1>1, <1>2

LEMMA AskStep ==
    ASSUME SafetyInv, AskIsDirty, [Next]_vars
    PROVE  AskIsDirty'
<1> USE DEF client, ui, site, used
<1>1. ASSUME UNCHANGED <<update_request, dirty>> PROVE AskIsDirty'
  BY <1>1 DEF AskIsDirty, InFlight
<1>2. ASSUME ~InFlight' PROVE AskIsDirty'
  BY <1>2 DEF AskIsDirty
<1>3. CASE Load
  BY <1>2, <1>3 DEF Load, SafetyInv, Idle, InFlight
<1>4. CASE GotOnline \/ Unload \/ UpdateOk \/ UpdateFails
  BY <1>2, <1>4, NoUpdateIdle
     DEF GotOnline, Unload, UpdateOk, UpdateFails, SyncTimer, ClearUpdates, InFlight
<1>5. CASE TimerFires
  BY <1>1, <1>5, NoUpdateIdle DEF TimerFires, AskIsDirty
<1>6. CASE ReceiveRTB
  <2>1. CASE requests = {}
    BY <1>2, <1>6, <2>1, NoUpdateIdle DEF ReceiveRTB, MayRefresh, SyncTimer, InFlight
  <2>2. CASE requests # {}
    BY <1>2, <1>6, <2>2
       DEF ReceiveRTB, MayRefresh, KeepUpdates, SafetyInv, NoReadDuringWrite, InFlight
  <2> QED
    BY <2>1, <2>2
<1>7. ASSUME NEW r \in requests, ActionReturns(r) \/ ActionFails(r) PROVE AskIsDirty'
  <2>1. ~InFlight /\ \E success : ActionEnds(r, success)
    BY <1>7 DEF ActionReturns, ActionFails, SafetyInv, NoReadDuringWrite
  <2> QED
    BY <1>2, <2>1, NoUpdateIdle DEF ActionEnds, SyncTimer, KeepUpdates, InFlight
<1>8. CASE SiteAnswersUpdate
  <2>1. update_request'.ask = update_request.ask /\ dirty' = dirty
    BY <1>8 DEF SiteAnswersUpdate, SafetyInv, TypeOK, Update
  <2> QED
    BY <2>1 DEF AskIsDirty, InFlight
<1>9. CASE UserNext
  <2>1. ASSUME NEW n \in Names, OpenMenu(n) \/ \E g \in Groups : PlaceBuddy(n, g)
        PROVE  AskIsDirty'
    BY <1>1, <2>1 DEF OpenMenu, PlaceBuddy
  <2>2. ASSUME NEW n \in Names, NEW type, PickMenuItem(n, type) \/ AnswerPrompt(n, type)
        PROVE  AskIsDirty'
    BY <2>2, AskActions DEF PickMenuItem, AnswerPrompt
  <2>3. ASSUME NEW n \in Names, RemoveBuddy(n) PROVE AskIsDirty'
    <3>1. \E types : FriendActions(n, types)
      BY <2>3 DEF RemoveBuddy
    <3> QED
      BY <3>1, AskActions
  <2> QED
    BY <1>9, <2>1, <2>2, <2>3 DEF UserNext
<1>10. CASE Identified \/ OthersNext \/ (\E r \in requests : SiteProcesses(r))
  BY <1>1, <1>10 DEF Identified, SiteProcesses, OthersNext, IncomingRequest, RequestAccepted,
                     FriendRemovesUs, RelationChanges, BookmarkChanges, SilentChange, Change
<1>11. CASE UNCHANGED vars
  BY <1>1, <1>11 DEF vars
<1> QED
  BY <1>3, <1>4, <1>5, <1>6, <1>7, <1>8, <1>9, <1>10, <1>11
     DEF Next, ClientNext, SiteNext, FailNext

\* Without a click only the end of an update regroups buddies.
LEMMA GroupSteps ==
    [Next]_vars => UpdateOk \/ group' = group \/ clicks' = clicks + 1
  BY DEF Next, vars, client, ui, site, used, Load, Identified, GotOnline, Unload,
     ClientNext, TimerFires, ActionReturns, ReceiveRTB, SiteNext, SiteAnswersUpdate,
     SiteProcesses, UserNext, OpenMenu, PickMenuItem, AnswerPrompt, RemoveBuddy, PlaceBuddy,
     Click, OthersNext, IncomingRequest, RequestAccepted, FriendRemovesUs,
     RelationChanges, BookmarkChanges, SilentChange, Change, FailNext, UpdateFails,
     ActionFails

\* Whoever is given a group has an entry that is in one of the four lists.
LEMMA RegroupedIsListed ==
    ASSUME NEW entry \in Entry, Regrouped("none", entry) # "none"
    PROVE  entry.bookmarked \/ entry.status \in {"MUTUAL", "PENDING_IN", "PENDING_OUT"}
<1>1. entry.status # "NOT_FRIEND" \/ entry.bookmarked
  BY DEF Regrouped, Friended, Bookmarked
<1> QED
  BY <1>1 DEF Entry, Status

\* A synchronisation never brings back a buddy that the site does not list, unless
\* news are on their way: when an answer has come the whole table is right, though
\* it may have asked for one list only.
THEOREM NobodyIsResurrected == ~EarlyActions /\ ~Silent => (Spec => NoResurrection)
<1> SUFFICES ASSUME ~EarlyActions, ~Silent PROVE Spec => NoResurrection
  OBVIOUS
<1>1. Init => CoherenceInv /\ AskIsDirty
  BY CoherenceInit, NoUpdateIdle DEF Init, AskIsDirty, InFlight
<1>2. CoherenceInv /\ AskIsDirty /\ [Next]_vars => CoherenceInv' /\ AskIsDirty'
  BY CoherenceStep, AskStep DEF CoherenceInv
<1> DEFINE Stays(n) == /\ clicks' = clicks
                       /\ group[n] = "none"
                       /\ group'[n] # "none"
                       => \/ rel[n] # "NOT_FRIEND"
                          \/ n \in marks
                          \/ \E list \in Lists : Announced(list)
<1>3. CoherenceInv /\ CoherenceInv' /\ AskIsDirty /\ [Next]_vars
         => [\A n \in Names : Stays(n)]_vars
  <2> SUFFICES ASSUME CoherenceInv, CoherenceInv', AskIsDirty, [Next]_vars, NEW n \in Names,
                      clicks' = clicks, group[n] = "none", group'[n] # "none",
                      \A list \in Lists : ~Announced(list)
               PROVE  rel[n] # "NOT_FRIEND" \/ n \in marks
    OBVIOUS
  <2>1. UpdateOk
    <3>1. clicks' # clicks + 1
      BY DEF CoherenceInv, SafetyInv, TypeOK
    <3> QED
      BY <3>1, GroupSteps
  <2>2. dirty' = {} /\ phase' # "off" /\ UNCHANGED <<rel, id, marks, rtb>>
    BY <2>1 DEF UpdateOk, AskIsDirty, CoherenceInv, SafetyInv, Idle, site
  <2>3. \A list \in Lists : ~Announced(list)'
    BY <2>2 DEF Announced
  <2>4. \A list \in Lists : Listed(list, Table)' = Listed(list, SiteNow)'
    BY <2>2, <2>3 DEF CoherenceInv, Coherent
  <2>5. group'[n] = Regrouped("none", friends'[n])
    BY <2>1 DEF UpdateOk
  <2>6. rel'[n] # "NOT_FRIEND" \/ n \in marks'
    <3>1. \/ friends'[n].bookmarked
          \/ friends'[n].status \in {"MUTUAL", "PENDING_IN", "PENDING_OUT"}
      <4>1. friends'[n] \in Entry
        BY DEF CoherenceInv, SafetyInv, TypeOK
      <4> QED
        BY <4>1, <2>5, RegroupedIsListed
    <3>2. CASE friends'[n].bookmarked
      <4>1. n \in Listed("bookmarklist", Table)'
        BY <3>2 DEF Listed, Table
      <4>2. n \in Listed("bookmarklist", SiteNow)'
        BY <4>1, <2>4 DEF Lists
      <4> QED
        BY <4>2 DEF Listed, SiteNow
    <3>3. CASE friends'[n].status = "MUTUAL"
      <4>1. n \in Listed("friendlist", Table)'
        BY <3>3 DEF Listed, Table
      <4>2. n \in Listed("friendlist", SiteNow)'
        BY <4>1, <2>4 DEF Lists
      <4> QED
        BY <4>2 DEF Listed, SiteNow
    <3>4. CASE friends'[n].status = "PENDING_IN"
      <4>1. <<n, friends'[n].code>> \in Listed("requestlist", Table)'
        BY <3>4 DEF Listed, Table
      <4>2. <<n, friends'[n].code>> \in Listed("requestlist", SiteNow)'
        BY <4>1, <2>4 DEF Lists
      <4> QED
        BY <4>2 DEF Listed, SiteNow
    <3>5. CASE friends'[n].status = "PENDING_OUT"
      <4>1. <<n, friends'[n].code>> \in Listed("requestpending", Table)'
        BY <3>5 DEF Listed, Table
      <4>2. <<n, friends'[n].code>> \in Listed("requestpending", SiteNow)'
        BY <4>1, <2>4 DEF Lists
      <4> QED
        BY <4>2 DEF Listed, SiteNow
    <3> QED
      BY <3>1, <3>2, <3>3, <3>4, <3>5
  <2> QED
    BY <2>2, <2>6
<1> QED
  BY <1>1, <1>2, <1>3, PTL DEF Spec, NoResurrection

\* When both lists are synchronised, every synchronisation leaves each buddy in the
\* group that its entry in the table says, wherever the user has put it before.
THEOREM GroupsAlwaysFollowTable == SyncFriends /\ SyncBookmarks => (Spec => GroupsFollowTable)
<1> SUFFICES ASSUME SyncFriends, SyncBookmarks PROVE Spec => GroupsFollowTable
  OBVIOUS
<1> DEFINE Follows(n) == /\ group'[n] = "friends" => friends'[n].status # "NOT_FRIEND"
                         /\ group'[n] = "bookmarks" => /\ friends'[n].bookmarked
                                                       /\ friends'[n].status = "NOT_FRIEND"
                         /\ group'[n] = "none" => friends'[n] = Unknown
<1>1. TypeOK /\ [Next]_vars => [UpdateOk => \A n \in Names : Follows(n)]_vars
  <2> SUFFICES ASSUME TypeOK, UpdateOk, NEW n \in Names PROVE Follows(n)
    OBVIOUS
  <2>1. group'[n] = Regrouped(group[n], friends'[n]) /\ group[n] \in Groups
    BY DEF UpdateOk, TypeOK
  <2>2. friends'[n] = Unknown \/ ~Unused(friends'[n])
    <3>1. \E table : friends' = Cleaned(table)
      BY DEF UpdateOk, Merged
    <3> QED
      BY <3>1 DEF Cleaned
  <2>3. CASE friends'[n] = Unknown
    BY <2>1, <2>3 DEF Regrouped, Friended, Bookmarked, Unknown, Groups
  <2>4. CASE friends'[n] # Unknown
    BY <2>1, <2>2, <2>4 DEF Regrouped, Friended, Bookmarked, Unused, Groups
  <2> QED
    BY <2>3, <2>4
<1> QED
  BY <1>1, TypeCorrect, PTL DEF Spec, GroupsFollowTable
=============================================================================
