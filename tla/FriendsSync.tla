---------------------------- MODULE FriendsSync ----------------------------
(* The friends and bookmarks synchroniser of the plugin (f-list_friends.c).

   F-List keeps four lists for a character: its friends, its bookmarks, the
   friend requests it has received and the ones it has sent.  The plugin keeps
   a copy of them (flf->friends), shows it as two groups of the Pidgin buddy
   list, and refetches only the lists it believes are out of date (the dirty
   flags).  Three parties act without waiting for each other: the user (menus,
   prompts, the buddy list), the web site (answers, refusals, time-outs) and
   the chat server (RTB notifications).

   The site, libpurple's buddy list and the user are the environment: they are
   modelled from what the code asks of them.                                *)
EXTENDS Naturals, Sequences, FiniteSets

CONSTANTS
    Names,          \* the other characters
    NoBookmark,     \* those who do not want to be bookmarked
    SyncFriends,    \* account option sync_friends
    SyncBookmarks,  \* account option sync_bookmarks
    Silent,         \* whether the lists also change without a notification
    EarlyActions,   \* whether the user acts on the lists while still logging in
    MaxId,          \* bound: friend requests ever made
    MaxChanges,     \* bound: changes made by others
    MaxClicks,      \* bound: actions of the user
    MaxFailures,    \* bound: web requests that fail in transport
    MaxSessions     \* bound: logins

ASSUME OptionsAssumption ==
    /\ SyncFriends \in BOOLEAN
    /\ SyncBookmarks \in BOOLEAN
    /\ Silent \in BOOLEAN
    /\ EarlyActions \in BOOLEAN

ASSUME BoundsAssumption ==
    /\ MaxId \in Nat
    /\ MaxChanges \in Nat
    /\ MaxClicks \in Nat
    /\ MaxFailures \in Nat
    /\ MaxSessions \in Nat

VARIABLES
    \* struct FListFriends_
    phase,            \* no session ("off"), "loaded" (flist_friends_load),
                      \* "identified" to the chat server, or "online"
    update_request,   \* the list request in flight, which asks for no list
                      \* when there is none
    update_timer,     \* "off", or due "now" (0 s) or "later" (1800 s)
    dirty,            \* the lists whose dirty flag is set
    requests,         \* the action requests in flight
    friends,          \* the table of friends; Unknown where there is no entry
    cannot_bookmark,
    auth_requests,    \* whom flf->auth_requests has an entry for
    \* libpurple and the user
    prompts,          \* authorization dialogs on the screen
    menu,             \* the items of the context menu that is open, if any
    group,            \* the group of the buddy list each character is in
    \* the web site and the chat server
    rel,              \* what each character is to ours
    id,               \* the id of the pending request, 0 if there is none
    marks,            \* the bookmarked characters
    rtb,              \* notifications on their way
    \* how much of each bound is used
    ids, changes, clicks, failures, sessions

client == <<phase, update_request, update_timer, dirty, requests, friends,
            cannot_bookmark, auth_requests>>
ui     == <<prompts, menu, group>>
site   == <<rel, id, marks>>
used   == <<ids, changes, clicks, failures, sessions>>
vars   == <<client, ui, site, rtb, used>>

----------------------------------------------------------------------------
Lists  == {"bookmarklist", "friendlist", "requestlist", "requestpending"}
Status == {"NOT_FRIEND", "PENDING_OUT", "PENDING_IN", "MUTUAL"}
Types  == {"FRIEND_REQUEST", "FRIEND_CANCEL", "FRIEND_REMOVE", "FRIEND_AUTHORIZE",
           "FRIEND_DENY", "BOOKMARK_ADD", "BOOKMARK_REMOVE"}
Kinds  == {"friendrequest", "friendadd", "friendremove", "track"}
Groups == {"none", "friends", "bookmarks", "other"}
Ids    == 0 .. MaxId

Entry    == [status : Status, code : Ids, bookmarked : BOOLEAN]
Snapshot == [rel : [Names -> Status], id : [Names -> Ids], marks : SUBSET Names]
Update   == [ask : SUBSET Lists, answered : BOOLEAN, answer : Snapshot]
Request  == [click : 1 .. MaxClicks, type : Types, who : Names, code : Ids,
             answered : BOOLEAN, ok : BOOLEAN]

Unknown == [status |-> "NOT_FRIEND", code |-> 0, bookmarked |-> FALSE]
Nobody  == [rel   |-> [n \in Names |-> "NOT_FRIEND"],
            id    |-> [n \in Names |-> 0],
            marks |-> {}]

Asking(lists) == [ask |-> lists, answered |-> FALSE, answer |-> Nobody]
NoUpdate      == Asking({})
InFlight      == update_request.ask # {}

----------------------------------------------------------------------------
(* Timers and the single list request.  An operator whose name ends in a word
   of its own and takes another's parameters (ClearTimerOnly beside
   ClearUpdates) is a plausible slip in that code: the properties must notice
   it.                                                                      *)

\* slip: the update in flight is not cancelled
ClearTimerOnly == /\ update_timer' = "off"
                  /\ update_request' = update_request

ClearUpdates == /\ update_timer' = "off"
                /\ update_request' = NoUpdate

\* slip: the timer is armed while an update is in flight
ArmTimerOnly(due) == /\ update_timer' = due
                     /\ update_request' = update_request

SyncTimer(due) == /\ update_timer' = due
                  /\ update_request' = NoUpdate

KeepUpdates == UNCHANGED <<update_timer, update_request>>

\* slip: the refresh does not wait for the action requests
MayRefreshAnyTime(left) == TRUE

\* slip: an update in flight is thought to be recent enough
MayRefreshUnlessBusy(left) == left = {} /\ ~InFlight

\* flist_friends_refresh and flist_friends_action_cb start a refresh only when
\* no action request is left.
MayRefresh(left) == left = {}

\* slip: nothing is scheduled after a failure
RetryNever == "off"

\* When the next update is due after an answer or a failure.
Retry == "later"

----------------------------------------------------------------------------
(* Action requests: flist_friend_action, for one click that may ask for
   several of them.                                                         *)

\* slip: accepting a request is not seen to change the friends
DirtiedByRequest(type) ==
    CASE type \in {"FRIEND_REQUEST", "FRIEND_CANCEL"}               -> {"requestpending"}
      [] type = "FRIEND_REMOVE"                                     -> {"friendlist"}
      [] type \in {"FRIEND_AUTHORIZE", "FRIEND_DENY"}               -> {"requestlist"}
      [] OTHER                                                      -> {"bookmarklist"}

\* The lists an action makes dirty.
Dirtied(type) ==
    CASE type = "FRIEND_REQUEST"   -> {"requestpending"}
      [] type = "FRIEND_CANCEL"    -> {"requestpending"}
      [] type = "FRIEND_REMOVE"    -> {"friendlist"}
      [] type = "FRIEND_AUTHORIZE" -> {"requestlist", "friendlist"}
      [] type = "FRIEND_DENY"      -> {"requestlist"}
      [] OTHER                     -> {"bookmarklist"}

ById == {"FRIEND_CANCEL", "FRIEND_AUTHORIZE", "FRIEND_DENY"}

Issuable(n, type) == /\ type \in ById => friends[n] # Unknown
                     /\ type = "BOOKMARK_ADD" => n \notin cannot_bookmark

NewRequest(n, type) ==
    [click    |-> clicks + 1,
     type     |-> type,
     who      |-> n,
     code     |-> IF type \in ById THEN friends[n].code ELSE 0,
     answered |-> FALSE,
     ok       |-> FALSE]

FriendActions(n, types) ==
    LET issued == {type \in types : Issuable(n, type)}
    IN  /\ requests' = requests \cup {NewRequest(n, type) : type \in issued}
        /\ dirty' = dirty \cup UNION {Dirtied(type) : type \in issued}
        /\ IF issued = {} THEN KeepUpdates ELSE ClearUpdates

----------------------------------------------------------------------------
(* A session.                                                               *)

Load ==
    /\ phase = "off"
    /\ sessions < MaxSessions
    /\ phase' = "loaded"
    /\ dirty' = Lists
    /\ sessions' = sessions + 1
    /\ UNCHANGED <<update_request, update_timer, requests, friends,
                   cannot_bookmark, auth_requests, ui, site, rtb,
                   ids, changes, clicks, failures>>

\* The chat server accepts the identification (flist_process_IDN).
Identified ==
    /\ phase = "loaded"
    /\ phase' = "identified"
    /\ UNCHANGED <<update_request, update_timer, dirty, requests, friends,
                   cannot_bookmark, auth_requests, ui, site, rtb, used>>

\* flist_friends_login, called when the server announces our own character.
GotOnline ==
    /\ phase = "identified"
    /\ phase' = "online"
    /\ SyncTimer("now")
    /\ UNCHANGED <<dirty, requests, friends, cannot_bookmark, auth_requests,
                   ui, site, rtb, used>>

Unload ==
    /\ phase # "off"
    /\ phase' = "off"
    /\ ClearUpdates
    /\ dirty' = {}
    /\ requests' = {}
    /\ friends' = [n \in Names |-> Unknown]
    /\ cannot_bookmark' = {}
    /\ auth_requests' = {}
    /\ prompts' = {}
    /\ rtb' = <<>>
    /\ UNCHANGED <<menu, group, site, used>>

----------------------------------------------------------------------------
(* Fetching the lists.                                                      *)

TimerFires ==
    /\ update_timer # "off"
    /\ update_timer' = "off"
    /\ update_request' = IF dirty = {}
                         THEN update_request
                         ELSE Asking(dirty)
    /\ UNCHANGED <<phase, dirty, requests, friends, cannot_bookmark,
                   auth_requests, ui, site, rtb, used>>

\* flist_handle_friends_list: the names that have the status, and those that
\* had it and are not listed any more.
WithStatus(table, status, answer) ==
    [n \in Names |->
        IF answer.rel[n] = status
        THEN [table[n] EXCEPT !.status = status, !.code = answer.id[n]]
        ELSE IF table[n].status = status
             THEN [table[n] EXCEPT !.status = "NOT_FRIEND"]
             ELSE table[n]]

\* flist_handle_bookmark_list
WithBookmarks(table, answer) ==
    [n \in Names |-> [table[n] EXCEPT !.bookmarked = n \in answer.marks]]

\* flist_cleanup_friends
Unused(entry) == ~entry.bookmarked /\ entry.status = "NOT_FRIEND"

\* slip: the entries nobody lists any more are kept
NotCleaned(table) == table

Cleaned(table) == [n \in Names |-> IF Unused(table[n]) THEN Unknown ELSE table[n]]

Merged(table, ask, answer) ==
    LET b == IF "bookmarklist" \in ask THEN WithBookmarks(table, answer) ELSE table
        f == IF "friendlist" \in ask THEN WithStatus(b, "MUTUAL", answer) ELSE b
        i == IF "requestlist" \in ask THEN WithStatus(f, "PENDING_IN", answer) ELSE f
        o == IF "requestpending" \in ask THEN WithStatus(i, "PENDING_OUT", answer) ELSE i
    IN  Cleaned(o)

\* flist_friends_add_buddies and flist_friends_remove_former: the group a
\* character is in once its entry has been looked at.
Friended(entry)   == SyncFriends /\ entry.status # "NOT_FRIEND"
Bookmarked(entry) == SyncBookmarks /\ entry.bookmarked

Regrouped(g, entry) ==
    CASE entry = Unknown /\ g \in {"friends", "bookmarks"}  -> "none"
      [] Friended(entry) /\ g \in {"none", "bookmarks"}     -> "friends"
      [] /\ Bookmarked(entry)
         /\ ~Friended(entry)
         /\ g \in {"none", "friends"}                       -> "bookmarks"
      [] OTHER                                              -> g


UpdateOk ==
    /\ InFlight
    /\ update_request.answered
    /\ SyncTimer(Retry)
    /\ dirty' = dirty \ update_request.ask
    /\ friends' = Merged(friends, update_request.ask, update_request.answer)
    /\ LET pending == {n \in Names : friends'[n].status = "PENDING_IN"}
       IN  /\ prompts' = prompts \cup (pending \ auth_requests)
           /\ auth_requests' = auth_requests \cup pending
    /\ group' = [n \in Names |-> Regrouped(group[n], friends'[n])]
    /\ UNCHANGED <<phase, requests, cannot_bookmark, menu, site, rtb, used>>

\* The request timed out, could not be made, or came back with an error.
UpdateFails ==
    /\ InFlight
    /\ failures < MaxFailures
    /\ failures' = failures + 1
    /\ SyncTimer(Retry)
    /\ UNCHANGED <<phase, dirty, requests, friends, cannot_bookmark, auth_requests,
                   ui, site, rtb, ids, changes, clicks, sessions>>

----------------------------------------------------------------------------
(* The end of an action request: flist_friends_action_cb.                   *)

ActionEnds(r, success) ==
    /\ requests' = requests \ {r}
    /\ cannot_bookmark' = IF ~success /\ r.type = "BOOKMARK_ADD"
                          THEN cannot_bookmark \cup {r.who}
                          ELSE cannot_bookmark
    /\ IF MayRefresh(requests') THEN SyncTimer("now") ELSE KeepUpdates

ActionReturns(r) ==
    /\ r.answered
    /\ ActionEnds(r, r.ok)
    /\ UNCHANGED <<phase, dirty, friends, auth_requests, ui, site, rtb, used>>

\* A time-out or a broken connection: the site may or may not have acted.
ActionFails(r) ==
    /\ failures < MaxFailures
    /\ failures' = failures + 1
    /\ ActionEnds(r, FALSE)
    /\ UNCHANGED <<phase, dirty, friends, auth_requests, ui, site, rtb,
                   ids, changes, clicks, sessions>>

----------------------------------------------------------------------------
(* Notifications from the chat server: flist_process_RTB.                   *)

\* slip: a list that does not exist is marked
CoversMisspelt(kind) ==
    CASE kind = "friendrequest" -> {"requestlist"}
      [] kind = "friendadd"     -> {"requestpending", "friendslist"}
      [] kind = "friendremove"  -> {"friendlist"}
      [] OTHER                  -> {"bookmarklist"}

Covers(kind) ==
    CASE kind = "friendrequest" -> {"requestlist"}
      [] kind = "friendadd"     -> {"requestpending", "friendlist"}
      [] kind = "friendremove"  -> {"friendlist"}
      [] OTHER                  -> {"bookmarklist"}

ReceiveRTB ==
    /\ rtb # <<>>
    /\ rtb' = Tail(rtb)
    /\ dirty' = dirty \cup Covers(Head(rtb))
    /\ IF MayRefresh(requests) THEN SyncTimer("now") ELSE KeepUpdates
    /\ UNCHANGED <<phase, requests, friends, cannot_bookmark, auth_requests,
                   ui, site, used>>

----------------------------------------------------------------------------
(* The user.                                                                *)

\* Buddies can be used when the account is shown as connected.  A menu that is
\* still open and a prompt that is on the screen only need the connection that
\* libpurple has from the start of the login.
Connected == IF EarlyActions THEN phase # "off" ELSE phase = "online"

Click == /\ clicks < MaxClicks
         /\ clicks' = clicks + 1
         /\ UNCHANGED <<ids, changes, failures, sessions>>

\* flist_buddy_menu: what the menu of a buddy offers when it is opened.
MenuItems(entry) ==
    {IF entry.bookmarked THEN "BOOKMARK_REMOVE" ELSE "BOOKMARK_ADD"} \cup
    CASE entry.status = "MUTUAL"      -> {"FRIEND_REMOVE"}
      [] entry.status = "PENDING_OUT" -> {"FRIEND_CANCEL"}
      [] entry.status = "PENDING_IN"  -> {"FRIEND_DENY", "FRIEND_AUTHORIZE"}
      [] OTHER                        -> {"FRIEND_REQUEST"}

OpenMenu(n) ==
    /\ phase = "online"
    /\ menu = {}
    /\ clicks < MaxClicks
    /\ group[n] # "none"
    /\ menu' = {n} \X MenuItems(friends[n])
    /\ UNCHANGED <<client, prompts, group, site, rtb, used>>

\* flist_blist_node_action: the item does what it says, whatever has changed
\* since the menu was opened.
PickMenuItem(n, type) ==
    /\ Connected
    /\ <<n, type>> \in menu
    /\ Click
    /\ menu' = {}
    /\ FriendActions(n, {type})
    /\ UNCHANGED <<phase, friends, cannot_bookmark, auth_requests, prompts, group,
                   site, rtb>>

\* flist_auth_accept_cb and flist_auth_deny_cb
AnswerPrompt(n, type) ==
    /\ Connected
    /\ n \in prompts
    /\ Click
    /\ prompts' = prompts \ {n}
    /\ auth_requests' = auth_requests \ {n}
    /\ FriendActions(n, {type})
    /\ UNCHANGED <<phase, friends, cannot_bookmark, menu, group, site, rtb>>

\* flist_buddy_remove: what removing a buddy asks of the site.
Undone(entry) ==
    (IF Bookmarked(entry) THEN {"BOOKMARK_REMOVE"} ELSE {}) \cup
    CASE ~SyncFriends                 -> {}
      [] entry.status = "MUTUAL"      -> {"FRIEND_REMOVE"}
      [] entry.status = "PENDING_OUT" -> {"FRIEND_CANCEL"}
      [] entry.status = "PENDING_IN"  -> {"FRIEND_DENY"}
      [] OTHER                        -> {}

\* The dialog of a request that is denied this way is closed; its entry in
\* auth_requests stays.
RemoveBuddy(n) ==
    /\ phase = "online"
    /\ group[n] # "none"
    /\ Click
    /\ group' = [group EXCEPT ![n] = "none"]
    /\ prompts' = IF SyncFriends /\ friends[n].status = "PENDING_IN"
                  THEN prompts \ {n} ELSE prompts
    /\ FriendActions(n, Undone(friends[n]))
    /\ UNCHANGED <<phase, friends, cannot_bookmark, auth_requests, menu, site, rtb>>

\* The user adds a buddy (flist_buddy_add removes the duplicates), or drags it
\* to another group.  Neither tells the site anything.
PlaceBuddy(n, g) ==
    /\ phase = "online"
    /\ g # group[n]
    /\ Click
    /\ group' = [group EXCEPT ![n] = g]
    /\ UNCHANGED <<client, prompts, menu, site, rtb>>

----------------------------------------------------------------------------
(* The web site.                                                            *)

\* The chat server notifies a client of a change once it is identified there.
Notify(kind) == rtb' = IF phase \in {"identified", "online"} THEN Append(rtb, kind)
                                                            ELSE rtb

SiteAnswersUpdate ==
    /\ InFlight
    /\ ~update_request.answered
    /\ update_request' = [update_request EXCEPT
                            !.answered = TRUE,
                            !.answer = [rel |-> rel, id |-> id, marks |-> marks]]
    /\ UNCHANGED <<phase, update_timer, dirty, requests, friends, cannot_bookmark,
                   auth_requests, ui, site, rtb, used>>

Accepted(r) ==
    CASE r.type = "FRIEND_REQUEST"                    -> rel[r.who] = "NOT_FRIEND" /\ ids < MaxId
      [] r.type = "FRIEND_REMOVE"                     -> rel[r.who] = "MUTUAL"
      [] r.type = "FRIEND_CANCEL"                     -> rel[r.who] = "PENDING_OUT" /\ id[r.who] = r.code
      [] r.type \in {"FRIEND_AUTHORIZE", "FRIEND_DENY"} -> rel[r.who] = "PENDING_IN" /\ id[r.who] = r.code
      [] r.type = "BOOKMARK_ADD"                      -> r.who \notin NoBookmark
      [] OTHER                                        -> TRUE

\* What each accepted request makes of a relation.
Becomes(type) == CASE type = "FRIEND_REQUEST"   -> "PENDING_OUT"
                   [] type = "FRIEND_AUTHORIZE" -> "MUTUAL"
                   [] OTHER                     -> "NOT_FRIEND"

EchoOf(type) == CASE type = "FRIEND_REMOVE"                            -> {"friendremove"}
                  [] type = "FRIEND_AUTHORIZE"                         -> {"friendadd"}
                  [] type \in {"BOOKMARK_ADD", "BOOKMARK_REMOVE"}      -> {"track"}
                  [] OTHER                                             -> {}

SetRel(n, status) ==
    LET pending == status \in {"PENDING_IN", "PENDING_OUT"}
    IN  /\ rel' = [rel EXCEPT ![n] = status]
        /\ id' = [id EXCEPT ![n] = IF pending THEN ids + 1 ELSE 0]
        /\ ids' = IF pending THEN ids + 1 ELSE ids

\* The site carries out an action request, and may notify our own client of it.
Perform(r) ==
    /\ IF r.type \in {"BOOKMARK_ADD", "BOOKMARK_REMOVE"}
       THEN /\ marks' = IF r.type = "BOOKMARK_ADD" THEN marks \cup {r.who}
                                                   ELSE marks \ {r.who}
            /\ UNCHANGED <<rel, id, ids>>
       ELSE SetRel(r.who, Becomes(r.type)) /\ UNCHANGED marks
    /\ \/ UNCHANGED rtb
       \/ \E kind \in EchoOf(r.type) : Notify(kind)

SiteProcesses(r) ==
    /\ ~r.answered
    /\ requests' = (requests \ {r}) \cup
                   {[r EXCEPT !.answered = TRUE, !.ok = Accepted(r)]}
    /\ IF Accepted(r) THEN Perform(r) ELSE UNCHANGED <<site, rtb, ids>>
    /\ UNCHANGED <<phase, update_request, update_timer, dirty, friends,
                   cannot_bookmark, auth_requests, ui,
                   changes, clicks, failures, sessions>>

\* Changes made by others, or by the user elsewhere.
Change == /\ changes < MaxChanges
          /\ changes' = changes + 1
          /\ UNCHANGED <<client, ui, clicks, failures, sessions>>

RelationChanges(n, before, after, kind) ==
    /\ rel[n] = before
    /\ after = "PENDING_IN" => ids < MaxId
    /\ Change
    /\ SetRel(n, after)
    /\ Notify(kind)
    /\ UNCHANGED marks

IncomingRequest(n) == RelationChanges(n, "NOT_FRIEND", "PENDING_IN", "friendrequest")
RequestAccepted(n) == RelationChanges(n, "PENDING_OUT", "MUTUAL", "friendadd")
FriendRemovesUs(n) == RelationChanges(n, "MUTUAL", "NOT_FRIEND", "friendremove")

BookmarkChanges(n) ==
    /\ Change
    /\ n \in marks \/ n \notin NoBookmark
    /\ marks' = IF n \in marks THEN marks \ {n} ELSE marks \cup {n}
    /\ Notify("track")
    /\ UNCHANGED <<rel, id, ids>>

\* A request withdrawn or refused by the other side, anything done on the web
\* site that nobody announces, or an action whose client has given up.
SilentChange(n, status) ==
    /\ Silent
    /\ status # rel[n]
    /\ status \in {"PENDING_IN", "PENDING_OUT"} => ids < MaxId
    /\ Change
    /\ SetRel(n, status)
    /\ UNCHANGED <<marks, rtb>>

----------------------------------------------------------------------------
Init ==
    /\ phase = "off"
    /\ update_request = NoUpdate
    /\ update_timer = "off"
    /\ dirty = {}
    /\ requests = {}
    /\ friends = [n \in Names |-> Unknown]
    /\ cannot_bookmark = {}
    /\ auth_requests = {}
    /\ prompts = {}
    /\ menu = {}
    /\ group = [n \in Names |-> "none"]
    /\ rel \in [Names -> {"NOT_FRIEND", "MUTUAL"}]
    /\ id = [n \in Names |-> 0]
    /\ marks \in SUBSET (Names \ NoBookmark)
    /\ rtb = <<>>
    /\ ids = 0
    /\ changes = 0
    /\ clicks = 0
    /\ failures = 0
    /\ sessions = 0

ClientNext ==
    \/ TimerFires
    \/ UpdateOk
    \/ \E r \in requests : ActionReturns(r)
    \/ ReceiveRTB

SiteNext ==
    \/ SiteAnswersUpdate
    \/ \E r \in requests : SiteProcesses(r)

UserNext ==
    \/ \E n \in Names : OpenMenu(n)
    \/ \E n \in Names, type \in Types : PickMenuItem(n, type)
    \/ \E n \in Names : AnswerPrompt(n, "FRIEND_AUTHORIZE")
    \/ \E n \in Names : AnswerPrompt(n, "FRIEND_DENY")
    \/ \E n \in Names : RemoveBuddy(n)
    \/ \E n \in Names, g \in Groups \ {"none"} : PlaceBuddy(n, g)

OthersNext ==
    \/ \E n \in Names : IncomingRequest(n)
    \/ \E n \in Names : RequestAccepted(n)
    \/ \E n \in Names : FriendRemovesUs(n)
    \/ \E n \in Names : BookmarkChanges(n)
    \/ \E n \in Names, status \in Status : SilentChange(n, status)

FailNext ==
    \/ UpdateFails
    \/ \E r \in requests : ActionFails(r)

Next ==
    \/ Load
    \/ Identified
    \/ GotOnline
    \/ Unload
    \/ ClientNext
    \/ SiteNext
    \/ UserNext
    \/ OthersNext
    \/ FailNext

Spec == Init /\ [][Next]_vars

(* The event loop runs every timer and callback that is due, and a web request
   ends within its 30 s time-out.  That an answer comes at all is fair because
   only MaxFailures requests fail; nothing is assumed of the user, of the other
   characters or of the session.                                            *)
FairSpec ==
    /\ Spec
    /\ WF_vars(TimerFires)
    /\ WF_vars(UpdateOk)
    /\ WF_vars(\E r \in requests : ActionReturns(r))
    /\ WF_vars(ReceiveRTB)
    /\ WF_vars(SiteAnswersUpdate)
    /\ WF_vars(\E r \in requests : SiteProcesses(r))

----------------------------------------------------------------------------
TypeOK ==
    /\ phase \in {"off", "loaded", "identified", "online"}
    /\ update_request \in Update
    /\ update_timer \in {"off", "now", "later"}
    /\ dirty \in SUBSET Lists
    /\ requests \in SUBSET Request
    /\ friends \in [Names -> Entry]
    /\ cannot_bookmark \in SUBSET Names
    /\ auth_requests \in SUBSET Names
    /\ prompts \in SUBSET Names
    /\ menu \in SUBSET (Names \X Types)
    /\ group \in [Names -> Groups]
    /\ rel \in [Names -> Status]
    /\ id \in [Names -> Ids]
    /\ marks \in SUBSET Names
    /\ rtb \in Seq(Kinds)
    /\ ids \in 0 .. MaxId
    /\ changes \in 0 .. MaxChanges
    /\ clicks \in 0 .. MaxClicks
    /\ failures \in 0 .. MaxFailures
    /\ sessions \in 0 .. MaxSessions

\* The lists are never fetched, nor about to be, while the site may still be
\* working on an action of the user: an answer taken before the action would be
\* merged after it.  "We can't refresh until the requests finish"
\* (flist_friends_refresh).
NoReadDuringWrite == requests # {} => ~InFlight /\ update_timer = "off"

\* There is one round of fetching at a time: the timer that would start the next
\* one (and overwrite update_request) is not armed while a request is in flight.
OneRound == InFlight => update_timer = "off"

\* Once online, a list that is known to be out of date is never forgotten: the
\* fetch is scheduled, or under way, or follows the actions in flight.
NoLostRefresh ==
    phase = "online" /\ dirty # {} => \/ update_timer # "off"
                                      \/ InFlight
                                      \/ requests # {}

\* What a list says, on the site (or in an answer of it) and in the table.
Listed(list, s) ==
    CASE list = "friendlist"     -> {n \in Names : s.rel[n] = "MUTUAL"}
      [] list = "requestlist"    -> {<<n, s.id[n]>> : n \in {m \in Names : s.rel[m] = "PENDING_IN"}}
      [] list = "requestpending" -> {<<n, s.id[n]>> : n \in {m \in Names : s.rel[m] = "PENDING_OUT"}}
      [] OTHER                   -> s.marks

SiteNow == [rel |-> rel, id |-> id, marks |-> marks]
Table   == [rel   |-> [n \in Names |-> friends[n].status],
            id    |-> [n \in Names |-> friends[n].code],
            marks |-> {n \in Names : friends[n].bookmarked}]

Announced(list) == \E i \in 1 .. Len(rtb) : list \in Covers(rtb[i])

\* When every change is announced, the table agrees with the site on every list
\* that is neither dirty nor about to become so: no order of answers,
\* notifications, actions and failures leaves it wrong and believed right.
Coherent ==
    phase # "off" =>
        \A list \in Lists : \/ list \in dirty
                            \/ Announced(list)
                            \/ Listed(list, Table) = Listed(list, SiteNow)

\* The lists the plugin has no reason to doubt.
Trusted == IF phase = "off" THEN {}
           ELSE {list \in Lists : list \notin dirty /\ ~Announced(list)}

Mirror == INSTANCE FriendsMirror WITH
              site    <- [list \in Lists |-> Listed(list, SiteNow)],
              table   <- [list \in Lists |-> Listed(list, Table)],
              trusted <- Trusted

\* The synchroniser implements the mirror: in particular the actions of the user
\* change no list on the site that has not been marked dirty first, and merging
\* some lists never spoils the others, though all share one status per name.
ImplementsMirror == Mirror!Spec

\* A synchronisation never puts into the buddy list somebody the site lists
\* nowhere, the buddies just removed above all, unless the news is on its way.
NoResurrection ==
    [][\A n \in Names :
          /\ clicks' = clicks
          /\ group[n] = "none"
          /\ group'[n] # "none"
          => \/ rel[n] # "NOT_FRIEND"
             \/ n \in marks
             \/ \E list \in Lists : Announced(list)]_vars

\* After a synchronisation the groups say what the table says: friends and
\* pending requests in Friends, mere bookmarks in Bookmarks, nobody else in
\* either.  It is about accounts that synchronise both.
GroupsFollowTable ==
    [][UpdateOk => \A n \in Names :
          /\ group'[n] = "friends" => friends'[n].status # "NOT_FRIEND"
          /\ group'[n] = "bookmarks" => /\ friends'[n].bookmarked
                                        /\ friends'[n].status = "NOT_FRIEND"
          /\ group'[n] = "none" => friends'[n] = Unknown]_vars

\* If the site answers in the end, an online client stops having anything to
\* fetch or to wait for: no failure, refusal or notification leaves it stuck.
Settles ==
    <>[](phase = "online" => /\ dirty = {}
                             /\ requests = {}
                             /\ ~InFlight
                             /\ update_timer = "off")

----------------------------------------------------------------------------
(* What the safety properties rest on: the inductive invariants of
   FriendsSyncProofs, for a user who acts once online.                      *)

\* The user acts on the lists of an online session only.
WritesOnline == requests # {} => phase = "online"

\* Before the identification nothing is fetched and nothing is heard.
Idle == phase \in {"off", "loaded"} => /\ ~InFlight
                                       /\ update_timer = "off"
                                       /\ rtb = <<>>

SafetyInv == /\ TypeOK
             /\ NoReadDuringWrite
             /\ OneRound
             /\ NoLostRefresh
             /\ WritesOnline
             /\ Idle

\* Until a session is identified every list is doubted.
AllDoubted == phase = "loaded" => dirty = Lists

\* The lists an action in flight may change are dirty.
WritesAreDirty == \A r \in requests : Dirtied(r.type) \subseteq dirty

\* An answer that is on its way is as good as the site, list by list, but for what
\* is about to be announced: nothing else changes the site while it is fetched.
AnswerIsFresh ==
    InFlight /\ update_request.answered =>
        \A list \in Lists : \/ Announced(list)
                            \/ Listed(list, update_request.answer) = Listed(list, SiteNow)

\* What is being fetched is all that is doubted, so that nothing is when it has come:
\* whatever makes a list dirty also cancels the fetch.
AskIsDirty == InFlight => update_request.ask = dirty

CoherenceInv == /\ SafetyInv
                /\ AllDoubted
                /\ WritesAreDirty
                /\ AnswerIsFresh
                /\ Coherent

----------------------------------------------------------------------------
(* What comments and the change log say and the code does not do.           *)

\* "If this is a new request, notify the user!" (flist_friends_add_buddies):
\* after a synchronisation every request that waits for our answer is on the
\* screen, unless it was in the table already.
NewRequestsAreShown ==
    [][UpdateOk => \A n \in Names :
          /\ friends'[n].status = "PENDING_IN"
          /\ friends[n].status # "PENDING_IN"
          => n \in prompts']_vars
=============================================================================
