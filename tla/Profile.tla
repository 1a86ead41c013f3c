------------------------------ MODULE Profile ------------------------------
(* The profile of a character (f-list_profile.c).  The user asks for one at a
   time.  A web request fetches it once the list of profile fields is known
   (itself the answer to a web request, f-list_json.c); otherwise, and when the
   site fails, PRO asks the chat server, which answers with PRD messages: a
   start, rows and an end.  They do not say whose profile they are of, and
   arrive in the order of the requests.

   profile_info is set and freed together with character: one variable stands
   for both.  A table is the set of characters its rows are of.            *)
EXTENDS Sequences, Naturals

CONSTANTS
    Names,          \* characters
    NoOne,          \* no character: NULL
    NoTable,        \* no table: NULL
    MaxAsks         \* bound: profiles asked for

ASSUME ProfileAssumption ==
    /\ NoOne \notin Names
    /\ \A rows \in SUBSET Names : rows # NoTable
    /\ MaxAsks \in Nat

VARIABLES
    \* FListProfiles
    live,                       \* whether there is one: a session
    character,
    table,
    category_table,
    global_profile_request,
    profile_request,            \* whom the web request of the handle asks for
    \* the event loop
    web,                        \* web requests outstanding
    \* libpurple
    shown,                      \* what the window of a character shows
    \* the chat server
    asked,                      \* PRO messages it has not answered
    inbox,                      \* its messages on their way to us
    asks                        \* profiles the user has asked for

vars == <<live, character, table, category_table, global_profile_request,
          profile_request, web, shown, asked, inbox, asks>>

chat     == <<asked, inbox>>
globals  == <<live, category_table, global_profile_request>>
dialogue == <<character, table, profile_request>>

Whom     == Names \cup {NoOne}
Fields   == [kind |-> "fields", of |-> NoOne]
Of(who)  == [kind |-> "profile", of |-> who]
Requests == {Fields} \cup {Of(who) : who \in Names}
Messages == [type : {"start", "row", "end", "flood", "error"}, of : Whom]
Pages    == [what : {"nothing", "status", "error", "profile"}, rows : SUBSET Names]

Page(what)  == [what |-> what, rows |-> {}]
\* Without a table only the fields' names are shown.
Rows(rows)  == [what |-> "profile", rows |-> IF rows = NoTable THEN {} ELSE rows]

----------------------------------------------------------------------------
(* Web requests (f-list_json.c): a URL and a timer, both gone when the callback
   has been called once, by either, or when the request is cancelled.       *)

Started(request) == web \cup {request}
Ended(request)   == web \ {request}

----------------------------------------------------------------------------
(* The session.                                                             *)

\* flist_profile_load, with flist_web_request
Load ==
    /\ ~live
    /\ live' = TRUE
    /\ global_profile_request' = TRUE
    /\ web' = Started(Fields)
    /\ UNCHANGED <<dialogue, category_table, shown, chat, asks>>

\* slip: the profile request is forgotten
KeepsProfile == {Fields}

\* The requests of the handles that are kept.
Handles == (IF global_profile_request THEN {Fields} ELSE {})
             \cup (IF profile_request # NoOne THEN {Of(profile_request)} ELSE {})

\* flist_profile_unload cancels them.
Unloaded == Handles

\* flist_profile_unload; the connection is gone
Unload ==
    /\ live
    /\ live' = FALSE
    /\ web' = web \ Unloaded
    /\ character' = NoOne
    /\ table' = NoTable
    /\ profile_request' = NoOne
    /\ category_table' = FALSE
    /\ global_profile_request' = FALSE
    /\ asked' = <<>>
    /\ inbox' = <<>>
    /\ UNCHANGED <<shown, asks>>

\* flist_global_profile_cb: the request failed, timed out, or had no fields
\* (ok = FALSE), or the categories of fields are known from now on.
FieldsArrive(ok) ==
    /\ Fields \in web
    /\ web' = Ended(Fields)
    /\ global_profile_request' = FALSE
    /\ category_table' = (category_table \/ ok)
    /\ UNCHANGED <<live, dialogue, shown, chat, asks>>

----------------------------------------------------------------------------
(* Asking for a profile.                                                    *)

\* purple_notify_userinfo refuses a NULL name.
Displayed(who, page) == IF who = NoOne THEN shown ELSE [shown EXCEPT ![who] = page]

\* slip: the request that is outstanding is left alone
CancelsNothing(request) == web

\* flist_web_request_cancel
Cancelled(request) == web \ {request}

\* flist_get_profile: what was asked for before is dropped, the status is shown,
\* and the rest is asked for if the character is online (present).
GetProfile(who, present) ==
    /\ live
    /\ asks < MaxAsks
    /\ asks' = asks + 1
    /\ table' = NoTable
    /\ shown' = Displayed(who, Page("status"))
    /\ character' = IF present THEN who ELSE NoOne
    /\ IF present /\ category_table
       THEN /\ profile_request' = who
            /\ web' = Cancelled(Of(profile_request)) \cup {Of(who)}
            /\ UNCHANGED asked
       ELSE /\ profile_request' = NoOne
            /\ web' = Cancelled(Of(profile_request))
            /\ asked' = IF present THEN Append(asked, who) ELSE asked
    /\ UNCHANGED <<globals, inbox>>

\* slip: when the site fails, the profile is given up
GivesUp == asked

\* flist_get_profile_cb asks the chat server instead, by the name that is
\* current now.
FallsBack == Append(asked, character)

\* flist_get_profile_cb and flist_process_profile.  A request fails, times out or
\* is refused (ok = FALSE), or brings the profile it was made for.
ProfileArrives(who, ok) ==
    /\ Of(who) \in web
    /\ web' = Ended(Of(who))
    /\ profile_request' = NoOne
    /\ IF ok
       THEN /\ shown' = Displayed(character, Rows({who}))
            /\ character' = NoOne
            /\ UNCHANGED asked
       ELSE /\ asked' = FallsBack
            /\ UNCHANGED <<shown, character>>
    /\ UNCHANGED <<globals, table, inbox, asks>>

----------------------------------------------------------------------------
(* The chat server answers one PRO after the other.                         *)

\* It refuses one that comes too soon, a character that has gone, and no name.
Answers(who) ==
    {<<[type |-> "error", of |-> who]>>} \cup
    IF who = NoOne THEN {}
    ELSE {<<[type |-> "start", of |-> who], [type |-> "row", of |-> who],
            [type |-> "end", of |-> who]>>,
          <<[type |-> "flood", of |-> who]>>}

Serve ==
    /\ asked # <<>>
    /\ \E answer \in Answers(Head(asked)) : inbox' = inbox \o answer
    /\ asked' = Tail(asked)
    /\ UNCHANGED <<globals, dialogue, web, shown, asks>>

----------------------------------------------------------------------------
(* Its messages.                                                            *)

Receive(type) ==
    /\ inbox # <<>>
    /\ Head(inbox).type = type
    /\ inbox' = Tail(inbox)
    /\ UNCHANGED <<globals, profile_request, web, asked, asks>>

\* flist_process_PRD: nothing happens unless a profile is expected.
ReceiveStart ==
    /\ Receive("start")
    /\ table' = IF character = NoOne THEN table ELSE {}
    /\ UNCHANGED <<character, shown>>

ReceiveRow ==
    /\ Receive("row")
    /\ table' = IF character = NoOne \/ table = NoTable
                THEN table ELSE table \cup {Head(inbox).of}
    /\ UNCHANGED <<character, shown>>

\* slip: the character is kept: the next end would show it again
StaysCurrent == character

\* The profile is over.
Over == NoOne

ReceiveEnd ==
    /\ Receive("end")
    /\ shown' = Displayed(character, Rows(table))
    /\ character' = Over
    /\ table' = IF character = NoOne THEN table ELSE NoTable

\* flist_profile_process_flood, of an ERR about too many profile requests
ReceiveFlood ==
    /\ Receive("flood")
    /\ shown' = Displayed(character, Page("error"))
    /\ character' = NoOne
    /\ UNCHANGED table

\* Any other ERR is a warning of its own.
ReceiveError ==
    /\ Receive("error")
    /\ UNCHANGED <<character, table, shown>>

----------------------------------------------------------------------------
Init ==
    /\ live = FALSE
    /\ character = NoOne
    /\ table = NoTable
    /\ category_table = FALSE
    /\ global_profile_request = FALSE
    /\ profile_request = NoOne
    /\ web = {}
    /\ shown = [who \in Names |-> Page("nothing")]
    /\ asked = <<>>
    /\ inbox = <<>>
    /\ asks = 0

Receiving == ReceiveStart \/ ReceiveRow \/ ReceiveEnd \/ ReceiveFlood \/ ReceiveError

Next ==
    \/ Load \/ Unload
    \/ \E ok \in BOOLEAN : FieldsArrive(ok)
    \/ \E who \in Names, present \in BOOLEAN : GetProfile(who, present)
    \/ \E who \in Names, ok \in BOOLEAN : ProfileArrives(who, ok)
    \/ Serve
    \/ Receiving

Spec == Init /\ [][Next]_vars

\* Requests end, by their timers if not before; the chat server answers, and what
\* it sends arrives.
Fairness == /\ WF_vars(\E who \in Names, ok \in BOOLEAN : ProfileArrives(who, ok))
            /\ WF_vars(Serve)
            /\ WF_vars(Receiving)

FairSpec == Spec /\ Fairness

----------------------------------------------------------------------------
\* Types of the variables.  An ask sends at most one PRO.
TypeOK ==
    /\ {live, category_table, global_profile_request} \subseteq BOOLEAN
    /\ character \in Whom
    /\ table # NoTable => table \subseteq Names
    /\ profile_request \in Whom
    /\ web \subseteq Requests
    /\ shown \in [Names -> Pages]
    /\ asked \in Seq(Whom)
    /\ inbox \in Seq(Messages)
    /\ asks \in 0..MaxAsks

\* The requests on their way are those whose handle is kept: none calls back into
\* a session that is over, or with an answer for whoever was asked for before
\* (flist_get_profile, flist_profile_unload).
HandlesMatchRequests == TypeOK /\ web = Handles

\* A window shows the profile of its own character.  The one exception are PRD
\* messages of a profile asked for before, which the client cannot tell apart:
\* a web request cancelled in time, and a table dropped in time, never are
\* (flist_get_profile, flist_process_PRD).
Stale(who) == inbox # <<>> /\ Head(inbox).of # who /\ inbox' = Tail(inbox)

OwnProfile ==
    [][\A who \in Names : shown'[who].rows # shown[who].rows
                           => shown'[who].rows \subseteq {who} \/ Stale(who)]_vars

\* A profile that is shown stays: neither an answer to an earlier request nor an
\* error about one replaces it, only asking again does (flist_process_PRD,
\* flist_profile_process_flood).
ShownProfileStays ==
    [][\A who \in Names : shown[who].what = "profile" /\ shown'[who] # shown[who]
                           => shown'[who] = Page("status")]_vars

\* Nobody waits for a profile for ever: it is shown, or an error, or another is
\* asked for; unless the chat server refuses it with an error that is not about
\* floods, which only the user sees (flist_get_profile_cb asks the chat server when
\* the site fails).
Expected(who) == /\ character = who
                 /\ profile_request = who \/ (\E i \in DOMAIN asked : asked[i] = who)
Refused(who)  == inbox # <<>> /\ Head(inbox) = [type |-> "error", of |-> who]

Settles ==
    \A who \in Names : Expected(who) ~> character # who \/ Refused(who)

(* What the first three rest on.                                            *)

\* Who is asked for has a window that shows no profile yet, and a web request, if
\* there is one, asks for nobody else.
WindowWaits ==
    character # NoOne => /\ shown[character].what = "status"
                         /\ profile_request \in {NoOne, character}

\* The messages of an answer follow one another, and are about somebody.
Follows(type) == IF type = "start" THEN "row" ELSE "end"

AnswersAreWhole ==
    \A i \in DOMAIN inbox :
        inbox[i].type \in {"start", "row"} =>
            /\ inbox[i].of \in Names
            /\ i + 1 \in DOMAIN inbox
            /\ inbox[i + 1] = [type |-> Follows(inbox[i].type), of |-> inbox[i].of]

\* A table that is being filled has the rows of the answer that is arriving.
TableIsOfOne ==
    character # NoOne /\ table # NoTable =>
        /\ inbox # <<>>
        /\ Head(inbox).type \in {"row", "end"}
        /\ table \subseteq {Head(inbox).of}

ProfileInv ==
    /\ HandlesMatchRequests
    /\ WindowWaits
    /\ AnswersAreWhole
    /\ TableIsOfOne
=============================================================================
