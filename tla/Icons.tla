------------------------------- MODULE Icons -------------------------------
(* Fetching pictures (f-list_icon.c): icons of buddies and of our own account,
   and the avatars and icons named in messages, which libpurple shows as custom
   smileys of a conversation.  A few are fetched at a time; the others wait in a
   queue.  Each request is a URL of the event loop whose callback goes on with
   the queue, past the entries nobody wants any more.                       *)
EXTENDS Naturals, Sequences, FiniteSets

CONSTANTS
    FLIST_MAX_ICON_REQUESTS,
    Characters,
    Me,                 \* our own character
    EIcons,             \* names of icons that are no character's
    Convos,             \* names of conversations
    None,               \* NULL
    MaxFetches,         \* bound: requests made
    MaxSessions,        \* bound: logins
    MaxWindows          \* bound: conversations closed, buddies removed

ASSUME IconsAssumption ==
    /\ FLIST_MAX_ICON_REQUESTS \in Nat \ {0}
    /\ Me \in Characters
    /\ None \notin Characters \cup EIcons \cup Convos
    /\ {MaxFetches, MaxSessions, MaxWindows} \subseteq Nat

VARIABLES
    \* FListAccount
    live,                   \* whether there is one
    icon_requests,          \* being fetched
    icon_request_queue,
    \* the event loop
    urls,                   \* the URLs being fetched, by the request they are for
    \* libpurple
    buddies,                \* who is in the buddy list
    open,                   \* the conversations there are
    smiley,                 \* the custom smileys of each: none, or all of it here
                            \* ("none"), waiting for data ("open"), or left behind
                            \* by the end of a session while open ("left")
    fetches,                \* requests made
    sessions,               \* logins so far
    changes                 \* conversations closed and buddies removed

vars == <<live, icon_requests, icon_request_queue, urls, buddies, open, smiley,
          fetches, sessions, changes>>

Smileys     == Characters \cup EIcons
account     == <<live, icon_requests, icon_request_queue>>
libpurple   == <<buddies, open>>
bounds      == <<sessions, changes>>

\* FListFetchIcon; id tells two requests for the same picture apart
Fetch(convo, name, character) ==
    [id |-> fetches + 1, convo |-> convo, smiley |-> name, character |-> character]

Requests == [id : Nat, convo : Convos \cup {None}, smiley : Smileys \cup {None},
             character : Characters \cup {None}]

----------------------------------------------------------------------------
(* Asking for a picture.                                                    *)

MayFetch == Cardinality(icon_requests) < FLIST_MAX_ICON_REQUESTS

\* The end of flist_fetch_icon, flist_fetch_avatar and flist_fetch_eicon.  The fetch
\* ends in a later callback, never before libpurple has returned.
StartOrQueue(fli) ==
    /\ live
    /\ fetches < MaxFetches
    /\ fetches' = fetches + 1
    /\ IF MayFetch
       THEN /\ icon_requests' = icon_requests \cup {fli}
            /\ urls' = urls \cup {fli}
            /\ UNCHANGED icon_request_queue
       ELSE /\ icon_request_queue' = Append(icon_request_queue, fli)
            /\ UNCHANGED <<icon_requests, urls>>
    /\ UNCHANGED <<live, libpurple, bounds>>

\* flist_fetch_icon: a buddy has come online or been added (flist_update_friend),
\* or IDN has told us our name (flist_fetch_account_icon).
FetchIcon(character) ==
    /\ character \in buddies \cup {Me}
    /\ StartOrQueue(Fetch(None, None, character))
    /\ UNCHANGED smiley

\* The custom smiley is added to the conversation first; libpurple may refuse,
\* and then nothing happens.
AddSmiley(convo, name) ==
    /\ convo \in open
    /\ smiley' = [smiley EXCEPT ![convo][name] = "open"]

\* flist_fetch_avatar, of the tag icon
FetchAvatar(character, convo) ==
    /\ AddSmiley(convo, character)
    /\ StartOrQueue(Fetch(convo, character, character))

\* flist_fetch_eicon, of the tag eicon
FetchEicon(name, convo) ==
    /\ AddSmiley(convo, name)
    /\ StartOrQueue(Fetch(convo, name, None))

----------------------------------------------------------------------------
(* The answer.                                                              *)

\* slip: only data closes the smiley
ClosedByData(fli, ok) ==
    IF ok /\ fli.convo \in open THEN [smiley EXCEPT ![fli.convo][fli.smiley] = "none"]
                                ELSE smiley

\* With the data or without, the smiley is over, if its conversation is there.
Closed(fli, ok) ==
    IF fli.convo \in open THEN [smiley EXCEPT ![fli.convo][fli.smiley] = "none"]
                          ELSE smiley

Wanted(fli) == fli.convo # None \/ fli.character \in buddies

\* slip: one entry is taken, wanted or not
OneTaken(n) == n = 0

\* The first n entries of the queue are dropped: nobody wants them any more.
Dropped(n) == /\ \A i \in 1..n : ~Wanted(icon_request_queue[i])
              /\ n < Len(icon_request_queue) => Wanted(icon_request_queue[n + 1])

\* The entry after them is started.
StartedAfter(n) == IF n < Len(icon_request_queue) /\ Wanted(icon_request_queue[n + 1])
                   THEN {icon_request_queue[n + 1]} ELSE {}

\* flist_fetch_icon_cb.  Whose icon the data becomes is libpurple's affair.
Fetched(fli, ok) ==
    /\ fli \in urls
    /\ smiley' = Closed(fli, ok)
    /\ \E n \in 0..Len(icon_request_queue) :
          /\ Dropped(n)
          /\ icon_requests' = (icon_requests \ {fli}) \cup StartedAfter(n)
          /\ urls' = (urls \ {fli}) \cup StartedAfter(n)
          /\ icon_request_queue' = SubSeq(icon_request_queue, n + 2,
                                          Len(icon_request_queue))
    /\ UNCHANGED <<live, libpurple, fetches, bounds>>

----------------------------------------------------------------------------
(* Sessions.                                                                *)

Login ==
    /\ ~live
    /\ sessions < MaxSessions
    /\ live' = TRUE
    /\ sessions' = sessions + 1
    /\ UNCHANGED <<icon_requests, icon_request_queue, urls, libpurple, smiley,
                   fetches, changes>>

EmptyQueue == <<>>

\* slip: the URLs go on
NotCancelled == urls

Cancelled == urls \ icon_requests

\* flist_fetch_icon_cancel_all, of flist_close: "We do not cancel writing the
\* custom smiley."
CancelAll ==
    /\ live
    /\ live' = FALSE
    /\ icon_requests' = {}
    /\ urls' = Cancelled
    /\ icon_request_queue' = EmptyQueue
    /\ smiley' = [convo \in Convos |-> [name \in Smileys |->
                    IF smiley[convo][name] = "open" THEN "left" ELSE smiley[convo][name]]]
    /\ UNCHANGED <<libpurple, fetches, bounds>>

----------------------------------------------------------------------------
(* libpurple: conversations and buddies come and go, whatever is being fetched. *)

OpenConvo(convo) ==
    /\ convo \notin open
    /\ open' = open \cup {convo}
    /\ UNCHANGED <<account, urls, buddies, smiley,
                   fetches, bounds>>

CloseConvo(convo) ==
    /\ changes < MaxWindows
    /\ convo \in open
    /\ changes' = changes + 1
    /\ open' = open \ {convo}
    /\ smiley' = [smiley EXCEPT ![convo] = [name \in Smileys |-> "none"]]
    /\ UNCHANGED <<account, urls, buddies, fetches,
                   sessions>>

AddBuddy(character) ==
    /\ character \notin buddies
    /\ buddies' = buddies \cup {character}
    /\ UNCHANGED <<account, urls, open, smiley,
                   fetches, bounds>>

RemoveBuddy(character) ==
    /\ changes < MaxWindows
    /\ character \in buddies
    /\ changes' = changes + 1
    /\ buddies' = buddies \ {character}
    /\ UNCHANGED <<account, urls, open, smiley,
                   fetches, sessions>>

----------------------------------------------------------------------------
Init ==
    /\ live = FALSE
    /\ icon_requests = {}
    /\ icon_request_queue = <<>>
    /\ urls = {}
    /\ buddies = {}
    /\ open = {}
    /\ smiley = [convo \in Convos |-> [name \in Smileys |-> "none"]]
    /\ fetches = 0
    /\ sessions = 0
    /\ changes = 0

AnswerArrives == \E fli \in urls, ok \in BOOLEAN : Fetched(fli, ok)

Next ==
    \/ Login \/ CancelAll
    \/ \E character \in Characters : FetchIcon(character)
    \/ \E character \in Characters, convo \in Convos : FetchAvatar(character, convo)
    \/ \E name \in EIcons, convo \in Convos : FetchEicon(name, convo)
    \/ AnswerArrives
    \/ \E convo \in Convos : OpenConvo(convo) \/ CloseConvo(convo)
    \/ \E character \in Characters : AddBuddy(character) \/ RemoveBuddy(character)

Spec == Init /\ [][Next]_vars

\* URLs end: libpurple's connections do, sooner or later.
FairSpec == Spec /\ WF_vars(AnswerArrives)

----------------------------------------------------------------------------
\* Types of the variables.
TypeOK ==
    /\ live \in BOOLEAN
    /\ icon_requests \subseteq Requests
    /\ icon_request_queue \in Seq(Requests)
    /\ urls \subseteq Requests
    /\ buddies \subseteq Characters
    /\ open \subseteq Convos
    /\ smiley \in [Convos -> [Smileys -> {"none", "open", "left"}]]
    /\ {fetches, sessions, changes} \subseteq Nat
    /\ ~live => icon_requests = {} /\ icon_request_queue = <<>>

\* The callbacks that may come are those of the requests of this session: none
\* gets an account that flist_close has freed.
UrlsAreRequests == TypeOK /\ urls = icon_requests

\* The queue never stands still, and never gets ahead: while something waits, all
\* the requests allowed are in flight, and no more, each with a callback that
\* goes on with the queue.  Skipping entries nobody wants must not stop it
\* (flist_fetch_icon_cb).
SlotsInUse ==
    IF icon_request_queue = <<>>
    THEN Cardinality(icon_requests) <= FLIST_MAX_ICON_REQUESTS
    ELSE Cardinality(icon_requests) = FLIST_MAX_ICON_REQUESTS

\* A smiley that waits for data is ended, with them or without: no message shows
\* an empty smiley for good because of a failure, a full queue, or windows and
\* buddies that went and came back meanwhile.
SmileysEnd ==
    \A convo \in Convos, name \in Smileys :
        smiley[convo][name] = "open" ~> smiley[convo][name] # "open"

(* What the first two rest on: a request is in flight once, or in the queue once. *)
Distinct ==
    /\ IsFiniteSet(icon_requests)
    /\ \A fli \in icon_requests : fli.id <= fetches
    /\ \A i \in DOMAIN icon_request_queue :
         /\ icon_request_queue[i].id <= fetches
         /\ icon_request_queue[i] \notin icon_requests
         /\ \A j \in DOMAIN icon_request_queue :
              icon_request_queue[j] = icon_request_queue[i] => j = i

IconsInv == UrlsAreRequests /\ SlotsInUse /\ Distinct
=============================================================================
