------------------------------ MODULE Session ------------------------------
(* The life of a session: flist_login and flist_close (f-list.c), the ticket,
   the connection to the chat server and its watchdog (f-list_connection.c),
   and the messages that move a login forward (f-list_callbacks.c).

   The plugin runs in one event loop.  Whatever it waits for is a source of
   that loop: a timer, a web request, a connection attempt or a socket, with a
   callback that gets the account's FListAccount.  The account keeps a handle
   of most of them, and flist_close, which frees it, must find each.  loop
   counts the sources, handles is the set of those whose handle is set: code
   that loses a handle makes them differ.  A connection attempt is found without
   a handle.  The version check is not found: it may outlive its account.

   libpurple, Pidgin, the web site and the chat server are the environment.  An
   error only schedules the disconnection (purple_connection_error_reason), so
   everything else may still happen before flist_close.                     *)
EXTENDS Naturals

CONSTANTS
    CheckForUpdates,    \* account option check_for_updates
    MaxPings            \* bound: pings of the server during one login

ASSUME SessionAssumption ==
    /\ CheckForUpdates \in BOOLEAN
    /\ MaxPings \in Nat

VARIABLES
    \* FListAccount
    live,                   \* whether there is one: the connection's protocol data
    connection_status,
    online,
    handles,                \* the sources whose handle is set: ticket_timer,
                            \* ticket_request, ssl_con, ping_timeout_handle
    \* the rest of the process
    ticket,                 \* whether ticket_table has a ticket of the user
    update_check,           \* the version check: not made yet, made for this
                            \* session, made for one that is over, or done
    loop,                   \* how many sources of each kind are armed
    tls,                    \* the socket: none, handshaking, or up
    \* libpurple and Pidgin
    enabled,                \* Pidgin (re)connects the account by itself
    disconnecting,          \* an error has been reported, a close is scheduled
    fatal,                  \* that error is one Pidgin must not retry
    pings                   \* pings received during this login

error == <<disconnecting, fatal>>
vars  == <<live, connection_status, online, handles, ticket, update_check, loop,
             tls, enabled, error, pings>>

Held     == {"ticket_timer", "ticket_request", "ssl", "ping"}
Sources  == Held \cup {"proxy"}
Statuses == {"OFFLINE", "CONNECT", "HANDSHAKE", "IDENTIFY", "ONLINE"}

----------------------------------------------------------------------------
(* Arming and removing sources.  An operator whose comment starts with "slip"
   is a plausible mistake in the code of the operator that follows it: the
   properties must notice it.                                               *)

Added(l, s)   == [l EXCEPT ![s] = @ + 1]
Removed(l, s) == [l EXCEPT ![s] = IF @ > 0 THEN @ - 1 ELSE 0]

\* slip: the old source is not removed
AddedAgain(l, s) == Added(l, s)

\* A source whose handle may be set is removed and armed again: what
\* flist_ticket_timer and flist_receive_ping do.
Rearmed(l, s) == Added(IF s \in handles THEN Removed(l, s) ELSE l, s)

\* purple_connection_error_reason: the first error counts.
Error(isFatal) == /\ disconnecting' = TRUE
                  /\ fatal' = IF disconnecting THEN fatal ELSE isFatal

----------------------------------------------------------------------------
(* flist_login.  A server URL that cannot be parsed ends it before anything is
   armed.                                                                   *)

Login(validUrl) ==
    /\ ~live
    /\ enabled
    /\ live' = TRUE
    /\ connection_status' = "OFFLINE"
    /\ online' = FALSE
    /\ pings' = 0
    /\ handles' = IF validUrl THEN {"ticket_timer"} ELSE {}
    /\ loop' = IF validUrl THEN Added(loop, "ticket_timer") ELSE loop
    /\ update_check' = IF validUrl /\ CheckForUpdates /\ update_check = "unmade"
                       THEN "ours" ELSE update_check
    /\ IF validUrl THEN UNCHANGED error ELSE Error(TRUE)
    /\ UNCHANGED <<ticket, tls, enabled>>

----------------------------------------------------------------------------
(* The ticket.                                                              *)

TicketTimerFires ==
    /\ live
    /\ loop["ticket_timer"] > 0
    /\ handles' = (handles \ {"ticket_timer"}) \cup {"ticket_request"}
    /\ loop' = Added(Removed(loop, "ticket_timer"), "ticket_request")
    /\ UNCHANGED <<live, connection_status, online, ticket, update_check, tls,
                   enabled, error, pings>>

\* The ticket request is over: it failed, the site refused it, refused the
\* password, sent no ticket, or sent one.
Outcomes == {"failed", "refused", "mismatch", "noticket", "ticket"}

\* slip: every ticket connects, the renewed ones too
FirstAlways == TRUE

First == connection_status = "OFFLINE"

\* slip: the next ticket is only scheduled once this one has been received
RenewedOnSuccess(outcome) == outcome = "ticket"

\* Whether the next ticket is scheduled.
Renewed(outcome) == TRUE

\* flist_receive_ticket, and flist_connect, which may fail at once.
ReceiveTicket(outcome, connects) ==
    LET connect == outcome = "ticket" /\ First
        over    == Removed(loop, "ticket_request")
        timed   == IF Renewed(outcome) THEN Rearmed(over, "ticket_timer") ELSE over
    IN  /\ live
        /\ loop["ticket_request"] > 0
        /\ handles' = (handles \ {"ticket_request"}) \cup
                      (IF Renewed(outcome) THEN {"ticket_timer"} ELSE {})
        /\ loop' = IF connect /\ connects THEN Added(timed, "proxy") ELSE timed
        /\ connection_status' = IF connect /\ connects THEN "CONNECT"
                                                       ELSE connection_status
        /\ ticket' = (ticket \/ outcome = "ticket")
        /\ IF outcome = "mismatch" \/ (First /\ ~(connect /\ connects))
           THEN Error(outcome = "mismatch")
           ELSE UNCHANGED error
        /\ UNCHANGED <<live, online, update_check, tls, enabled, pings>>

----------------------------------------------------------------------------
(* Connecting.                                                              *)

\* flist_connected
ConnectFails ==
    /\ live
    /\ loop["proxy"] > 0
    /\ loop' = Removed(loop, "proxy")
    /\ connection_status' = "OFFLINE"
    /\ Error(FALSE)
    /\ UNCHANGED <<live, online, handles, ticket, update_check, tls, enabled, pings>>

Connected ==
    /\ live
    /\ loop["proxy"] > 0
    /\ loop' = Added(Removed(loop, "proxy"), "ssl")
    /\ handles' = handles \cup {"ssl"}
    /\ tls' = "handshaking"
    /\ UNCHANGED <<live, connection_status, online, ticket, update_check, enabled,
                   error, pings>>

\* flist_ssl_error_cb; libpurple closes the connection itself.
SslFails ==
    /\ live
    /\ tls = "handshaking"
    /\ tls' = "none"
    /\ loop' = Removed(loop, "ssl")
    /\ handles' = handles \ {"ssl"}
    /\ Error(FALSE)
    /\ UNCHANGED <<live, connection_status, online, ticket, update_check, enabled,
                   pings>>

\* slip: the watchdog only starts with the first ping of the server
ArmedByFirstPing == {}

\* What flist_handshake arms: the watchdog.
ArmedByHandshake == {"ping"}

\* flist_ssl_cb and flist_handshake: the watchdog is armed without looking at
\* its handle.
SslUp ==
    /\ live
    /\ tls = "handshaking"
    /\ tls' = "up"
    /\ connection_status' = "HANDSHAKE"
    /\ handles' = handles \cup ArmedByHandshake
    /\ loop' = [s \in Sources |-> IF s \in ArmedByHandshake THEN loop[s] + 1 ELSE loop[s]]
    /\ UNCHANGED <<live, online, ticket, update_check, enabled, error, pings>>

----------------------------------------------------------------------------
(* What arrives from the chat server: flist_process.                        *)

Readable == live /\ tls = "up"

\* flist_recv: the end of the stream or an error; a frame or a message that
\* cannot be understood (flist_process_hybi_frame, flist_dispatch); a handshake
\* the server refuses (flist_handle_handshake).
ConnectionBreaks ==
    /\ Readable
    /\ Error(FALSE)
    /\ UNCHANGED <<live, connection_status, online, handles, ticket, update_check,
                   loop, tls, enabled, pings>>

\* flist_handle_handshake and flist_identify
HandshakeAccepted ==
    /\ Readable
    /\ connection_status = "HANDSHAKE"
    /\ connection_status' = "IDENTIFY"
    /\ UNCHANGED <<live, online, handles, ticket, update_check, loop, tls, enabled,
                   error, pings>>

\* flist_process_IDN.  That it comes in answer to the identification, and our own
\* NLN after it, is the order of the chat server's protocol: no handler asks for
\* the status.
ReceiveIDN ==
    /\ Readable
    /\ connection_status = "IDENTIFY"
    /\ connection_status' = "ONLINE"
    /\ UNCHANGED <<live, online, handles, ticket, update_check, loop, tls, enabled,
                   error, pings>>

\* flist_process_NLN of our own character, and flist_got_online
ReceiveOwnNLN ==
    /\ Readable
    /\ connection_status = "ONLINE"
    /\ ~online
    /\ online' = TRUE
    /\ UNCHANGED <<live, connection_status, handles, ticket, update_check, loop, tls,
                   enabled, error, pings>>

\* flist_process_ERR: before the identification every error ends the login;
\* afterwards only the one that says we have logged in elsewhere.
ReceiveERR(loggedInElsewhere) ==
    /\ Readable
    /\ \/ connection_status = "IDENTIFY" /\ Error(FALSE)
       \/ connection_status = "ONLINE" /\ loggedInElsewhere /\ Error(TRUE)
    /\ UNCHANGED <<live, connection_status, online, handles, ticket, update_check,
                   loop, tls, enabled, pings>>

\* flist_process_PIN and flist_receive_ping
ReceivePIN ==
    /\ Readable
    /\ connection_status \in {"IDENTIFY", "ONLINE"}
    /\ online \/ pings < MaxPings
    /\ pings' = IF online THEN pings ELSE pings + 1
    /\ loop' = Rearmed(loop, "ping")
    /\ handles' = handles \cup {"ping"}
    /\ UNCHANGED <<live, connection_status, online, ticket, update_check, tls, enabled,
                   error>>

\* flist_disconnect_cb: 90 seconds without a ping
PingTimesOut ==
    /\ live
    /\ loop["ping"] > 0
    /\ loop' = Removed(loop, "ping")
    /\ handles' = handles \ {"ping"}
    /\ Error(FALSE)
    /\ UNCHANGED <<live, connection_status, online, ticket, update_check, tls, enabled,
                   pings>>

----------------------------------------------------------------------------
(* The end.                                                                 *)

\* slip: the ticket request is forgotten
CancelledButRequest == handles \ {"ticket_request"}

\* The sources flist_close removes because their handle is set.
Cancelled == handles

\* What flist_close leaves of these in the loop; a connection attempt is cancelled
\* by its status.
Left(s) == IF s = "proxy" /\ connection_status = "CONNECT" THEN 0
           ELSE IF s \in Cancelled THEN Removed(loop, s)[s]
           ELSE loop[s]

\* flist_close.  Nothing cancels the version check, whose callback keeps the
\* account that is freed here.
Close ==
    /\ live' = FALSE
    /\ connection_status' = "OFFLINE"
    /\ online' = FALSE
    /\ handles' = {}
    /\ loop' = [s \in Sources |-> Left(s)]
    /\ tls' = "none"
    /\ update_check' = IF update_check = "ours" THEN "orphan" ELSE update_check
    /\ disconnecting' = FALSE
    /\ fatal' = FALSE
    /\ pings' = 0
    /\ UNCHANGED ticket

\* libpurple closes the connection after an error; Pidgin reconnects it later
\* unless the error was fatal.
Disconnect == /\ live
              /\ disconnecting
              /\ Close
              /\ enabled' = ~fatal

UserDisconnects == /\ live
                   /\ Close
                   /\ UNCHANGED enabled

UserEnables ==
    /\ ~enabled
    /\ enabled' = TRUE
    /\ UNCHANGED <<live, connection_status, online, handles, ticket, update_check,
                   loop, tls, error, pings>>

\* flist_check_update_version; an orphan uses an account that has been freed.
UpdateCheckReturns ==
    /\ update_check \in {"ours", "orphan"}
    /\ update_check' = "done"
    /\ UNCHANGED <<live, connection_status, online, handles, ticket, loop, tls,
                   enabled, error, pings>>

----------------------------------------------------------------------------
Init ==
    /\ live = FALSE
    /\ connection_status = "OFFLINE"
    /\ online = FALSE
    /\ handles = {}
    /\ ticket = FALSE
    /\ update_check = "unmade"
    /\ loop = [s \in Sources |-> 0]
    /\ tls = "none"
    /\ enabled = TRUE
    /\ disconnecting = FALSE
    /\ fatal = FALSE
    /\ pings = 0

TicketReturns == \E outcome \in Outcomes, connects \in BOOLEAN :
                     ReceiveTicket(outcome, connects)

Next ==
    \/ \E validUrl \in BOOLEAN : Login(validUrl)
    \/ TicketTimerFires
    \/ TicketReturns
    \/ ConnectFails
    \/ Connected
    \/ SslFails
    \/ SslUp
    \/ ConnectionBreaks
    \/ HandshakeAccepted
    \/ ReceiveIDN
    \/ ReceiveOwnNLN
    \/ \E loggedInElsewhere \in BOOLEAN : ReceiveERR(loggedInElsewhere)
    \/ ReceivePIN
    \/ PingTimesOut
    \/ Disconnect
    \/ UserDisconnects
    \/ UserEnables
    \/ UpdateCheckReturns

Spec == Init /\ [][Next]_vars

(* Timers go off, web requests end within their time-out, and libpurple runs
   the disconnection it has scheduled.  The operating system ends a connection
   attempt and the TLS handshake one way or the other: the plugin has no timer
   of its own there.  Nothing is assumed of the chat server.  The watchdog goes
   off if the server stops pinging; it is fair during a login, where MaxPings
   bounds the pings, and not once we are online, where they may go on.      *)
FairSpec ==
    /\ Spec
    /\ WF_vars(TicketTimerFires)
    /\ WF_vars(TicketReturns)
    /\ WF_vars(ConnectFails \/ Connected)
    /\ WF_vars(SslFails \/ SslUp)
    /\ WF_vars(~online /\ PingTimesOut)
    /\ WF_vars(Disconnect)

----------------------------------------------------------------------------
FlagsOK ==
    /\ live \in BOOLEAN
    /\ online \in BOOLEAN
    /\ ticket \in BOOLEAN
    /\ enabled \in BOOLEAN
    /\ disconnecting \in BOOLEAN
    /\ fatal \in BOOLEAN

TypeOK ==
    /\ FlagsOK
    /\ connection_status \in Statuses
    /\ handles \in SUBSET Held
    /\ update_check \in {"unmade", "ours", "orphan", "done"}
    /\ loop \in [Sources -> 0 .. 1]
    /\ tls \in {"none", "handshaking", "up"}
    /\ pings \in 0 .. MaxPings

\* What is still to call back, with a handle or without.
Pending == {s \in Sources : loop[s] > 0} \cup
           (IF update_check \in {"ours", "orphan"} THEN {"update_check"} ELSE {})

\* Every source that has a handle is armed exactly when the handle is set, and a
\* connection attempt is under way only in the status that makes flist_close
\* cancel it: none is lost when a timer is armed again, and none is kept when the
\* source is gone.  After flist_close nothing is left in the loop but, when it was
\* under way, the version check, the one source that has no handle (f-list.c:755):
\* whatever is still to call back with a freed account is that check.
HandlesMatchSources ==
    /\ \A s \in Held : loop[s] = IF s \in handles THEN 1 ELSE 0
    /\ loop["proxy"] > 0 => connection_status = "CONNECT" /\ tls = "none"
    /\ ~live => Pending \subseteq {"update_check"}

\* The ticket is renewed for as long as the session lasts: either the timer is
\* armed or a request is under way, never both.
TicketCycle ==
    /\ ~({"ticket_timer", "ticket_request"} \subseteq handles)
    /\ live /\ ~disconnecting => handles \cap {"ticket_timer", "ticket_request"} # {}

\* A connection that has gone silent is noticed, from the first byte sent on.
Watched == tls = "up" /\ ~disconnecting => "ping" \in handles

\* Pidgin is only told that we are online over a connection that is identified
\* with a ticket and still held.
OnlineIsIdentified ==
    /\ online => live /\ connection_status = "ONLINE"
    /\ connection_status \in {"HANDSHAKE", "IDENTIFY", "ONLINE"} =>
           live /\ ticket /\ "ssl" \in handles /\ tls = "up"

\* A login does not hang: it succeeds, or the session is closed.
LoginResolves == live ~> (online \/ ~live)

\* Whatever becomes of a ticket request, another one follows it in a session
\* that goes on.
KeepsRenewing == [](live => <>("ticket_request" \in handles \/ ~live))

(* What the properties above rest on: how the state of a connection, its socket
   and its handles go together.                                             *)

\* Nothing is left of a session that is over.
Nothing == ~live => /\ connection_status = "OFFLINE"
                    /\ ~online
                    /\ ~disconnecting
                    /\ handles = {}

\* How far the connection is says what there is of it.
StatusMatchesSocket ==
    /\ connection_status \in {"HANDSHAKE", "IDENTIFY", "ONLINE"} <=> tls = "up"
    /\ tls = "handshaking" => connection_status = "CONNECT"
    /\ "ssl" \in handles <=> tls # "none"
    /\ "ping" \in handles => tls = "up"
    /\ connection_status # "OFFLINE" => ticket

SessionInv == /\ TypeOK
              /\ HandlesMatchSources
              /\ TicketCycle
              /\ Watched
              /\ OnlineIsIdentified
              /\ Nothing
              /\ StatusMatchesSocket
=============================================================================
