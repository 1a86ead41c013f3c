# F-List Pidgin in TLA+

F-List Pidgin is a libpurple protocol plugin for F-Chat, the chat of the web site
F-List. It is a C program of one thread: everything it does, it does in a callback of
Pidgin's event loop. Its difficulty is not parallelism but *order*: the user, the web
site and the chat server all act while the plugin is waiting for one of the others, and
what a callback finds is not what its caller left.

The modules here model that: the state the plugin keeps, one action per callback, and
the three parties around it. TLC checks them on small instances, and TLAPS proves what
matters most for every value of the constants.

## 1. The system

    user -- Pidgin / libpurple -- plugin -- chat server (WebSocket over TLS)
                                    |
                                    +------ web site (HTTP requests, JSON answers)

| component | state it keeps | operations | depends on | what makes it correct |
|---|---|---|---|---|
| session (`f-list.c`, `f-list_connection.c`) | `connection_status`, `online`, handles of the ticket timer, the ticket request, the TLS connection and the ping timer; the process-wide table of tickets | login, close, ticket timer and answer, connection attempt, TLS, handshake, identification, ping, time-out | web site for tickets; called by libpurple | nothing but the version check is left behind by a close; the ticket is always about to be renewed; a silent connection is noticed; a login ends |
| framing (`f-list_connection.c`) | the receive buffer, the frame buffer | reply to the handshake, read, reassemble, unmask, dispatch, write | session | the messages that come out are the ones that went in, however they were cut, and none is left lying |
| messages and presence (`f-list_callbacks.c`) | `all_characters`, `character_count`, `global_ops`, limits of the server | one handler per message | channels, friends, icons, profiles | the tables agree with the server once its messages are handled |
| channels (`f-list_channels.c`, `f-list_commands.c`) | `chat_table` (users, operators, owner, mode, topic of each channel), `chat_timestamp` | joined, left, kicked, timed out, user list, operator list, mode, description, commands | presence, libpurple's chats | what is shown of a channel is what its server state implies, rank included |
| friends (`f-list_friends.c`, `f-list_rtb.c`) | the table of friends, four dirty flags, a timer, the list request, the action requests, the open prompts | fetch, merge, act, notify, prompt, add and remove buddies | web site, chat server (RTB), buddy list | the table is right when it is believed to be; nothing is lost, overlapped or resurrected |
| web requests (`f-list_json.c`) | the table of requests, a timer each | request, answer, time-out, cancel | libpurple's HTTP | exactly one callback, or none after a cancel |
| profiles (`f-list_profile.c`) | the character asked for, its notification window, a request, a table of fields | ask, PRD, answer of the site, flood error | chat server and web site | what is shown is of the character it is shown for |
| icons (`f-list_icon.c`) | requests in flight, a queue | fetch, answer, cancel all | libpurple's HTTP, buddy list, smileys of conversations | at most four in flight, the queue moves on, and what waits for a picture is ended |
| status (`f-list_status.c`) | the status and message, idle | from the server, from purple, idle | chat server | both sides converge |
| conversations (`f-list_commands.c`, `f-list_callbacks.c`) | limits of the server, where the next answer is written | private and channel messages, ads, warnings, rolls, typing, notices, uptime, kinks | chat server, libpurple's windows, ignore list | what is shown as said is sent, and what arrives is written where it belongs |
| ignore list (`f-list_ignore.c`) | a copy of the server's list | init, add, delete, notify | chat server | the copy is the server's list, and every kind of message obeys it |
| IM group (`f-list_autobuddy.c`) | a group of temporary buddies | conversation opened, closed, clean-up | buddy list | it holds the open conversations of non-buddies |
| reports, staff (`f-list_report.c`, `f-list_admin.c`) | a report being written, its log upload | dialogue, upload, SFC | web site, chat server | a report is sent once, after its log |
| kinks and search (`f-list_kinks.c`) | a table fetched once, search filters | fetch, search, FKS | web site, chat server | a search is answered where it was asked |
| permissions, durations (`f-list_util.c`), BBCode (`f-list_bbcode.c`), Pidgin UI (`f-list_pidgin.c`), NSS (`f-list_nssfix.c`) | none of their own | conversions, widgets | | |

`PROJECT.json` lists every component with what is modelled of it, and under *hazards*
what is hard to test in this code, line by line, with the properties that watch it.

The behaviours that are hard, and that the modules are about:

* **answers that are older than what they overwrite.** A list is fetched, an action
  changes it, and the answer arrives after the action. The friends synchroniser cancels
  the one before it starts the other.
* **failures that are not failures.** A request times out after the site has carried it
  out.
* **notifications at any moment**, before the login is complete and during an action
  included.
* **callbacks of a dead session.** `flist_close` frees the account; a timer or a request
  that it forgets calls back with a dangling pointer. The version check is one.
* **errors that only schedule the end.** `purple_connection_error_reason` returns, and
  messages go on being handled until the event loop closes the connection.
* **answers that do not say what they answer.** The rows of a profile carry no character,
  the answer to `/uptime` or `/kinks` no conversation.
* **bytes without boundaries.** A message is cut into fragments, frames, TLS records and
  reads, each at places of its own.
* **values that are computed twice**: ranks shown beside names, counters beside tables,
  a message that one handler sends and another writes to the window.

## 2. The modules

| module | what it is |
|---|---|
| `FriendsMirror` | abstract: lists kept elsewhere, a copy of them, and which of the copy to trust |
| `FriendsSync` | `f-list_friends.c` with the site, the server's notifications, the buddy list and the user; shown to implement `FriendsMirror` |
| `MCFriendsSync` | its small instances |
| `Session` | `flist_login`, `flist_close`, the ticket, the connection and its watchdog |
| `MCSession` | its small instance |
| `Channels` | presence, global operators and channels, with the chat server, the connection, libpurple's chats and the user |
| `MCChannels` | its small instances |
| `MessageStream` | abstract: messages that arrive whole, once and in order until somebody breaks the rules |
| `Hybi` | the WebSocket of `f-list_connection.c`, byte by byte; shown to implement `MessageStream` |
| `MCHybi` | its small instance |
| `Profile` | `f-list_profile.c` with its web requests, its windows and the chat server's PRD messages |
| `MCProfile` | its small instance |
| `Icons` | `f-list_icon.c` with the buddy list and the custom smileys of conversations |
| `MCIcons` | its small instance |
| `Conversations` | private and channel messages, `f-list_ignore.c` and `f-list_autobuddy.c` |
| `MCConversations` | its small instance |
| `SessionProofs`, `ChannelsProofs`, `FriendsSyncProofs`, `FriendsMirrorProofs`, `HybiProofs`, `IconsProofs`, `ProfileProofs`, `ConversationsProofs` | the theorems |

The modules meet where the components do, and each takes the others for what they promise:
`Hybi` implements the stream of messages that `inbox` and `outbox` are in the others;
`Session` says when there is a session, which the others start and end with an action
(`Load`, `Login`, `Unload`, `CancelAll`, `Close`).

Operators whose comment begins with *slip* are not part of a model: each is a plausible
mistake in the code of the operator it stands next to, and a property must notice when
it takes that operator's place.

### FriendsSync

The variables that carry the names of `struct FListFriends_` are that struct: the four
dirty flags are the set `dirty`, `update_timer_active` with its delay is `update_timer`,
`update_request` is a record that asks for no list when there is no request. `friends`
is a total function in which `Unknown` stands for a missing entry; the code removes
every entry that equals it (`flist_cleanup_friends`), so nothing is confused.
`prompts`, `menu` and `group` are libpurple's: the authorisation dialogues, an open
context menu (whose items were computed when it was opened), and the group of the buddy
list a character is in.

The site is `rel`, `id` and `marks`: what each character is to ours, the id of a pending
request, and the bookmarks. It acts in steps of its own. `SiteAnswersUpdate` takes the
answer to a list request, and `UpdateOk` receives it later; `SiteProcesses` carries out an
action, and `ActionReturns` brings its answer, or `ActionFails` loses it. A change made by
others is announced by a message in `rtb`; `SilentChange` is one that is not.

Actions are callbacks: `TimerFires` (`flist_friends_sync_timer_cb`), `UpdateOk` and
`UpdateFails` (`flist_friends_update_cb`, with the merge, the clean-up, the prompts and the
groups), `ActionReturns` and `ActionFails` (`flist_friends_action_cb`), `ReceiveRTB`
(`flist_process_RTB`), `AnswerPrompt`, `PickMenuItem`, `RemoveBuddy`, `PlaceBuddy`,
`Load`, `GotOnline`, `Unload`. Removing a buddy may ask the site for two things at once:
`FriendActions` takes the set.

What is assumed of the environment, and named:

* `Silent`: whether lists also change without a notification. The site does not announce
  every change; what `Coherent` promises holds for those it announces.
* `EarlyActions`: whether the user acts before the login is complete, by a prompt or a
  menu left from before. Buddies of an account cannot be used until it is connected.
* An action request whose client has given up may still be carried out by the site, but
  then that is a change nobody has to announce: it is part of `Silent`. With
  `Silent = FALSE` the site acts on a request before its answer is lost, or not at all.
* Notifications arrive in order and are not lost: they are messages of one TCP connection.
* The chat server notifies a client once it is identified.
* An account logs in to one place: the site's lists belong to one character.

### Session

The state is what `FListAccount` keeps of a session, and `loop`, how many sources of each
kind the event loop holds. The code knows a source by its handle; `handles` is the set of
handles that are set. A timer armed twice has one handle and two sources, and
`HandlesMatchSources` notices it. The version check has no handle and is not in `loop`; it is
`update_check`, which `Close` leaves as an orphan (`f-list.c:755`). `Pending` is all that may still
call back, with or without a handle, and the property says that after a close it is that
check or nothing. A URL that cannot be parsed (`Login(FALSE)`) arms nothing. `Error` is `purple_connection_error_reason`: it reports and
schedules, and `Disconnect` is the close that follows, any number of steps later.
`ConnectionBreaks` is every way in which what arrives may be unusable. `Pidgin` reconnects
an account after an error that is not fatal, so sessions follow each other for ever.

The chat server may send anything its protocol allows at any time. That it identifies us
before it announces us is its protocol (no handler checks it), and so is that IDN answers
the identification.

### Channels

Everything the plugin knows of others arrives as messages over one connection (`inbox`),
and everything it asks leaves over it (`outbox`); both are queues. `present`,
`operators` and `rooms` are the server's truth, and the actions under *The chat server*
change it and send the message that says so. The plugin's copy is `all_characters`,
`global_ops`, `chat_table` and `channel` (the `FListChannel` of each entry); one `Process...`
action handles each type of message, or all those that one handler serves (LCH, CKU, CBU
and CTU). libpurple's copy is `convo`, `room` and `rank`: the window, the users in it and
the flags of each, which libpurple keeps until it is told others. `Flags` is what
`flist_get_permissions` and `flist_permissions_to_purple` compute; `UpdateRanks` is
`flist_update_users_chats_rank`, which recomputes it for those a message is about.
`unshown` and `line` are the mode that a window still has to show, and the last one shown;
`blist` is the chat's entry in the buddy list and its settings.

`recent` are the channels in `chat_timestamp`. `Joining` and `SlowServer` decide when its
five seconds may pass: with `SlowServer = FALSE` not before the request has been answered.
`freed` and `lost` are about one line of `flist_process_AOP`, which frees the key it has
just stored: `Overwrite` is the moment at which the memory is used for something else, and
`Crash`, which may happen at any time, stands for whatever a second `free` does.
`character_count` wraps at `CountRange`, which stands for 2^32.

Assumed of the environment: a chat that libpurple opens for a join has nobody in it, and
one that is closed is left first; a connection delivers in order or ends; the server
announces a character before it says anything else of them, tells us of a channel
only while we are in it, and answers a join with JCH, COL, ICH and CDS in this order;
an owner is one of the operators of a channel.

### Hybi

`rx_buf` and `frame_buffer` are the byte arrays of `FListAccount`. Bytes of the server are in
`socket` until TLS takes them and in `held` while TLS has them decrypted and nobody has read
them. `Read` is `flist_recv` in one event: TLS takes some bytes, of any number, and at most
`BufferSize` of what it has is read. The event loop sees the socket and nothing of TLS, so
that an event only comes when `socket` is not empty (`f-list_connection.c:138`). The loop of
`flist_process_hybi` is `TakeFrame` for each frame that is complete, and `NoFrame` at its
end; `processing` says that it runs, and nothing else of the plugin does meanwhile.
`Handshake` is `flist_handle_handshake`: reply and first frames may come in one read.
`Header` is what `flist_write_hybi` writes of a frame, and `Lengths` the sizes it is tried on.

The server writes any `Frame`: with a length of 7, 16 or 64 bits, masked or not (it should
not mask, the code copes), whole or in fragments, with control frames and empty fragments
between. `Break` is everything it must not send. A frame is written in a form that can say its length (`Fits`), and a mask is
none or four bytes. Numbers are bytes: `Two`, `Four`, `Eight`, `BigEndian` and `Xor` do
arithmetic, not opaque functions. `LongestLength`, the largest length the server writes, is the
largest of TLC's integers; what the code does with longer ones is in *Observations* below.

### Profile

`character` and `profile_info` are set and freed together and are one variable.
`global_profile_request` and `profile_request` are the handles the plugin keeps, `web` the
requests the event loop has; `HandlesMatchRequests` is that these are the same. A request
ends once, in an answer, a failure or by its timer (`f-list_json.c`), all of which are
`FieldsArrive` and `ProfileArrives` with `ok` or without. `asked` are the PRO messages on their
way to the server and `inbox` its answers: a start, one row and an end stand for any number
of rows; `of` is whom they are about, which the code cannot see and no action reads but
for what is written to `shown`. `shown` is what the notification window of each character
shows.

### Icons

`icon_requests` and `icon_request_queue` are the lists of `FListAccount`; `urls` are libpurple's
fetches, each with a callback. `Fetched` is the whole of `flist_fetch_icon_cb`: the picture
goes to the buddy or to the smiley, the request is removed, and the queue is gone through
for the next entry that anybody still wants. A smiley of a conversation is one for its
name, whatever message it is in: `purple_conv_custom_smiley_add` refuses a second one while
the first waits. `CancelAll` is `flist_icon_cancel_all`, at the end of a session.

### Conversations

A message is its author, its window and its kind; `lines` and `sent` are what the last step has
written and sent, so that a property can compare the two. `IsIgnored` looks into `ignore_list`,
the copy; `ignored` is the server's list, `requests` and `inbox` are the IGN messages between.
`group` is the group of the buddy list a character is in; `Opened` and `Removed` are what
`f-list_autobuddy.c` makes of a window that opens or closes. A buddy whom the user puts in
the temporary group by hand is `moved`: the code cannot tell them from its own, so that both
are removed alike, but such a buddy needs no window. `LoginRefused` is a login whose server URL
cannot be parsed, with the close that it schedules; nothing of this module can happen
between that concerns the account. `saved` is the one slot in which
the plugin keeps where the next answer is to be written. Whether a channel shows chat or ads
is `Channels`' affair: `show` is any answer.

Assumed of the server: it acknowledges an IGN that changes its list, and only such; messages
come from characters or from the server.

## 3. What is checked

| run | instance | what it shows |
|---|---|---|
| `friends_sessions` | 1 character, 2 sessions, 2 clicks, 2 changes, 2 requests, 1 failure | `TypeOK`, `NoReadDuringWrite`, `OneRound`, `NoLostRefresh`, `ImplementsMirror` |
| `friends_pair` | 2 characters (symmetric), 1 session, 2 clicks, 1 change, 1 failure | `Coherent`, `NoResurrection`, `GroupsFollowTable` |
| `friends_settles` | 1 character, 1 session, silent changes, fairness | `Settles` |
| `session` | any number of sessions, 2 pings per login, fairness | `TypeOK`, `HandlesMatchSources`, `TicketCycle`, `Watched`, `OnlineIsIdentified`, `LoginResolves`, `KeepsRenewing` |
| `channels_shown` | 2 channels (symmetric), 2 characters, 2 changes, 2 clicks, 1 session | `TypeOK`, `RosterShown`, `RanksShown` |
| `channels_in_out` | 1 channel, 2 characters, 1 change, 4 clicks, 2 sessions, fairness | `ChatsMatch`, `AgreesWhenQuiet`, `NoDoubleJoin`, `LineIsCurrent`, `DescriptionFirst`, `NoGhosts` |
| `profile` | 2 characters, 4 profiles asked for, any number of sessions, fairness | `HandlesMatchRequests`, `OwnProfile`, `ShownProfileStays`, `Settles` |
| `icons` | 2 slots, 4 pictures, 2 sessions, 2 windows or buddies removed, fairness | `UrlsAreRequests`, `SlotsInUse`, `SmileysEnd` |
| `conversations` | 1 character, the server's notices, a channel, 2 ignore or answer requests, 2 sessions | `TemporaryBuddiesHaveWindows`, `IgnoreListAgrees`, `LinesBelong`, `EchoedIffSent` |
| `frames` | 2 frames, the end of a message and PINs, 3 messages of which 2 bad, portions of any size, a read of 6 bytes, fairness | `HeadersAreReadable`, `NothingIsLeft`, `ImplementsStream`, `Delivered` |

The types of `Profile`, `Icons`, `Conversations` and `Hybi` are checked with an invariant of each.

The bounds of `FriendsSync` limit what the environment does (`MaxChanges`, `MaxClicks`,
`MaxFailures`, `MaxSessions`, and `MaxId` for the ids of requests); the plugin itself is
not bounded. Two clicks let an action overtake an action, two changes a change follow
the notification of another, two sessions leave something of the first behind, and one
failure is enough to lose any answer once. One character has every status; two are needed
where lists of several entries or several buddies matter. `CHECK_DEADLOCK FALSE` in these
runs is for the end of the bounds, where the environment stops. `Session` has one bound,
the pings of a login, which only liveness needs. In `Channels` the bounds limit what others
do (`MaxChanges`), what the user does (`MaxClicks`) and the logins; messages follow from
these. Two channels are needed where one character's rank is shown twice; joining, leaving,
joining again and leaving takes four clicks; being removed while a request is on its way takes a
change, and a rank that comes and goes takes two. A second session finds what the first
has left in libpurple's windows and buddy list. In `Profile` the bound is what the user asks
for (`MaxAsks`): the fourth may follow answers of two others that are late. In `Icons` two
slots stand for the four of the code, with two more requests to fill a queue; a window and
a buddy are enough to make either entry of it unwanted. In `Conversations` the state is
small and the requests to the server are bounded; two of them may cross each other and their
answers. In `Hybi` a read of six bytes stands for one of 4095: a message of the instance
takes several, which is what matters. Two frames and the end of a message are a
message in two or three fragments with a frame between, a good one before a bad one, and a bad one before what
must then not be delivered. The long forms of the length are used for short messages too,
so that every byte of a header may be cut off from the next. `Lengths` are the sizes on both
sides of each limit, and the largest of 31 bits.

Fairness. `FairSpec` of `FriendsSync` makes the event loop fair (timers that are due,
callbacks with an answer, messages that have arrived) and lets the site answer: a request
ends within its 30 seconds. Nothing is assumed of the user or of others. `FairSpec` of
`Session` makes timers, web requests, the scheduled disconnection and the operating
system's end of a connection attempt fair; nothing at all is assumed of the chat server.
The watchdog is fair during a login, when the server's pings are bounded: once online they
may go on for ever. `FairSpec` of `Channels` lets the connection deliver (`Process`) and
the server answer requests (`Serve`). In `Profile` a web request ends, by its timer of 30
seconds if by nothing else, the chat server answers, and what it sends arrives. In `Icons`
a URL ends: the plugin has no timer for these, and libpurple's connection must end by itself.
In `Hybi` an event that stays is served, and the server finishes a message it has begun and
goes on with its PINs, without which the watchdog of `Session` ends the connection.

Two runs are expected to fail. Each checks one sentence of a comment that the code does
not keep:

| run | what is said | what happens |
|---|---|---|
| `friends_unshown` | "If this is a new request, notify the user!" (`f-list_friends.c:425`) | a request denied by removing the buddy keeps its entry in `auth_requests`; the next one of that character is never shown |
| `channels_operators` | "hash table of global operators" (`f-list.h:323`) | AOP frees the key it has stored: the operator is not found once the memory is used again |

### Observations

What else was met while modelling, with no run of its own. The models have these wherever a
module is named.

* With `sync_friends` off, a friend who is not bookmarked any more stays among the bookmarks
  (`f-list_friends.c:376`, `FriendsSync`), where `CHANGELOG.md:19` says that removing a
  bookmark "removes them from the pidgin group automatically". A temporary buddy who becomes
  a friend stays in the temporary group, as only the other two groups are looked at (`:439`).
* `flist_friends_login` (`f-list_friends.c:651`) starts a refresh without looking at the
  requests, though "We can't refresh until the requests finish" (`:267`): `NoReadDuringWrite`
  is false with `EarlyActions = TRUE`.
* Any failure of a bookmark request, a lost connection too, bars the character for the
  session, where the comment at `f-list_friends.c:241` speaks of those who cannot be bookmarked.
* The version check is made "once for all connections" (`f-list.c:751`) and keeps the account
  of the first, which may be freed before the answer comes (`:755`; the callback reads it at
  `:639` and `:643`). `HandlesMatchSources` names it as its exception (`Session`). The log upload of a report
  is not cancelled at a close either (`f-list_report.c:128`).
* LIS adds characters without counting them, so that `character_count` is not
  "count(all_characters)" (`f-list.h:328`, `Channels`).
* A request to join is remembered for five seconds, answered or not (`f-list_commands.c:382`):
  `NoDoubleJoin` is false with `SlowServer = TRUE`.
* A profile asked for while PRD messages of another are on their way is filled with rows of
  that other, under the new name; `Stale` in `OwnProfile` is that case. When PRD ends while
  the web request is outstanding, its answer finds no character and is dropped (`Profile`).
* Icon requests have no timer of the plugin: a server that never closes a connection takes
  a slot for the session (`Icons`). The variable `icon_blacklist`, "channels that do not allow
  (e)icons" (`f-list_callbacks.c:204`), is stored and never consulted.
* A private message to somebody we ignore is written to its window and not sent; the
  user is told so (`Conversations`; `EchoedIffSent` leaves it out).
* `saved_type` and `saved_name` are one slot: with two questions unanswered, both answers are
  written where the second was asked (`Conversations`).
* What a read leaves in TLS waits for the next event (`f-list_connection.c:138`): a message
  may be late by one PIN, which is all that `Delivered` promises (`Hybi`). After a rule break the frames
  behind it are not looked at, but those of the next events are, until the close (`Hybi`, `Session`).
* `flist_write_hybi` makes room for ten bytes beside the message (`f-list_connection.c:62`),
  which is right for the two shorter headers; the longest and its mask take fourteen, for
  messages of 65536 bytes and more. Lengths beyond 32 bits are cut, and nobody looks
  at how much `purple_ssl_write` has written. `Header` in `Hybi` is what ends up in the frame.

## 4. What is proved

TLAPS checks every step; the proofs need no bound on anything.

**Session** (`SessionProofs`). `SessionInv` is inductive. Besides the properties it needs two
facts that TLC would never miss: nothing is left of a session that is over (`Nothing`), and
how far a connection is says which of its sources and handles exist
(`StatusMatchesSocket`): `flist_handshake` arms the watchdog without looking at its handle,
and that is right only because a socket is never up twice. From it follow `TypeCorrect`,
`OnlyVersionCheckOutlives`, `TicketIsRenewed`, `NoSilentConnection`, `OnlineMeansOnline`. The
second is for `HandlesMatchSources`, whose exception it keeps: what `flist_close` leaves in
the event loop is the version check of the session, if one is under way, and nothing else.

**FriendsSync, safety** (`FriendsSyncProofs`). `TypeCorrect` holds for every constant. Under
`~EarlyActions`, `SafetyInv` is inductive: the three properties, `TypeOK`, that action requests
only exist online (`WritesOnline`), and that nothing is armed before the identification
(`Idle`). `flist_friends_login` starts a refresh without looking at the requests, so
`WritesOnline` is what makes `NoReadDuringWrite` true, and without the assumption it is false.

**FriendsSync, coherence** (`FriendsSyncProofs`). Under `~EarlyActions` and `~Silent`,
`CoherenceInv` is inductive. It adds that all lists are doubted before the identification,
that the lists an action may change are dirty while it is in flight (`WritesAreDirty`), and
that an answer on its way agrees with the site on every list that is not about to be
announced (`AnswerIsFresh`). The last is the heart of it: an answer can only go stale
through an announced change, because actions cancel the request.
`NobodyIsResurrected` needs one fact more, as a merge writes every character's status though
it may have asked for one list: what an answer does not ask for is not in doubt (`AskIsDirty`).
`GroupsAlwaysFollowTable` rests on nothing but the two settings, and looks at `UpdateOk` alone.

**Refinement** (`FriendsSyncProofs`). Under the same assumptions every step of
`FriendsSync` is a step of `FriendsMirror` or a stutter: what the site does is `Change`, a
click or a notification is `Doubt`, a merged answer is `Fill`, `Unload` is `Forget`.
`FriendsMirrorProofs` shows that in `FriendsMirror` trust is deserved.

**Channels** (`ChannelsProofs`). `TypeCorrect` holds for every constant. `ChatsMatch` is
inductive with it, and `RosterShown` with both. `RanksShown` is not: the handlers of LIS and
NLN change the status of characters and look at no channel. So the invariant also says
that a LIS is only there during login (`ListFirst`), when we are in no channel
(`NoChannelYet`); and that an NLN only comes for a character who will not be looking when it
is handled, because after whatever says that they are looking there is an FLN
(`ArrivalsAreCalm`, which the server keeps because of `AbsentAreCalm`: the same for whoever is
offline now). `OwnersListed` is what lets `flist_got_channel_oplist` update only operators:
an owner who is replaced is among them. `WhatIsSent` and `WhatIsProcessed` say all the proof
needs to know of the server and of the handlers. `LineIsAlwaysCurrent` adds that each mode is said when
it changes, and `DescriptionComesFirst` that a channel is only shown with its description
(`DescribedWhenShown`).

**Channels, both sides** (`ChannelsProofs`). What the plugin knows and what the server knows
are related through the messages between, in one way throughout: of the messages about a
thing the last one says what the server has it as; or there is none, and the plugin has it
so. `Ends` and `Wordless` say this of any sequence of words; `Heard` and `AgreeSent`
say what becomes of it when the first message is processed and when others are sent. The
plugin's part is then one lemma about one message (`ThePluginHeeds`), and the server's
another (`TheServerReports`). `MembershipAgrees` is that relation for the channels we are
in, with the requests to leave that are on their way; `AgreeInv` has it for the status
of a character, for operators, for owner, operators and mode of a channel we
are in, and for everybody who is there. It needs `StatusesAreTaken`: `flist_process_STA`
ignores characters it does not know, so each of those messages, and each that the server may
still send, must find its character announced. `AgreesWhenAllIsHeard` is the case of
no message. `NeverJoinsTwice` adds to `MembershipAgrees` that whoever is joining has asked
within the last five seconds (`JoiningIsRecent`), asked once (`JoinsOnce`), and left before
(`LeavesBeforeJoining`). It is stated for `~SlowServer`, as it is false for a server that is slow.

**Conversations** (`ConversationsProofs`). `IgnoreInv` relates the copy of the ignore list to the
server's list in the same way: of the answers about a name on their way, the last has the
server's word (`LastWordIsRight`), and no answer adds a name that the copy will have by then
(`NobodyAddedTwice`), so that `flist_ignore_list_action` never makes an entry double. The
list of the server is finite from the start; the lemmas before it are about removing from
and appending to a sequence without duplicates. `TemporaryBuddiesAlwaysHaveWindows` is
inductive with the types; `LinesAlwaysBelong` and `AlwaysEchoedIffSent` look at each
handler that writes to a window.

**Hybi** (`HybiProofs`). What is to be shown is that no division of the bytes among socket,
TLS and `rx_buf` changes what is delivered. `Framed` says it of the bytes that have not
been looked at, `All`, wherever they lie: behind the reply to the handshake, if it is still
there (`Base`, `Opened`), they can be cut into whole frames, and reading these in turn (`Moves`)
leads from what `frame_buffer` and `delivered` are now to everything the server has sent and
the fragments it has begun (`Partial`). If the server has broken the rules, the last is the
frame it broke them with (`Breaches`). `Chain` is the cuts, `Links` that there are some. Three
things happen to a chain: `Read` moves bytes from one buffer to another and leaves it as it is
(`ReadKeeps`); `TakeFrame` takes its first frame off; the server puts a last one on. For the
second, the code must find a frame complete when all of it has come, and not before
(`Parsed`, `NotBefore`); it must then have the frame that was written, which is that decoding
undoes coding, with each of the three lengths and a mask or none (`XorTwice`). `Inv` adds to
`Framed` that nothing delivered is not sent (`HandedOn`), that the reply to the handshake is in
front until it is taken (`Unanswered`), that no complete frame waits in `rx_buf` unless the loop is running
(`NothingWaits`), and that the plugin only gives up on a server at fault (`Blamed`). Its
parts but `Framed` can be checked by TLC; that one ranges over all functions, and TLC sees
what follows from it: `NothingIsEverLeft`, `HeadersAlwaysReadable` and
`FramesImplementStream`, by which every step of `Hybi` is one of `MessageStream` or a stutter.
The messages are any sequences of bytes, of any length, in frames of up to `LongestLength`; nothing
is assumed but `HybiAssumption`.

**Icons** (`IconsProofs`). `IconsInv` is inductive, for any number of slots: the two invariants
and `Distinct`, that a request is in flight or in the queue and nowhere twice. Without it a
request taken from the queue might be one in flight already, and the slots would
count one too few. That the requests in flight are a finite set is part of it, and makes
`Cardinality` usable. `UrlsAlwaysRequests` and `SlotsAlwaysInUse` follow.

**Profile** (`ProfileProofs`). `ProfileInv` is inductive, for any characters. What the
action properties rest on is that whoever is asked for has a window that shows no profile
yet, and that no web request asks for another (`WindowWaits`); that the messages of
an answer follow one another (`AnswersAreWhole`, of the server); and that the table has only
rows of the answer that is arriving (`TableIsOfOne`). From it follow `HandlesAlwaysMatch`,
`AlwaysOwnProfile` and `ProfileStays`.

Only model-checked: the liveness properties (`Settles` of both modules, `LoginResolves`,
`KeepsRenewing`, `NoGhosts`, `SmileysEnd`, `Delivered`), as liveness under fairness and ENABLED
are out of the prover's reach. Every invariant a run checks is also a theorem; where a theorem has
a hypothesis on the settings, the section above names it.

## 5. The plan

Done, in this order: `FriendsSync` and `Session`; `Channels`, but for the commands of a channel's
operators, which send one message each; `Hybi`; `Profile`; `Icons`; `Conversations` with the
ignore list and the temporary buddies.

Next:

1. `Status`: what the user sets, what the server confirms, what idle overrides
   (`f-list_status.c:87`), and that the two sides converge.
2. `Report`: dialogue, log upload, SFC; one report once, after its log.
3. The kinks table, fetched once and used by searches that may come first.
4. Durations as an algorithm against a reference definition.
5. `Plugin`: `Session` composed with `FriendsSync` (phase is a function of the session), to
   discharge what `FriendsSync` assumes of the login's order.

## 6. What is not modelled

Text: BBCode, HTML, logging, the wording of messages. Of channels: their titles, the
dialogue for the description, the list of all channels. The status and idle, reports, the
table of kinks and the form of a search: planned above. The commands of channel operators
and staff, which check a permission and send one message. The table of web requests in
`f-list_json.c`, which nothing reads. Pidgin's widgets. The NSS ciphers.
Memory, except where an order of events decides whether something is used after it was
freed. Several accounts at once, though they share the table of tickets. Time, except that
a timer fires after it was armed: 0, 30, 90, 600 and 1800 seconds are all "later".

Four things that the user or libpurple may do, each at the edge of a module:

* The user removes a channel from the buddy list while in it. `flist_get_chat`
  (`f-list.c:306`) makes the entry again without its settings, so that what the user had hidden
  is shown and no line says so. In `Channels` the entry stays while we are in, and `LineIsCurrent` is for
  channels whose entry does.
* A fetch of a picture fails before `purple_util_fetch_url_request` returns
  (`f-list_icon.c:106`). The callback then frees a request that is listed afterwards. In
  `Icons` a fetch ends later.
* The user moves the buddy that stands for the server's notices. In `Conversations` only
  characters are moved.
* After a URL that cannot be parsed `flist_close` finds no tables: each function that frees one
  returns, or GLib warns and does nothing. `Session` and `Conversations` have that login, and
  no tables.

## 7. Running it

    tlc -config FriendsPair.cfg MCFriendsSync     # any run of PROJECT.json
    tlapm FriendsSyncProofs.tla                   # any proof module
