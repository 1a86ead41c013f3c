------------------------------ MODULE Channels ------------------------------
(* Who is online, who is in which channel, and what is shown of them
   (f-list_callbacks.c, f-list_channels.c, join and leave of f-list_commands.c).

   The chat server tells the plugin of every change, in order, over one
   connection.  The plugin keeps tables of characters, operators and channels,
   and mirrors the channels in libpurple's chats, where the rank of a user is
   computed when something changes and then kept.  Meanwhile the user joins
   and leaves channels, and our requests are on their way as the messages are.

   The server, libpurple's chats and buddy list, and the user are modelled from
   what the code asks of them.  A chat that libpurple opens for a join has
   nobody in it.                                                            *)
EXTENDS Integers, Sequences

CONSTANTS
    Names,          \* the characters
    Me,             \* our own
    NoOwner,        \* the owner of a channel without one
    Channel,        \* the names of the channels
    CountRange,     \* how many values a guint32 has
    SlowServer,     \* whether answers take longer than CHANNEL_JOIN_TIMEOUT
    MaxChanges,     \* bound: changes made on the server
    MaxClicks,      \* bound: actions of the user
    MaxSessions     \* bound: logins

ASSUME NamesAssumption == Me \in Names /\ NoOwner \notin Names

ASSUME RangesAssumption ==
    /\ CountRange \in Nat \ {0}
    /\ SlowServer \in BOOLEAN
    /\ MaxChanges \in Nat
    /\ MaxClicks \in Nat
    /\ MaxSessions \in Nat

VARIABLES
    \* struct FListAccount_
    phase,            \* "off", "login" (identified), or "online"
    all_characters,   \* the status of each character
    character_count,
    global_ops,       \* whom a lookup in the table of operators finds
    freed,            \* those of them whose key has been freed
    lost,             \* operators whose freed key has been overwritten
    chat_table,       \* the channels we are in ...
    channel,          \* ... and what we know of them
    described,        \* those whose description (topic) has arrived
    recent,           \* channels joined less than CHANNEL_JOIN_TIMEOUT ago
    \* libpurple
    convo,            \* the chat window of a channel
    room,             \* the users it lists
    rank,             \* the flags it keeps of each
    unshown,          \* those with CHAT_SHOW_DISPLAY_STATUS set
    line,             \* what the last "We are currently ..." said
    blist,            \* the entry of the buddy list and its settings
    \* the chat server
    present,          \* the status of each character
    operators,        \* the global operators
    rooms,            \* the channels
    \* the connection
    outbox,           \* our requests
    inbox,            \* the messages of the server
    \* how much of each bound is used
    changes, clicks, sessions

presence == <<all_characters, character_count>>
globals  == <<global_ops, freed, lost>>
chats    == <<chat_table, channel, described>>
windows  == <<convo, room, rank>>
lines    == <<unshown, line, blist>>
server   == <<present, operators, rooms>>
vars     == <<phase, presence, globals, chats, recent, windows, lines, server,
              outbox, inbox, changes, clicks, sessions>>

----------------------------------------------------------------------------
Statuses == {"offline", "online", "looking"}
Modes    == {"both", "ads", "chat"}
Shows    == {"ads", "chat"}
Ranks    == {"FOUNDER", "HALFOP", "OP", "VOICE"}

Room     == [users : SUBSET Names, owner : Names \cup {NoOwner},
             ops : SUBSET Names, mode : Modes]
Listing  == [place : {"nowhere", "temporary", "own group"}, hidden : SUBSET Shows]
Said     == [Shows -> {"unsaid", "shown", "hidden"}]

NotListed == [place |-> "nowhere", hidden |-> {}]
Unsaid    == [w \in Shows |-> "unsaid"]

\* A channel as the server makes it, and what we know of one we are not in.
NewRoom(users) == [users |-> users, owner |-> NoOwner, ops |-> {}, mode |-> "both"]
NotJoined      == NewRoom({})

\* slip: g_new0 leaves the mode at its first value
FreshUnset == [users |-> {}, owner |-> NoOwner, ops |-> {}, mode |-> "unknown"]

\* flist_got_channel_joined
Fresh == [users |-> {}, owner |-> NoOwner, ops |-> {}, mode |-> "both"]

\* What the handlers of a channel need: a window and an entry in chat_table.
Known(c) == c \in chat_table /\ convo[c] # "none"

----------------------------------------------------------------------------
(* Ranks.                                                                   *)

\* flist_get_permissions, flist_permissions_to_purple and the flag of those
\* who are looking: who holds each rank in a channel.
Holders(c) == [FOUNDER |-> {channel[c].owner},
               HALFOP  |-> channel[c].ops,
               OP      |-> global_ops,
               VOICE   |-> {n \in Names : all_characters[n] = "looking"}]

Flags(c, n) == {f \in Ranks : n \in Holders(c)[f]}

\* flist_update_users_chats_rank: the channels whose table of users has them.
UpdateRanks(who) ==
    rank' = [c \in Channel |-> [n \in Names |->
                IF c \in chat_table /\ n \in who \cap channel[c].users \cap room[c]
                THEN Flags(c, n)'
                ELSE rank[c][n]]]

\* purple_conv_chat_add_users
AddToRoom(c, who) ==
    /\ room' = [room EXCEPT ![c] = @ \cup who]
    /\ rank' = [rank EXCEPT ![c] = [n \in Names |-> IF n \in who
                                                    THEN Flags(c, n)'
                                                    ELSE @[n]]]

\* purple_conv_chat_remove_user, of one user in some channels
RemoveFromRooms(who, cs) ==
    /\ room' = [c \in Channel |-> IF c \in cs THEN room[c] \ {who} ELSE room[c]]
    /\ rank' = [c \in Channel |-> [n \in Names |->
                   IF c \in cs /\ n = who THEN {} ELSE rank[c][n]]]

----------------------------------------------------------------------------
(* What is shown of a channel's mode.                                       *)

\* flist_get_channel_show_ads and flist_get_channel_show_chat
Visible(c) == {w \in Shows : channel[c].mode \in {w, "both"} /\ w \notin blist[c].hidden}

Line(c) == [w \in Shows |-> IF w \in Visible(c) THEN "shown" ELSE "hidden"]

\* flist_get_chat
InList(c) == IF blist[c].place = "nowhere"
             THEN [blist EXCEPT ![c].place = "temporary"]
             ELSE blist

\* flist_show_channel_mode
ShowMode(c) == line' = [line EXCEPT ![c] = Line(c)']

\* slip: the mode that was valid before is the one that is shown
TellModeLate(c) == line' = IF c \in unshown THEN line ELSE [line EXCEPT ![c] = Line(c)]

\* slip: the mode is shown as soon as it is known
TellModeAtOnce(c) == ShowMode(c)

\* flist_got_channel_mode: until the description is there, the mode is kept
\* for below it.  (The entry of the buddy list exists since the join.)
TellMode(c) == IF c \in unshown THEN line' = line ELSE ShowMode(c)

----------------------------------------------------------------------------
(* Messages about characters and global operators.                          *)

Receive(type) == /\ inbox # <<>>
                 /\ Head(inbox).type = type
                 /\ inbox' = Tail(inbox)

\* ... about a character, or about a channel
About(type, n) == Receive(type) /\ Head(inbox).who = n

In(type, c) == Receive(type) /\ Head(inbox).chan = c

KeepTables == UNCHANGED <<server, outbox, changes, clicks, sessions>>

\* Our own NLN, during login, is when flist_got_online empties the group of
\* temporary chats.
ProcessNLN(n) ==
    /\ About("NLN", n)
    /\ LET own == n = Me /\ phase = "login"
       IN  /\ all_characters' = [all_characters EXCEPT ![n] = "online"]
           /\ phase' = IF own THEN "online" ELSE phase
           /\ blist' = IF own
                       THEN [c \in Channel |-> IF blist[c].place = "temporary"
                                               THEN NotListed
                                               ELSE blist[c]]
                       ELSE blist
    /\ character_count' = (character_count + 1) % CountRange
    /\ UNCHANGED <<globals, chats, recent, windows, unshown, line>> /\ KeepTables

ProcessLIS ==
    /\ Receive("LIS")
    /\ all_characters' = [n \in Names |-> IF Head(inbox).status[n] # "offline"
                                          THEN Head(inbox).status[n]
                                          ELSE all_characters[n]]
    /\ UNCHANGED <<phase, character_count, globals, chats, recent, windows, lines>>
    /\ KeepTables

\* A character nobody has announced has no status to change.
ProcessSTA(n) ==
    /\ About("STA", n)
    /\ UNCHANGED <<channel, global_ops>>
    /\ IF all_characters[n] = "offline"
       THEN UNCHANGED <<all_characters, rank>>
       ELSE /\ all_characters' = [all_characters EXCEPT ![n] = Head(inbox).status]
            /\ UpdateRanks({n})
    /\ UNCHANGED <<phase, character_count, freed, lost, chat_table, described,
                   recent, convo, room, lines>>
    /\ KeepTables

\* slip: flist_update_user_chats_offline only looks at the windows
ForgetWindowOnly(n) ==
    /\ channel' = channel
    /\ RemoveFromRooms(n, {c \in chat_table : n \in channel[c].users})

\* slip: an LCH for each channel is expected
ForgetNothing(n) == UNCHANGED <<channel, room, rank>>

\* flist_update_user_chats_offline
ForgetUser(n) ==
    /\ channel' = [c \in Channel |-> [channel[c] EXCEPT !.users = @ \ {n}]]
    /\ RemoveFromRooms(n, {c \in chat_table : n \in channel[c].users})

ProcessFLN(n) ==
    /\ About("FLN", n)
    /\ all_characters' = [all_characters EXCEPT ![n] = "offline"]
    /\ character_count' = (character_count - 1) % CountRange
    /\ ForgetUser(n)
    /\ UNCHANGED <<phase, globals, chat_table, described, recent, convo, lines>>
    /\ KeepTables

\* The table is replaced; those of the old one and of the new one are updated.
\* A key that has been overwritten names nobody any more.
ProcessADL ==
    /\ Receive("ADL")
    /\ global_ops' = Head(inbox).ops
    /\ freed' = {}
    /\ lost' = lost \ Head(inbox).ops
    /\ UNCHANGED <<all_characters, channel>>
    /\ UpdateRanks(global_ops \cup Head(inbox).ops)
    /\ UNCHANGED <<phase, character_count, chat_table, described, recent, convo,
                   room, lines>>
    /\ KeepTables

\* The key of the new entry is freed as soon as the ranks are updated.
ProcessAOP(n) ==
    /\ About("AOP", n)
    /\ global_ops' = global_ops \cup {n}
    /\ freed' = freed \cup {n}
    /\ lost' = lost \ {n}
    /\ UNCHANGED <<all_characters, channel>>
    /\ UpdateRanks({n})
    /\ UNCHANGED <<phase, character_count, chat_table, described, recent, convo,
                   room, lines>>
    /\ KeepTables

\* A key freed before is freed again, which may end the process (Crash).
ProcessDOP(n) ==
    /\ About("DOP", n)
    /\ global_ops' = global_ops \ {n}
    /\ freed' = freed \ {n}
    /\ lost' = lost \ {n}
    /\ UNCHANGED <<all_characters, channel>>
    /\ UpdateRanks({n})
    /\ UNCHANGED <<phase, character_count, chat_table, described, recent, convo,
                   room, lines>>
    /\ KeepTables

\* The allocator gives the memory of a freed key to someone else: a lookup does
\* not find it any more.
Overwrite(n) ==
    /\ n \in freed
    /\ global_ops' = global_ops \ {n}
    /\ freed' = freed \ {n}
    /\ lost' = lost \cup {n}
    /\ UNCHANGED <<phase, presence, chats, recent, windows, lines, inbox>>
    /\ KeepTables

----------------------------------------------------------------------------
(* Messages about channels.  One about a channel we are not in is ignored.  *)

\* JCH of our own character: serv_got_joined_chat, flist_got_channel_joined and,
\* for the title, flist_get_chat.
ProcessOwnJCH(c) ==
    /\ In("JCH", c) /\ About("JCH", Me)
    /\ convo' = [convo EXCEPT ![c] = "open"]
    /\ room' = [room EXCEPT ![c] = {}]
    /\ rank' = [rank EXCEPT ![c] = [n \in Names |-> {}]]
    /\ chat_table' = chat_table \cup {c}
    /\ channel' = [channel EXCEPT ![c] = Fresh]
    /\ described' = described \ {c}
    /\ unshown' = unshown \cup {c}
    /\ line' = [line EXCEPT ![c] = Unsaid]
    /\ blist' = InList(c)
    /\ UNCHANGED <<phase, presence, globals, recent>> /\ KeepTables

\* flist_got_channel_user_joined
ProcessJCH(c, n) ==
    /\ n # Me
    /\ In("JCH", c) /\ About("JCH", n)
    /\ UNCHANGED <<all_characters, global_ops>>
    /\ IF Known(c)
       THEN /\ channel' = [channel EXCEPT ![c].users = @ \cup {n}]
            /\ AddToRoom(c, {n})
            /\ blist' = InList(c)
       ELSE UNCHANGED <<channel, room, rank, blist>>
    /\ UNCHANGED <<phase, character_count, freed, lost, chat_table, described, recent,
                   convo, unshown, line>>
    /\ KeepTables

\* slip: the entry of chat_table stays
KeepChannel(c) ==
    /\ UNCHANGED <<chat_table, channel, described>>
    /\ blist' = IF blist[c].place = "temporary"
                THEN [blist EXCEPT ![c] = NotListed]
                ELSE blist

\* flist_got_channel_left
GotChannelLeft(c) ==
    /\ chat_table' = chat_table \ {c}
    /\ channel' = [channel EXCEPT ![c] = NotJoined]
    /\ described' = described \ {c}
    /\ blist' = IF blist[c].place = "temporary"
                THEN [blist EXCEPT ![c] = NotListed]
                ELSE blist

\* A window we are not in any more lists nobody that anything depends on.
LeaveWindow(c, to) ==
    /\ convo' = [convo EXCEPT ![c] = to]
    /\ room' = [room EXCEPT ![c] = {}]
    /\ rank' = [rank EXCEPT ![c] = [n \in Names |-> {}]]
    /\ line' = [line EXCEPT ![c] = Unsaid]

Departures == {"LCH", "CKU", "CBU", "CTU"}

\* LCH, CKU, CBU and CTU of our own character
ProcessOwnLCH(c) ==
    /\ \E type \in Departures : In(type, c) /\ About(type, Me)
    /\ IF convo[c] # "none"
       THEN GotChannelLeft(c) /\ LeaveWindow(c, "left")
       ELSE UNCHANGED <<chats, windows, line, blist>>
    /\ UNCHANGED <<phase, presence, globals, recent, unshown>> /\ KeepTables

\* flist_got_channel_user_left
ProcessLCH(c, n) ==
    /\ n # Me
    /\ \E type \in Departures : In(type, c) /\ About(type, n)
    /\ IF Known(c) /\ n \in channel[c].users
       THEN /\ channel' = [channel EXCEPT ![c].users = @ \ {n}]
            /\ RemoveFromRooms(n, {c})
       ELSE UNCHANGED <<channel, room, rank>>
    /\ UNCHANGED <<phase, presence, globals, chat_table, described, recent, convo, lines>>
    /\ KeepTables

\* slip: those who have lost their rank are not updated
RerankedNew(c, m) == m.ops

\* flist_got_channel_oplist updates the old operators and the new ones.
Reranked(c, m) == channel[c].ops \cup m.ops

ProcessCOL(c) ==
    /\ In("COL", c)
    /\ UNCHANGED <<all_characters, global_ops>>
    /\ LET m == Head(inbox)
       IN  IF Known(c)
           THEN /\ channel' = [channel EXCEPT ![c].owner = m.owner, ![c].ops = m.ops]
                /\ UpdateRanks(Reranked(c, m))
           ELSE UNCHANGED <<channel, rank>>
    /\ UNCHANGED <<phase, character_count, freed, lost, chat_table, described, recent,
                   convo, room, lines>>
    /\ KeepTables

\* flist_got_channel_mode, then flist_got_channel_userlist
ProcessICH(c) ==
    /\ In("ICH", c)
    /\ UNCHANGED <<all_characters, global_ops, blist>>
    /\ LET m == Head(inbox)
       IN  IF Known(c)
           THEN /\ channel' = [channel EXCEPT ![c].mode = m.mode,
                                              ![c].users = @ \cup m.users]
                /\ AddToRoom(c, m.users)
                /\ TellMode(c)
           ELSE UNCHANGED <<channel, room, rank, line>>
    /\ UNCHANGED <<phase, character_count, freed, lost, chat_table, described, recent,
                   convo, unshown>>
    /\ KeepTables

\* flist_got_channel_topic
ProcessCDS(c) ==
    /\ In("CDS", c)
    /\ UNCHANGED <<channel, blist>>
    /\ IF Known(c)
       THEN /\ described' = described \cup {c}
            /\ unshown' = unshown \ {c}
            /\ IF c \in unshown THEN ShowMode(c) ELSE line' = line
       ELSE UNCHANGED <<described, unshown, line>>
    /\ UNCHANGED <<phase, presence, globals, chat_table, recent, windows>>
    /\ KeepTables

ProcessRMO(c) ==
    /\ In("RMO", c)
    /\ blist' = blist
    /\ IF Known(c)
       THEN /\ channel' = [channel EXCEPT ![c].mode = Head(inbox).mode]
            /\ TellMode(c)
       ELSE UNCHANGED <<channel, line>>
    /\ UNCHANGED <<phase, presence, globals, chat_table, described, recent, windows,
                   unshown>>
    /\ KeepTables

----------------------------------------------------------------------------
(* The user.                                                                *)

Click == clicks < MaxClicks /\ clicks' = clicks + 1

Ask(type, c) == outbox' = Append(outbox, [type |-> type, chan |-> c])

\* slip: only the window is looked at
MayJoinAgain(c) == convo[c] # "open"

MayJoin(c) == c \notin recent /\ convo[c] # "open"

\* flist_join_channel, which does nothing within CHANNEL_JOIN_TIMEOUT of the
\* last one, nor in a channel we are in.
JoinChannel(c) ==
    /\ phase = "online"
    /\ MayJoin(c)
    /\ Click
    /\ Ask("JCH", c)
    /\ recent' = recent \cup {c}
    /\ UNCHANGED <<phase, presence, globals, chats, windows, lines, server, inbox,
                   changes, sessions>>

Joining(c) == \/ \E i \in DOMAIN outbox : outbox[i] = [type |-> "JCH", chan |-> c]
              \/ \E i \in DOMAIN inbox : /\ inbox[i].type = "JCH"
                                         /\ inbox[i].who = Me
                                         /\ inbox[i].chan = c

\* CHANNEL_JOIN_TIMEOUT passes.
Elapse(c) ==
    /\ c \in recent
    /\ SlowServer \/ ~Joining(c)
    /\ recent' = recent \ {c}
    /\ UNCHANGED <<phase, presence, globals, chats, windows, lines, inbox>>
    /\ KeepTables

\* slip: the server is not told
LeaveSilently(c) == outbox' = outbox

LeaveRequest(c) == Ask("LCH", c)

\* The window is closed; libpurple leaves the channel first if we are in it
\* (flist_leave_channel).
CloseWindow(c) ==
    /\ convo[c] # "none"
    /\ Click
    /\ IF convo[c] = "open"
       THEN LeaveRequest(c) /\ GotChannelLeft(c)
       ELSE UNCHANGED <<outbox, chats, blist>>
    /\ LeaveWindow(c, "none")
    /\ unshown' = unshown \ {c}
    /\ UNCHANGED <<phase, presence, globals, recent, server, inbox, changes, sessions>>

\* flist_channel_hide_ads_cmd and flist_channel_hide_chat_cmd, which do not ask
\* whether we are in the channel.
Hide(c, w) ==
    /\ phase # "off"
    /\ convo[c] # "none"
    /\ Click
    /\ blist' = [InList(c) EXCEPT ![c].hidden = @ \cup {w}]
    /\ channel' = channel
    /\ IF c \in chat_table THEN ShowMode(c) ELSE line' = line
    /\ UNCHANGED <<phase, presence, globals, chat_table, described, recent, windows,
                   unshown, server, outbox, inbox, changes, sessions>>

\* flist_channel_show_ads_cmd and flist_channel_show_chat_cmd
Show(c, w) ==
    /\ phase # "off"
    /\ Known(c)
    /\ channel[c].mode \in {w, "both"}
    /\ Click
    /\ blist' = [InList(c) EXCEPT ![c].hidden = @ \ {w}]
    /\ channel' = channel
    /\ ShowMode(c)
    /\ UNCHANGED <<phase, presence, globals, chat_table, described, recent, windows,
                   unshown, server, outbox, inbox, changes, sessions>>

\* The user keeps a temporary chat by moving it to another group, and does not
\* remove it while in the channel.
KeepChat(c) ==
    /\ blist[c].place = "temporary"
    /\ Click
    /\ blist' = [blist EXCEPT ![c].place = "own group"]
    /\ UNCHANGED <<phase, presence, globals, chats, recent, windows, unshown, line,
                   server, outbox, inbox, changes, sessions>>

----------------------------------------------------------------------------
(* The chat server.                                                         *)

\* What the server sends goes to whoever is connected.
Send(messages) == inbox' = IF phase = "off" THEN <<>> ELSE inbox \o messages

Tell(c, messages) == Send(IF Me \in rooms[c].users THEN messages ELSE <<>>)

Change == changes < MaxChanges /\ changes' = changes + 1

KeepPlugin == UNCHANGED <<phase, presence, globals, chats, recent, windows, lines,
                          clicks, sessions>>

Arrive(n) ==
    /\ n # Me /\ present[n] = "offline"
    /\ Change
    /\ present' = [present EXCEPT ![n] = "online"]
    /\ Send(<<[type |-> "NLN", who |-> n]>>)
    /\ UNCHANGED <<operators, rooms, outbox>> /\ KeepPlugin

Restate(n) ==
    /\ present[n] # "offline"
    /\ Change
    /\ \E s \in {"online", "looking"} \ {present[n]} :
           /\ present' = [present EXCEPT ![n] = s]
           /\ Send(<<[type |-> "STA", who |-> n, status |-> s]>>)
    /\ UNCHANGED <<operators, rooms, outbox>> /\ KeepPlugin

\* Whoever goes offline leaves all channels without an LCH.
Without(n) == [c \in Channel |-> [rooms[c] EXCEPT !.users = @ \ {n}]]

Depart(n) ==
    /\ n # Me /\ present[n] # "offline"
    /\ Change
    /\ present' = [present EXCEPT ![n] = "offline"]
    /\ rooms' = Without(n)
    /\ Send(<<[type |-> "FLN", who |-> n]>>)
    /\ UNCHANGED <<operators, outbox>> /\ KeepPlugin

Promote(n) ==
    /\ n \notin operators
    /\ Change
    /\ operators' = operators \cup {n}
    /\ Send(<<[type |-> "AOP", who |-> n]>>)
    /\ UNCHANGED <<present, rooms, outbox>> /\ KeepPlugin

Demote(n) ==
    /\ n \in operators
    /\ Change
    /\ operators' = operators \ {n}
    /\ Send(<<[type |-> "DOP", who |-> n]>>)
    /\ UNCHANGED <<present, rooms, outbox>> /\ KeepPlugin

\* The whole list of operators again, with some change.
Reappoint ==
    /\ Change
    /\ \E ops \in SUBSET Names \ {operators} :
           /\ operators' = ops
           /\ Send(<<[type |-> "ADL", ops |-> ops]>>)
    /\ UNCHANGED <<present, rooms, outbox>> /\ KeepPlugin

Enter(n, c) ==
    /\ n # Me /\ present[n] # "offline" /\ n \notin rooms[c].users
    /\ Change
    /\ rooms' = [rooms EXCEPT ![c].users = @ \cup {n}]
    /\ Tell(c, <<[type |-> "JCH", chan |-> c, who |-> n]>>)
    /\ UNCHANGED <<present, operators, outbox>> /\ KeepPlugin

\* Others leave; anyone may be kicked, banned or timed out.
Remove(n, c, how) ==
    /\ n \in rooms[c].users
    /\ n = Me => how # "LCH"
    /\ Change
    /\ rooms' = [rooms EXCEPT ![c].users = @ \ {n}]
    /\ Tell(c, <<[type |-> how, chan |-> c, who |-> n]>>)
    /\ UNCHANGED <<present, operators, outbox>> /\ KeepPlugin

OperatorList(c, owner, ops) ==
    [type |-> "COL", chan |-> c, owner |-> owner, ops |-> ops]

Appoint(c) ==
    /\ Change
    /\ \E ops \in SUBSET Names : \E owner \in ops \cup {NoOwner} :
           /\ <<owner, ops>> # <<rooms[c].owner, rooms[c].ops>>
           /\ rooms' = [rooms EXCEPT ![c].owner = owner, ![c].ops = ops]
           /\ Tell(c, <<OperatorList(c, owner, ops)>>)
    /\ UNCHANGED <<present, operators, outbox>> /\ KeepPlugin

SetMode(c) ==
    /\ Change
    /\ \E mode \in Modes \ {rooms[c].mode} :
           /\ rooms' = [rooms EXCEPT ![c].mode = mode]
           /\ Tell(c, <<[type |-> "RMO", chan |-> c, mode |-> mode]>>)
    /\ UNCHANGED <<present, operators, outbox>> /\ KeepPlugin

Describe(c) ==
    /\ Change
    /\ Tell(c, <<[type |-> "CDS", chan |-> c]>>)
    /\ UNCHANGED <<server, outbox>> /\ KeepPlugin

Welcome(c) ==
    << [type |-> "JCH", chan |-> c, who |-> Me],
       OperatorList(c, rooms[c].owner, rooms[c].ops),
       [type |-> "ICH", chan |-> c, users |-> rooms[c].users \cup {Me},
        mode |-> rooms[c].mode],
       [type |-> "CDS", chan |-> c] >>

\* A request to join is accepted, or refused with an ERR; so is one for a
\* channel we are in.
ServeJoin ==
    /\ outbox # <<>> /\ Head(outbox).type = "JCH"
    /\ outbox' = Tail(outbox)
    /\ LET c == Head(outbox).chan
       IN  \/ /\ Me \notin rooms[c].users
              /\ rooms' = [rooms EXCEPT ![c].users = @ \cup {Me}]
              /\ Send(Welcome(c))
           \/ UNCHANGED <<rooms, inbox>>
    /\ UNCHANGED <<present, operators, changes>> /\ KeepPlugin

\* Whoever leaves is told so, too.
ServeLeave ==
    /\ outbox # <<>> /\ Head(outbox).type = "LCH"
    /\ outbox' = Tail(outbox)
    /\ LET c == Head(outbox).chan
       IN  /\ rooms' = [rooms EXCEPT ![c].users = @ \ {Me}]
           /\ Tell(c, <<[type |-> "LCH", chan |-> c, who |-> Me]>>)
    /\ UNCHANGED <<present, operators, changes>> /\ KeepPlugin

----------------------------------------------------------------------------
(* Sessions.                                                                *)

\* flist_login, up to the point where the server starts to tell what it knows
Login ==
    /\ phase = "off" /\ sessions < MaxSessions
    /\ phase' = "login"
    /\ sessions' = sessions + 1
    /\ present' = [present EXCEPT ![Me] = "online"]
    /\ inbox' = << [type |-> "ADL", ops |-> operators],
                   [type |-> "LIS", status |-> present],
                   [type |-> "NLN", who |-> Me] >>
    /\ UNCHANGED <<presence, globals, chats, recent, windows, lines, operators, rooms,
                   outbox, changes, clicks>>

\* flist_close and flist_channel_subsystem_unload; what was on its way is lost.
EndSession ==
    /\ phase # "off"
    /\ phase' = "off"
    /\ all_characters' = [n \in Names |-> "offline"]
    /\ character_count' = 0
    /\ global_ops' = {} /\ freed' = {} /\ lost' = {}
    /\ chat_table' = {}
    /\ channel' = [c \in Channel |-> NotJoined]
    /\ described' = {} /\ recent' = {}
    /\ outbox' = <<>> /\ inbox' = <<>>
    /\ room' = [c \in Channel |-> {}]
    /\ rank' = [c \in Channel |-> [n \in Names |-> {}]]
    /\ line' = [c \in Channel |-> Unsaid]
    /\ present' = [present EXCEPT ![Me] = "offline"]
    /\ rooms' = Without(Me)
    /\ UNCHANGED <<blist, operators, changes, clicks, sessions>>

\* libpurple marks the chats of a lost connection as left.
Disconnect ==
    /\ EndSession
    /\ convo' = [c \in Channel |-> IF convo[c] = "open" THEN "left" ELSE convo[c]]
    /\ unshown' = unshown

\* The process ends: only the buddy list is kept.
Crash ==
    /\ EndSession
    /\ convo' = [c \in Channel |-> "none"]
    /\ unshown' = {}

----------------------------------------------------------------------------
Init ==
    /\ phase = "off"
    /\ all_characters = [n \in Names |-> "offline"]
    /\ character_count = 0
    /\ global_ops = {} /\ freed = {} /\ lost = {}
    /\ chat_table = {}
    /\ channel = [c \in Channel |-> NotJoined]
    /\ described = {} /\ recent = {}
    /\ convo = [c \in Channel |-> "none"]
    /\ room = [c \in Channel |-> {}]
    /\ rank = [c \in Channel |-> [n \in Names |-> {}]]
    /\ unshown = {}
    /\ line = [c \in Channel |-> Unsaid]
    /\ blist = [c \in Channel |-> NotListed]
    /\ present = [n \in Names |-> IF n = Me THEN "offline" ELSE "online"]
    /\ operators = {}
    /\ rooms \in [Channel -> {NewRoom(who) : who \in SUBSET (Names \ {Me})}]
    /\ outbox = <<>> /\ inbox = <<>>
    /\ changes = 0 /\ clicks = 0 /\ sessions = 0

Process ==
    \/ ProcessLIS \/ ProcessADL
    \/ \E n \in Names : \/ ProcessNLN(n) \/ ProcessSTA(n) \/ ProcessFLN(n)
                        \/ ProcessAOP(n) \/ ProcessDOP(n)
    \/ \E c \in Channel : \/ ProcessOwnJCH(c) \/ ProcessOwnLCH(c)
                          \/ ProcessCOL(c) \/ ProcessICH(c) \/ ProcessCDS(c)
                          \/ ProcessRMO(c)
                          \/ \E n \in Names : ProcessJCH(c, n) \/ ProcessLCH(c, n)

Serve == ServeJoin \/ ServeLeave

User ==
    \E c \in Channel :
        \/ JoinChannel(c) \/ CloseWindow(c) \/ KeepChat(c)
        \/ \E w \in Shows : Hide(c, w) \/ Show(c, w)

Others ==
    \/ \E n \in Names : Arrive(n) \/ Restate(n) \/ Depart(n) \/ Promote(n) \/ Demote(n)
    \/ Reappoint
    \/ \E c \in Channel :
           \/ Appoint(c) \/ SetMode(c) \/ Describe(c)
           \/ \E n \in Names : Enter(n, c) \/ \E how \in Departures : Remove(n, c, how)

Next ==
    \/ Process \/ Serve \/ User \/ Others
    \/ \E c \in Channel : Elapse(c)
    \/ \E n \in Names : Overwrite(n)
    \/ Login \/ Disconnect \/ Crash

Spec == Init /\ [][Next]_vars

\* The connection delivers what is sent, and the server answers.
FairSpec == Spec /\ WF_vars(Process) /\ WF_vars(Serve)

----------------------------------------------------------------------------
Request == [type : {"JCH", "LCH"}, chan : Channel]

Message ==
         [type : {"NLN", "FLN", "AOP", "DOP"}, who : Names]
    \cup [type : {"LIS"}, status : [Names -> Statuses]]
    \cup [type : {"STA"}, who : Names, status : Statuses]
    \cup [type : {"ADL"}, ops : SUBSET Names]
    \cup [type : {"JCH"} \cup Departures, chan : Channel, who : Names]
    \cup [type : {"COL"}, chan : Channel, owner : Names \cup {NoOwner}, ops : SUBSET Names]
    \cup [type : {"ICH"}, chan : Channel, users : SUBSET Names, mode : Modes]
    \cup [type : {"CDS"}, chan : Channel]
    \cup [type : {"RMO"}, chan : Channel, mode : Modes]

\* What the plugin keeps ...
PluginOK ==
    /\ phase \in {"off", "login", "online"}
    /\ all_characters \in [Names -> Statuses]
    /\ character_count \in 0 .. CountRange - 1
    /\ global_ops \subseteq Names
    /\ freed \subseteq global_ops
    /\ lost \subseteq Names
    /\ chat_table \subseteq Channel
    /\ channel \in [Channel -> Room]
    /\ described \subseteq Channel
    /\ recent \subseteq Channel

\* ... what libpurple does ...
WindowsOK ==
    /\ convo \in [Channel -> {"none", "open", "left"}]
    /\ room \in [Channel -> SUBSET Names]
    /\ rank \in [Channel -> [Names -> SUBSET Ranks]]
    /\ unshown \subseteq Channel
    /\ line \in [Channel -> Said]
    /\ blist \in [Channel -> Listing]

\* ... and the server, the connection and the bounds.
ServerOK ==
    /\ present \in [Names -> Statuses]
    /\ operators \subseteq Names
    /\ rooms \in [Channel -> Room]
    /\ outbox \in Seq(Request)
    /\ inbox \in Seq(Message)
    /\ changes \in 0 .. MaxChanges
    /\ clicks \in 0 .. MaxClicks
    /\ sessions \in 0 .. MaxSessions

\* Every table, window and message has the form the code gives it; in
\* particular a channel has a mode from the moment it is joined.
TypeOK == PluginOK /\ WindowsOK /\ ServerOK

\* There is an entry in chat_table exactly while libpurple has us in the chat:
\* flist_update_user_chats_rank writes to the window of every entry without
\* looking whether there is one, and nothing reaches an open window without
\* its entry.
ChatsMatch == \A c \in Channel : c \in chat_table <=> convo[c] = "open"

\* The window lists the users of the channel's table, however they came and
\* went (JCH, ICH, LCH, kicks, FLN).
RosterShown == \A c \in chat_table : room[c] = channel[c].users

\* The flags libpurple keeps of a user are those that its owner, operators and
\* status imply now: no change of any of them forgets a user it concerns.  An
\* operator whose key has been overwritten is beyond the code's reach.
RanksShown ==
    \A c \in chat_table : \A n \in channel[c].users \ lost : rank[c][n] = Flags(c, n)

\* Once nothing is on its way, the plugin knows what the server knows: who is
\* online, who is a global operator, which channels we are in, who is there,
\* who runs them and in which mode.
AgreesWhenQuiet ==
    phase = "online" /\ inbox = <<>> /\ outbox = <<>> =>
        /\ all_characters = present
        /\ global_ops \ lost = operators \ lost
        /\ chat_table = {c \in Channel : Me \in rooms[c].users}
        /\ \A c \in chat_table : channel[c] = rooms[c]

\* What the window last said of the channel's mode is still so (the comment of
\* flist_got_channel_mode only allows for the time until the description).
LineIsCurrent == \A c \in chat_table \ unshown : line[c] = Line(c)

\* "We want the channel mode to appear below the description when joining a
\* channel but the server sends mode before description"
\* (flist_got_channel_mode): no message shows the mode before it.
DescriptionFirst ==
    [][\A c \in Channel :
           line'[c] \notin {line[c], Unsaid} /\ clicks' = clicks => c \in described']_vars

\* "don't double-join the channel, we don't want the error message"
\* (flist_join_channel): the server is never asked for a channel we are in.
NoDoubleJoin ==
    outbox # <<>> /\ Head(outbox).type = "JCH" => Me \notin rooms[Head(outbox).chan].users

\* Nobody is left in a channel whose window is closed: a channel the server
\* has us in and we do not show is shown or left in the end.
NoGhosts ==
    \A c \in Channel :
        Me \in rooms[c].users /\ convo[c] = "none" ~> Me \notin rooms[c].users \/ convo[c] # "none"

\* global_ops is a "hash table of global operators" (struct FListAccount_): when
\* nothing is on its way, those whom the server made operators are in it.
OperatorsAreFound ==
    phase = "online" /\ inbox = <<>> => operators \subseteq global_ops
=============================================================================
