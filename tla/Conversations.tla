--------------------------- MODULE Conversations ---------------------------
(* Conversations: what is written to their windows and sent from them
   (f-list_callbacks.c, f-list_commands.c), the ignore list that decides what is
   not (f-list_ignore.c), and the temporary buddies that give a private
   conversation its place in the buddy list (f-list_autobuddy.c).

   A message is its author and its length; lines and sent are what the last step
   wrote and sent.  Whether a channel shows chat or ads, and who may warn in it,
   is module Channels' affair, and any answer is possible here.  The chat
   server keeps the real ignore list.                                        *)
EXTENDS Naturals, Sequences, FiniteSets, SequencesExt

CONSTANTS
    Names,          \* other characters
    Me,             \* our own
    GLOBAL_NAME,    \* whom the notices of the server are from
    Room,           \* the channel
    Nowhere,        \* no conversation remembered
    Notices,        \* account option receive_notifications
    Told,           \* the limits the server tells of
    MaxRequests,    \* bound: commands to the server, per run
    MaxSessions     \* bound: logins

ASSUME ConversationsAssumption ==
    /\ {Me, GLOBAL_NAME} \cap Names = {}
    /\ Me # GLOBAL_NAME
    /\ Notices \in BOOLEAN
    /\ Told \subseteq {"chat", "priv", "lfrp"}
    /\ {MaxRequests, MaxSessions} \subseteq Nat

VARIABLES
    \* FListAccount
    live,           \* whether there is one
    ignore_list,
    max,            \* chat_max, priv_max and lfrp_max: 0 until VAR tells them
    saved,          \* saved_type and saved_name: where answers are written
    \* libpurple
    windows,        \* the conversations there are
    group,          \* the group of each buddy, "none" if there is no buddy
    \* the chat server
    ignored,        \* whom we ignore
    requests,       \* IGN messages to it
    inbox,          \* IGN messages from it
    asked,          \* UPT and KIN messages it has not answered, with who asked
    \* observations and bounds
    lines, sent, made, sessions

vars == <<live, ignore_list, max, saved, windows, group, ignored, requests, inbox,
          asked, lines, sent, made, sessions>>

account == <<live, ignore_list, max, saved>>
blist   == <<windows, group>>
server  == <<ignored, requests, inbox, asked>>
bounds  == <<made, sessions>>

Im(name) == [type |-> "im", name |-> name]
Chat     == [type |-> "chat", name |-> Room]
People   == Names \cup {GLOBAL_NAME}
Convos   == {Im(name) : name \in People} \cup {Chat}
Lengths  == {1, 2}
Limit    == 1       \* the limit the server tells of, if it does
Variables == {"chat", "priv", "lfrp"}

\* The two temporary groups, of private conversations and of searches, and any
\* other ("kept").  "moved" is the former too, where the user has put a buddy.
ImGroup  == {"im", "moved"}
Groups   == ImGroup \cup {"none", "filter", "kept"}

Line(convo, author, kind) == [convo |-> convo, author |-> author, kind |-> kind]
Kinds == {"say", "ad", "roll", "typing", "warning", "system", "answer"}

\* flist_ignore_character_is_ignored
IsIgnored(name) == \E i \in DOMAIN ignore_list : ignore_list[i] = name

Quiet  == lines' = {} /\ sent' = {}
Silent == sent' = {}

----------------------------------------------------------------------------
(* Windows and their buddies.                                               *)

\* flist_conversation_created_cb and flist_temp_im_check, of a private
\* conversation
Checked(name, g) == IF g[name] = "none" THEN [g EXCEPT ![name] = "im"] ELSE g

\* purple_conversation_new, of a conversation that may be there already
Opened(name) ==
    /\ windows' = windows \cup {Im(name)}
    /\ group' = IF Im(name) \in windows THEN group ELSE Checked(name, group)

\* flist_priv_cmd, or a click on a buddy
OpenIm(name) ==
    /\ live
    /\ Im(name) \notin windows
    /\ Opened(name)
    /\ Quiet
    /\ UNCHANGED <<account, server, bounds>>

\* flist_convo_closed
Removed(name) == IF group[name] \in ImGroup THEN [group EXCEPT ![name] = "none"] ELSE group

\* Without a connection libpurple does not tell the plugin.
CloseIm(name) ==
    /\ Im(name) \in windows
    /\ windows' = windows \ {Im(name)}
    /\ group' = IF live THEN Removed(name) ELSE group
    /\ Quiet
    /\ UNCHANGED <<account, server, bounds>>

\* The window of the channel comes and goes with module Channels.
ToggleChat ==
    /\ windows' = (windows \ {Chat}) \cup ({Chat} \ windows)
    /\ Quiet
    /\ UNCHANGED <<account, group, server, bounds>>

\* flist_apply_filter, when a search has found characters
ApplyFilter(found) ==
    /\ live
    /\ group' = [name \in People |->
                   CASE group[name] = "filter" /\ name \notin found -> "none"
                     [] group[name] = "none" /\ name \in found -> "filter"
                     [] OTHER -> group[name]]
    /\ Quiet
    /\ UNCHANGED <<account, windows, server, bounds>>

\* The synchronisation of friends and bookmarks (flist_friends_add_buddies) adds
\* buddies that are in no group, removes those of its own, and leaves the
\* temporary groups alone; the user adds, moves and removes any buddy.
Rearrange(name, to) ==
    /\ group' = [group EXCEPT ![name] = to]
    /\ Quiet
    /\ UNCHANGED <<account, windows, server, bounds>>

----------------------------------------------------------------------------
(* Sessions.                                                                *)

\* slip: the groups are not looked at
NotCleared == group

\* flist_clear_temp_groups
Cleared == [name \in People |->
              IF group[name] \in ImGroup \cup {"filter"} /\ Im(name) \notin windows
              THEN "none" ELSE group[name]]

\* flist_login; the server sends the ignore list when it has identified us.
Login ==
    /\ ~live
    /\ sessions < MaxSessions
    /\ sessions' = sessions + 1
    /\ live' = TRUE
    /\ ignore_list' = <<>>
    /\ max' = [v \in Variables |-> 0]
    /\ saved' = Nowhere
    /\ group' = Cleared
    /\ inbox' = <<[action |-> "init", characters |-> ignored]>>
    /\ Quiet
    /\ UNCHANGED <<windows, ignored, requests, asked, made>>

\* flist_login with a server URL that cannot be parsed, and the flist_close that it
\* has scheduled: the groups are not looked at.
LoginRefused ==
    /\ ~live
    /\ sessions < MaxSessions
    /\ sessions' = sessions + 1
    /\ Quiet
    /\ UNCHANGED <<account, blist, server, made>>

\* flist_close
Close ==
    /\ live
    /\ live' = FALSE
    /\ ignore_list' = <<>>
    /\ saved' = Nowhere
    /\ requests' = <<>>
    /\ inbox' = <<>>
    /\ asked' = <<>>
    /\ Quiet
    /\ UNCHANGED <<max, blist, ignored, bounds>>

----------------------------------------------------------------------------
(* The ignore list.                                                         *)

\* flist_ignore_list_request_add and _remove
RequestIgnore(action, name) ==
    /\ live
    /\ made < MaxRequests
    /\ made' = made + 1
    /\ requests' = Append(requests, [action |-> action, characters |-> {name}])
    /\ Quiet
    /\ UNCHANGED <<account, blist, ignored, inbox, asked, sessions>>

\* flist_ignore_cmd
IgnoreCommand(action, name) == RequestIgnore(action, name)

\* flist_blist_node_ignore_action: the menu of a buddy offers what the list lacks.
IgnoreMenuItem(name) == RequestIgnore(IF IsIgnored(name) THEN "delete" ELSE "add", name)

\* The server answers what changes its list.
ServeIgnore ==
    /\ requests # <<>>
    /\ requests' = Tail(requests)
    /\ LET request == Head(requests)
           changed == IF request.action = "add" THEN ignored \cup request.characters
                                                ELSE ignored \ request.characters
       IN  /\ ignored' = changed
           /\ inbox' = IF changed = ignored THEN inbox ELSE Append(inbox, request)
    /\ Quiet
    /\ UNCHANGED <<account, blist, asked, bounds>>

InitReplaces(names) == SetToSeq(names)

\* slip: the head of the list is not looked at
DeleteBehindHead(name) ==
    IF \E i \in DOMAIN ignore_list \ {1} : ignore_list[i] = name
    THEN Front(ignore_list) ELSE ignore_list

DeleteFirst(name) ==
    IF IsIgnored(name)
    THEN LET i == CHOOSE i \in DOMAIN ignore_list :
                    /\ ignore_list[i] = name
                    /\ \A j \in 1..(i - 1) : ignore_list[j] # name
         IN  RemoveAt(ignore_list, i)
    ELSE ignore_list

\* flist_process_IGN; "list" only shows what it lists.
ProcessIGN ==
    /\ inbox # <<>>
    /\ inbox' = Tail(inbox)
    /\ LET names == Head(inbox).characters
       IN  ignore_list' = CASE Head(inbox).action = "init" -> InitReplaces(names)
                            [] Head(inbox).action = "add" -> ignore_list \o SetToSeq(names)
                            [] Head(inbox).action = "delete" ->
                                 DeleteFirst(CHOOSE name \in names : TRUE)
    /\ Quiet
    /\ UNCHANGED <<live, max, saved, blist, ignored, requests, asked, bounds>>

----------------------------------------------------------------------------
(* Messages from the server.                                                *)

Arrives(written) ==
    /\ live
    /\ lines' = written
    /\ Silent
    /\ UNCHANGED <<account, server, bounds>>

\* serv_got_im and flist_process_receiving_im: the conversation is made if needed.
GotIm(name, author, kind) ==
    /\ Opened(name)
    /\ Arrives({Line(Im(name), author, kind)})

NothingShown == UNCHANGED blist /\ Arrives({})

\* flist_process_PRI
ProcessPRI(name) == IF IsIgnored(name) THEN NothingShown ELSE GotIm(name, name, "say")

\* flist_process_TPN; typing is shown in a conversation that is there.
ProcessTPN(name) ==
    /\ UNCHANGED blist
    /\ Arrives(IF IsIgnored(name) \/ Im(name) \notin windows THEN {}
               ELSE {Line(Im(name), name, "typing")})

\* slip: a roll goes to the window of its recipient
RollRecipient(from, to) == IF to = Me THEN GLOBAL_NAME ELSE to

\* The other one of the two.
RollWindow(from, to) == IF to = Me THEN from ELSE to

\* flist_process_RLL, of a private conversation: a roll of ours or of the other's
ProcessPrivateRLL(from, to) ==
    IF IsIgnored(from) THEN NothingShown
    ELSE GotIm(RollWindow(from, to), from, "roll")

InChat(shown, author, kind) ==
    /\ UNCHANGED blist
    /\ Arrives(IF Chat \in windows /\ shown THEN {Line(Chat, author, kind)} ELSE {})

\* flist_process_RLL, of a channel
ProcessRLL(name, show) == InChat(show /\ ~IsIgnored(name), name, "roll")

Warns(warns, operator) == warns /\ operator

\* flist_process_MSG: the warning of an operator is shown whatever is hidden and
\* whoever is ignored.
ProcessMSG(name, show, warns, operator) ==
    IF Warns(warns, operator)
    THEN InChat(TRUE, name, IF operator THEN "warning" ELSE "say")
    ELSE InChat(show /\ ~IsIgnored(name), name, "say")

\* flist_process_LRP
ProcessLRP(name, show) == InChat(show /\ ~IsIgnored(name), name, "ad")

\* flist_process_BRO
ProcessBRO == IF Notices THEN GotIm(GLOBAL_NAME, GLOBAL_NAME, "say") ELSE NothingShown

\* flist_process_SYS: about a channel, about a character, or neither
ProcessChannelSYS  == InChat(TRUE, GLOBAL_NAME, "system")
ProcessSYS(sender) == GotIm(sender, sender, "system")

\* flist_process_VAR, of the three limits
ProcessVAR(variable) ==
    /\ live
    /\ max' = [max EXCEPT ![variable] = Limit]
    /\ Quiet
    /\ UNCHANGED <<live, ignore_list, saved, blist, server, bounds>>

----------------------------------------------------------------------------
(* Sending.                                                                 *)

\* A limit that is not known is none.
TooLong(variable, length) == max[variable] > 0 /\ length > max[variable]

\* slip: what is too long is shown all the same
EchoAlways(name, length) == {Line(Im(name), Me, "say")}

\* flist_process_sending_im writes the message to its window ...
Echo(name, length) == IF TooLong("priv", length) THEN {} ELSE {Line(Im(name), Me, "say")}

\* ... and flist_send_message, called next, sends it, unless it is for somebody we
\* ignore.
SendIm(name, length) ==
    /\ live
    /\ Im(name) \in windows
    /\ lines' = Echo(name, length)
    /\ sent' = IF IsIgnored(name) \/ TooLong("priv", length) THEN {}
               ELSE {[kind |-> "PRI", to |-> Im(name)]}
    /\ UNCHANGED <<account, blist, server, bounds>>

\* flist_send_channel_message_real, of a message or an ad
SendChat(ad, length) ==
    /\ live
    /\ Chat \in windows
    /\ IF TooLong(IF ad THEN "lfrp" ELSE "chat", length) THEN Quiet
       ELSE /\ lines' = {Line(Chat, Me, IF ad THEN "ad" ELSE "say")}
            /\ sent' = {[kind |-> IF ad THEN "LRP" ELSE "MSG", to |-> Chat]}
    /\ UNCHANGED <<account, blist, server, bounds>>

\* flist_channel_warning, for operators; its length is not looked at.
SendWarning(operator, length) ==
    /\ live
    /\ Chat \in windows
    /\ IF operator
       THEN /\ lines' = {Line(Chat, Me, "warning")}
            /\ sent' = {[kind |-> "MSG", to |-> Chat]}
       ELSE Quiet
    /\ UNCHANGED <<account, blist, server, bounds>>

\* flist_send_typing, flist_roll_dice and flist_roll_bottle
SendSign(kind, convo) ==
    /\ live
    /\ convo \in windows
    /\ kind = "TPN" => convo # Chat /\ ~IsIgnored(convo.name)
    /\ lines' = {}
    /\ sent' = {[kind |-> kind, to |-> convo]}
    /\ UNCHANGED <<account, blist, server, bounds>>

----------------------------------------------------------------------------
(* Asking for the uptime of the server or the kinks of a character: the answer
   is written to the conversation it was asked for in.  It does not say what it
   answers.                                                                 *)

\* flist_remember_conversation, of flist_uptime_cmd and flist_kinks_cmd
Ask(what, convo) ==
    /\ live
    /\ made < MaxRequests
    /\ made' = made + 1
    /\ convo \in windows
    /\ saved' = convo
    /\ asked' = Append(asked, [what |-> what, convo |-> convo])
    /\ Quiet
    /\ UNCHANGED <<live, ignore_list, max, blist, ignored, requests, inbox, sessions>>

\* flist_process_UPT; flist_process_KID, which comes several times, and is over
\* with the last (flist_recall_conversation).
Answer(last) ==
    /\ asked # <<>>
    /\ ~last => Head(asked).what = "kinks"
    /\ asked' = IF last THEN Tail(asked) ELSE asked
    /\ lines' = IF saved \in windows THEN {Line(saved, GLOBAL_NAME, "answer")} ELSE {}
    /\ Silent
    /\ UNCHANGED <<account, blist, ignored, requests, inbox, bounds>>

----------------------------------------------------------------------------
Init ==
    /\ live = FALSE
    /\ ignore_list = <<>>
    /\ max = [v \in Variables |-> 0]
    /\ saved = Nowhere
    /\ windows = {}
    /\ group = [name \in People |-> "none"]
    /\ ignored \in SUBSET Names /\ IsFiniteSet(ignored)     \* a JSON array of names
    /\ requests = <<>>
    /\ inbox = <<>>
    /\ asked = <<>>
    /\ lines = {}
    /\ sent = {}
    /\ made = 0
    /\ sessions = 0

Windowing ==
    \/ \E name \in People : OpenIm(name) \/ CloseIm(name)
    \/ ToggleChat
    \/ \E found \in SUBSET Names : ApplyFilter(found)
    \/ \E name \in Names, to \in Groups \ {"im"} : Rearrange(name, to)

Ignoring ==
    \/ \E name \in Names, action \in {"add", "delete"} : IgnoreCommand(action, name)
    \/ \E name \in Names : IgnoreMenuItem(name)
    \/ ServeIgnore
    \/ ProcessIGN

Receiving ==
    \/ \E name \in Names : ProcessPRI(name) \/ ProcessTPN(name) \/ ProcessSYS(name)
    \/ \E name \in Names : ProcessPrivateRLL(name, Me) \/ ProcessPrivateRLL(Me, name)
    \/ \E name \in Names, show \in BOOLEAN : ProcessRLL(name, show) \/ ProcessLRP(name, show)
    \/ \E name \in Names, show, warns, operator \in BOOLEAN :
         ProcessMSG(name, show, warns, operator)
    \/ ProcessBRO \/ ProcessChannelSYS \/ ProcessSYS(GLOBAL_NAME)
    \/ \E variable \in Told : ProcessVAR(variable)

Sending ==
    \/ \E name \in People, length \in Lengths : SendIm(name, length)
    \/ \E ad \in BOOLEAN, length \in Lengths : SendChat(ad, length)
    \/ \E operator \in BOOLEAN, length \in Lengths : SendWarning(operator, length)
    \/ \E kind \in {"TPN", "RLL"}, convo \in Convos : SendSign(kind, convo)
    \/ \E what \in {"uptime", "kinks"}, convo \in Convos : Ask(what, convo)
    \/ \E last \in BOOLEAN : Answer(last)

Next == Login \/ LoginRefused \/ Close \/ Windowing \/ Ignoring \/ Receiving \/ Sending

Spec == Init /\ [][Next]_vars

----------------------------------------------------------------------------
\* Types of the variables.
Requests == [action : {"init", "add", "delete"}, characters : SUBSET Names]

TypeOK ==
    /\ live \in BOOLEAN
    /\ ignore_list \in Seq(Names)
    /\ max \in [Variables -> {0, Limit}]
    /\ saved # Nowhere => saved \in Convos
    /\ windows \subseteq Convos
    /\ group \in [People -> Groups]
    /\ ignored \subseteq Names
    /\ requests \in Seq(Requests)
    /\ inbox \in Seq(Requests)
    /\ asked \in Seq([what : {"uptime", "kinks"}, convo : Convos])
    /\ lines \subseteq [convo : Convos, author : People \cup {Me}, kind : Kinds]
    /\ sent \subseteq [kind : {"PRI", "MSG", "LRP", "TPN", "RLL"}, to : Convos]
    /\ made \in 0..MaxRequests
    /\ sessions \in 0..MaxSessions

\* Every buddy that the plugin has put in the temporary group has a window: those
\* whose window is closed leave the list, at the next login if it was closed
\* without a connection, and those who are in another group stay.  Whom the user
\* puts there needs none, until the next login (flist_convo_closed, flist_temp_im_check,
\* flist_clear_temp_groups).
TemporaryBuddiesHaveWindows ==
    TypeOK /\ (live => \A name \in People : group[name] = "im" => Im(name) \in windows)

\* Once the server has answered, the copy of the ignore list names whom the server
\* ignores for us, and everybody once (flist_process_IGN).
IgnoreListAgrees ==
    live /\ requests = <<>> /\ inbox = <<>> =>
        /\ ToSet(ignore_list) = ignored
        /\ IsInjective(ignore_list)

\* Nobody we ignore gets a word in, in any window, by any message, but for
\* operators who warn and the notices of the server; and a window shows what
\* belongs to it: a private conversation has words of the other and of ours, and
\* answers to our commands.
LinesBelong ==
    \A line \in lines :
        /\ IsIgnored(line.author) => line.kind \in {"warning", "system"}
        /\ line.convo \in windows
        /\ line.convo # Chat /\ line.kind # "answer" =>
              line.author \in {line.convo.name, Me}

\* The window shows as said what has been sent, and nothing else, though one
\* handler writes and another sends: but for messages to somebody we ignore,
\* which are written and not sent.
EchoedIffSent ==
    \A name \in People : ~IsIgnored(name) =>
        (Line(Im(name), Me, "say") \in lines <=>
           \E message \in sent : message.kind = "PRI" /\ message.to = Im(name))
=============================================================================
