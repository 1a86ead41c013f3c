--------------------------- MODULE ChannelsProofs ---------------------------
(* The safety properties of Channels that hold for every value of its
   constants: its types, and that what libpurple shows of a channel is what
   the plugin's tables imply.                                               *)
EXTENDS Channels, SequenceTheorems, TLAPS

----------------------------------------------------------------------------
(* Types.                                                                   *)

\* What a message carries is of the type its name calls for.
LEMMA Payload ==
    ASSUME NEW m \in Message
    PROVE  /\ m.type = "LIS" => m.status \in [Names -> Statuses]
           /\ m.type = "STA" => m.status \in Statuses
           /\ m.type = "ADL" => m.ops \subseteq Names
           /\ m.type = "COL" => m.owner \in Names \cup {NoOwner} /\ m.ops \subseteq Names
           /\ m.type = "ICH" => m.users \subseteq Names /\ m.mode \in Modes
           /\ m.type = "RMO" => m.mode \in Modes
<1>1. CASE m \in [type : {"NLN", "FLN", "AOP", "DOP"}, who : Names]
  BY <1>1
<1>2. CASE m \in [type : {"LIS"}, status : [Names -> Statuses]]
  BY <1>2
<1>3. CASE m \in [type : {"STA"}, who : Names, status : Statuses]
  BY <1>3
<1>4. CASE m \in [type : {"ADL"}, ops : SUBSET Names]
  BY <1>4
<1>5. CASE m \in [type : {"JCH"} \cup Departures, chan : Channel, who : Names]
  BY <1>5 DEF Departures
<1>6. CASE m \in [type : {"COL"}, chan : Channel, owner : Names \cup {NoOwner}, ops : SUBSET Names]
  BY <1>6
<1>7. CASE m \in [type : {"ICH"}, chan : Channel, users : SUBSET Names, mode : Modes]
  BY <1>7
<1>8. CASE m \in [type : {"CDS"}, chan : Channel]
  BY <1>8
<1>9. CASE m \in [type : {"RMO"}, chan : Channel, mode : Modes]
  BY <1>9
<1> QED
  BY <1>1, <1>2, <1>3, <1>4, <1>5, <1>6, <1>7, <1>8, <1>9 DEF Message

\* A message that is received is one, and leaves a queue of messages.
LEMMA Received ==
    ASSUME ServerOK, NEW type, Receive(type)
    PROVE  /\ Head(inbox) \in Message
           /\ inbox' \in Seq(Message)
           /\ Len(inbox) \in Nat \ {0}
           /\ Head(inbox) = inbox[1]
           /\ Len(inbox') = Len(inbox) - 1
           /\ \A i \in 1 .. Len(inbox') : inbox'[i] = inbox[i + 1]
  BY DEF ServerOK, Receive

\* Flags are ranks.
LEMMA FlagsAreRanks == \A c, n : Flags(c, n) \subseteq Ranks /\ Flags(c, n)' \subseteq Ranks
  BY DEF Flags

LEMMA NotJoinedIsRoom == NotJoined \in Room /\ Fresh \in Room
  BY DEF NotJoined, NewRoom, Fresh, Room, Modes

\* The channels keep the form of Room when one of them is changed.
LEMMA RoomChanged ==
    ASSUME NEW f \in [Channel -> Room], NEW c \in Channel
    PROVE  /\ f[c] \in Room
           /\ \A us \in SUBSET Names : [f EXCEPT ![c].users = us] \in [Channel -> Room]
           /\ \A m \in Modes : [f EXCEPT ![c].mode = m] \in [Channel -> Room]
           /\ \A o \in Names \cup {NoOwner} : \A ops \in SUBSET Names :
                  [f EXCEPT ![c].owner = o, ![c].ops = ops] \in [Channel -> Room]
           /\ \A us \in SUBSET Names : \A m \in Modes :
                  [f EXCEPT ![c].mode = m, ![c].users = us] \in [Channel -> Room]
  BY DEF Room

\* Ranks stay ranks, and rosters sets of names, under libpurple's operations.
LEMMA UpdateRanksType ==
    ASSUME WindowsOK, NEW who, UpdateRanks(who)
    PROVE  rank' \in [Channel -> [Names -> SUBSET Ranks]]
  BY FlagsAreRanks DEF WindowsOK, UpdateRanks

LEMMA AddToRoomType ==
    ASSUME WindowsOK, NEW c \in Channel, NEW who \in SUBSET Names, AddToRoom(c, who)
    PROVE  /\ room' \in [Channel -> SUBSET Names]
           /\ rank' \in [Channel -> [Names -> SUBSET Ranks]]
  BY FlagsAreRanks DEF WindowsOK, AddToRoom

LEMMA RemoveFromRoomsType ==
    ASSUME WindowsOK, NEW n, NEW cs, RemoveFromRooms(n, cs)
    PROVE  /\ room' \in [Channel -> SUBSET Names]
           /\ rank' \in [Channel -> [Names -> SUBSET Ranks]]
  BY DEF WindowsOK, RemoveFromRooms

LEMMA LineTypes ==
    ASSUME WindowsOK, NEW c \in Channel
    PROVE  /\ ShowMode(c) => line' \in [Channel -> Said]
           /\ TellMode(c) => line' \in [Channel -> Said]
           /\ [line EXCEPT ![c] = Unsaid] \in [Channel -> Said]
           /\ InList(c) \in [Channel -> Listing]
           /\ NotListed \in Listing
<1>1. Line(c)' \in Said /\ Unsaid \in Said
  BY DEF Line, Said, Unsaid
<1>2. ShowMode(c) => line' \in [Channel -> Said]
  BY <1>1 DEF WindowsOK, ShowMode
<1>3. TellMode(c) => line' \in [Channel -> Said]
  BY <1>2 DEF WindowsOK, TellMode
<1>4. [line EXCEPT ![c] = Unsaid] \in [Channel -> Said]
  BY <1>1 DEF WindowsOK
<1>5. InList(c) \in [Channel -> Listing]
  <2>1. \A p \in {"nowhere", "temporary", "own group"} :
            [blist EXCEPT ![c].place = p] \in [Channel -> Listing]
    BY DEF WindowsOK, Listing
  <2> QED
    BY <2>1 DEF WindowsOK, InList
<1>6. NotListed \in Listing
  BY DEF NotListed, Listing
<1> QED
  BY <1>2, <1>3, <1>4, <1>5, <1>6

LEMMA LeaveTypes ==
    ASSUME PluginOK, WindowsOK, NEW c \in Channel
    PROVE  /\ GotChannelLeft(c) => /\ chat_table' \subseteq Channel
                                   /\ channel' \in [Channel -> Room]
                                   /\ described' \subseteq Channel
                                   /\ blist' \in [Channel -> Listing]
           /\ \A to \in {"none", "left"} : LeaveWindow(c, to) =>
                  /\ convo' \in [Channel -> {"none", "open", "left"}]
                  /\ room' \in [Channel -> SUBSET Names]
                  /\ rank' \in [Channel -> [Names -> SUBSET Ranks]]
                  /\ line' \in [Channel -> Said]
<1>1. ASSUME GotChannelLeft(c)
      PROVE  /\ chat_table' \subseteq Channel
             /\ channel' \in [Channel -> Room]
             /\ described' \subseteq Channel
  BY <1>1, NotJoinedIsRoom DEF PluginOK, GotChannelLeft
<1>2. ASSUME GotChannelLeft(c)
      PROVE  blist' \in [Channel -> Listing]
  BY <1>2, LineTypes DEF WindowsOK, GotChannelLeft
<1>3. ASSUME NEW to \in {"none", "left"}, LeaveWindow(c, to)
      PROVE  /\ convo' \in [Channel -> {"none", "open", "left"}]
             /\ room' \in [Channel -> SUBSET Names]
             /\ rank' \in [Channel -> [Names -> SUBSET Ranks]]
  BY <1>3 DEF WindowsOK, LeaveWindow
<1>4. ASSUME NEW to \in {"none", "left"}, LeaveWindow(c, to)
      PROVE  line' \in [Channel -> Said]
  BY <1>4, LineTypes DEF LeaveWindow
<1> QED
  BY <1>1, <1>2, <1>3, <1>4

\* Handling a message keeps the types.
LEMMA ProcessTypes == TypeOK /\ Process => TypeOK'
<1> SUFFICES ASSUME PluginOK, WindowsOK, ServerOK, Process
             PROVE  TypeOK'
  BY DEF TypeOK
<1>1. ASSUME NEW type, Receive(type), KeepTables
      PROVE  ServerOK' /\ Head(inbox) \in Message
  BY <1>1, Received DEF KeepTables, ServerOK, server
<1> USE DEF TypeOK, About, In, presence, globals, chats, windows, lines
<1>2. CASE ProcessLIS
  <2>1. ServerOK' /\ Head(inbox).status \in [Names -> Statuses]
    BY <1>1, <1>2, Payload DEF ProcessLIS, Receive
  <2> QED
    BY <1>2, <2>1 DEF ProcessLIS, PluginOK, WindowsOK
<1>3. CASE ProcessADL
  <2>1. ServerOK' /\ Head(inbox).ops \subseteq Names
    BY <1>1, <1>3, Payload DEF ProcessADL, Receive
  <2> QED
    BY <1>3, <2>1, UpdateRanksType DEF ProcessADL, PluginOK, WindowsOK
<1>4. ASSUME NEW n \in Names, ProcessNLN(n) PROVE TypeOK'
  <2>1. ServerOK'
    BY <1>1, <1>4 DEF ProcessNLN
  <2>2. character_count' \in 0 .. CountRange - 1
    BY <1>4, RangesAssumption DEF ProcessNLN, PluginOK
  <2>3. blist' \in [Channel -> Listing]
    BY <1>4 DEF ProcessNLN, WindowsOK, Listing, NotListed
  <2> QED
    BY <1>4, <2>1, <2>2, <2>3 DEF ProcessNLN, PluginOK, WindowsOK, Statuses
<1>5. ASSUME NEW n \in Names, ProcessSTA(n) PROVE TypeOK'
  <2>1. ServerOK' /\ Head(inbox).status \in Statuses
    BY <1>1, <1>5, Payload DEF ProcessSTA, Receive
  <2>2. rank' \in [Channel -> [Names -> SUBSET Ranks]]
    BY <1>5, UpdateRanksType DEF ProcessSTA, WindowsOK
  <2> QED
    BY <1>5, <2>1, <2>2 DEF ProcessSTA, PluginOK, WindowsOK
<1>6. ASSUME NEW n \in Names, ProcessFLN(n) PROVE TypeOK'
  <2>1. ServerOK'
    BY <1>1, <1>6 DEF ProcessFLN
  <2>2. character_count' \in 0 .. CountRange - 1
    BY <1>6, RangesAssumption DEF ProcessFLN, PluginOK
  <2>3. channel' \in [Channel -> Room]
    BY <1>6 DEF ProcessFLN, ForgetUser, PluginOK, Room
  <2>4. /\ room' \in [Channel -> SUBSET Names]
        /\ rank' \in [Channel -> [Names -> SUBSET Ranks]]
    BY <1>6, RemoveFromRoomsType DEF ProcessFLN, ForgetUser
  <2> QED
    BY <1>6, <2>1, <2>2, <2>3, <2>4 DEF ProcessFLN, PluginOK, WindowsOK, Statuses
<1>7. ASSUME NEW n \in Names, ProcessAOP(n) PROVE TypeOK'
  <2>1. ServerOK'
    BY <1>1, <1>7 DEF ProcessAOP
  <2> QED
    BY <1>7, <2>1, UpdateRanksType DEF ProcessAOP, PluginOK, WindowsOK
<1>8. ASSUME NEW n \in Names, ProcessDOP(n) PROVE TypeOK'
  <2>1. ServerOK'
    BY <1>1, <1>8 DEF ProcessDOP
  <2> QED
    BY <1>8, <2>1, UpdateRanksType DEF ProcessDOP, PluginOK, WindowsOK
<1>9. ASSUME NEW c \in Channel, ProcessOwnJCH(c) PROVE TypeOK'
  <2>1. ServerOK'
    BY <1>1, <1>9 DEF ProcessOwnJCH
  <2> QED
    BY <1>9, <2>1, NotJoinedIsRoom, LineTypes DEF ProcessOwnJCH, PluginOK, WindowsOK
<1>10. ASSUME NEW c \in Channel, ProcessOwnLCH(c) PROVE TypeOK'
  <2>1. ServerOK'
    BY <1>1, <1>10 DEF ProcessOwnLCH
  <2> QED
    BY <1>10, <2>1, LeaveTypes DEF ProcessOwnLCH, PluginOK, WindowsOK
<1>11. ASSUME NEW c \in Channel, ProcessCOL(c) PROVE TypeOK'
  <2>1. /\ ServerOK'
        /\ Head(inbox).owner \in Names \cup {NoOwner}
        /\ Head(inbox).ops \subseteq Names
    BY <1>1, <1>11, Payload DEF ProcessCOL, Receive
  <2>2. channel' \in [Channel -> Room]
    BY <1>11, <2>1 DEF ProcessCOL, PluginOK, Room
  <2>3. rank' \in [Channel -> [Names -> SUBSET Ranks]]
    BY <1>11, UpdateRanksType DEF ProcessCOL, WindowsOK
  <2> QED
    BY <1>11, <2>1, <2>2, <2>3 DEF ProcessCOL, PluginOK, WindowsOK
<1>12. ASSUME NEW c \in Channel, ProcessICH(c) PROVE TypeOK'
  <2>1. ServerOK' /\ Head(inbox).users \in SUBSET Names /\ Head(inbox).mode \in Modes
    BY <1>1, <1>12, Payload DEF ProcessICH, Receive
  <2>2. channel' \in [Channel -> Room]
    BY <1>12, <2>1 DEF ProcessICH, PluginOK, Room
  <2>3. /\ room' \in [Channel -> SUBSET Names]
        /\ rank' \in [Channel -> [Names -> SUBSET Ranks]]
    BY <1>12, <2>1, AddToRoomType DEF ProcessICH, WindowsOK
  <2>4. line' \in [Channel -> Said]
    BY <1>12, LineTypes DEF ProcessICH, WindowsOK
  <2> QED
    BY <1>12, <2>1, <2>2, <2>3, <2>4 DEF ProcessICH, PluginOK, WindowsOK
<1>13. ASSUME NEW c \in Channel, ProcessCDS(c) PROVE TypeOK'
  <2>1. ServerOK'
    BY <1>1, <1>13 DEF ProcessCDS
  <2>2. line' \in [Channel -> Said]
    BY <1>13, LineTypes DEF ProcessCDS, WindowsOK
  <2> QED
    BY <1>13, <2>1, <2>2 DEF ProcessCDS, PluginOK, WindowsOK
<1>14. ASSUME NEW c \in Channel, ProcessRMO(c) PROVE TypeOK'
  <2>1. ServerOK' /\ Head(inbox).mode \in Modes
    BY <1>1, <1>14, Payload DEF ProcessRMO, Receive
  <2>2. line' \in [Channel -> Said]
    BY <1>14, LineTypes DEF ProcessRMO, WindowsOK
  <2>3. channel' \in [Channel -> Room]
    BY <1>14, <2>1, RoomChanged DEF ProcessRMO, PluginOK
  <2> QED
    BY <1>14, <2>1, <2>2, <2>3 DEF ProcessRMO, PluginOK, WindowsOK
<1>15. ASSUME NEW c \in Channel, NEW n \in Names, ProcessJCH(c, n) PROVE TypeOK'
  <2>1. ServerOK'
    BY <1>1, <1>15 DEF ProcessJCH
  <2>2. channel' \in [Channel -> Room]
    BY <1>15 DEF ProcessJCH, PluginOK, Room
  <2>3. /\ room' \in [Channel -> SUBSET Names]
        /\ rank' \in [Channel -> [Names -> SUBSET Ranks]]
    BY <1>15, AddToRoomType DEF ProcessJCH, WindowsOK
  <2>4. blist' \in [Channel -> Listing]
    BY <1>15, LineTypes DEF ProcessJCH, WindowsOK
  <2> QED
    BY <1>15, <2>1, <2>2, <2>3, <2>4 DEF ProcessJCH, PluginOK, WindowsOK
<1>16. ASSUME NEW c \in Channel, NEW n \in Names, ProcessLCH(c, n) PROVE TypeOK'
  <2>1. ServerOK'
    BY <1>1, <1>16 DEF ProcessLCH
  <2>2. channel' \in [Channel -> Room]
    BY <1>16 DEF ProcessLCH, PluginOK, Room
  <2>3. /\ room' \in [Channel -> SUBSET Names]
        /\ rank' \in [Channel -> [Names -> SUBSET Ranks]]
    BY <1>16, RemoveFromRoomsType DEF ProcessLCH, WindowsOK
  <2> QED
    BY <1>16, <2>1, <2>2, <2>3 DEF ProcessLCH, PluginOK, WindowsOK
<1> QED
  BY <1>2, <1>3, <1>4, <1>5, <1>6, <1>7, <1>8, <1>9, <1>10, <1>11, <1>12, <1>13, <1>14,
     <1>15, <1>16 DEF Process

\* What the user does keeps the types.
LEMMA UserTypes == TypeOK /\ User => TypeOK'
<1> SUFFICES ASSUME PluginOK, WindowsOK, ServerOK, User
             PROVE  TypeOK'
  BY DEF TypeOK
<1>1. ASSUME Click PROVE clicks' \in 0 .. MaxClicks
  BY <1>1, RangesAssumption DEF Click, ServerOK
<1>2. ASSUME NEW c \in Channel, NEW type \in {"JCH", "LCH"}, Ask(type, c)
      PROVE  outbox' \in Seq(Request)
  BY <1>2 DEF Ask, ServerOK, Request
<1> USE DEF TypeOK, presence, globals, chats, windows, lines, server
<1>3. ASSUME NEW c \in Channel, JoinChannel(c) PROVE TypeOK'
  <2>1. ServerOK'
    BY <1>1, <1>2, <1>3 DEF JoinChannel, ServerOK
  <2> QED
    BY <1>3, <2>1 DEF JoinChannel, PluginOK, WindowsOK
<1>4. ASSUME NEW c \in Channel, CloseWindow(c) PROVE TypeOK'
  <2>1. ServerOK'
    BY <1>1, <1>2, <1>4 DEF CloseWindow, LeaveRequest, ServerOK
  <2>2. PluginOK' /\ blist' \in [Channel -> Listing]
    BY <1>4, LeaveTypes DEF CloseWindow, PluginOK, WindowsOK
  <2> QED
    BY <1>4, <2>1, <2>2, LeaveTypes DEF CloseWindow, WindowsOK
<1>5. ASSUME NEW c \in Channel, NEW w \in Shows, Hide(c, w) PROVE TypeOK'
  <2>1. ServerOK'
    BY <1>1, <1>5 DEF Hide, ServerOK
  <2>2. blist' \in [Channel -> Listing]
    BY <1>5, LineTypes DEF Hide, Listing
  <2>3. line' \in [Channel -> Said]
    BY <1>5, LineTypes DEF Hide, WindowsOK
  <2> QED
    BY <1>5, <2>1, <2>2, <2>3 DEF Hide, PluginOK, WindowsOK
<1>6. ASSUME NEW c \in Channel, NEW w \in Shows, Show(c, w) PROVE TypeOK'
  <2>1. ServerOK'
    BY <1>1, <1>6 DEF Show, ServerOK
  <2>2. blist' \in [Channel -> Listing]
    BY <1>6, LineTypes DEF Show, Listing
  <2>3. line' \in [Channel -> Said]
    BY <1>6, LineTypes DEF Show, WindowsOK
  <2> QED
    BY <1>6, <2>1, <2>2, <2>3 DEF Show, PluginOK, WindowsOK
<1>7. ASSUME NEW c \in Channel, KeepChat(c) PROVE TypeOK'
  <2>1. ServerOK'
    BY <1>1, <1>7 DEF KeepChat, ServerOK
  <2>2. blist' \in [Channel -> Listing]
    BY <1>7 DEF KeepChat, WindowsOK, Listing
  <2> QED
    BY <1>7, <2>1, <2>2 DEF KeepChat, PluginOK, WindowsOK
<1> QED
  BY <1>3, <1>4, <1>5, <1>6, <1>7 DEF User

\* What the server sends is a queue of messages.
LEMMA Sent ==
    ASSUME ServerOK
    PROVE  \A ms \in Seq(Message) : /\ Send(ms) => inbox' \in Seq(Message)
                                    /\ \A c : Tell(c, ms) => inbox' \in Seq(Message)
<1>1. inbox \in Seq(Message) /\ <<>> \in Seq(Message)
  BY DEF ServerOK
<1>2. \A ms \in Seq(Message) : inbox \o ms \in Seq(Message)
  BY <1>1
<1>3. \A ms \in Seq(Message) : Send(ms) => inbox' \in Seq(Message)
  BY <1>1, <1>2 DEF Send
<1> QED
  BY <1>1, <1>3 DEF Tell

LEMMA ChangeTypes ==
    ASSUME ServerOK
    PROVE  /\ Change => changes' \in 0 .. MaxChanges
           /\ \A n : Without(n) \in [Channel -> Room]
           /\ \A n \in Names, s \in Statuses :
                  [present EXCEPT ![n] = s] \in [Names -> Statuses]
<1>1. Change => changes' \in 0 .. MaxChanges
  BY RangesAssumption DEF ServerOK, Change
<1>2. \A n : Without(n) \in [Channel -> Room]
  BY DEF ServerOK, Without, Room
<1>3. \A n \in Names, s \in Statuses : [present EXCEPT ![n] = s] \in [Names -> Statuses]
  BY DEF ServerOK
<1> QED
  BY <1>1, <1>2, <1>3

\* A step of the server, or of the others, changes nothing of the plugin.
LEMMA KeptPlugin == PluginOK /\ WindowsOK /\ KeepPlugin => PluginOK' /\ WindowsOK'
  BY DEF KeepPlugin, presence, globals, chats, windows, lines, PluginOK, WindowsOK

\* The messages of the server are messages.
LEMMA MessageTypes ==
    ASSUME NEW n \in Names, NEW c \in Channel
    PROVE  /\ \A type \in {"NLN", "FLN", "AOP", "DOP"} :
                  <<[type |-> type, who |-> n]>> \in Seq(Message)
           /\ \A s \in Statuses :
                  <<[type |-> "STA", who |-> n, status |-> s]>> \in Seq(Message)
           /\ \A ops \in SUBSET Names : <<[type |-> "ADL", ops |-> ops]>> \in Seq(Message)
           /\ \A type \in {"JCH"} \cup Departures :
                  <<[type |-> type, chan |-> c, who |-> n]>> \in Seq(Message)
           /\ \A ops \in SUBSET Names : \A owner \in Names \cup {NoOwner} :
                  <<OperatorList(c, owner, ops)>> \in Seq(Message)
           /\ \A m \in Modes : <<[type |-> "RMO", chan |-> c, mode |-> m]>> \in Seq(Message)
           /\ <<[type |-> "CDS", chan |-> c]>> \in Seq(Message)
<1>1. \A m \in Message : <<m>> \in Seq(Message)
  OBVIOUS
<1> USE <1>1 DEF Message
<1>2. \A type \in {"NLN", "FLN", "AOP", "DOP"} :
         <<[type |-> type, who |-> n]>> \in Seq(Message)
  OBVIOUS
<1>3. \A s \in Statuses : <<[type |-> "STA", who |-> n, status |-> s]>> \in Seq(Message)
  OBVIOUS
<1>4. \A ops \in SUBSET Names : <<[type |-> "ADL", ops |-> ops]>> \in Seq(Message)
  OBVIOUS
<1>5. \A type \in {"JCH"} \cup Departures :
         <<[type |-> type, chan |-> c, who |-> n]>> \in Seq(Message)
  OBVIOUS
<1>6. \A ops \in SUBSET Names : \A owner \in Names \cup {NoOwner} :
         <<OperatorList(c, owner, ops)>> \in Seq(Message)
  BY DEF OperatorList
<1>7. \A m \in Modes : <<[type |-> "RMO", chan |-> c, mode |-> m]>> \in Seq(Message)
  OBVIOUS
<1>8. <<[type |-> "CDS", chan |-> c]>> \in Seq(Message)
  OBVIOUS
<1> QED
  BY <1>2, <1>3, <1>4, <1>5, <1>6, <1>7, <1>8

LEMMA WelcomeType == ServerOK => \A c \in Channel : Welcome(c) \in Seq(Message)
<1> SUFFICES ASSUME ServerOK, NEW c \in Channel PROVE Welcome(c) \in Seq(Message)
  OBVIOUS
<1>1. rooms[c] \in Room
  BY DEF ServerOK
<1>2. [type |-> "JCH", chan |-> c, who |-> Me] \in Message
  BY NamesAssumption DEF Message
<1>3. OperatorList(c, rooms[c].owner, rooms[c].ops) \in Message
  BY <1>1 DEF Message, OperatorList, Room
<1>4. [type |-> "ICH", chan |-> c, users |-> rooms[c].users \cup {Me},
       mode |-> rooms[c].mode] \in Message
  BY <1>1, NamesAssumption DEF Message, Room
<1>5. [type |-> "CDS", chan |-> c] \in Message
  BY DEF Message
<1>6. \A a, b, d, e \in Message : <<a, b, d, e>> \in Seq(Message)
  OBVIOUS
<1> QED
  BY <1>2, <1>3, <1>4, <1>5, <1>6 DEF Welcome

\* What the server and the others do keeps the types.
LEMMA ServerTypes == TypeOK /\ (Serve \/ Others) => TypeOK'
<1> SUFFICES ASSUME PluginOK, WindowsOK, ServerOK, Serve \/ Others
             PROVE  ServerOK' /\ KeepPlugin
  BY KeptPlugin DEF TypeOK
<1>1. ASSUME KeepPlugin PROVE UNCHANGED <<clicks, sessions>>
  BY <1>1 DEF KeepPlugin
<1>2. ASSUME NEW n \in Names, Arrive(n) PROVE ServerOK' /\ KeepPlugin
  <2>0. <<[type |-> "NLN", who |-> n]>> \in Seq(Message)
    BY DEF Message
  <2>1. inbox' \in Seq(Message)
    BY <1>2, <2>0, Sent DEF Arrive
  <2> QED
    BY <1>1, <1>2, <2>1, ChangeTypes DEF Arrive, ServerOK, Statuses
<1>3. ASSUME NEW n \in Names, Restate(n) PROVE ServerOK' /\ KeepPlugin
  <2>1. PICK s \in {"online", "looking"} :
            /\ present' = [present EXCEPT ![n] = s]
            /\ Send(<<[type |-> "STA", who |-> n, status |-> s]>>)
    BY <1>3 DEF Restate
  <2>2. s \in Statuses
    BY DEF Statuses
  <2>3. <<[type |-> "STA", who |-> n, status |-> s]>> \in Seq(Message)
    BY <2>2 DEF Message
  <2>4. inbox' \in Seq(Message)
    BY <2>1, <2>3, Sent
  <2> QED
    BY <1>1, <1>3, <2>1, <2>2, <2>4, ChangeTypes DEF Restate, ServerOK
<1>4. ASSUME NEW n \in Names, Depart(n) PROVE ServerOK' /\ KeepPlugin
  <2>0. <<[type |-> "FLN", who |-> n]>> \in Seq(Message)
    BY DEF Message
  <2>1. inbox' \in Seq(Message)
    BY <1>4, <2>0, Sent DEF Depart
  <2> QED
    BY <1>1, <1>4, <2>1, ChangeTypes DEF Depart, ServerOK, Statuses
<1>5. ASSUME NEW n \in Names, Promote(n) PROVE ServerOK' /\ KeepPlugin
  <2>0. <<[type |-> "AOP", who |-> n]>> \in Seq(Message)
    BY DEF Message
  <2>1. inbox' \in Seq(Message)
    BY <1>5, <2>0, Sent DEF Promote
  <2> QED
    BY <1>1, <1>5, <2>1, ChangeTypes DEF Promote, ServerOK
<1>6. ASSUME NEW n \in Names, Demote(n) PROVE ServerOK' /\ KeepPlugin
  <2>0. <<[type |-> "DOP", who |-> n]>> \in Seq(Message)
    BY DEF Message
  <2>1. inbox' \in Seq(Message)
    BY <1>6, <2>0, Sent DEF Demote
  <2> QED
    BY <1>1, <1>6, <2>1, ChangeTypes DEF Demote, ServerOK
<1>7. CASE Reappoint
  <2>1. PICK ops \in SUBSET Names : operators' = ops /\ Send(<<[type |-> "ADL", ops |-> ops]>>)
    BY <1>7 DEF Reappoint
  <2>2. <<[type |-> "ADL", ops |-> ops]>> \in Seq(Message)
    BY DEF Message
  <2>3. inbox' \in Seq(Message)
    BY <2>1, <2>2, Sent
  <2> QED
    BY <1>1, <1>7, <2>1, <2>3, ChangeTypes DEF Reappoint, ServerOK
<1>8. ASSUME NEW n \in Names, NEW c \in Channel, Enter(n, c) PROVE ServerOK' /\ KeepPlugin
  <2>1. inbox' \in Seq(Message)
    BY <1>8, Sent, MessageTypes DEF Enter
  <2>2. rooms' \in [Channel -> Room]
    BY <1>8 DEF Enter, ServerOK, Room
  <2> QED
    BY <1>1, <1>8, <2>1, <2>2, ChangeTypes DEF Enter, ServerOK
<1>9. ASSUME NEW n \in Names, NEW c \in Channel, NEW how \in Departures, Remove(n, c, how)
      PROVE  ServerOK' /\ KeepPlugin
  <2>1. inbox' \in Seq(Message)
    BY <1>9, Sent, MessageTypes DEF Remove
  <2>2. rooms' \in [Channel -> Room]
    BY <1>9 DEF Remove, ServerOK, Room
  <2> QED
    BY <1>1, <1>9, <2>1, <2>2, ChangeTypes DEF Remove, ServerOK
<1>10. ASSUME NEW c \in Channel, Appoint(c) PROVE ServerOK' /\ KeepPlugin
  <2>1. PICK ops \in SUBSET Names, owner \in Names \cup {NoOwner} :
            /\ rooms' = [rooms EXCEPT ![c].owner = owner, ![c].ops = ops]
            /\ Tell(c, <<OperatorList(c, owner, ops)>>)
    BY <1>10 DEF Appoint
  <2>2. <<OperatorList(c, owner, ops)>> \in Seq(Message)
    BY DEF Message, OperatorList
  <2>3. inbox' \in Seq(Message)
    BY <2>1, <2>2, Sent
  <2>4. rooms' \in [Channel -> Room]
    BY <2>1 DEF ServerOK, Room
  <2> QED
    BY <1>1, <1>10, <2>3, <2>4, ChangeTypes DEF Appoint, ServerOK
<1>11. ASSUME NEW c \in Channel, SetMode(c) PROVE ServerOK' /\ KeepPlugin
  <2>1. PICK mode \in Modes : /\ rooms' = [rooms EXCEPT ![c].mode = mode]
                              /\ Tell(c, <<[type |-> "RMO", chan |-> c, mode |-> mode]>>)
    BY <1>11 DEF SetMode
  <2>2. <<[type |-> "RMO", chan |-> c, mode |-> mode]>> \in Seq(Message)
    BY DEF Message
  <2>3. inbox' \in Seq(Message)
    BY <2>1, <2>2, Sent
  <2>4. rooms' \in [Channel -> Room]
    BY <2>1 DEF ServerOK, Room
  <2> QED
    BY <1>1, <1>11, <2>3, <2>4, ChangeTypes DEF SetMode, ServerOK
<1>12. ASSUME NEW c \in Channel, Describe(c) PROVE ServerOK' /\ KeepPlugin
  <2>1. <<[type |-> "CDS", chan |-> c]>> \in Seq(Message)
    BY DEF Message
  <2>2. inbox' \in Seq(Message)
    BY <1>12, <2>1, Sent DEF Describe
  <2> QED
    BY <1>1, <1>12, <2>2, ChangeTypes DEF Describe, ServerOK, server
<1>13. ASSUME outbox # <<>>
       PROVE  Head(outbox).chan \in Channel /\ Tail(outbox) \in Seq(Request)
  <2>1. outbox \in Seq(Request)
    BY DEF ServerOK
  <2>2. Head(outbox) \in Request /\ Tail(outbox) \in Seq(Request)
    BY <1>13, <2>1
  <2> QED
    BY <2>2 DEF Request
<1>14. CASE ServeJoin
  <2>0. Welcome(Head(outbox).chan) \in Seq(Message) /\ inbox \in Seq(Message)
    BY <1>13, <1>14, WelcomeType DEF ServeJoin, ServerOK
  <2>1. inbox' \in Seq(Message)
    BY <1>14, <2>0, Sent DEF ServeJoin
  <2>2. PICK c \in Channel : \/ rooms' = rooms
                             \/ rooms' = [rooms EXCEPT ![c].users = @ \cup {Me}]
    BY <1>13, <1>14 DEF ServeJoin
  <2>3. rooms \in [Channel -> Room] /\ rooms[c].users \cup {Me} \in SUBSET Names
    BY NamesAssumption DEF ServerOK, Room
  <2>4. rooms' \in [Channel -> Room]
    BY <2>2, <2>3 DEF Room
  <2> QED
    BY <1>1, <1>13, <1>14, <2>1, <2>4 DEF ServeJoin, ServerOK
<1>15. CASE ServeLeave
  <2>1. inbox' \in Seq(Message)
    BY <1>13, <1>15, NamesAssumption, MessageTypes, Sent DEF ServeLeave, Departures
  <2>2. rooms' \in [Channel -> Room]
    BY <1>13, <1>15 DEF ServeLeave, ServerOK, Room
  <2> QED
    BY <1>1, <1>13, <1>15, <2>1, <2>2 DEF ServeLeave, ServerOK
<1> QED
  BY <1>2, <1>3, <1>4, <1>5, <1>6, <1>7, <1>8, <1>9, <1>10, <1>11, <1>12, <1>14, <1>15
     DEF Serve, Others

\* So do the beginnings and the ends of sessions.
LEMMA SessionTypes == TypeOK /\ (Login \/ Disconnect \/ Crash) => TypeOK'
<1> SUFFICES ASSUME PluginOK, WindowsOK, ServerOK, Login \/ Disconnect \/ Crash
             PROVE  PluginOK' /\ WindowsOK' /\ ServerOK'
  BY DEF TypeOK
<1>1. CASE Login
  <2>1. inbox' \in Seq(Message)
    <3>1. /\ [type |-> "ADL", ops |-> operators] \in Message
          /\ [type |-> "LIS", status |-> present] \in Message
          /\ [type |-> "NLN", who |-> Me] \in Message
      BY NamesAssumption DEF Message, ServerOK
    <3> QED
      BY <1>1, <3>1 DEF Login
  <2>2. sessions' \in 0 .. MaxSessions
    BY <1>1, RangesAssumption DEF Login, ServerOK
  <2>3. ServerOK'
    BY <1>1, <2>1, <2>2 DEF Login, ServerOK, Statuses
  <2> QED
    BY <1>1, <2>3 DEF Login, PluginOK, WindowsOK, presence, globals, chats, windows, lines
<1>2. ASSUME EndSession PROVE PluginOK'
  BY <1>2, NotJoinedIsRoom, RangesAssumption DEF EndSession, PluginOK, Statuses
<1>3. ASSUME EndSession PROVE ServerOK'
  <2>1. present' \in [Names -> Statuses] /\ rooms' \in [Channel -> Room]
    BY <1>3, NamesAssumption, ChangeTypes DEF EndSession, Statuses
  <2> QED
    BY <1>3, <2>1 DEF EndSession, ServerOK
<1>4. ASSUME EndSession
      PROVE  /\ room' \in [Channel -> SUBSET Names]
             /\ rank' \in [Channel -> [Names -> SUBSET Ranks]]
             /\ line' \in [Channel -> Said]
             /\ blist' \in [Channel -> Listing]
  BY <1>4 DEF EndSession, WindowsOK, Unsaid, Said
<1>5. CASE Disconnect
  BY <1>2, <1>3, <1>4, <1>5 DEF Disconnect, WindowsOK
<1>6. CASE Crash
  BY <1>2, <1>3, <1>4, <1>6 DEF Crash, WindowsOK
<1> QED
  BY <1>1, <1>5, <1>6

LEMMA TypeInit == Init => TypeOK
<1> SUFFICES ASSUME Init PROVE PluginOK /\ WindowsOK /\ ServerOK
  BY DEF TypeOK
<1>1. PluginOK
  BY NotJoinedIsRoom, RangesAssumption DEF Init, PluginOK, Statuses
<1>2. WindowsOK
  <2>1. Unsaid \in Said /\ NotListed \in Listing
    BY DEF Unsaid, Said, NotListed, Listing
  <2> QED
    BY <2>1 DEF Init, WindowsOK
<1>3. ServerOK
  <2>1. rooms \in [Channel -> Room]
    <3>1. \A who \in SUBSET (Names \ {Me}) : NewRoom(who) \in Room
      BY DEF NewRoom, Room, Modes
    <3> QED
      BY <3>1 DEF Init
  <2> QED
    BY <2>1, RangesAssumption DEF Init, ServerOK, Statuses
<1> QED
  BY <1>1, <1>2, <1>3

LEMMA TypeStep == TypeOK /\ [Next]_vars => TypeOK'
<1> SUFFICES ASSUME TypeOK, [Next]_vars PROVE TypeOK'
  OBVIOUS
<1>1. ASSUME NEW c \in Channel, Elapse(c) PROVE TypeOK'
  BY <1>1 DEF Elapse, KeepTables, presence, globals, chats, windows, lines, server,
     TypeOK, PluginOK, WindowsOK, ServerOK
<1>2. ASSUME NEW n \in Names, Overwrite(n) PROVE TypeOK'
  BY <1>2 DEF Overwrite, KeepTables, presence, chats, windows, lines, server,
     TypeOK, PluginOK, WindowsOK, ServerOK
<1>3. CASE UNCHANGED vars
  BY <1>3 DEF vars, presence, globals, chats, windows, lines, server,
     TypeOK, PluginOK, WindowsOK, ServerOK
<1> QED
  BY <1>1, <1>2, <1>3, ProcessTypes, ServerTypes, UserTypes, SessionTypes DEF Next

\* Every table, window and message has the form the code gives it (TypeOK).
THEOREM TypeCorrect == Spec => []TypeOK
  BY TypeInit, TypeStep, PTL DEF Spec

----------------------------------------------------------------------------
(* The chats of libpurple and the plugin's table.                           *)

\* What the windows of the channels depend on.
shown == <<all_characters, global_ops, lost, chat_table, channel, convo, room, rank>>

\* The actions that may change any of it.
Disturbs ==
    \/ ProcessLIS \/ ProcessADL \/ Disconnect \/ Crash
    \/ \E n \in Names : \/ ProcessNLN(n) \/ ProcessSTA(n) \/ ProcessFLN(n)
                        \/ ProcessAOP(n) \/ ProcessDOP(n) \/ Overwrite(n)
    \/ \E c \in Channel : \/ ProcessOwnJCH(c) \/ ProcessOwnLCH(c) \/ CloseWindow(c)
                          \/ ProcessCOL(c) \/ ProcessICH(c) \/ ProcessRMO(c)
                          \/ \E n \in Names : ProcessJCH(c, n) \/ ProcessLCH(c, n)

LEMMA Disturbances == [Next]_vars => Disturbs \/ UNCHANGED shown
<1> SUFFICES ASSUME [Next]_vars PROVE Disturbs \/ UNCHANGED shown
  OBVIOUS
<1> USE DEF shown, presence, globals, chats, windows
<1>1. KeepPlugin => UNCHANGED shown
  BY DEF KeepPlugin
<1>2. Serve \/ Others => KeepPlugin
  BY DEF Serve, Others, Arrive, Restate, Depart, Promote, Demote, Reappoint, Appoint,
     SetMode, Describe, Enter, Remove, ServeJoin, ServeLeave
<1>3. Login => UNCHANGED shown
  BY DEF Login
<1>4. ASSUME NEW c \in Channel
      PROVE  Elapse(c) \/ JoinChannel(c) \/ KeepChat(c) \/ ProcessCDS(c) => UNCHANGED shown
  BY DEF Elapse, JoinChannel, KeepChat, ProcessCDS
<1>5. ASSUME NEW c \in Channel, NEW w \in Shows
      PROVE  Hide(c, w) \/ Show(c, w) => UNCHANGED shown
  BY DEF Hide, Show
<1>6. UNCHANGED vars => UNCHANGED shown
  BY DEF vars
<1>7. Process => Disturbs \/ UNCHANGED shown
  BY <1>4 DEF Process, Disturbs
<1>8. User => Disturbs \/ UNCHANGED shown
  BY <1>4, <1>5 DEF User, Disturbs
<1>9. Next => Disturbs \/ UNCHANGED shown
  BY <1>1, <1>2, <1>3, <1>4, <1>7, <1>8 DEF Next, Disturbs
<1> QED
  BY <1>6, <1>9

LEMMA ChatsStep == TypeOK /\ ChatsMatch /\ [Next]_vars => ChatsMatch'
<1> SUFFICES ASSUME TypeOK, ChatsMatch, [Next]_vars PROVE ChatsMatch'
  OBVIOUS
<1> USE DEF ChatsMatch, TypeOK, PluginOK, WindowsOK
<1>1. ASSUME UNCHANGED <<chat_table, convo>> PROVE ChatsMatch'
  BY <1>1
<1>2. CASE ProcessLIS \/ ProcessADL
  BY <1>1, <1>2 DEF ProcessLIS, ProcessADL, chats, windows
<1>3. ASSUME NEW n \in Names,
             \/ ProcessNLN(n) \/ ProcessSTA(n) \/ ProcessFLN(n)
             \/ ProcessAOP(n) \/ ProcessDOP(n) \/ Overwrite(n)
      PROVE  ChatsMatch'
  BY <1>1, <1>3 DEF ProcessNLN, ProcessSTA, ProcessFLN, ProcessAOP, ProcessDOP, Overwrite,
     chats, windows
<1>4. ASSUME NEW c \in Channel, ProcessCOL(c) \/ ProcessICH(c) \/ ProcessRMO(c)
      PROVE  ChatsMatch'
  BY <1>1, <1>4 DEF ProcessCOL, ProcessICH, ProcessRMO, windows
<1>5. ASSUME NEW c \in Channel, NEW n \in Names, ProcessJCH(c, n) \/ ProcessLCH(c, n)
      PROVE  ChatsMatch'
  BY <1>1, <1>5 DEF ProcessJCH, ProcessLCH
<1>6. ASSUME NEW c \in Channel, ProcessOwnJCH(c) PROVE ChatsMatch'
  BY <1>6 DEF ProcessOwnJCH
<1>7. ASSUME NEW c \in Channel, ProcessOwnLCH(c) PROVE ChatsMatch'
  BY <1>1, <1>7 DEF ProcessOwnLCH, GotChannelLeft, LeaveWindow, chats, windows
<1>8. ASSUME NEW c \in Channel, CloseWindow(c) PROVE ChatsMatch'
  BY <1>8 DEF CloseWindow, GotChannelLeft, LeaveWindow, chats
<1>9. CASE Disconnect \/ Crash
  BY <1>9 DEF Disconnect, Crash, EndSession
<1>10. CASE UNCHANGED shown
  BY <1>1, <1>10 DEF shown
<1> QED
  BY <1>2, <1>3, <1>4, <1>5, <1>6, <1>7, <1>8, <1>9, <1>10, Disturbances DEF Disturbs

\* There is an entry of chat_table exactly for the chats libpurple has us in
\* (ChatsMatch).
THEOREM ChatsAlwaysMatch == Spec => []ChatsMatch
<1>1. Init => ChatsMatch
  BY DEF Init, ChatsMatch
<1> QED
  BY <1>1, ChatsStep, TypeCorrect, PTL DEF Spec

\* A channel is known exactly when it is in the table.
LEMMA KnownIsJoined == ChatsMatch => \A c \in Channel : Known(c) <=> c \in chat_table
  BY DEF ChatsMatch, Known

LEMMA RosterStep == TypeOK /\ ChatsMatch /\ RosterShown /\ [Next]_vars => RosterShown'
<1> SUFFICES ASSUME TypeOK, ChatsMatch, RosterShown, [Next]_vars PROVE RosterShown'
  OBVIOUS
<1>0. /\ channel \in [Channel -> Room]
      /\ room \in [Channel -> SUBSET Names]
      /\ chat_table \subseteq Channel
  BY DEF TypeOK, PluginOK, WindowsOK
<1>1. ASSUME chat_table' \subseteq chat_table, room' = room,
             \A c \in Channel : channel'[c].users = channel[c].users
      PROVE  RosterShown'
  BY <1>0, <1>1 DEF RosterShown
<1>2. CASE ProcessLIS \/ ProcessADL
  BY <1>1, <1>2 DEF ProcessLIS, ProcessADL, chats, windows
<1>3. ASSUME NEW n \in Names,
             \/ ProcessNLN(n) \/ ProcessSTA(n) \/ ProcessAOP(n) \/ ProcessDOP(n)
             \/ Overwrite(n)
      PROVE  RosterShown'
  BY <1>1, <1>3 DEF ProcessNLN, ProcessSTA, ProcessAOP, ProcessDOP, Overwrite, chats, windows
<1>4. ASSUME NEW n \in Names, ProcessFLN(n) PROVE RosterShown'
  <2>1. \A c \in Channel : channel'[c].users = channel[c].users \ {n}
    BY <1>0, <1>4 DEF ProcessFLN, ForgetUser, Room
  <2>2. \A c \in chat_table : room'[c] = IF n \in channel[c].users THEN room[c] \ {n}
                                                                   ELSE room[c]
    BY <1>0, <1>4 DEF ProcessFLN, ForgetUser, RemoveFromRooms
  <2>3. chat_table' = chat_table
    BY <1>4 DEF ProcessFLN
  <2>4. ASSUME NEW c \in chat_table PROVE room'[c] = channel'[c].users
    <3>1. c \in Channel /\ room[c] = channel[c].users
      BY <1>0 DEF RosterShown
    <3>2. n \notin channel[c].users => channel[c].users \ {n} = channel[c].users
      OBVIOUS
    <3> QED
      BY <2>1, <2>2, <3>1, <3>2
  <2> QED
    BY <2>3, <2>4 DEF RosterShown
<1>5. ASSUME NEW c \in Channel, ProcessCOL(c) \/ ProcessRMO(c) PROVE RosterShown'
  <2>1. \A d \in Channel : channel'[d].users = channel[d].users
    BY <1>0, <1>5 DEF ProcessCOL, ProcessRMO, Room
  <2> QED
    BY <1>1, <1>5, <2>1 DEF ProcessCOL, ProcessRMO, windows
<1>6. ASSUME NEW c \in Channel, ProcessICH(c) PROVE RosterShown'
  <2>1. CASE Known(c)
    <3> DEFINE us == Head(inbox).users
    <3>1. \A d \in Channel : channel'[d].users = IF d = c THEN channel[c].users \cup us
                                                        ELSE channel[d].users
      BY <1>0, <1>6, <2>1 DEF ProcessICH, Room
    <3>2. room' = [room EXCEPT ![c] = @ \cup us] /\ chat_table' = chat_table
      BY <1>6, <2>1 DEF ProcessICH, AddToRoom
    <3> QED
      BY <1>0, <3>1, <3>2 DEF RosterShown
  <2> QED
    BY <1>1, <1>6, <2>1 DEF ProcessICH
<1>7. ASSUME NEW c \in Channel, NEW n \in Names, ProcessJCH(c, n) PROVE RosterShown'
  <2>1. CASE Known(c)
    <3>1. \A d \in Channel : channel'[d].users = IF d = c THEN channel[c].users \cup {n}
                                                        ELSE channel[d].users
      BY <1>0, <1>7, <2>1 DEF ProcessJCH, Room
    <3>2. room' = [room EXCEPT ![c] = @ \cup {n}] /\ chat_table' = chat_table
      BY <1>7, <2>1 DEF ProcessJCH, AddToRoom
    <3> QED
      BY <1>0, <3>1, <3>2 DEF RosterShown
  <2> QED
    BY <1>1, <1>7, <2>1 DEF ProcessJCH
<1>8. ASSUME NEW c \in Channel, NEW n \in Names, ProcessLCH(c, n) PROVE RosterShown'
  <2>1. CASE Known(c) /\ n \in channel[c].users
    <3>1. \A d \in Channel : channel'[d].users = IF d = c THEN channel[c].users \ {n}
                                                        ELSE channel[d].users
      BY <1>0, <1>8, <2>1 DEF ProcessLCH, Room
    <3>2. /\ \A d \in Channel : room'[d] = IF d = c THEN room[c] \ {n} ELSE room[d]
          /\ chat_table' = chat_table
      BY <1>8, <2>1 DEF ProcessLCH, RemoveFromRooms
    <3> QED
      BY <1>0, <3>1, <3>2 DEF RosterShown
  <2> QED
    BY <1>1, <1>8, <2>1 DEF ProcessLCH
<1>9. ASSUME NEW c \in Channel, ProcessOwnJCH(c) PROVE RosterShown'
  BY <1>0, <1>9 DEF ProcessOwnJCH, RosterShown, Fresh
<1>10. ASSUME NEW c \in Channel, GotChannelLeft(c), NEW to, LeaveWindow(c, to)
       PROVE  RosterShown'
  BY <1>0, <1>10 DEF RosterShown, GotChannelLeft, LeaveWindow
<1>11. ASSUME NEW c \in Channel, ProcessOwnLCH(c) PROVE RosterShown'
  BY <1>1, <1>10, <1>11 DEF ProcessOwnLCH, chats, windows
<1>12. ASSUME NEW c \in Channel, CloseWindow(c) PROVE RosterShown'
  <2>1. CASE convo[c] = "open"
    BY <1>10, <1>12, <2>1 DEF CloseWindow
  <2>2. CASE convo[c] # "open"
    <3>1. c \notin chat_table
      BY <2>2 DEF ChatsMatch
    <3> QED
      BY <1>0, <1>12, <2>2, <3>1 DEF CloseWindow, LeaveWindow, RosterShown, chats
  <2> QED
    BY <2>1, <2>2
<1>13. CASE Disconnect \/ Crash
  BY <1>13 DEF Disconnect, Crash, EndSession, RosterShown
<1>14. CASE UNCHANGED shown
  BY <1>1, <1>14 DEF shown
<1> QED
  BY <1>2, <1>3, <1>4, <1>5, <1>6, <1>7, <1>8, <1>9, <1>11, <1>12, <1>13, <1>14,
     Disturbances DEF Disturbs

\* The window of a channel lists the users of its table (RosterShown).
THEOREM RosterIsShown == Spec => []RosterShown
<1>1. Init => RosterShown
  BY DEF Init, RosterShown
<1> QED
  BY <1>1, RosterStep, ChatsAlwaysMatch, TypeCorrect, PTL DEF Spec

----------------------------------------------------------------------------
(* Ranks.  Two messages change the status of characters without a look at the
   channels they are in: LIS, which comes before we have joined any, and NLN,
   which takes the voice of whoever was looking.  So the invariant says that a
   LIS only comes during login, and that an NLN only comes for somebody who
   will not be looking when it is processed: since they were last seen looking
   there was an FLN.                                                         *)

\* An owner is one of the operators, so that whoever loses the channel is
\* among those flist_got_channel_oplist updates.
OwnersListed ==
    /\ \A c \in Channel : channel[c].owner \in channel[c].ops \cup {NoOwner}
    /\ \A c \in Channel : rooms[c].owner \in rooms[c].ops \cup {NoOwner}
    /\ \A i \in 1 .. Len(inbox) : inbox[i].type = "COL" =>
           inbox[i].owner \in inbox[i].ops \cup {NoOwner}

\* Before our own NLN we are in no channel, nor on the way into one.
NoChannelYet ==
    phase # "online" =>
        /\ chat_table = {} /\ outbox = <<>>
        /\ \A i \in 1 .. Len(inbox) : inbox[i].type = "JCH" => inbox[i].who # Me

\* Nothing is known between two sessions.
NothingKnown ==
    phase = "off" => /\ inbox = <<>>
                     /\ present[Me] = "offline"
                     /\ \A n \in Names : all_characters[n] # "looking"

\* The list of characters is the first message, or the second after the ADL.
ListFirst ==
    \A i \in 1 .. Len(inbox) : inbox[i].type = "LIS" =>
        phase = "login" /\ (i = 1 \/ (i = 2 /\ inbox[1].type = "ADL"))

\* A message that says they are looking, and one that says they have gone
Looks(m, n) == \/ m.type = "STA" /\ m.who = n /\ m.status = "looking"
               \/ m.type = "LIS" /\ m.status[n] = "looking"
Goes(m, n)  == m.type = "FLN" /\ m.who = n

\* When what comes before i has been processed, n is not looking.
Calm(n, i) ==
    /\ all_characters[n] = "looking" => \E k \in 1 .. i - 1 : Goes(inbox[k], n)
    /\ \A j \in 1 .. i - 1 :
           Looks(inbox[j], n) => \E k \in j + 1 .. i - 1 : Goes(inbox[k], n)

ArrivalsAreCalm == \A i \in 1 .. Len(inbox) : inbox[i].type = "NLN" => Calm(inbox[i].who, i)

AbsentAreCalm ==
    phase # "off" =>
        \A n \in Names : present[n] = "offline" => Calm(n, Len(inbox) + 1)

Orderly == OwnersListed /\ NoChannelYet /\ NothingKnown /\ ListFirst

\* Processing a message moves the others up, and sending appends to them.
Moves == /\ Len(inbox) \in Nat \ {0} /\ Len(inbox') = Len(inbox) - 1
         /\ \A i \in 1 .. Len(inbox') : inbox'[i] = inbox[i + 1]

LEMMA ProcessMoves == TypeOK /\ Process => Moves /\ UNCHANGED <<present, operators, rooms>>
<1> SUFFICES ASSUME TypeOK, Process PROVE Moves /\ UNCHANGED <<present, operators, rooms>>
  OBVIOUS
<1>1. ASSUME NEW type, Receive(type), KeepTables
      PROVE  Moves /\ UNCHANGED <<present, operators, rooms>>
  BY <1>1, Received DEF TypeOK, Moves, KeepTables, server
<1>2. CASE ProcessLIS \/ ProcessADL
  BY <1>1, <1>2 DEF ProcessLIS, ProcessADL
<1>3. ASSUME NEW n \in Names,
             \/ ProcessNLN(n) \/ ProcessSTA(n) \/ ProcessFLN(n)
             \/ ProcessAOP(n) \/ ProcessDOP(n)
      PROVE  Moves /\ UNCHANGED <<present, operators, rooms>>
  BY <1>1, <1>3 DEF ProcessNLN, ProcessSTA, ProcessFLN, ProcessAOP, ProcessDOP, About
<1>4. ASSUME NEW c \in Channel,
             \/ ProcessOwnJCH(c) \/ ProcessOwnLCH(c) \/ ProcessCOL(c)
             \/ ProcessICH(c) \/ ProcessCDS(c) \/ ProcessRMO(c)
      PROVE  Moves /\ UNCHANGED <<present, operators, rooms>>
  BY <1>1, <1>4 DEF ProcessOwnJCH, ProcessOwnLCH, ProcessCOL, ProcessICH, ProcessCDS,
     ProcessRMO, In
<1>5. ASSUME NEW c \in Channel, NEW n \in Names, ProcessJCH(c, n) \/ ProcessLCH(c, n)
      PROVE  Moves /\ UNCHANGED <<present, operators, rooms>>
  BY <1>1, <1>5 DEF ProcessJCH, ProcessLCH, In
<1> QED
  BY <1>2, <1>3, <1>4, <1>5 DEF Process

\* What the server sends, and what it changes as it does.
Sends(ms) ==
    /\ Send(ms)
    /\ \A i \in 1 .. Len(ms) :
           /\ ms[i].type # "LIS"
           /\ ms[i].type = "COL" => ms[i].owner \in ms[i].ops \cup {NoOwner}
           /\ ms[i].type = "JCH" => ms[i].who # Me \/ outbox # <<>>
           /\ ms[i].type = "NLN" => Len(ms) = 1 /\ present[ms[i].who] = "offline"
           /\ \A n \in Names : Looks(ms[i], n) => present[n] # "offline"
    /\ \A n \in Names : present[n] # "offline" /\ present'[n] = "offline" =>
           Len(ms) = 1 /\ Goes(ms[1], n)
    /\ present[Me] = "offline" => present'[Me] = "offline"
    /\ outbox = <<>> => outbox' = <<>>
    /\ \A c \in Channel : rooms'[c].owner \in rooms'[c].ops \cup {NoOwner}

LEMMA WhatIsSent ==
    TypeOK /\ OwnersListed /\ NothingKnown /\ (Serve \/ Others) =>
        KeepPlugin /\ \E ms \in Seq(Message) : Sends(ms)
<1> SUFFICES ASSUME TypeOK, OwnersListed, NothingKnown, Serve \/ Others
             PROVE  KeepPlugin /\ \E ms \in Seq(Message) : Sends(ms)
  OBVIOUS
<1>0. /\ present \in [Names -> Statuses]
      /\ rooms \in [Channel -> Room]
      /\ Me \in Names
      /\ \A c \in Channel : rooms[c].owner \in rooms[c].ops \cup {NoOwner}
  BY NamesAssumption DEF TypeOK, ServerOK, OwnersListed
<1>1. ASSUME Send(<<>>), present' = present, (outbox = <<>> => outbox' = <<>>),
             \A c \in Channel : rooms'[c].owner \in rooms'[c].ops \cup {NoOwner}
      PROVE  \E ms \in Seq(Message) : Sends(ms)
  <2>1. Sends(<<>>)
    BY <1>1 DEF Sends
  <2>2. <<>> \in Seq(Message)
    OBVIOUS
  <2> QED
    BY <2>1, <2>2, Zenon
<1>2. ASSUME NEW m \in Message, Send(<<m>>), present' = present, (outbox = <<>> => outbox' = <<>>),
             m.type \notin {"LIS", "STA", "NLN"},
             m.type = "COL" => m.owner \in m.ops \cup {NoOwner},
             m.type = "JCH" => m.who # Me,
             \A c \in Channel : rooms'[c].owner \in rooms'[c].ops \cup {NoOwner}
      PROVE  \E ms \in Seq(Message) : Sends(ms)
  <2>1. Sends(<<m>>)
    BY <1>2 DEF Sends, Looks
  <2>2. <<m>> \in Seq(Message)
    OBVIOUS
  <2> QED
    BY <2>1, <2>2, Zenon
<1>3. ASSUME NEW n \in Names, Arrive(n) PROVE KeepPlugin /\ \E ms \in Seq(Message) : Sends(ms)
  <2> DEFINE m == [type |-> "NLN", who |-> n]
  <2>1. <<m>> \in Seq(Message)
    BY DEF Message
  <2>2. Sends(<<m>>)
    BY <1>0, <1>3 DEF Arrive, Sends, Looks
  <2> QED
    BY <1>3, <2>1, <2>2 DEF Arrive
<1>4. ASSUME NEW n \in Names, Restate(n) PROVE KeepPlugin /\ \E ms \in Seq(Message) : Sends(ms)
  <2>1. PICK s \in {"online", "looking"} :
            /\ present' = [present EXCEPT ![n] = s]
            /\ Send(<<[type |-> "STA", who |-> n, status |-> s]>>)
    BY <1>4 DEF Restate
  <2> DEFINE m == [type |-> "STA", who |-> n, status |-> s]
  <2>2. <<m>> \in Seq(Message)
    BY DEF Message, Statuses
  <2>3. Sends(<<m>>)
    BY <1>0, <1>4, <2>1 DEF Restate, Sends, Looks
  <2> QED
    BY <1>4, <2>2, <2>3 DEF Restate
<1>5. ASSUME NEW n \in Names, Depart(n) PROVE KeepPlugin /\ \E ms \in Seq(Message) : Sends(ms)
  <2> DEFINE m == [type |-> "FLN", who |-> n]
  <2>1. <<m>> \in Seq(Message)
    BY DEF Message
  <2>2. \A c \in Channel : rooms'[c].owner = rooms[c].owner /\ rooms'[c].ops = rooms[c].ops
    BY <1>0, <1>5 DEF Depart, Without, Room
  <2>3. Sends(<<m>>)
    BY <1>0, <1>5, <2>2 DEF Depart, Sends, Looks, Goes
  <2> QED
    BY <1>5, <2>1, <2>3 DEF Depart
<1>6. ASSUME NEW n \in Names, Promote(n) \/ Demote(n)
      PROVE  KeepPlugin /\ \E ms \in Seq(Message) : Sends(ms)
  <2>1. PICK type \in {"AOP", "DOP"} : Send(<<[type |-> type, who |-> n]>>)
    BY <1>6 DEF Promote, Demote
  <2>2. [type |-> type, who |-> n] \in Message
    BY DEF Message
  <2> QED
    BY <1>0, <1>2, <1>6, <2>1, <2>2 DEF Promote, Demote
<1>7. CASE Reappoint
  <2>1. PICK ops \in SUBSET Names : Send(<<[type |-> "ADL", ops |-> ops]>>)
    BY <1>7 DEF Reappoint
  <2>2. [type |-> "ADL", ops |-> ops] \in Message
    BY DEF Message
  <2> QED
    BY <1>0, <1>2, <1>7, <2>1, <2>2 DEF Reappoint
<1>8. ASSUME NEW n \in Names, NEW c \in Channel, Enter(n, c)
      PROVE  KeepPlugin /\ \E ms \in Seq(Message) : Sends(ms)
  <2>1. \A d \in Channel : rooms'[d].owner = rooms[d].owner /\ rooms'[d].ops = rooms[d].ops
    BY <1>0, <1>8 DEF Enter, Room
  <2>2. [type |-> "JCH", chan |-> c, who |-> n] \in Message
    BY DEF Message
  <2> QED
    BY <1>0, <1>1, <1>2, <1>8, <2>1, <2>2 DEF Enter, Tell
<1>9. ASSUME NEW n \in Names, NEW c \in Channel, NEW how \in Departures, Remove(n, c, how)
      PROVE  KeepPlugin /\ \E ms \in Seq(Message) : Sends(ms)
  <2>1. \A d \in Channel : rooms'[d].owner = rooms[d].owner /\ rooms'[d].ops = rooms[d].ops
    BY <1>0, <1>9 DEF Remove, Room
  <2>2. [type |-> how, chan |-> c, who |-> n] \in Message
    BY DEF Message, Departures
  <2> QED
    BY <1>0, <1>1, <1>2, <1>9, <2>1, <2>2 DEF Remove, Tell, Departures
<1>10. ASSUME NEW c \in Channel, Appoint(c)
       PROVE  KeepPlugin /\ \E ms \in Seq(Message) : Sends(ms)
  <2>1. PICK ops \in SUBSET Names, owner \in Names \cup {NoOwner} :
            /\ owner \in ops \cup {NoOwner}
            /\ rooms' = [rooms EXCEPT ![c].owner = owner, ![c].ops = ops]
            /\ Tell(c, <<OperatorList(c, owner, ops)>>)
    BY <1>10 DEF Appoint
  <2>2. \A d \in Channel : rooms'[d].owner \in rooms'[d].ops \cup {NoOwner}
    BY <1>0, <2>1 DEF Room
  <2>3. OperatorList(c, owner, ops) \in Message
    BY <2>1 DEF Message, OperatorList
  <2>4. /\ OperatorList(c, owner, ops).type = "COL"
        /\ OperatorList(c, owner, ops).owner \in OperatorList(c, owner, ops).ops \cup {NoOwner}
    BY <2>1 DEF OperatorList
  <2>5. KeepPlugin /\ present' = present /\ outbox' = outbox
    BY <1>10 DEF Appoint
  <2>6. \/ Send(<<>>)
        \/ Send(<<OperatorList(c, owner, ops)>>)
    BY <2>1 DEF Tell
  <2> QED
    BY <1>1, <1>2, <2>2, <2>3, <2>4, <2>5, <2>6
<1>11. ASSUME NEW c \in Channel, SetMode(c)
       PROVE  KeepPlugin /\ \E ms \in Seq(Message) : Sends(ms)
  <2>1. PICK mode \in Modes : /\ rooms' = [rooms EXCEPT ![c].mode = mode]
                              /\ Tell(c, <<[type |-> "RMO", chan |-> c, mode |-> mode]>>)
    BY <1>11 DEF SetMode
  <2>2. \A d \in Channel : rooms'[d].owner = rooms[d].owner /\ rooms'[d].ops = rooms[d].ops
    BY <1>0, <2>1 DEF Room
  <2>3. [type |-> "RMO", chan |-> c, mode |-> mode] \in Message
    BY DEF Message
  <2> QED
    BY <1>0, <1>1, <1>2, <1>11, <2>1, <2>2, <2>3 DEF SetMode, Tell
<1>12. ASSUME NEW c \in Channel, Describe(c)
       PROVE  KeepPlugin /\ \E ms \in Seq(Message) : Sends(ms)
  <2>1. [type |-> "CDS", chan |-> c] \in Message
    BY DEF Message
  <2> QED
    BY <1>0, <1>1, <1>2, <1>12, <2>1 DEF Describe, Tell, server
<1>13. ASSUME outbox # <<>>
       PROVE  Head(outbox).chan \in Channel
  <2>1. Head(outbox) \in Request
    BY <1>13 DEF TypeOK, ServerOK
  <2> QED
    BY <2>1 DEF Request
<1>14. CASE ServeJoin
  <2>1. PICK c \in Channel : \/ /\ rooms' = [rooms EXCEPT ![c].users = @ \cup {Me}]
                                /\ Send(Welcome(c))
                            \/ UNCHANGED <<rooms, inbox>>
    BY <1>13, <1>14 DEF ServeJoin
  <2>2. KeepPlugin /\ present' = present /\ outbox # <<>>
    BY <1>14 DEF ServeJoin
  <2>3. \A d \in Channel : rooms'[d].owner = rooms[d].owner /\ rooms'[d].ops = rooms[d].ops
    BY <1>0, <2>1 DEF Room
  <2>4. CASE Send(Welcome(c))
    <3>1. Welcome(c) \in Seq(Message)
      BY WelcomeType DEF TypeOK
    <3>2. Sends(Welcome(c))
      BY <1>0, <2>2, <2>3, <2>4 DEF Sends, Welcome, OperatorList, Looks
    <3> QED
      BY <2>2, <3>1, <3>2
  <2>5. CASE inbox' = inbox
    <3>1. inbox \o <<>> = inbox
      BY DEF TypeOK, ServerOK
    <3>2. Send(<<>>)
      BY <2>5, <3>1 DEF Send, NothingKnown
    <3> QED
      BY <1>0, <1>1, <2>2, <2>3, <3>2
  <2> QED
    BY <2>1, <2>4, <2>5
<1>15. CASE ServeLeave
  <2>1. PICK c \in Channel : /\ rooms' = [rooms EXCEPT ![c].users = @ \ {Me}]
                             /\ Tell(c, <<[type |-> "LCH", chan |-> c, who |-> Me]>>)
    BY <1>13, <1>15 DEF ServeLeave
  <2>2. KeepPlugin /\ present' = present /\ outbox # <<>>
    BY <1>15 DEF ServeLeave
  <2>3. \A d \in Channel : rooms'[d].owner = rooms[d].owner /\ rooms'[d].ops = rooms[d].ops
    BY <1>0, <2>1 DEF Room
  <2>4. [type |-> "LCH", chan |-> c, who |-> Me] \in Message
    BY <1>0 DEF Message, Departures
  <2> QED
    BY <1>0, <1>1, <1>2, <2>1, <2>2, <2>3, <2>4 DEF Tell
<1> QED
  BY <1>3, <1>4, <1>5, <1>6, <1>7, <1>8, <1>9, <1>10, <1>11, <1>12, <1>14, <1>15
     DEF Serve, Others

LEMMA SendKeepsOrder ==
    TypeOK /\ Orderly /\ ArrivalsAreCalm /\ AbsentAreCalm /\ (Serve \/ Others) =>
        Orderly' /\ ArrivalsAreCalm' /\ AbsentAreCalm'
<1> SUFFICES ASSUME TypeOK, Orderly, ArrivalsAreCalm, AbsentAreCalm, Serve \/ Others
             PROVE  Orderly' /\ ArrivalsAreCalm' /\ AbsentAreCalm'
  OBVIOUS
<1>1. OwnersListed /\ NoChannelYet /\ NothingKnown /\ ListFirst
  BY DEF Orderly
<1>2. PICK ms \in Seq(Message) : Sends(ms)
  BY <1>1, WhatIsSent
<1>3. UNCHANGED <<phase, chat_table, channel, all_characters>>
  BY <1>1, WhatIsSent DEF KeepPlugin, presence, chats
<1>4. CASE phase = "off"
  <2>1. inbox' = <<>>
    BY <1>2, <1>4 DEF Sends, Send
  <2>2. OwnersListed'
    BY <1>1, <1>2, <1>3, <2>1 DEF OwnersListed, Sends
  <2>3. NoChannelYet'
    BY <1>1, <1>2, <1>3, <2>1 DEF NoChannelYet, Sends
  <2>4. NothingKnown'
    BY <1>1, <1>2, <1>3, <2>1 DEF NothingKnown, Sends
  <2>5. ListFirst' /\ ArrivalsAreCalm' /\ AbsentAreCalm'
    BY <1>3, <1>4, <2>1 DEF ListFirst, ArrivalsAreCalm, AbsentAreCalm
  <2> QED
    BY <2>2, <2>3, <2>4, <2>5 DEF Orderly
<1>5. CASE phase # "off"
  <2>1. inbox \in Seq(Message) /\ inbox' = inbox \o ms
    BY <1>2, <1>5 DEF Sends, Send, TypeOK, ServerOK
  <2>2. /\ Len(inbox) \in Nat /\ Len(ms) \in Nat
        /\ Len(inbox') = Len(inbox) + Len(ms)
        /\ \A i \in 1 .. Len(inbox) : inbox'[i] = inbox[i]
        /\ \A i \in 1 .. Len(inbox') : i \notin 1 .. Len(inbox) =>
               i - Len(inbox) \in 1 .. Len(ms) /\ inbox'[i] = ms[i - Len(inbox)]
    BY <2>1
  <2>3. OwnersListed'
    <3>1. \A i \in 1 .. Len(inbox') : inbox'[i].type = "COL" =>
             inbox'[i].owner \in inbox'[i].ops \cup {NoOwner}
      <4> SUFFICES ASSUME NEW i \in 1 .. Len(inbox'), inbox'[i].type = "COL"
                   PROVE  inbox'[i].owner \in inbox'[i].ops \cup {NoOwner}
        OBVIOUS
      <4>1. CASE i \in 1 .. Len(inbox)
        BY <1>1, <2>2, <4>1 DEF OwnersListed
      <4>2. CASE i \notin 1 .. Len(inbox)
        <5>1. i - Len(inbox) \in 1 .. Len(ms) /\ inbox'[i] = ms[i - Len(inbox)]
          BY <2>2, <4>2
        <5> QED
          BY <1>2, <5>1 DEF Sends
      <4> QED
        BY <4>1, <4>2
    <3> QED
      BY <1>1, <1>2, <1>3, <3>1 DEF OwnersListed, Sends
  <2>4. NoChannelYet'
    BY <1>1, <1>2, <1>3, <2>2 DEF NoChannelYet, Sends
  <2>5. NothingKnown'
    BY <1>3, <1>5 DEF NothingKnown
  <2>6. ListFirst'
    BY <1>1, <1>2, <1>3, <2>2 DEF ListFirst, Sends
  <2>7. ASSUME NEW n, NEW i \in 1 .. Len(inbox) + 1, Calm(n, i)
        PROVE  Calm(n, i)'
    BY <1>3, <2>2, <2>7 DEF Calm
  <2>8. ASSUME NEW n \in Names, present[n] = "offline"
        PROVE  Calm(n, Len(inbox) + 1)'
    <3>1. Calm(n, Len(inbox) + 1)
      BY <1>5, <2>8 DEF AbsentAreCalm
    <3>2. \A i \in 1 .. Len(inbox') : i \notin 1 .. Len(inbox) => ~Looks(inbox'[i], n)
      BY <1>2, <2>2, <2>8 DEF Sends
    <3> QED
      BY <1>3, <2>2, <3>1, <3>2 DEF Calm
  <2>9. ArrivalsAreCalm'
    <3> SUFFICES ASSUME NEW i \in 1 .. Len(inbox'), inbox'[i].type = "NLN"
                 PROVE  Calm(inbox[i].who, i)'
      BY DEF ArrivalsAreCalm
    <3>1. CASE i \in 1 .. Len(inbox)
      BY <2>2, <2>7, <3>1 DEF ArrivalsAreCalm
    <3>2. CASE i \notin 1 .. Len(inbox)
      <4>1. i = Len(inbox) + 1 /\ present[inbox'[i].who] = "offline"
        BY <1>2, <2>2, <3>2 DEF Sends
      <4>2. inbox'[i].who \in Names
        <5>1. inbox' \in Seq(Message)
          BY <2>1
        <5>2. inbox'[i] \in Message
          BY <5>1
        <5> QED
          BY <5>2 DEF Message, Departures
      <4>3. Calm(inbox'[i].who, Len(inbox) + 1)
        BY <1>5, <4>1, <4>2 DEF AbsentAreCalm
      <4> QED
        BY <2>2, <2>7, <4>1, <4>3
    <3> QED
      BY <3>1, <3>2
  <2>10. AbsentAreCalm'
    <3> SUFFICES ASSUME NEW n \in Names, present'[n] = "offline"
                 PROVE  Calm(n, Len(inbox) + 1)'
      BY DEF AbsentAreCalm
    <3>1. CASE present[n] # "offline"
      <4>1. Len(inbox') = Len(inbox) + 1 /\ Goes(inbox'[Len(inbox) + 1], n)
        BY <1>2, <2>2, <3>1 DEF Sends
      <4>2. \A j \in 1 .. Len(inbox') : Looks(inbox'[j], n) => j \in 1 .. Len(inbox)
        BY <2>2, <4>1 DEF Looks, Goes
      <4> QED
        BY <2>2, <4>1, <4>2 DEF Calm
    <3> QED
      BY <2>8, <3>1
  <2> QED
    BY <2>3, <2>4, <2>5, <2>6, <2>9, <2>10 DEF Orderly
<1> QED
  BY <1>4, <1>5

\* What handling the first message does to the plugin.
LEMMA WhatIsProcessed ==
    TypeOK /\ Process =>
        /\ outbox' = outbox
        /\ phase' = phase \/ (phase = "login" /\ phase' = "online" /\ inbox[1].type = "NLN")
        /\ chat_table' \subseteq chat_table \/ (inbox[1].type = "JCH" /\ inbox[1].who = Me)
        /\ \A n \in Names : all_characters'[n] = "looking" =>
               Looks(inbox[1], n) \/ (all_characters[n] = "looking" /\ ~Goes(inbox[1], n))
<1> DEFINE Goal == /\ outbox' = outbox
                   /\ \/ phase' = phase
                      \/ phase = "login" /\ phase' = "online" /\ inbox[1].type = "NLN"
                   /\ \/ chat_table' \subseteq chat_table
                      \/ inbox[1].type = "JCH" /\ inbox[1].who = Me
                   /\ \A n \in Names : all_characters'[n] = "looking" =>
                          \/ Looks(inbox[1], n)
                          \/ all_characters[n] = "looking" /\ ~Goes(inbox[1], n)
<1> SUFFICES ASSUME TypeOK, Process PROVE Goal
  OBVIOUS
<1>0. inbox \in Seq(Message) /\ all_characters \in [Names -> Statuses]
  BY DEF TypeOK, ServerOK, PluginOK
<1>1. ASSUME NEW type, Receive(type)
      PROVE  inbox[1].type = type /\ Head(inbox) = inbox[1] /\ inbox[1] \in Message
  BY <1>0, <1>1 DEF Receive
<1>2. ASSUME NEW type, type # "FLN", Receive(type), KeepTables,
             UNCHANGED <<phase, all_characters>>, chat_table' \subseteq chat_table
      PROVE  Goal
  BY <1>1, <1>2 DEF KeepTables, Goes
<1>3. CASE ProcessLIS
  <2>1. /\ inbox[1].type = "LIS" /\ Head(inbox) = inbox[1]
        /\ inbox[1].status \in [Names -> Statuses]
    BY <1>1, <1>3, Payload DEF ProcessLIS
  <2> QED
    BY <1>0, <1>3, <2>1 DEF ProcessLIS, KeepTables, Looks, Goes, chats
<1>4. CASE ProcessADL
  BY <1>2, <1>4 DEF ProcessADL
<1>5. ASSUME NEW n \in Names, ProcessNLN(n) PROVE Goal
  <2>1. inbox[1].type = "NLN"
    BY <1>1, <1>5 DEF ProcessNLN, About
  <2> QED
    BY <1>0, <1>5, <2>1 DEF ProcessNLN, KeepTables, Looks, Goes, chats
<1>6. ASSUME NEW n \in Names, ProcessSTA(n) PROVE Goal
  <2>1. inbox[1].type = "STA" /\ inbox[1].who = n /\ Head(inbox) = inbox[1]
    BY <1>1, <1>6 DEF ProcessSTA, About
  <2> QED
    BY <1>0, <1>6, <2>1 DEF ProcessSTA, KeepTables, Looks, Goes
<1>7. ASSUME NEW n \in Names, ProcessFLN(n) PROVE Goal
  <2>1. inbox[1].type = "FLN" /\ inbox[1].who = n
    BY <1>1, <1>7 DEF ProcessFLN, About
  <2> QED
    BY <1>0, <1>7, <2>1 DEF ProcessFLN, KeepTables, Goes
<1>8. ASSUME NEW n \in Names, ProcessAOP(n) \/ ProcessDOP(n) PROVE Goal
  BY <1>2, <1>8 DEF ProcessAOP, ProcessDOP, About
<1>9. ASSUME NEW c \in Channel, ProcessOwnJCH(c) PROVE Goal
  <2>1. inbox[1].type = "JCH" /\ inbox[1].who = Me
    BY <1>1, <1>9 DEF ProcessOwnJCH, In, About
  <2> QED
    BY <1>9, <2>1 DEF ProcessOwnJCH, KeepTables, Goes, presence
<1>10. ASSUME NEW c \in Channel, ProcessOwnLCH(c) PROVE Goal
  <2>1. PICK type \in Departures : In(type, c)
    BY <1>10 DEF ProcessOwnLCH
  <2>2. chat_table' \subseteq chat_table
    BY <1>10 DEF ProcessOwnLCH, GotChannelLeft, chats
  <2> QED
    BY <1>2, <1>10, <2>1, <2>2 DEF ProcessOwnLCH, In, Departures, presence
<1>11. ASSUME NEW c \in Channel, ProcessCOL(c) \/ ProcessICH(c) PROVE Goal
  BY <1>2, <1>11 DEF ProcessCOL, ProcessICH, In
<1>12. ASSUME NEW c \in Channel, ProcessCDS(c) \/ ProcessRMO(c) PROVE Goal
  BY <1>2, <1>12 DEF ProcessCDS, ProcessRMO, In, presence
<1>13. ASSUME NEW c \in Channel, NEW n \in Names, ProcessJCH(c, n) PROVE Goal
  BY <1>2, <1>13 DEF ProcessJCH, In
<1>14. ASSUME NEW c \in Channel, NEW n \in Names, ProcessLCH(c, n) PROVE Goal
  <2>1. PICK type \in Departures : In(type, c)
    BY <1>14 DEF ProcessLCH
  <2> QED
    BY <1>2, <1>14, <2>1 DEF ProcessLCH, In, Departures, presence
<1> HIDE DEF Goal
<1> QED
  BY <1>3, <1>4, <1>5, <1>6, <1>7, <1>8, <1>9, <1>10, <1>11, <1>12, <1>13, <1>14
     DEF Process

\* The owner of a channel is one of its operators after every step of the plugin.
LEMMA OwnersStep ==
    ASSUME TypeOK, OwnersListed, Process \/ User \/ Disconnect \/ Crash
    PROVE  \A c \in Channel : channel'[c].owner \in channel'[c].ops \cup {NoOwner}
<1> DEFINE Goal == \A c \in Channel : channel'[c].owner \in channel'[c].ops \cup {NoOwner}
<1> SUFFICES Goal
  OBVIOUS
<1>0. /\ channel \in [Channel -> Room] /\ inbox \in Seq(Message)
      /\ \A c \in Channel : channel[c].owner \in channel[c].ops \cup {NoOwner}
  BY DEF OwnersListed, TypeOK, PluginOK, ServerOK
<1>1. ASSUME \A c \in Channel : /\ channel'[c].owner = channel[c].owner
                                /\ channel'[c].ops = channel[c].ops
      PROVE  Goal
  BY <1>0, <1>1
<1>2. ASSUME channel' = channel PROVE Goal
  BY <1>0, <1>2
<1>3. CASE ProcessLIS \/ ProcessADL
  BY <1>2, <1>3 DEF ProcessLIS, ProcessADL, chats
<1>4. ASSUME NEW n \in Names, ProcessNLN(n) \/ ProcessSTA(n) \/ ProcessAOP(n) \/ ProcessDOP(n)
      PROVE  Goal
  BY <1>2, <1>4 DEF ProcessNLN, ProcessSTA, ProcessAOP, ProcessDOP, chats
<1>5. ASSUME NEW n \in Names, ProcessFLN(n) PROVE Goal
  BY <1>0, <1>1, <1>5 DEF ProcessFLN, ForgetUser, Room
<1>6. ASSUME NEW c \in Channel, ProcessOwnJCH(c) PROVE Goal
  BY <1>0, <1>6 DEF ProcessOwnJCH, Fresh
<1>7. ASSUME NEW c \in Channel, GotChannelLeft(c) PROVE Goal
  BY <1>0, <1>7 DEF GotChannelLeft, NotJoined, NewRoom
<1>8. ASSUME NEW c \in Channel, ProcessOwnLCH(c) PROVE Goal
  BY <1>2, <1>7, <1>8 DEF ProcessOwnLCH, chats
<1>9. ASSUME NEW c \in Channel, ProcessCOL(c) PROVE Goal
  <2>1. inbox[1].type = "COL" /\ Head(inbox) = inbox[1] /\ 1 \in 1 .. Len(inbox)
    BY <1>0, <1>9 DEF ProcessCOL, In, Receive
  <2>2. inbox[1].owner \in inbox[1].ops \cup {NoOwner}
    BY <2>1 DEF OwnersListed
  <2> QED
    BY <1>0, <1>9, <2>1, <2>2 DEF ProcessCOL, Room
<1>10. ASSUME NEW c \in Channel, ProcessICH(c) \/ ProcessRMO(c) PROVE Goal
  BY <1>0, <1>1, <1>10 DEF ProcessICH, ProcessRMO, Room
<1>11. ASSUME NEW c \in Channel, ProcessCDS(c) PROVE Goal
  BY <1>2, <1>11 DEF ProcessCDS
<1>12. ASSUME NEW c \in Channel, NEW n \in Names, ProcessJCH(c, n) PROVE Goal
  BY <1>0, <1>1, <1>12 DEF ProcessJCH, Room
<1>13. ASSUME NEW c \in Channel, NEW n \in Names, ProcessLCH(c, n) PROVE Goal
  BY <1>0, <1>1, <1>13 DEF ProcessLCH, Room
<1>14. ASSUME NEW c \in Channel, JoinChannel(c) \/ KeepChat(c) PROVE Goal
  BY <1>2, <1>14 DEF JoinChannel, KeepChat, chats
<1>15. ASSUME NEW c \in Channel, CloseWindow(c) PROVE Goal
  BY <1>2, <1>7, <1>15 DEF CloseWindow, chats
<1>16. ASSUME NEW c \in Channel, NEW w \in Shows, Hide(c, w) \/ Show(c, w) PROVE Goal
  BY <1>2, <1>16 DEF Hide, Show
<1>17. CASE Disconnect \/ Crash
  BY <1>17 DEF Disconnect, Crash, EndSession, NotJoined, NewRoom
<1> HIDE DEF Goal
<1> QED
  BY <1>3, <1>4, <1>5, <1>6, <1>8, <1>9, <1>10, <1>11, <1>12, <1>13, <1>14, <1>15, <1>16,
     <1>17 DEF Process, User

LEMMA ProcessKeepsOrder ==
    TypeOK /\ Orderly /\ ArrivalsAreCalm /\ AbsentAreCalm /\ Process =>
        Orderly' /\ ArrivalsAreCalm' /\ AbsentAreCalm'
<1> SUFFICES ASSUME TypeOK, Orderly, ArrivalsAreCalm, AbsentAreCalm, Process
             PROVE  Orderly' /\ ArrivalsAreCalm' /\ AbsentAreCalm'
  OBVIOUS
<1>1. OwnersListed /\ NoChannelYet /\ NothingKnown /\ ListFirst
  BY DEF Orderly
<1>2. UNCHANGED <<present, rooms>>
  BY ProcessMoves
<1>3. /\ Len(inbox) \in Nat \ {0} /\ Len(inbox') = Len(inbox) - 1
      /\ \A i \in 1 .. Len(inbox') : inbox'[i] = inbox[i + 1]
  BY ProcessMoves DEF Moves
<1>4. phase # "off" /\ phase' # "off"
  <2>1. inbox # <<>>
    BY <1>3
  <2> QED
    BY <1>1, <2>1, WhatIsProcessed DEF NothingKnown
<1>5. OwnersListed'
  <2>1. \A c \in Channel : channel'[c].owner \in channel'[c].ops \cup {NoOwner}
    BY <1>1, OwnersStep
  <2> QED
    BY <1>1, <1>2, <1>3, <2>1 DEF OwnersListed
<1>6. NoChannelYet'
  BY <1>1, <1>3, WhatIsProcessed DEF NoChannelYet
<1>7. NothingKnown'
  BY <1>4 DEF NothingKnown
<1>8. ListFirst'
  <2> SUFFICES ASSUME NEW i \in 1 .. Len(inbox'), inbox'[i].type = "LIS"
               PROVE  phase' = "login" /\ i = 1
    BY DEF ListFirst
  <2>1. i + 1 \in 1 .. Len(inbox) /\ inbox[i + 1].type = "LIS"
    BY <1>3
  <2>2. phase = "login" /\ i + 1 = 2 /\ inbox[1].type = "ADL"
    BY <1>1, <2>1 DEF ListFirst
  <2> QED
    BY <2>2, WhatIsProcessed
<1>9. ASSUME NEW n \in Names, NEW i \in 1 .. Len(inbox), Calm(n, i + 1)
      PROVE  Calm(n, i)'
  <2>1. ASSUME all_characters'[n] = "looking"
        PROVE  \E k \in 2 .. i : Goes(inbox[k], n)
    <3>1. Looks(inbox[1], n) \/ (all_characters[n] = "looking" /\ ~Goes(inbox[1], n))
      BY <2>1, WhatIsProcessed
    <3>2. CASE Looks(inbox[1], n)
      BY <1>3, <1>9, <3>2 DEF Calm
    <3>3. CASE all_characters[n] = "looking" /\ ~Goes(inbox[1], n)
      <4>1. PICK k \in 1 .. i : Goes(inbox[k], n)
        BY <1>9, <3>3 DEF Calm
      <4>2. k # 1
        BY <3>3, <4>1
      <4> QED
        BY <4>1, <4>2
    <3> QED
      BY <3>1, <3>2, <3>3
  <2>2. ASSUME NEW j \in 1 .. i, NEW k \in j + 1 .. i, Goes(inbox[k], n)
        PROVE  k - 1 \in j .. i - 1 /\ Goes(inbox'[k - 1], n)
    BY <1>3, <2>2
  <2>3. all_characters'[n] = "looking" => \E k \in 1 .. i - 1 : Goes(inbox'[k], n)
    BY <2>1, <2>2
  <2>4. ASSUME NEW j \in 1 .. i - 1, Looks(inbox'[j], n)
        PROVE  \E k \in j + 1 .. i - 1 : Goes(inbox'[k], n)
    <3>1. j + 1 \in 1 .. i /\ Looks(inbox[j + 1], n)
      BY <1>3, <2>4
    <3>2. PICK k \in (j + 1) + 1 .. i : Goes(inbox[k], n)
      BY <1>9, <3>1 DEF Calm
    <3> QED
      BY <2>2, <3>1, <3>2
  <2> QED
    BY <2>3, <2>4 DEF Calm
<1>10. ArrivalsAreCalm'
  <2> SUFFICES ASSUME NEW i \in 1 .. Len(inbox'), inbox'[i].type = "NLN"
               PROVE  Calm(inbox[i].who, i)'
    BY DEF ArrivalsAreCalm
  <2>1. /\ i \in 1 .. Len(inbox) /\ i + 1 \in 1 .. Len(inbox)
        /\ inbox'[i] = inbox[i + 1] /\ inbox[i + 1].type = "NLN"
    BY <1>3
  <2>2. Calm(inbox[i + 1].who, i + 1)
    BY <2>1 DEF ArrivalsAreCalm
  <2>3. inbox[i + 1].who \in Names
    <3>1. inbox[i + 1] \in Message
      BY <2>1 DEF TypeOK, ServerOK
    <3> QED
      BY <2>1, <3>1 DEF Message, Departures
  <2> QED
    BY <1>9, <2>1, <2>2, <2>3
<1>11. AbsentAreCalm'
  <2> SUFFICES ASSUME NEW n \in Names, present'[n] = "offline"
               PROVE  Calm(n, Len(inbox) + 1)'
    BY DEF AbsentAreCalm
  <2>1. Calm(n, Len(inbox) + 1)
    BY <1>2, <1>4 DEF AbsentAreCalm
  <2>2. Len(inbox) \in 1 .. Len(inbox) /\ Len(inbox') + 1 = Len(inbox)
    BY <1>3
  <2> QED
    BY <1>9, <2>1, <2>2
<1> QED
  BY <1>5, <1>6, <1>7, <1>8, <1>10, <1>11 DEF Orderly

LEMMA OrderStep ==
    TypeOK /\ ChatsMatch /\ Orderly /\ ArrivalsAreCalm /\ AbsentAreCalm /\ [Next]_vars =>
        Orderly' /\ ArrivalsAreCalm' /\ AbsentAreCalm'
<1> SUFFICES ASSUME TypeOK, ChatsMatch, Orderly, ArrivalsAreCalm, AbsentAreCalm, [Next]_vars
             PROVE  Orderly' /\ ArrivalsAreCalm' /\ AbsentAreCalm'
  OBVIOUS
<1>1. OwnersListed /\ NoChannelYet /\ NothingKnown /\ ListFirst
  BY DEF Orderly
<1>2. ASSUME UNCHANGED <<phase, all_characters, present, rooms, inbox>>,
             chat_table' \subseteq chat_table, phase = "online" \/ outbox' = outbox,
             \A c \in Channel : channel'[c].owner \in channel'[c].ops \cup {NoOwner}
      PROVE  Orderly' /\ ArrivalsAreCalm' /\ AbsentAreCalm'
  <2>1. OwnersListed' /\ NothingKnown' /\ ListFirst'
    BY <1>1, <1>2 DEF OwnersListed, NothingKnown, ListFirst
  <2>2. NoChannelYet'
    BY <1>1, <1>2 DEF NoChannelYet
  <2>3. \A n, i : Calm(n, i) => Calm(n, i)'
    BY <1>2 DEF Calm
  <2>4. ArrivalsAreCalm' /\ AbsentAreCalm'
    BY <1>2, <2>3 DEF ArrivalsAreCalm, AbsentAreCalm
  <2> QED
    BY <2>1, <2>2, <2>4 DEF Orderly
<1>3. CASE User
  <2>1. \A c \in Channel : channel'[c].owner \in channel'[c].ops \cup {NoOwner}
    BY <1>1, <1>3, OwnersStep
  <2> USE DEF presence, chats, server
  <2>2. ASSUME NEW c \in Channel, JoinChannel(c) \/ KeepChat(c)
        PROVE  Orderly' /\ ArrivalsAreCalm' /\ AbsentAreCalm'
    BY <1>2, <2>1, <2>2 DEF JoinChannel, KeepChat
  <2>3. ASSUME NEW c \in Channel, NEW w \in Shows, Hide(c, w) \/ Show(c, w)
        PROVE  Orderly' /\ ArrivalsAreCalm' /\ AbsentAreCalm'
    BY <1>2, <2>1, <2>3 DEF Hide, Show
  <2>4. ASSUME NEW c \in Channel, CloseWindow(c)
        PROVE  Orderly' /\ ArrivalsAreCalm' /\ AbsentAreCalm'
    <3>1. convo[c] = "open" => phase = "online"
      BY <1>1 DEF ChatsMatch, NoChannelYet
    <3>2. chat_table' \subseteq chat_table
      BY <2>4 DEF CloseWindow, GotChannelLeft
    <3> QED
      BY <1>2, <2>1, <2>4, <3>1, <3>2 DEF CloseWindow
  <2> QED
    BY <1>3, <2>2, <2>3, <2>4 DEF User
<1>4. \A c \in Channel : channel[c].owner \in channel[c].ops \cup {NoOwner}
  BY <1>1 DEF OwnersListed
<1>5. ASSUME NEW c \in Channel, Elapse(c)
      PROVE  Orderly' /\ ArrivalsAreCalm' /\ AbsentAreCalm'
  BY <1>2, <1>4, <1>5 DEF Elapse, KeepTables, presence, chats, server
<1>6. ASSUME NEW n \in Names, Overwrite(n)
      PROVE  Orderly' /\ ArrivalsAreCalm' /\ AbsentAreCalm'
  BY <1>2, <1>4, <1>6 DEF Overwrite, KeepTables, presence, chats, server
<1>7. CASE UNCHANGED vars
  BY <1>2, <1>4, <1>7 DEF vars, presence, chats, server
<1>8. CASE Login
  <2>1. /\ phase = "off" /\ phase' = "login" /\ present[Me] = "offline" /\ outbox' = outbox
        /\ UNCHANGED <<all_characters, chat_table, channel, rooms>>
        /\ present' = [present EXCEPT ![Me] = "online"]
        /\ inbox' = << [type |-> "ADL", ops |-> operators],
                       [type |-> "LIS", status |-> present],
                       [type |-> "NLN", who |-> Me] >>
    BY <1>1, <1>8 DEF Login, presence, chats, NothingKnown
  <2>2. /\ Len(inbox') = 3
        /\ inbox'[1] = [type |-> "ADL", ops |-> operators]
        /\ inbox'[2] = [type |-> "LIS", status |-> present]
        /\ inbox'[3] = [type |-> "NLN", who |-> Me]
    BY <2>1
  <2>3. OwnersListed'
    BY <1>1, <2>1, <2>2 DEF OwnersListed
  <2>4. NoChannelYet' /\ NothingKnown'
    BY <1>1, <2>1, <2>2 DEF NoChannelYet, NothingKnown
  <2>5. ListFirst'
    BY <2>1, <2>2 DEF ListFirst
  <2>6. ASSUME NEW n \in Names, NEW i \in {3, 4}, present[n] = "offline" PROVE Calm(n, i)'
    <3>1. all_characters'[n] # "looking"
      BY <1>1, <2>1 DEF NothingKnown
    <3>2. \A j \in 1 .. 3 : ~Looks(inbox'[j], n)
      BY <2>2, <2>6 DEF Looks
    <3> QED
      BY <3>1, <3>2 DEF Calm
  <2>7. ArrivalsAreCalm'
    BY <2>1, <2>2, <2>6, NamesAssumption DEF ArrivalsAreCalm
  <2>8. AbsentAreCalm'
    <3>1. \A n \in Names : present'[n] = "offline" => present[n] = "offline"
      BY <2>1 DEF TypeOK, ServerOK
    <3> QED
      BY <2>2, <2>6, <3>1 DEF AbsentAreCalm
  <2> QED
    BY <2>3, <2>4, <2>5, <2>7, <2>8 DEF Orderly
<1>9. CASE Disconnect \/ Crash
  <2>1. EndSession
    BY <1>9 DEF Disconnect, Crash
  <2>2. /\ phase' = "off" /\ chat_table' = {} /\ outbox' = <<>> /\ inbox' = <<>>
        /\ all_characters' = [n \in Names |-> "offline"]
        /\ present' = [present EXCEPT ![Me] = "offline"]
        /\ rooms' = Without(Me)
    BY <2>1 DEF EndSession
  <2>3. \A c \in Channel : rooms'[c].owner \in rooms'[c].ops \cup {NoOwner}
    BY <1>1, <2>2 DEF Without, OwnersListed, TypeOK, ServerOK, Room
  <2>4. OwnersListed'
    BY <1>1, <1>9, <2>2, <2>3, OwnersStep DEF OwnersListed
  <2>5. NoChannelYet' /\ NothingKnown' /\ ListFirst'
    BY <2>2, NamesAssumption DEF NoChannelYet, NothingKnown, ListFirst, TypeOK, ServerOK
  <2>6. ArrivalsAreCalm' /\ AbsentAreCalm'
    BY <2>2 DEF ArrivalsAreCalm, AbsentAreCalm
  <2> QED
    BY <2>4, <2>5, <2>6 DEF Orderly
<1> QED
  BY <1>3, <1>5, <1>6, <1>7, <1>8, <1>9, SendKeepsOrder, ProcessKeepsOrder DEF Next

\* Flags depend on four things.
LEMMA FlagsSame ==
    ASSUME NEW c, NEW n \in Names,
           all_characters \in [Names -> Statuses], all_characters' \in [Names -> Statuses],
           n = channel'[c].owner <=> n = channel[c].owner,
           n \in channel'[c].ops <=> n \in channel[c].ops,
           n \in global_ops' <=> n \in global_ops,
           all_characters'[n] = "looking" <=> all_characters[n] = "looking"
    PROVE  Flags(c, n)' = Flags(c, n)
<1>1. \A f \in Ranks : f \in Flags(c, n)' <=> f \in Flags(c, n)
  BY DEF Flags, Holders, Ranks
<1> QED
  BY <1>1 DEF Flags

\* An update of some users is right if nothing has changed for the others.
LEMMA UpdateIsRight ==
    ASSUME TypeOK, RosterShown, RanksShown, chat_table' = chat_table,
           \A c \in Channel : channel'[c].users = channel[c].users,
           NEW who, UpdateRanks(who),
           \A c \in chat_table : \A n \in Names \ who :
               Flags(c, n)' = Flags(c, n) /\ (n \in lost => n \in lost')
    PROVE  RanksShown'
<1> SUFFICES ASSUME NEW c \in chat_table, NEW n \in channel[c].users, n \notin lost'
             PROVE  rank'[c][n] = Flags(c, n)'
  BY DEF RanksShown, TypeOK, PluginOK
<1>1. c \in Channel /\ n \in Names /\ room[c] = channel[c].users
  BY DEF TypeOK, PluginOK, Room, RosterShown
<1>2. CASE n \in who
  BY <1>1, <1>2 DEF UpdateRanks
<1>3. CASE n \notin who
  <2>1. rank'[c][n] = rank[c][n]
    BY <1>1, <1>3 DEF UpdateRanks
  <2>2. Flags(c, n)' = Flags(c, n) /\ n \notin lost
    BY <1>1, <1>3
  <2> QED
    BY <2>1, <2>2 DEF RanksShown
<1> QED
  BY <1>2, <1>3

LEMMA RanksStep ==
    /\ TypeOK /\ TypeOK' /\ ChatsMatch /\ RosterShown /\ Orderly /\ ArrivalsAreCalm
    /\ RanksShown /\ [Next]_vars
    => RanksShown'
<1> SUFFICES ASSUME TypeOK, TypeOK', ChatsMatch, RosterShown, Orderly, ArrivalsAreCalm,
                    RanksShown, [Next]_vars
             PROVE  RanksShown'
  OBVIOUS
<1>0. /\ channel \in [Channel -> Room] /\ room \in [Channel -> SUBSET Names]
      /\ rank \in [Channel -> [Names -> SUBSET Ranks]]
      /\ chat_table \subseteq Channel /\ inbox \in Seq(Message)
      /\ all_characters \in [Names -> Statuses] /\ all_characters' \in [Names -> Statuses]
      /\ \A c \in Channel : channel[c].users \subseteq Names
      /\ \A c \in Channel : channel[c].owner \in channel[c].ops \cup {NoOwner}
  BY DEF TypeOK, PluginOK, WindowsOK, ServerOK, Room, Orderly, OwnersListed
<1>1. ASSUME UNCHANGED <<channel, rank>>, chat_table' \subseteq chat_table,
             \A n \in Names : n \in lost => n \in lost',
             \A n \in Names \ lost' : n \in global_ops' <=> n \in global_ops,
             \A n \in Names : all_characters'[n] = "looking" <=> all_characters[n] = "looking"
      PROVE  RanksShown'
  BY <1>0, <1>1, FlagsSame DEF RanksShown
<1>2. CASE ProcessLIS
  <2>1. 1 \in 1 .. Len(inbox) /\ inbox[1].type = "LIS"
    BY <1>0, <1>2 DEF ProcessLIS, Receive
  <2>2. chat_table = {}
    BY <2>1 DEF Orderly, ListFirst, NoChannelYet
  <2> QED
    BY <1>2, <2>2 DEF ProcessLIS, chats, RanksShown
<1>3. CASE ProcessADL
  <2>1. PICK who : who = global_ops \cup Head(inbox).ops
    OBVIOUS
  <2>2. \A c \in Channel : \A n \in Names \ who : Flags(c, n)' = Flags(c, n)
    BY <1>0, <1>3, <2>1, FlagsSame DEF ProcessADL
  <2>3. UpdateRanks(who)
    BY <1>3, <2>1 DEF ProcessADL
  <2>4. \A n \in Names \ who : n \in lost => n \in lost'
    BY <1>3, <2>1 DEF ProcessADL
  <2>5. chat_table' = chat_table /\ channel' = channel
    BY <1>3 DEF ProcessADL
  <2> QED
    BY <1>0, <2>2, <2>3, <2>4, <2>5, UpdateIsRight
<1>4. ASSUME NEW n \in Names, ProcessNLN(n) PROVE RanksShown'
  <2>1. 1 \in 1 .. Len(inbox) /\ inbox[1].type = "NLN" /\ inbox[1].who = n
    BY <1>0, <1>4 DEF ProcessNLN, About, Receive
  <2>2. all_characters[n] # "looking"
    <3>1. Calm(n, 1)
      BY <2>1 DEF ArrivalsAreCalm
    <3> QED
      BY <3>1 DEF Calm
  <2>3. \A m \in Names : all_characters'[m] = "looking" <=> all_characters[m] = "looking"
    BY <1>0, <1>4, <2>2 DEF ProcessNLN
  <2> QED
    BY <1>1, <1>4, <2>3 DEF ProcessNLN, globals, chats, windows
<1>5. ASSUME NEW n \in Names, ProcessSTA(n) PROVE RanksShown'
  <2>1. CASE all_characters[n] = "offline"
    BY <1>1, <1>5, <2>1 DEF ProcessSTA
  <2>2. CASE all_characters[n] # "offline"
    <3>1. \A c \in Channel : \A m \in Names \ {n} : Flags(c, m)' = Flags(c, m)
      BY <1>0, <1>5, <2>2, FlagsSame DEF ProcessSTA
    <3>2. UpdateRanks({n}) /\ chat_table' = chat_table /\ channel' = channel /\ lost' = lost
      BY <1>5, <2>2 DEF ProcessSTA
    <3> QED
      BY <1>0, <3>1, <3>2, UpdateIsRight
  <2> QED
    BY <2>1, <2>2
<1>6. ASSUME NEW n \in Names, ProcessFLN(n) PROVE RanksShown'
  <2> SUFFICES ASSUME NEW c \in chat_table, NEW m \in channel'[c].users, m \notin lost
               PROVE  rank'[c][m] = Flags(c, m)'
    BY <1>6 DEF ProcessFLN, globals, RanksShown
  <2>1. /\ c \in Channel /\ m \in channel[c].users /\ m # n /\ m \in Names
        /\ channel'[c].ops = channel[c].ops /\ channel'[c].owner = channel[c].owner
    BY <1>0, <1>6 DEF ProcessFLN, ForgetUser, Room
  <2>2. rank'[c][m] = rank[c][m]
    BY <1>0, <1>6, <2>1 DEF ProcessFLN, ForgetUser, RemoveFromRooms
  <2>3. Flags(c, m)' = Flags(c, m)
    BY <1>0, <1>6, <2>1, FlagsSame DEF ProcessFLN, globals
  <2> QED
    BY <2>1, <2>2, <2>3 DEF RanksShown
<1>7. ASSUME NEW n \in Names, ProcessAOP(n) \/ ProcessDOP(n) PROVE RanksShown'
  <2>1. /\ all_characters' = all_characters /\ channel' = channel /\ UpdateRanks({n})
        /\ chat_table' = chat_table /\ lost' = lost \ {n}
        /\ \A m \in Names \ {n} : m \in global_ops' <=> m \in global_ops
    BY <1>7 DEF ProcessAOP, ProcessDOP
  <2>2. \A c \in Channel : \A m \in Names \ {n} : Flags(c, m)' = Flags(c, m)
    BY <1>0, <2>1, FlagsSame
  <2> QED
    BY <1>0, <2>1, <2>2, UpdateIsRight
<1>8. ASSUME NEW n \in Names, Overwrite(n) PROVE RanksShown'
  BY <1>1, <1>8 DEF Overwrite, presence, chats, windows
<1>9. ASSUME NEW c \in Channel, ProcessOwnJCH(c) PROVE RanksShown'
  <2> SUFFICES ASSUME NEW d \in chat_table', NEW m \in channel'[d].users, m \notin lost
               PROVE  rank'[d][m] = Flags(d, m)'
    BY <1>9 DEF ProcessOwnJCH, globals, RanksShown
  <2>1. /\ d \in chat_table /\ d \in Channel /\ d # c
        /\ channel'[d] = channel[d] /\ rank'[d] = rank[d]
    BY <1>0, <1>9 DEF ProcessOwnJCH, Fresh
  <2>2. Flags(d, m)' = Flags(d, m)
    BY <1>0, <1>9, <2>1, FlagsSame DEF ProcessOwnJCH, presence, globals
  <2> QED
    BY <2>1, <2>2 DEF RanksShown
<1>10. ASSUME NEW c \in Channel, GotChannelLeft(c), NEW to, LeaveWindow(c, to),
              UNCHANGED <<presence, globals>>
       PROVE  RanksShown'
  <2> SUFFICES ASSUME NEW d \in chat_table', NEW m \in channel'[d].users, m \notin lost
               PROVE  rank'[d][m] = Flags(d, m)'
    BY <1>10 DEF globals, RanksShown
  <2>1. /\ d \in chat_table /\ d \in Channel /\ d # c
        /\ channel'[d] = channel[d] /\ rank'[d] = rank[d]
    BY <1>0, <1>10 DEF GotChannelLeft, LeaveWindow
  <2>2. Flags(d, m)' = Flags(d, m)
    BY <1>0, <1>10, <2>1, FlagsSame DEF presence, globals
  <2> QED
    BY <2>1, <2>2 DEF RanksShown
<1>11. ASSUME NEW c \in Channel, ProcessOwnLCH(c) PROVE RanksShown'
  BY <1>1, <1>10, <1>11 DEF ProcessOwnLCH, chats, windows, presence, globals
<1>12. ASSUME NEW c \in Channel, CloseWindow(c) PROVE RanksShown'
  <2>1. CASE convo[c] = "open"
    BY <1>10, <1>12, <2>1 DEF CloseWindow
  <2>2. CASE convo[c] # "open"
    <3>1. c \notin chat_table
      BY <2>2 DEF ChatsMatch
    <3>2. /\ UNCHANGED <<chat_table, channel, all_characters, global_ops, lost>>
          /\ \A d \in chat_table : rank'[d] = rank[d]
      BY <1>0, <1>12, <2>2, <3>1 DEF CloseWindow, LeaveWindow, chats, presence, globals
    <3>3. \A d \in chat_table : \A m \in channel[d].users : Flags(d, m)' = Flags(d, m)
      BY <1>0, <3>2, FlagsSame
    <3> QED
      BY <3>2, <3>3 DEF RanksShown
  <2> QED
    BY <2>1, <2>2
<1>13. ASSUME NEW c \in Channel, ProcessCOL(c) PROVE RanksShown'
  <2>1. CASE Known(c)
    <3>1. 1 \in 1 .. Len(inbox) /\ inbox[1].type = "COL" /\ Head(inbox) = inbox[1]
      BY <1>0, <1>13 DEF ProcessCOL, In, Receive
    <3>2. Head(inbox).owner \in Head(inbox).ops \cup {NoOwner}
      BY <3>1 DEF Orderly, OwnersListed
    <3>3. PICK who : who = channel[c].ops \cup Head(inbox).ops
      OBVIOUS
    <3>4. UpdateRanks(who)
      BY <1>13, <2>1, <3>3 DEF ProcessCOL, Reranked
    <3>5. /\ channel' = [channel EXCEPT ![c].owner = Head(inbox).owner,
                                        ![c].ops = Head(inbox).ops]
          /\ UNCHANGED <<all_characters, global_ops, chat_table, lost>>
      BY <1>13, <2>1 DEF ProcessCOL
    <3>6. /\ \A d \in Channel : channel'[d].users = channel[d].users
          /\ \A d \in Channel \ {c} : channel'[d] = channel[d]
          /\ channel'[c].owner = Head(inbox).owner /\ channel'[c].ops = Head(inbox).ops
      BY <1>0, <3>5 DEF Room
    <3>7. \A d \in Channel : \A m \in Names \ who :
              /\ m = channel'[d].owner <=> m = channel[d].owner
              /\ m \in channel'[d].ops <=> m \in channel[d].ops
      BY <1>0, <3>2, <3>3, <3>6, NamesAssumption
    <3>8. \A d \in Channel : \A m \in Names \ who : Flags(d, m)' = Flags(d, m)
      BY <1>0, <3>5, <3>7, FlagsSame
    <3> QED
      BY <1>0, <3>4, <3>5, <3>6, <3>8, UpdateIsRight
  <2> QED
    BY <1>1, <1>13, <2>1 DEF ProcessCOL
<1>14. ASSUME NEW c \in Channel, NEW who, AddToRoom(c, who),
              UNCHANGED <<all_characters, global_ops, lost, chat_table>>,
              \A d \in Channel : /\ channel'[d].owner = channel[d].owner
                                 /\ channel'[d].ops = channel[d].ops
                                 /\ channel'[d].users = IF d = c THEN channel[c].users \cup who
                                                                ELSE channel[d].users
       PROVE  RanksShown'
  <2> SUFFICES ASSUME NEW d \in chat_table, NEW m \in channel'[d].users, m \notin lost
               PROVE  rank'[d][m] = Flags(d, m)'
    BY <1>14 DEF RanksShown
  <2>1. d \in Channel /\ m \in Names
    BY <1>0 DEF TypeOK, PluginOK, Room
  <2>2. CASE d = c /\ m \in who
    BY <1>0, <1>14, <2>1, <2>2 DEF AddToRoom
  <2>3. CASE ~(d = c /\ m \in who)
    <3>1. rank'[d][m] = rank[d][m] /\ m \in channel[d].users
      BY <1>0, <1>14, <2>1, <2>3 DEF AddToRoom
    <3>2. Flags(d, m)' = Flags(d, m)
      BY <1>0, <1>14, <2>1, FlagsSame
    <3> QED
      BY <3>1, <3>2 DEF RanksShown
  <2> QED
    BY <2>2, <2>3
<1>15. ASSUME NEW c \in Channel, ProcessICH(c) PROVE RanksShown'
  <2>1. CASE Known(c)
    <3>1. PICK who : who = Head(inbox).users
      OBVIOUS
    <3>2. AddToRoom(c, who) /\ UNCHANGED <<all_characters, global_ops, lost, chat_table>>
      BY <1>15, <2>1, <3>1 DEF ProcessICH
    <3>3. \A d \in Channel : /\ channel'[d].owner = channel[d].owner
                             /\ channel'[d].ops = channel[d].ops
                             /\ channel'[d].users = IF d = c THEN channel[c].users \cup who
                                                            ELSE channel[d].users
      <4>1. channel' = [channel EXCEPT ![c].mode = Head(inbox).mode, ![c].users = @ \cup who]
        BY <1>15, <2>1, <3>1 DEF ProcessICH
      <4> QED
        BY <1>0, <4>1 DEF Room
    <3> QED
      BY <1>14, <3>2, <3>3
  <2> QED
    BY <1>1, <1>15, <2>1 DEF ProcessICH
<1>16. ASSUME NEW c \in Channel, NEW n \in Names, ProcessJCH(c, n) PROVE RanksShown'
  <2>1. CASE Known(c)
    <3>1. AddToRoom(c, {n}) /\ UNCHANGED <<all_characters, global_ops, lost, chat_table>>
      BY <1>16, <2>1 DEF ProcessJCH
    <3>2. \A d \in Channel : /\ channel'[d].owner = channel[d].owner
                             /\ channel'[d].ops = channel[d].ops
                             /\ channel'[d].users = IF d = c THEN channel[c].users \cup {n}
                                                            ELSE channel[d].users
      <4>1. channel' = [channel EXCEPT ![c].users = @ \cup {n}]
        BY <1>16, <2>1 DEF ProcessJCH
      <4> QED
        BY <1>0, <4>1 DEF Room
    <3> QED
      BY <1>14, <3>1, <3>2
  <2> QED
    BY <1>1, <1>16, <2>1 DEF ProcessJCH
<1>17. ASSUME NEW c \in Channel, NEW n \in Names, ProcessLCH(c, n) PROVE RanksShown'
  <2>1. CASE Known(c) /\ n \in channel[c].users
    <3> SUFFICES ASSUME NEW d \in chat_table, NEW m \in channel'[d].users, m \notin lost
                 PROVE  rank'[d][m] = Flags(d, m)'
      BY <1>17 DEF ProcessLCH, globals, RanksShown
    <3>1. /\ d \in Channel /\ m \in channel[d].users /\ m \in Names
          /\ d # c \/ m # n
          /\ channel'[d].ops = channel[d].ops /\ channel'[d].owner = channel[d].owner
      BY <1>0, <1>17, <2>1 DEF ProcessLCH, Room
    <3>2. rank'[d][m] = rank[d][m]
      <4>1. rank' = [e \in Channel |-> [l \in Names |->
                        IF e \in {c} /\ l = n THEN {} ELSE rank[e][l]]]
        BY <1>17, <2>1 DEF ProcessLCH, RemoveFromRooms
      <4> QED
        BY <3>1, <4>1
    <3>3. Flags(d, m)' = Flags(d, m)
      BY <1>0, <1>17, <3>1, FlagsSame DEF ProcessLCH, presence, globals
    <3> QED
      BY <3>1, <3>2, <3>3 DEF RanksShown
  <2> QED
    BY <1>1, <1>17, <2>1 DEF ProcessLCH, presence, globals
<1>18. ASSUME NEW c \in Channel, ProcessRMO(c) PROVE RanksShown'
  <2>1. UNCHANGED <<all_characters, global_ops, lost, chat_table, rank>>
    BY <1>18 DEF ProcessRMO, presence, globals, windows
  <2>2. \A d \in Channel : /\ channel'[d].owner = channel[d].owner
                           /\ channel'[d].ops = channel[d].ops
                           /\ channel'[d].users = channel[d].users
    <3>1. \/ channel' = channel
          \/ channel' = [channel EXCEPT ![c].mode = Head(inbox).mode]
      BY <1>18 DEF ProcessRMO
    <3> QED
      BY <1>0, <3>1 DEF Room
  <2>3. \A d \in chat_table : \A m \in channel[d].users : Flags(d, m)' = Flags(d, m)
    BY <1>0, <2>1, <2>2, FlagsSame
  <2> QED
    BY <1>0, <2>1, <2>2, <2>3 DEF RanksShown
<1>19. CASE Disconnect \/ Crash
  BY <1>19 DEF Disconnect, Crash, EndSession, RanksShown
<1>20. CASE UNCHANGED shown
  BY <1>1, <1>20 DEF shown
<1> QED
  BY <1>2, <1>3, <1>4, <1>5, <1>6, <1>7, <1>8, <1>9, <1>11, <1>12, <1>13, <1>15, <1>16,
     <1>17, <1>18, <1>19, <1>20, Disturbances DEF Disturbs

\* The order of the messages, as an invariant of its own for what comes later.
OrderInv == Orderly /\ ArrivalsAreCalm /\ AbsentAreCalm

LEMMA OrderInit == Init => OrderInv
<1> SUFFICES ASSUME Init PROVE OrderInv
  OBVIOUS
<1>1. inbox = <<>> /\ Len(inbox) = 0 /\ chat_table = {} /\ phase = "off"
  BY DEF Init
<1>2. OwnersListed
  <2>1. \A c \in Channel : rooms[c].owner = NoOwner
    BY DEF Init, NewRoom
  <2> QED
    BY <1>1, <2>1 DEF Init, OwnersListed, NotJoined, NewRoom
<1>3. NoChannelYet /\ NothingKnown /\ ListFirst
  BY <1>1, NamesAssumption DEF Init, NoChannelYet, NothingKnown, ListFirst
<1> QED
  BY <1>1, <1>2, <1>3 DEF OrderInv, Orderly, ArrivalsAreCalm, AbsentAreCalm

LEMMA OrderAlwaysKept == Spec => []OrderInv
<1>1. TypeOK /\ ChatsMatch /\ OrderInv /\ [Next]_vars => OrderInv'
  BY OrderStep DEF OrderInv
<1> QED
  BY <1>1, OrderInit, TypeCorrect, ChatsAlwaysMatch, PTL DEF Spec

\* The flags libpurple keeps of the users of a channel are those that its
\* owner, operators and their status imply now (RanksShown).
THEOREM RanksAreShown == Spec => []RanksShown
<1>1. Init => RanksShown
  BY DEF Init, RanksShown
<1>2. /\ TypeOK /\ TypeOK' /\ ChatsMatch /\ RosterShown /\ OrderInv
      /\ RanksShown /\ [Next]_vars
      => RanksShown'
  BY RanksStep DEF OrderInv
<1> QED
  BY <1>1, <1>2, TypeCorrect, ChatsAlwaysMatch, RosterIsShown, OrderAlwaysKept, PTL DEF Spec

----------------------------------------------------------------------------
(* What the windows say of the channels' modes.                             *)

\* The description comes before the mode is shown for the first time.
DescribedWhenShown == \A c \in chat_table \ unshown : c \in described

\* Everything that the last line of a channel and its description depend on.
said == <<chat_table, channel, described, unshown, line, blist>>

\* The actions that may change any of it.
MaySay ==
    \/ Disconnect \/ Crash
    \/ \E n \in Names : ProcessNLN(n) \/ ProcessFLN(n)
    \/ \E c \in Channel : \/ ProcessOwnJCH(c) \/ ProcessOwnLCH(c) \/ CloseWindow(c)
                          \/ ProcessCOL(c) \/ ProcessICH(c) \/ ProcessRMO(c) \/ ProcessCDS(c)
                          \/ KeepChat(c)
    \/ \E c \in Channel, w \in Shows : Hide(c, w) \/ Show(c, w)
    \/ \E c \in Channel, n \in Names : ProcessJCH(c, n) \/ ProcessLCH(c, n)

LEMMA WhoMaySay == [Next]_vars => MaySay \/ UNCHANGED said
<1> SUFFICES ASSUME [Next]_vars PROVE MaySay \/ UNCHANGED said
  OBVIOUS
<1> USE DEF said, chats, lines
<1>1. KeepPlugin => UNCHANGED said
  BY DEF KeepPlugin
<1>2. Serve \/ Others => KeepPlugin
  BY DEF Serve, Others, Arrive, Restate, Depart, Promote, Demote, Reappoint, Appoint,
     SetMode, Describe, Enter, Remove, ServeJoin, ServeLeave
<1>3. Login \/ ProcessLIS \/ ProcessADL \/ UNCHANGED vars => UNCHANGED said
  BY DEF Login, ProcessLIS, ProcessADL, vars
<1>4. ASSUME NEW c \in Channel
      PROVE  Elapse(c) \/ JoinChannel(c) => UNCHANGED said
  BY DEF Elapse, JoinChannel
<1>5. ASSUME NEW n \in Names
      PROVE  ProcessSTA(n) \/ ProcessAOP(n) \/ ProcessDOP(n) \/ Overwrite(n) => UNCHANGED said
  BY DEF ProcessSTA, ProcessAOP, ProcessDOP, Overwrite
<1>6. Process => MaySay \/ UNCHANGED said
  BY <1>3, <1>5 DEF Process, MaySay
<1>7. User => MaySay \/ UNCHANGED said
  BY <1>4 DEF User, MaySay
<1>8. Disconnect \/ Crash => MaySay
  BY DEF MaySay
<1> HIDE DEF said, chats, lines
<1> QED
  BY <1>1, <1>2, <1>3, <1>4, <1>5, <1>6, <1>7, <1>8 DEF Next

\* A line depends on the mode of the channel and on what its entry hides.
LEMMA LineSame ==
    ASSUME NEW c, channel'[c].mode = channel[c].mode, blist'[c].hidden = blist[c].hidden
    PROVE  Line(c)' = Line(c)
<1>1. Visible(c)' = Visible(c)
  BY DEF Visible
<1> QED
  BY <1>1 DEF Line

\* Neither flist_get_chat nor the end of a temporary chat changes what another
\* channel hides.
LEMMA ListingKept ==
    ASSUME TypeOK, NEW c \in Channel
    PROVE  /\ \A d \in Channel : InList(c)[d].hidden = blist[d].hidden
           /\ GotChannelLeft(c) => \A d \in Channel \ {c} : blist'[d] = blist[d]
           /\ \A hidden \in SUBSET Shows : \A d \in Channel \ {c} :
                  [InList(c) EXCEPT ![c].hidden = hidden][d].hidden = blist[d].hidden
<1>1. blist \in [Channel -> Listing]
  BY DEF TypeOK, WindowsOK
<1> QED
  BY <1>1 DEF InList, GotChannelLeft, Listing

\* What is shown of a mode is what the mode is.
LEMMA ShownIsLine ==
    ASSUME TypeOK, NEW c \in Channel
    PROVE  /\ ShowMode(c) => /\ line'[c] = Line(c)'
                             /\ \A d \in Channel \ {c} : line'[d] = line[d]
           /\ TellMode(c) => /\ c \notin unshown => line'[c] = Line(c)'
                             /\ c \in unshown => line'[c] = line[c]
                             /\ \A d \in Channel \ {c} : line'[d] = line[d]
  BY DEF ShowMode, TellMode, TypeOK, WindowsOK

LEMMA LineStep ==
    TypeOK /\ ChatsMatch /\ Orderly /\ LineIsCurrent /\ [Next]_vars => LineIsCurrent'
<1> SUFFICES ASSUME TypeOK, ChatsMatch, Orderly, LineIsCurrent, [Next]_vars
             PROVE  LineIsCurrent'
  OBVIOUS
<1>0. /\ channel \in [Channel -> Room] /\ line \in [Channel -> Said]
      /\ blist \in [Channel -> Listing] /\ chat_table \subseteq Channel
  BY DEF TypeOK, PluginOK, WindowsOK
<1> DEFINE Same(d) == /\ channel'[d].mode = channel[d].mode
                      /\ blist'[d].hidden = blist[d].hidden
                      /\ line'[d] = line[d]
                      /\ d \in chat_table /\ d \notin unshown
<1>1. ASSUME \A d \in chat_table' \ unshown' : Same(d) \/ line'[d] = Line(d)'
      PROVE  LineIsCurrent'
  <2> SUFFICES ASSUME NEW d \in chat_table' \ unshown' PROVE line'[d] = Line(d)'
    BY DEF LineIsCurrent
  <2>1. CASE Same(d)
    BY <2>1, LineSame DEF LineIsCurrent
  <2> QED
    BY <1>1, <2>1
<1>2. CASE Disconnect \/ Crash
  BY <1>2 DEF Disconnect, Crash, EndSession, LineIsCurrent
<1>3. ASSUME NEW n \in Names, ProcessNLN(n) PROVE LineIsCurrent'
  <2>1. CASE n = Me /\ phase = "login"
    BY <1>3, <2>1 DEF ProcessNLN, Orderly, NoChannelYet, LineIsCurrent, chats
  <2>2. CASE ~(n = Me /\ phase = "login")
    BY <1>1, <1>3, <2>2 DEF ProcessNLN, chats
  <2> QED
    BY <2>1, <2>2
<1>4. ASSUME NEW n \in Names, ProcessFLN(n) PROVE LineIsCurrent'
  <2>1. \A d \in Channel : channel'[d].mode = channel[d].mode
    BY <1>0, <1>4 DEF ProcessFLN, ForgetUser, Room
  <2> QED
    BY <1>0, <1>1, <1>4, <2>1 DEF ProcessFLN, lines
<1>5. ASSUME NEW c \in Channel, ProcessOwnJCH(c) PROVE LineIsCurrent'
  <2>1. \A d \in Channel : d # c => channel'[d] = channel[d] /\ line'[d] = line[d]
    BY <1>0, <1>5 DEF ProcessOwnJCH
  <2> QED
    BY <1>0, <1>1, <1>5, <2>1, ListingKept DEF ProcessOwnJCH
<1>6. ASSUME NEW c \in Channel, NEW to, GotChannelLeft(c), LeaveWindow(c, to),
             unshown' \in {unshown, unshown \ {c}}
      PROVE  LineIsCurrent'
  <2>1. \A d \in Channel : d # c => channel'[d] = channel[d] /\ line'[d] = line[d]
    BY <1>0, <1>6 DEF GotChannelLeft, LeaveWindow
  <2>2. chat_table' = chat_table \ {c}
    BY <1>6 DEF GotChannelLeft
  <2> QED
    BY <1>0, <1>1, <1>6, <2>1, <2>2, ListingKept
<1>7. ASSUME NEW c \in Channel, ProcessOwnLCH(c) PROVE LineIsCurrent'
  BY <1>0, <1>1, <1>6, <1>7 DEF ProcessOwnLCH, chats
<1>8. ASSUME NEW c \in Channel, CloseWindow(c) PROVE LineIsCurrent'
  <2>1. CASE convo[c] = "open"
    BY <1>6, <1>8, <2>1 DEF CloseWindow
  <2>2. CASE convo[c] # "open"
    <3>1. c \notin chat_table
      BY <2>2 DEF ChatsMatch
    <3>2. \A d \in Channel : d # c => line'[d] = line[d]
      BY <1>0, <1>8 DEF CloseWindow, LeaveWindow
    <3>3. UNCHANGED <<chat_table, channel, blist>> /\ unshown' = unshown \ {c}
      BY <1>8, <2>2 DEF CloseWindow, chats
    <3> QED
      BY <1>0, <1>1, <3>1, <3>2, <3>3
  <2> QED
    BY <2>1, <2>2
<1>9. ASSUME NEW c \in Channel, ProcessCOL(c) PROVE LineIsCurrent'
  <2>1. \A d \in Channel : channel'[d].mode = channel[d].mode
    BY <1>0, <1>9 DEF ProcessCOL, Room
  <2> QED
    BY <1>0, <1>1, <1>9, <2>1 DEF ProcessCOL, lines
<1>10. ASSUME NEW c \in Channel, ProcessICH(c) \/ ProcessRMO(c) PROVE LineIsCurrent'
  <2>1. /\ UNCHANGED <<chat_table, unshown, blist>>
        /\ \A d \in Channel : d # c => channel'[d].mode = channel[d].mode
        /\ TellMode(c) \/ UNCHANGED <<channel, line>>
    BY <1>0, <1>10 DEF ProcessICH, ProcessRMO
  <2> QED
    BY <1>0, <1>1, <2>1, ShownIsLine
<1>11. ASSUME NEW c \in Channel, ProcessCDS(c) PROVE LineIsCurrent'
  <2>1. /\ UNCHANGED <<chat_table, channel, blist>>
        /\ \/ UNCHANGED <<unshown, line>>
           \/ /\ unshown' = unshown \ {c}
              /\ IF c \in unshown THEN ShowMode(c) ELSE line' = line
    BY <1>11 DEF ProcessCDS
  <2> QED
    BY <1>0, <1>1, <2>1, ShownIsLine
<1>12. ASSUME NEW c \in Channel, KeepChat(c) PROVE LineIsCurrent'
  <2>1. \A d \in Channel : blist'[d].hidden = blist[d].hidden
    BY <1>0, <1>12 DEF KeepChat, Listing
  <2> QED
    BY <1>0, <1>1, <1>12, <2>1 DEF KeepChat, chats
<1>13. ASSUME NEW c \in Channel, NEW w \in Shows, Hide(c, w) \/ Show(c, w) PROVE LineIsCurrent'
  <2>1. /\ UNCHANGED <<chat_table, channel, unshown>>
        /\ ShowMode(c) \/ (c \notin chat_table /\ line' = line)
    BY <1>13, KnownIsJoined DEF Hide, Show
  <2>2. \A d \in Channel : d # c => blist'[d].hidden = blist[d].hidden
    BY <1>0, <1>13 DEF Hide, Show, InList, Listing
  <2> QED
    BY <1>0, <1>1, <2>1, <2>2, ShownIsLine
<1>14. ASSUME NEW c \in Channel, NEW n \in Names, ProcessJCH(c, n) PROVE LineIsCurrent'
  <2>1. \A d \in Channel : channel'[d].mode = channel[d].mode
    BY <1>0, <1>14 DEF ProcessJCH, Room
  <2> QED
    BY <1>0, <1>1, <1>14, <2>1, ListingKept DEF ProcessJCH
<1>15. ASSUME NEW c \in Channel, NEW n \in Names, ProcessLCH(c, n) PROVE LineIsCurrent'
  <2>1. \A d \in Channel : channel'[d].mode = channel[d].mode
    BY <1>0, <1>15 DEF ProcessLCH, Room
  <2> QED
    BY <1>0, <1>1, <1>15, <2>1 DEF ProcessLCH, lines
<1>16. CASE UNCHANGED said
  BY <1>0, <1>1, <1>16 DEF said
<1> HIDE DEF Same
<1> QED
  BY <1>2, <1>3, <1>4, <1>5, <1>7, <1>8, <1>9, <1>10, <1>11, <1>12, <1>13, <1>14, <1>15,
     <1>16, WhoMaySay DEF MaySay

\* What the window last said of the channel's mode is still so, once the
\* description has come (LineIsCurrent).
THEOREM LineIsAlwaysCurrent == Spec => []LineIsCurrent
<1>1. Init => LineIsCurrent
  BY DEF Init, LineIsCurrent
<1>2. TypeOK /\ ChatsMatch /\ OrderInv /\ LineIsCurrent /\ [Next]_vars => LineIsCurrent'
  BY LineStep DEF OrderInv
<1> QED
  BY <1>1, <1>2, TypeCorrect, ChatsAlwaysMatch, OrderAlwaysKept, PTL DEF Spec

LEMMA DescribedStep ==
    TypeOK /\ ChatsMatch /\ DescribedWhenShown /\ [Next]_vars => DescribedWhenShown'
<1> SUFFICES ASSUME TypeOK, ChatsMatch, DescribedWhenShown, [Next]_vars
             PROVE  DescribedWhenShown'
  OBVIOUS
<1> USE DEF DescribedWhenShown
<1>1. ASSUME UNCHANGED <<chat_table, described, unshown>> PROVE DescribedWhenShown'
  BY <1>1
<1>2. CASE Disconnect \/ Crash
  BY <1>2 DEF Disconnect, Crash, EndSession
<1>3. ASSUME NEW n \in Names, ProcessNLN(n) \/ ProcessFLN(n) PROVE DescribedWhenShown'
  BY <1>1, <1>3 DEF ProcessNLN, ProcessFLN, chats, lines
<1>4. ASSUME NEW c \in Channel, ProcessOwnJCH(c) PROVE DescribedWhenShown'
  BY <1>4 DEF ProcessOwnJCH
<1>5. ASSUME NEW c \in Channel, ProcessOwnLCH(c) PROVE DescribedWhenShown'
  BY <1>5 DEF ProcessOwnLCH, GotChannelLeft, chats
<1>6. ASSUME NEW c \in Channel, CloseWindow(c) PROVE DescribedWhenShown'
  BY <1>6 DEF CloseWindow, GotChannelLeft, chats, ChatsMatch
<1>7. ASSUME NEW c \in Channel, ProcessCDS(c) PROVE DescribedWhenShown'
  BY <1>7 DEF ProcessCDS
<1>8. ASSUME NEW c \in Channel, ProcessCOL(c) \/ ProcessICH(c) \/ ProcessRMO(c) \/ KeepChat(c)
      PROVE  DescribedWhenShown'
  BY <1>1, <1>8 DEF ProcessCOL, ProcessICH, ProcessRMO, KeepChat, chats, lines
<1>9. ASSUME NEW c \in Channel, NEW w \in Shows, Hide(c, w) \/ Show(c, w)
      PROVE  DescribedWhenShown'
  BY <1>1, <1>9 DEF Hide, Show
<1>10. ASSUME NEW c \in Channel, NEW n \in Names, ProcessJCH(c, n) \/ ProcessLCH(c, n)
       PROVE  DescribedWhenShown'
  BY <1>1, <1>10 DEF ProcessJCH, ProcessLCH, lines
<1>11. CASE UNCHANGED said
  BY <1>1, <1>11 DEF said
<1> QED
  BY <1>2, <1>3, <1>4, <1>5, <1>6, <1>7, <1>8, <1>9, <1>10, <1>11, WhoMaySay DEF MaySay

\* No message shows the mode of a channel before its description has come
\* (flist_got_channel_mode); only a command of the user does.
THEOREM DescriptionComesFirst == Spec => DescriptionFirst
<1>1. Init => DescribedWhenShown
  BY DEF Init, DescribedWhenShown
<1> DEFINE First(c) == line'[c] \notin {line[c], Unsaid} /\ clicks' = clicks => c \in described'
<1>2. TypeOK /\ ChatsMatch /\ DescribedWhenShown /\ [Next]_vars
         => [\A c \in Channel : First(c)]_vars
  <2> SUFFICES ASSUME TypeOK, ChatsMatch, DescribedWhenShown, [Next]_vars, NEW d \in Channel,
                      line'[d] # line[d], line'[d] # Unsaid, clicks' = clicks
               PROVE  d \in described'
    OBVIOUS
  <2>1. line \in [Channel -> Said] /\ ~Click
    BY DEF TypeOK, WindowsOK, ServerOK, Click
  <2>2. CASE Disconnect \/ Crash
    BY <2>2 DEF Disconnect, Crash, EndSession
  <2>3. ASSUME NEW n \in Names, ProcessNLN(n) \/ ProcessFLN(n) PROVE FALSE
    BY <2>3 DEF ProcessNLN, ProcessFLN, lines
  <2>4. ASSUME NEW c \in Channel, ProcessOwnJCH(c) \/ ProcessOwnLCH(c) PROVE FALSE
    BY <2>1, <2>4 DEF ProcessOwnJCH, ProcessOwnLCH, LeaveWindow
  <2>5. ASSUME NEW c \in Channel, ProcessICH(c) \/ ProcessRMO(c) PROVE d \in described'
    <3>1. Known(c) /\ c = d /\ c \notin unshown /\ described' = described
      BY <2>1, <2>5 DEF ProcessICH, ProcessRMO, TellMode, ShowMode
    <3> QED
      BY <3>1, KnownIsJoined DEF DescribedWhenShown
  <2>6. ASSUME NEW c \in Channel, ProcessCDS(c) PROVE d \in described'
    BY <2>1, <2>6 DEF ProcessCDS, ShowMode
  <2>7. ASSUME NEW c \in Channel, ProcessCOL(c) PROVE FALSE
    BY <2>7 DEF ProcessCOL, lines
  <2>8. ASSUME NEW c \in Channel,
               \/ CloseWindow(c) \/ KeepChat(c) \/ \E w \in Shows : Hide(c, w) \/ Show(c, w)
        PROVE  FALSE
    BY <2>1, <2>8 DEF CloseWindow, KeepChat, Hide, Show
  <2>9. ASSUME NEW c \in Channel, NEW n \in Names, ProcessJCH(c, n) \/ ProcessLCH(c, n)
        PROVE  FALSE
    BY <2>9 DEF ProcessJCH, ProcessLCH, lines
  <2> QED
    BY <2>2, <2>3, <2>4, <2>5, <2>6, <2>7, <2>8, <2>9, WhoMaySay DEF MaySay, said
<1> QED
  BY <1>1, <1>2, DescribedStep, TypeCorrect, ChatsAlwaysMatch, PTL DEF Spec, DescriptionFirst

----------------------------------------------------------------------------
(* What the plugin will know once it has processed what is in the inbox.  Each
   message has a word to say about some things the server knows, and none about
   the others; the last word on a thing is what the plugin will believe of it.
   A word is written as a set, {} when there is none.                        *)

\* The n words of w end with v, or there is none at all.
Ends(w, n, v)  == \E i \in 1 .. n : w[i] = {v} /\ \A j \in i + 1 .. n : w[j] = {}
Wordless(w, n) == \A i \in 1 .. n : w[i] = {}

\* Hearing the first of the words leaves the others.
LEMMA Heard ==
    ASSUME NEW n \in Nat \ {0}, NEW w, NEW u, NEW v, \A i \in 1 .. n - 1 : u[i] = w[i + 1]
    PROVE  /\ Ends(w, n, v) => Ends(u, n - 1, v) \/ (Wordless(u, n - 1) /\ w[1] = {v})
           /\ Wordless(w, n) => Wordless(u, n - 1) /\ w[1] = {}
<1>1. ASSUME Ends(w, n, v)
      PROVE  Ends(u, n - 1, v) \/ (Wordless(u, n - 1) /\ w[1] = {v})
  <2>1. PICK i \in 1 .. n : w[i] = {v} /\ \A j \in i + 1 .. n : w[j] = {}
    BY <1>1 DEF Ends
  <2>2. CASE i = 1
    BY <2>1, <2>2 DEF Wordless
  <2>3. CASE i # 1
    <3>1. i - 1 \in 1 .. n - 1 /\ u[i - 1] = {v}
      BY <2>1, <2>3
    <3>2. \A j \in (i - 1) + 1 .. n - 1 : u[j] = {}
      BY <2>1
    <3> QED
      BY <3>1, <3>2 DEF Ends
  <2> QED
    BY <2>2, <2>3
<1>2. Wordless(w, n) => Wordless(u, n - 1) /\ w[1] = {}
  BY DEF Wordless
<1> QED
  BY <1>1, <1>2

\* Words that are appended: k of them.
LEMMA Told ==
    ASSUME NEW n \in Nat, NEW k \in Nat, NEW w, NEW u, \A i \in 1 .. n : u[i] = w[i]
    PROVE  /\ (\A j \in n + 1 .. n + k : u[j] = {}) =>
                  /\ \A v : Ends(w, n, v) => Ends(u, n + k, v)
                  /\ Wordless(w, n) => Wordless(u, n + k)
           /\ \A v : \A i \in n + 1 .. n + k :
                  u[i] = {v} /\ (\A j \in i + 1 .. n + k : u[j] = {}) => Ends(u, n + k, v)
<1>1. ASSUME \A j \in n + 1 .. n + k : u[j] = {}, NEW v, Ends(w, n, v)
      PROVE  Ends(u, n + k, v)
  <2>1. PICK i \in 1 .. n : w[i] = {v} /\ \A j \in i + 1 .. n : w[j] = {}
    BY <1>1 DEF Ends
  <2>2. i \in 1 .. n + k /\ u[i] = {v}
    BY <2>1
  <2>3. \A j \in i + 1 .. n + k : u[j] = {}
    BY <1>1, <2>1
  <2> QED
    BY <2>2, <2>3 DEF Ends
<1>2. ASSUME \A j \in n + 1 .. n + k : u[j] = {}, Wordless(w, n)
      PROVE  Wordless(u, n + k)
  BY <1>2 DEF Wordless
<1>3. \A v : \A i \in n + 1 .. n + k :
          u[i] = {v} /\ (\A j \in i + 1 .. n + k : u[j] = {}) => Ends(u, n + k, v)
  BY DEF Ends
<1> QED
  BY <1>1, <1>2, <1>3

\* What sending does to the inbox of a session.
LEMMA SendAppends ==
    ASSUME TypeOK, phase # "off", NEW ms \in Seq(Message), Send(ms)
    PROVE  /\ Len(inbox) \in Nat /\ Len(ms) \in Nat
           /\ Len(inbox') = Len(inbox) + Len(ms)
           /\ \A i \in 1 .. Len(inbox) : inbox'[i] = inbox[i]
           /\ \A i \in Len(inbox) + 1 .. Len(inbox) + Len(ms) :
                  i - Len(inbox) \in 1 .. Len(ms) /\ inbox'[i] = ms[i - Len(inbox)]
           /\ \A i \in 1 .. Len(ms) : inbox'[Len(inbox) + i] = ms[i]
<1>1. inbox \in Seq(Message) /\ inbox' = inbox \o ms
  BY DEF TypeOK, ServerOK, Send
<1> QED
  BY <1>1

----------------------------------------------------------------------------
(* Which channels we are in.                                                *)

Where(c) == IF Me \in rooms[c].users THEN "in" ELSE "out"

WhereWord(m, c) ==
    IF m.type \in {"JCH"} \cup Departures /\ m.chan = c /\ m.who = Me
    THEN {IF m.type = "JCH" THEN "in" ELSE "out"}
    ELSE {}

WhereWords(c) == [i \in 1 .. Len(inbox) |-> WhereWord(inbox[i], c)]

\* We are on the way out of a channel whose window we have closed.
Leaving(c) == \E i \in 1 .. Len(outbox) : outbox[i] = [type |-> "LCH", chan |-> c]

WhereKnown(c) == IF Where(c) = "in" THEN c \in chat_table \/ Leaving(c) ELSE c \notin chat_table

WhereAgrees(c) ==
    \/ Ends(WhereWords(c), Len(inbox), Where(c))
    \/ Wordless(WhereWords(c), Len(inbox)) /\ WhereKnown(c)

MembershipAgrees == \A c \in Channel : WhereAgrees(c)

\* Handling a message puts us where it says, and asks the server for nothing.
LEMMA WhereHeard ==
    ASSUME TypeOK, ChatsMatch, Process
    PROVE  /\ UNCHANGED <<outbox, recent>>
           /\ \A c \in Channel :
                  /\ WhereWord(inbox[1], c) = {} => (c \in chat_table' <=> c \in chat_table)
                  /\ WhereWord(inbox[1], c) = {"in"} => c \in chat_table'
                  /\ WhereWord(inbox[1], c) = {"out"} => c \notin chat_table'
<1> DEFINE Goal == /\ UNCHANGED <<outbox, recent>>
                   /\ \A c \in Channel :
                        /\ WhereWord(inbox[1], c) = {} => (c \in chat_table' <=> c \in chat_table)
                        /\ WhereWord(inbox[1], c) = {"in"} => c \in chat_table'
                        /\ WhereWord(inbox[1], c) = {"out"} => c \notin chat_table'
<1> SUFFICES Goal
  OBVIOUS
<1>0. inbox \in Seq(Message) /\ chat_table \subseteq Channel
  BY DEF TypeOK, ServerOK, PluginOK
<1>1. ASSUME NEW type, Receive(type)
      PROVE  inbox[1].type = type /\ Head(inbox) = inbox[1]
  BY <1>0, <1>1 DEF Receive
<1>2. ASSUME NEW type, Receive(type), KeepTables, UNCHANGED <<chat_table, recent>>,
             \/ type \notin {"JCH"} \cup Departures
             \/ inbox[1].who # Me
      PROVE  Goal
  BY <1>1, <1>2 DEF KeepTables, WhereWord
<1>3. CASE ProcessLIS \/ ProcessADL
  BY <1>2, <1>3 DEF ProcessLIS, ProcessADL, chats, Departures
<1>4. ASSUME NEW n \in Names,
             \/ ProcessNLN(n) \/ ProcessSTA(n) \/ ProcessFLN(n) \/ ProcessAOP(n) \/ ProcessDOP(n)
      PROVE  Goal
  BY <1>2, <1>4 DEF ProcessNLN, ProcessSTA, ProcessFLN, ProcessAOP, ProcessDOP, About, chats,
     Departures
<1>5. ASSUME NEW c \in Channel,
             ProcessCOL(c) \/ ProcessICH(c) \/ ProcessCDS(c) \/ ProcessRMO(c)
      PROVE  Goal
  BY <1>2, <1>5 DEF ProcessCOL, ProcessICH, ProcessCDS, ProcessRMO, In, Departures
<1>6. ASSUME NEW c \in Channel, ProcessOwnJCH(c) PROVE Goal
  <2>1. inbox[1].type = "JCH" /\ inbox[1].who = Me /\ inbox[1].chan = c
    BY <1>1, <1>6 DEF ProcessOwnJCH, In, About
  <2>2. \A d \in Channel : WhereWord(inbox[1], d) = IF d = c THEN {"in"} ELSE {}
    BY <2>1 DEF WhereWord
  <2> QED
    BY <1>6, <2>2 DEF ProcessOwnJCH, KeepTables
<1>7. ASSUME NEW c \in Channel, ProcessOwnLCH(c) PROVE Goal
  <2>1. PICK type \in Departures : In(type, c) /\ About(type, Me)
    BY <1>7 DEF ProcessOwnLCH
  <2>2. inbox[1].type \in Departures /\ inbox[1].who = Me /\ inbox[1].chan = c
    BY <1>1, <2>1 DEF In, About
  <2>3. \A d \in Channel : WhereWord(inbox[1], d) = IF d = c THEN {"out"} ELSE {}
    BY <2>2 DEF WhereWord, Departures
  <2>4. chat_table' = chat_table \ {c}
    BY <1>7 DEF ProcessOwnLCH, GotChannelLeft, chats, ChatsMatch
  <2> QED
    BY <1>7, <2>3, <2>4 DEF ProcessOwnLCH, KeepTables
<1>8. ASSUME NEW c \in Channel, NEW n \in Names, ProcessJCH(c, n) PROVE Goal
  <2>1. inbox[1].who # Me
    BY <1>1, <1>8 DEF ProcessJCH, About
  <2> QED
    BY <1>2, <1>8, <2>1 DEF ProcessJCH, In
<1>9. ASSUME NEW c \in Channel, NEW n \in Names, ProcessLCH(c, n) PROVE Goal
  <2>1. PICK type \in Departures : In(type, c) /\ About(type, n)
    BY <1>9 DEF ProcessLCH
  <2>2. inbox[1].who # Me
    BY <1>1, <1>9, <2>1 DEF ProcessLCH, About
  <2> QED
    BY <1>2, <1>9, <2>1, <2>2 DEF ProcessLCH, In
<1> HIDE DEF Goal
<1> QED
  BY <1>3, <1>4, <1>5, <1>6, <1>7, <1>8, <1>9 DEF Process

\* Messages with no word about us, and messages that end with one.
LEMMA WhereTold ==
    ASSUME TypeOK, NEW ms \in Seq(Message), Send(ms), NEW c \in Channel, phase # "off"
    PROVE  /\ WhereAgrees(c) /\ Where(c)' = Where(c) /\ (WhereKnown(c) => WhereKnown(c)')
              /\ (\A i \in 1 .. Len(ms) : WhereWord(ms[i], c) = {})
              => WhereAgrees(c)'
           /\ \A i \in 1 .. Len(ms) :
                  /\ WhereWord(ms[i], c) = {Where(c)'}
                  /\ \A j \in i + 1 .. Len(ms) : WhereWord(ms[j], c) = {}
                  => WhereAgrees(c)'
<1> DEFINE n == Len(inbox)
           k == Len(ms)
           w == WhereWords(c)
           u == WhereWords(c)'
<1>1. /\ n \in Nat /\ k \in Nat /\ Len(inbox') = n + k
      /\ \A i \in 1 .. n : u[i] = w[i]
      /\ \A i \in n + 1 .. n + k : i - n \in 1 .. k /\ u[i] = WhereWord(ms[i - n], c)
  BY SendAppends DEF WhereWords
<1>2. ASSUME WhereAgrees(c), Where(c)' = Where(c), WhereKnown(c) => WhereKnown(c)',
             \A i \in 1 .. k : WhereWord(ms[i], c) = {}
      PROVE  WhereAgrees(c)'
  <2>1. \A i \in n + 1 .. n + k : u[i] = {}
    BY <1>1, <1>2
  <2>2. /\ \A v : Ends(w, n, v) => Ends(u, n + k, v)
        /\ Wordless(w, n) => Wordless(u, n + k)
    <3> HIDE DEF n, k, w, u
    <3> QED
      BY <1>1, <2>1, Told
  <2> QED
    BY <1>1, <1>2, <2>2 DEF WhereAgrees
<1>3. ASSUME NEW i \in 1 .. k, WhereWord(ms[i], c) = {Where(c)'},
             \A j \in i + 1 .. k : WhereWord(ms[j], c) = {}
      PROVE  WhereAgrees(c)'
  <2>1. n + i \in n + 1 .. n + k /\ u[n + i] = {Where(c)'}
    <3>1. n + i \in n + 1 .. n + k /\ (n + i) - n = i
      BY <1>1
    <3> QED
      BY <1>1, <1>3, <3>1
  <2>2. ASSUME NEW j \in (n + i) + 1 .. n + k PROVE u[j] = {}
    <3>1. j \in n + 1 .. n + k /\ j - n \in i + 1 .. k
      BY <1>1
    <3> QED
      BY <1>1, <1>3, <3>1
  <2>3. Ends(u, n + k, Where(c)')
    <3> HIDE DEF n, k, w, u
    <3> QED
      BY <1>1, <2>1, <2>2, Told
  <2> QED
    BY <1>1, <2>3 DEF WhereAgrees
<1> QED
  BY <1>2, <1>3

\* Before our own NLN the server has us nowhere.
LEMMA NowhereYet ==
    ASSUME NoChannelYet, MembershipAgrees, phase # "online", NEW c \in Channel
    PROVE  Where(c) = "out"
<1> SUFFICES ASSUME Where(c) = "in" PROVE FALSE
  BY DEF Where
<1>1. WhereAgrees(c) /\ "in" # "out"
  BY DEF MembershipAgrees
<1>2. CASE Ends(WhereWords(c), Len(inbox), Where(c))
  <2>1. PICK i \in 1 .. Len(inbox) : WhereWord(inbox[i], c) = {"in"}
    BY <1>2 DEF Ends, WhereWords
  <2>2. inbox[i].type = "JCH" /\ inbox[i].who = Me
    BY <2>1 DEF WhereWord
  <2> QED
    BY <2>2 DEF NoChannelYet
<1>3. CASE WhereKnown(c)
  BY <1>3 DEF WhereKnown, NoChannelYet, Leaving
<1> QED
  BY <1>1, <1>2, <1>3 DEF WhereAgrees

\* The server's steps that do not move us.
LEMMA OthersMove ==
    ASSUME TypeOK, Orderly, MembershipAgrees, chat_table' = chat_table, outbox' = outbox,
           phase' = phase,
           NEW ms \in Seq(Message), Send(ms),
           \A c \in Channel : /\ Where(c)' = Where(c)
                              /\ \A i \in 1 .. Len(ms) : WhereWord(ms[i], c) = {}
    PROVE  MembershipAgrees'
<1> SUFFICES ASSUME NEW c \in Channel PROVE WhereAgrees(c)'
  BY DEF MembershipAgrees
<1>1. WhereKnown(c)' = WhereKnown(c)
  BY DEF WhereKnown, Leaving
<1>2. CASE phase = "off"
  <2>1. inbox' = <<>> /\ Where(c) = "out" /\ chat_table = {}
    BY <1>2, NowhereYet DEF Send, Orderly, NoChannelYet
  <2> QED
    BY <2>1 DEF WhereAgrees, Wordless, WhereKnown
<1>3. CASE phase # "off"
  BY <1>1, <1>3, WhereTold DEF MembershipAgrees
<1> QED
  BY <1>2, <1>3

LEMMA ServeMoves == TypeOK /\ Orderly /\ MembershipAgrees /\ Serve => MembershipAgrees'
<1> SUFFICES ASSUME TypeOK, Orderly, MembershipAgrees, Serve PROVE MembershipAgrees'
  OBVIOUS
<1>1. /\ rooms \in [Channel -> Room] /\ outbox \in Seq(Request) /\ outbox # <<>>
      /\ phase # "off" /\ UNCHANGED <<phase, chat_table>>
      /\ outbox' = Tail(outbox)
  BY DEF TypeOK, ServerOK, Serve, ServeJoin, ServeLeave, Orderly, NoChannelYet, KeepPlugin,
         chats
<1>2. PICK c \in Channel : c = Head(outbox).chan
  <2>1. Head(outbox) \in Request
    BY <1>1
  <2> QED
    BY <2>1 DEF Request
<1>3. \A d \in Channel : Leaving(d) => Leaving(d)' \/ (d = c /\ Head(outbox).type = "LCH")
  <2> SUFFICES ASSUME NEW d \in Channel, Leaving(d), d # c \/ Head(outbox).type # "LCH"
               PROVE  Leaving(d)'
    OBVIOUS
  <2>1. PICK i \in 1 .. Len(outbox) : outbox[i] = [type |-> "LCH", chan |-> d]
    BY DEF Leaving
  <2>2. i # 1
    BY <1>1, <1>2, <2>1
  <2>3. i - 1 \in 1 .. Len(outbox') /\ outbox'[i - 1] = outbox[i]
    BY <1>1, <2>2
  <2> QED
    BY <2>1, <2>3 DEF Leaving
<1>4. ASSUME NEW ms \in Seq(Message), Send(ms), NEW d \in Channel,
             \A i \in 1 .. Len(ms) : WhereWord(ms[i], d) = {},
             Where(d)' = Where(d), Where(d) = "out" \/ d # c \/ Head(outbox).type # "LCH"
      PROVE  WhereAgrees(d)'
  <2>1. WhereKnown(d) => WhereKnown(d)'
    BY <1>1, <1>3, <1>4 DEF WhereKnown
  <2> QED
    BY <1>1, <1>4, <2>1, WhereTold DEF MembershipAgrees
<1>5. CASE ServeJoin
  <2>1. CASE /\ Me \notin rooms[c].users
             /\ rooms' = [rooms EXCEPT ![c].users = @ \cup {Me}]
             /\ Send(Welcome(c))
    <3> SUFFICES ASSUME NEW d \in Channel PROVE WhereAgrees(d)'
      BY DEF MembershipAgrees
    <3>1. Welcome(c) \in Seq(Message)
      BY WelcomeType DEF TypeOK
    <3>2. /\ Len(Welcome(c)) = 4
          /\ WhereWord(Welcome(c)[1], d) = IF d = c THEN {"in"} ELSE {}
          /\ \A i \in 2 .. 4 : WhereWord(Welcome(c)[i], d) = {}
      BY NamesAssumption DEF Welcome, WhereWord, OperatorList, Departures
    <3>3. CASE d = c
      <4>1. Where(d)' = "in"
        BY <1>1, <2>1, <3>3 DEF Where, Room
      <4>2. /\ 1 \in 1 .. Len(Welcome(c)) /\ WhereWord(Welcome(c)[1], d) = {Where(d)'}
            /\ \A j \in 1 + 1 .. Len(Welcome(c)) : WhereWord(Welcome(c)[j], d) = {}
        BY <3>2, <3>3, <4>1
      <4> QED
        BY <1>1, <2>1, <3>1, <4>2, WhereTold
    <3>4. CASE d # c
      <4>1. Where(d)' = Where(d)
        BY <1>1, <2>1, <3>4 DEF Where, Room
      <4>2. \A i \in 1 .. Len(Welcome(c)) : WhereWord(Welcome(c)[i], d) = {}
        BY <3>2, <3>4
      <4> QED
        BY <1>4, <2>1, <3>1, <3>4, <4>1, <4>2
    <3> QED
      BY <3>3, <3>4
  <2>2. CASE UNCHANGED <<rooms, inbox>>
    <3>1. Send(<<>>)
      BY <1>1, <2>2 DEF Send, TypeOK, ServerOK
    <3>2. /\ <<>> \in Seq(Message)
          /\ \A d \in Channel : Where(d)' = Where(d)
          /\ \A d \in Channel : \A i \in 1 .. Len(<<>>) : WhereWord(<<>>[i], d) = {}
      BY <2>2 DEF Where
    <3>3. Head(outbox).type # "LCH"
      BY <1>5 DEF ServeJoin
    <3> QED
      BY <1>4, <3>1, <3>2, <3>3 DEF MembershipAgrees
  <2> QED
    BY <1>2, <1>5, <2>1, <2>2 DEF ServeJoin
<1>6. CASE ServeLeave
  <2> SUFFICES ASSUME NEW d \in Channel PROVE WhereAgrees(d)'
    BY DEF MembershipAgrees
  <2> DEFINE m == [type |-> "LCH", chan |-> c, who |-> Me]
  <2>1. /\ rooms' = [rooms EXCEPT ![c].users = @ \ {Me}]
        /\ Tell(c, <<m>>)
    BY <1>2, <1>6 DEF ServeLeave
  <2>2. /\ <<m>> \in Seq(Message) /\ <<>> \in Seq(Message)
        /\ \A i \in 1 .. Len(<<>>) : WhereWord(<<>>[i], d) = {}
    <3>1. m \in Message
      BY NamesAssumption DEF Message, Departures
    <3> HIDE DEF m
    <3> QED
      BY <3>1
  <2>3. WhereWord(m, d) = IF d = c THEN {"out"} ELSE {}
    BY DEF WhereWord, Departures
  <2>4. CASE d = c /\ Where(c) = "in"
    <3>1. Where(d)' = "out" /\ Send(<<m>>)
      BY <1>1, <2>1, <2>4 DEF Where, Room, Tell
    <3>2. /\ 1 \in 1 .. Len(<<m>>) /\ WhereWord(<<m>>[1], d) = {Where(d)'}
          /\ \A j \in 1 + 1 .. Len(<<m>>) : WhereWord(<<m>>[j], d) = {}
      BY <2>3, <2>4, <3>1
    <3> HIDE DEF m
    <3> QED
      BY <1>1, <2>2, <3>1, <3>2, WhereTold
  <2>5. CASE d = c /\ Where(c) # "in"
    <3>1. Where(d) = "out" /\ Where(d)' = Where(d) /\ Send(<<>>)
      BY <1>1, <2>1, <2>5 DEF Where, Room, Tell
    <3> QED
      BY <1>4, <2>2, <3>1
  <2>6. CASE d # c
    <3>1. Where(d)' = Where(d) /\ (Send(<<>>) \/ Send(<<m>>))
      BY <1>1, <2>1, <2>6 DEF Where, Room, Tell
    <3>2. \A i \in 1 .. Len(<<m>>) : WhereWord(<<m>>[i], d) = {}
      BY <2>3, <2>6
    <3> HIDE DEF m
    <3> QED
      BY <1>4, <2>2, <2>6, <3>1, <3>2
  <2> QED
    BY <2>4, <2>5, <2>6
<1> QED
  BY <1>5, <1>6 DEF Serve

LEMMA OthersTell == TypeOK /\ Orderly /\ MembershipAgrees /\ Others => MembershipAgrees'
<1> SUFFICES ASSUME TypeOK, Orderly, MembershipAgrees, Others PROVE MembershipAgrees'
  OBVIOUS
<1> USE DEF server
<1>1. /\ rooms \in [Channel -> Room]
      /\ outbox' = outbox /\ UNCHANGED <<phase, chat_table>>
  BY DEF TypeOK, ServerOK, Others, Arrive, Restate, Depart, Promote, Demote, Reappoint, Enter,
         Remove, Appoint, SetMode, Describe, KeepPlugin, chats
<1>2. ASSUME NEW m \in Message, Send(<<>>) \/ Send(<<m>>),
             m.type \notin {"JCH"} \cup Departures \/ m.who # Me,
             \A c \in Channel : Where(c)' = Where(c)
      PROVE  MembershipAgrees'
  <2>1. /\ <<m>> \in Seq(Message) /\ <<>> \in Seq(Message)
        /\ \A c \in Channel : \A i \in 1 .. Len(<<>>) : WhereWord(<<>>[i], c) = {}
        /\ \A c \in Channel : \A i \in 1 .. Len(<<m>>) : WhereWord(<<m>>[i], c) = {}
    BY <1>2 DEF WhereWord
  <2>2. CASE Send(<<>>)
    BY <1>1, <1>2, <2>1, <2>2, OthersMove
  <2>3. CASE Send(<<m>>)
    BY <1>1, <1>2, <2>1, <2>3, OthersMove
  <2> QED
    BY <1>2, <2>2, <2>3
<1>3. ASSUME NEW n \in Names, Arrive(n) \/ Promote(n) \/ Demote(n) PROVE MembershipAgrees'
  <2>1. PICK type \in {"NLN", "AOP", "DOP"} : Send(<<[type |-> type, who |-> n]>>)
    BY <1>3 DEF Arrive, Promote, Demote
  <2>2. [type |-> type, who |-> n] \in Message
    BY DEF Message
  <2> QED
    BY <1>2, <1>3, <2>1, <2>2 DEF Arrive, Promote, Demote, Where, Departures
<1>4. ASSUME NEW n \in Names, Restate(n) PROVE MembershipAgrees'
  <2>1. PICK s \in Statuses : Send(<<[type |-> "STA", who |-> n, status |-> s]>>)
    BY <1>4 DEF Restate, Statuses
  <2>2. [type |-> "STA", who |-> n, status |-> s] \in Message
    BY DEF Message
  <2> QED
    BY <1>2, <1>4, <2>1, <2>2 DEF Restate, Where, Departures
<1>5. ASSUME NEW n \in Names, Depart(n) PROVE MembershipAgrees'
  <2>1. [type |-> "FLN", who |-> n] \in Message
    BY DEF Message
  <2>2. \A c \in Channel : Where(c)' = Where(c)
    BY <1>1, <1>5 DEF Depart, Without, Where, Room
  <2> QED
    BY <1>2, <1>5, <2>1, <2>2 DEF Depart, Departures
<1>6. CASE Reappoint
  <2>1. PICK ops \in SUBSET Names : Send(<<[type |-> "ADL", ops |-> ops]>>)
    BY <1>6 DEF Reappoint
  <2>2. [type |-> "ADL", ops |-> ops] \in Message
    BY DEF Message
  <2> QED
    BY <1>2, <1>6, <2>1, <2>2 DEF Reappoint, Where, Departures
<1>7. ASSUME NEW n \in Names, NEW c \in Channel, Enter(n, c) PROVE MembershipAgrees'
  <2>1. [type |-> "JCH", chan |-> c, who |-> n] \in Message
    BY DEF Message
  <2>2. \A d \in Channel : Where(d)' = Where(d)
    BY <1>1, <1>7 DEF Enter, Where, Room
  <2> QED
    BY <1>2, <1>7, <2>1, <2>2 DEF Enter, Tell
<1>8. ASSUME NEW n \in Names, NEW c \in Channel, NEW how \in Departures, Remove(n, c, how)
      PROVE  MembershipAgrees'
  <2> DEFINE m == [type |-> how, chan |-> c, who |-> n]
  <2>1. m \in Message
    BY DEF Message
  <2>2. \A d \in Channel : d # c \/ n # Me => Where(d)' = Where(d)
    BY <1>1, <1>8 DEF Remove, Where, Room
  <2>3. CASE n # Me
    BY <1>2, <1>8, <2>1, <2>2, <2>3 DEF Remove, Tell
  <2>4. CASE n = Me
    <3>1. Where(c) = "in" /\ Where(c)' = "out" /\ Send(<<m>>)
      BY <1>1, <1>8, <2>4 DEF Remove, Where, Room, Tell
    <3>2. phase # "off"
      BY <3>1, NowhereYet DEF Orderly
    <3>3. \A d \in Channel : WhereWord(m, d) = IF d = c THEN {"out"} ELSE {}
      BY <2>4 DEF WhereWord, Departures
    <3>4. <<m>> \in Seq(Message) /\ Len(<<m>>) = 1 /\ <<m>>[1] = m
      BY <2>1
    <3>5. ASSUME NEW d \in Channel PROVE WhereAgrees(d)'
      <4>1. CASE d = c
        <5>1. /\ 1 \in 1 .. Len(<<m>>) /\ WhereWord(<<m>>[1], d) = {Where(d)'}
              /\ \A j \in 1 + 1 .. Len(<<m>>) : WhereWord(<<m>>[j], d) = {}
          BY <3>1, <3>3, <3>4, <4>1
        <5> HIDE DEF m
        <5> QED
          BY <3>1, <3>2, <3>4, <5>1, WhereTold
      <4>2. CASE d # c
        <5>1. WhereKnown(d)' = WhereKnown(d) /\ Where(d)' = Where(d)
          BY <1>1, <2>2, <4>2 DEF WhereKnown, Leaving
        <5>2. \A i \in 1 .. Len(<<m>>) : WhereWord(<<m>>[i], d) = {}
          BY <3>3, <3>4, <4>2
        <5> HIDE DEF m
        <5> QED
          BY <3>1, <3>2, <3>4, <5>1, <5>2, WhereTold DEF MembershipAgrees
      <4> QED
        BY <4>1, <4>2
    <3> QED
      BY <3>5 DEF MembershipAgrees
  <2> QED
    BY <2>3, <2>4
<1>9. ASSUME NEW c \in Channel, Appoint(c) PROVE MembershipAgrees'
  <2>1. PICK ops \in SUBSET Names, owner \in Names \cup {NoOwner} :
            /\ rooms' = [rooms EXCEPT ![c].owner = owner, ![c].ops = ops]
            /\ Tell(c, <<OperatorList(c, owner, ops)>>)
    BY <1>9 DEF Appoint
  <2>2. \A d \in Channel : Where(d)' = Where(d)
    BY <1>1, <2>1 DEF Where, Room
  <2>3. OperatorList(c, owner, ops) \in Message /\ OperatorList(c, owner, ops).type = "COL"
    BY <2>1 DEF Message, OperatorList
  <2>4. Send(<<>>) \/ Send(<<OperatorList(c, owner, ops)>>)
    BY <2>1 DEF Tell
  <2> QED
    BY <1>2, <2>2, <2>3, <2>4 DEF Departures
<1>10. ASSUME NEW c \in Channel, SetMode(c) PROVE MembershipAgrees'
  <2>1. PICK mode \in Modes : /\ rooms' = [rooms EXCEPT ![c].mode = mode]
                              /\ Tell(c, <<[type |-> "RMO", chan |-> c, mode |-> mode]>>)
    BY <1>10 DEF SetMode
  <2>2. \A d \in Channel : Where(d)' = Where(d)
    BY <1>1, <2>1 DEF Where, Room
  <2>3. [type |-> "RMO", chan |-> c, mode |-> mode] \in Message
    BY DEF Message
  <2> QED
    BY <1>2, <2>1, <2>2, <2>3 DEF Tell, Departures
<1>11. ASSUME NEW c \in Channel, Describe(c) PROVE MembershipAgrees'
  <2>1. [type |-> "CDS", chan |-> c] \in Message
    BY DEF Message
  <2> QED
    BY <1>2, <1>11, <2>1 DEF Describe, Tell, Where, Departures
<1> QED
  BY <1>3, <1>4, <1>5, <1>6, <1>7, <1>8, <1>9, <1>10, <1>11 DEF Others

\* What happens at our side leaves the last word to the server.
LEMMA WhereKept ==
    ASSUME NEW c \in Channel, UNCHANGED <<rooms, inbox>>, WhereAgrees(c),
           WhereKnown(c) => WhereKnown(c)'
    PROVE  WhereAgrees(c)'
<1>1. Where(c)' = Where(c) /\ WhereWords(c)' = WhereWords(c)
  BY DEF Where, WhereWords
<1> QED
  BY <1>1 DEF WhereAgrees

LEMMA MembershipStep ==
    TypeOK /\ ChatsMatch /\ Orderly /\ MembershipAgrees /\ [Next]_vars => MembershipAgrees'
<1> SUFFICES ASSUME TypeOK, ChatsMatch, Orderly, MembershipAgrees, [Next]_vars
             PROVE  MembershipAgrees'
  OBVIOUS
<1>1. CASE Process
  <2> SUFFICES ASSUME NEW c \in Channel PROVE WhereAgrees(c)'
    BY DEF MembershipAgrees
  <2> DEFINE n == Len(inbox)
             w == WhereWords(c)
             u == WhereWords(c)'
  <2>1. /\ n \in Nat \ {0} /\ Len(inbox') = n - 1 /\ Where(c)' = Where(c)
        /\ \A i \in 1 .. n - 1 : u[i] = w[i + 1]
        /\ w[1] = WhereWord(inbox[1], c)
    BY <1>1, ProcessMoves DEF Moves, WhereWords, Where
  <2>2. /\ Ends(w, n, Where(c)) => \/ Ends(u, n - 1, Where(c))
                                   \/ Wordless(u, n - 1) /\ w[1] = {Where(c)}
        /\ Wordless(w, n) => Wordless(u, n - 1) /\ w[1] = {}
    <3> HIDE DEF n, w, u
    <3> QED
      BY <2>1, Heard
  <2>3. /\ w[1] = {Where(c)} => WhereKnown(c)'
        /\ w[1] = {} /\ WhereKnown(c) => WhereKnown(c)'
    BY <1>1, <2>1, WhereHeard DEF WhereKnown, Leaving, Where
  <2> QED
    BY <2>1, <2>2, <2>3 DEF MembershipAgrees, WhereAgrees
<1>2. ASSUME UNCHANGED <<rooms, inbox, chat_table, outbox>> PROVE MembershipAgrees'
  BY <1>2, WhereKept DEF MembershipAgrees, WhereKnown, Where, Leaving
<1>3. ASSUME NEW c \in Channel, NEW type \in {"JCH", "LCH"}, Ask(type, c), NEW d
      PROVE  /\ Leaving(d) => Leaving(d)'
             /\ type = "LCH" => Leaving(c)'
  <2>1. /\ outbox \in Seq(Request) /\ Len(outbox) \in Nat /\ Len(outbox') = Len(outbox) + 1
        /\ \A i \in 1 .. Len(outbox) : outbox'[i] = outbox[i]
        /\ outbox'[Len(outbox) + 1] = [type |-> type, chan |-> c]
    BY <1>3 DEF TypeOK, ServerOK, Ask
  <2> QED
    BY <2>1 DEF Leaving
<1>4. CASE User
  <2> USE DEF chats, server
  <2>1. ASSUME NEW c \in Channel, NEW w \in Shows, Hide(c, w) \/ Show(c, w)
        PROVE  MembershipAgrees'
    BY <1>2, <2>1 DEF Hide, Show
  <2>2. ASSUME NEW c \in Channel, KeepChat(c) PROVE MembershipAgrees'
    BY <1>2, <2>2 DEF KeepChat
  <2>3. ASSUME NEW c \in Channel, JoinChannel(c) PROVE MembershipAgrees'
    <3>1. UNCHANGED <<rooms, inbox, chat_table>> /\ Ask("JCH", c)
      BY <2>3 DEF JoinChannel
    <3>2. \A d \in Channel : WhereKnown(d) => WhereKnown(d)'
      BY <1>3, <3>1 DEF WhereKnown, Where
    <3> QED
      BY <3>1, <3>2, WhereKept DEF MembershipAgrees
  <2>4. ASSUME NEW c \in Channel, CloseWindow(c) PROVE MembershipAgrees'
    <3>1. UNCHANGED <<rooms, inbox>>
      BY <2>4 DEF CloseWindow
    <3>2. CASE convo[c] = "open"
      <4>1. Ask("LCH", c) /\ chat_table' = chat_table \ {c}
        BY <2>4, <3>2 DEF CloseWindow, LeaveRequest, GotChannelLeft
      <4>2. \A d \in Channel : WhereKnown(d) => WhereKnown(d)'
        BY <1>3, <3>1, <4>1 DEF WhereKnown, Where
      <4> QED
        BY <3>1, <4>2, WhereKept DEF MembershipAgrees
    <3>3. CASE convo[c] # "open"
      BY <1>2, <2>4, <3>1, <3>3 DEF CloseWindow
    <3> QED
      BY <3>2, <3>3
  <2> QED
    BY <1>4, <2>1, <2>2, <2>3, <2>4 DEF User
<1>5. ASSUME NEW c \in Channel, Elapse(c) PROVE MembershipAgrees'
  BY <1>2, <1>5 DEF Elapse, KeepTables, chats, server
<1>6. ASSUME NEW n \in Names, Overwrite(n) PROVE MembershipAgrees'
  BY <1>2, <1>6 DEF Overwrite, KeepTables, chats, server
<1>7. CASE UNCHANGED vars
  BY <1>2, <1>7 DEF vars, chats, server
<1>8. CASE Login
  <2> SUFFICES ASSUME NEW c \in Channel PROVE WhereAgrees(c)'
    BY DEF MembershipAgrees
  <2>1. Where(c)' = "out" /\ c \notin chat_table'
    BY <1>8, NowhereYet DEF Login, Orderly, NoChannelYet, Where, chats
  <2>2. Wordless(WhereWords(c)', Len(inbox'))
    BY <1>8 DEF Login, Wordless, WhereWords, WhereWord, Departures
  <2> QED
    BY <2>1, <2>2 DEF WhereAgrees, WhereKnown
<1>9. CASE Disconnect \/ Crash
  <2>1. /\ chat_table' = {} /\ inbox' = <<>> /\ rooms' = Without(Me)
        /\ rooms \in [Channel -> Room]
    BY <1>9 DEF Disconnect, Crash, EndSession, TypeOK, ServerOK
  <2>2. \A c \in Channel : Where(c)' = "out"
    BY <2>1 DEF Where, Without, Room
  <2> QED
    BY <2>1, <2>2 DEF MembershipAgrees, WhereAgrees, WhereKnown, Wordless
<1> QED
  BY <1>1, <1>4, <1>5, <1>6, <1>7, <1>8, <1>9, ServeMoves, OthersTell DEF Next

\* What the server knows of our channels is what we know, or will know once what
\* is on its way has arrived.
LEMMA MembershipAlwaysAgrees == Spec => []MembershipAgrees
<1>1. Init => MembershipAgrees
  <2> SUFFICES ASSUME Init, NEW c \in Channel PROVE WhereAgrees(c)
    BY DEF MembershipAgrees
  <2>1. Where(c) = "out" /\ inbox = <<>> /\ chat_table = {}
    BY DEF Init, Where, NewRoom
  <2> QED
    BY <2>1 DEF WhereAgrees, WhereKnown, Wordless
<1>2. TypeOK /\ ChatsMatch /\ OrderInv /\ MembershipAgrees /\ [Next]_vars
         => MembershipAgrees'
  BY MembershipStep DEF OrderInv
<1> QED
  BY <1>1, <1>2, TypeCorrect, ChatsAlwaysMatch, OrderAlwaysKept, PTL DEF Spec

----------------------------------------------------------------------------
(* We ask for a channel once.  While a request or its answer is on its way the
   channel is recent (unless the server is slow), so that there is one at most;
   and a request that follows our leaving is served after it.                *)

Asks(i, c)    == outbox[i] = [type |-> "JCH", chan |-> c]
Quits(i, c)   == outbox[i] = [type |-> "LCH", chan |-> c]
Answers(i, c) == inbox[i].type = "JCH" /\ inbox[i].who = Me /\ inbox[i].chan = c

JoiningIsRecent == \A c \in Channel : Joining(c) => c \in recent /\ c \notin chat_table

JoinsOnce ==
    \A c \in Channel :
        /\ \A i, j \in 1 .. Len(outbox) : Asks(i, c) /\ Asks(j, c) => i = j
        /\ \A i, j \in 1 .. Len(inbox) : Answers(i, c) /\ Answers(j, c) => i = j
        /\ \A i \in 1 .. Len(outbox), j \in 1 .. Len(inbox) : ~(Asks(i, c) /\ Answers(j, c))

LeavesBeforeJoining ==
    \A c \in Channel : \A i \in 1 .. Len(outbox) :
        Asks(i, c) /\ Where(c) = "in" => \E j \in 1 .. i - 1 : Quits(j, c)

JoinInv == JoiningIsRecent /\ JoinsOnce /\ LeavesBeforeJoining

LEMMA WhoIsJoining ==
    ASSUME TypeOK, NEW c
    PROVE  Joining(c) <=> \/ \E i \in 1 .. Len(outbox) : Asks(i, c)
                          \/ \E i \in 1 .. Len(inbox) : Answers(i, c)
<1>1. DOMAIN outbox = 1 .. Len(outbox) /\ DOMAIN inbox = 1 .. Len(inbox)
  BY DEF TypeOK, ServerOK
<1> QED
  BY <1>1 DEF Joining, Asks, Answers

\* The conjuncts of the invariant, in the next state, for one channel.
LEMMA JoinInvNext ==
    ASSUME TypeOK',
           \A c \in Channel :
               /\ \A i \in 1 .. Len(outbox') : Asks(i, c)' => c \in recent' /\ c \notin chat_table'
               /\ \A i \in 1 .. Len(inbox') : Answers(i, c)' => c \in recent' /\ c \notin chat_table'
               /\ \A i, j \in 1 .. Len(outbox') : Asks(i, c)' /\ Asks(j, c)' => i = j
               /\ \A i, j \in 1 .. Len(inbox') : Answers(i, c)' /\ Answers(j, c)' => i = j
               /\ \A i \in 1 .. Len(outbox'), j \in 1 .. Len(inbox') :
                      ~(Asks(i, c)' /\ Answers(j, c)')
               /\ \A i \in 1 .. Len(outbox') :
                      Asks(i, c)' /\ Where(c)' = "in" => \E j \in 1 .. i - 1 : Quits(j, c)'
    PROVE  JoinInv'
<1>1. DOMAIN outbox' = 1 .. Len(outbox') /\ DOMAIN inbox' = 1 .. Len(inbox')
  BY DEF TypeOK, ServerOK
<1>2. JoiningIsRecent'
  BY <1>1 DEF JoiningIsRecent, Joining, Asks, Answers
<1>3. JoinsOnce'
  BY DEF JoinsOnce
<1>4. LeavesBeforeJoining'
  BY DEF LeavesBeforeJoining
<1> QED
  BY <1>2, <1>3, <1>4 DEF JoinInv

LEMMA OneAtMost ==
    ASSUME NEW m \in Message, NEW ms \in {<<>>, <<m>>}
    PROVE  ms \in Seq(Message) /\ \A i \in 1 .. Len(ms) : ms[i] = m
<1>1. CASE ms = <<>>
  BY <1>1
<1>2. CASE ms = <<m>>
  BY <1>2
<1> QED
  BY <1>1, <1>2

\* Nobody but us and the server's answers makes us join.
LEMMA OthersDoNotJoinUs ==
    ASSUME TypeOK, Others
    PROVE  /\ UNCHANGED <<phase, outbox, recent, chat_table>>
           /\ \A c \in Channel : Where(c)' \in {Where(c), "out"}
           /\ \A c \in Channel : \A i \in 1 .. Len(inbox') :
                  Answers(i, c)' => i \in 1 .. Len(inbox) /\ Answers(i, c)
<1> DEFINE Goal == /\ \A c \in Channel : Where(c)' \in {Where(c), "out"}
                   /\ \A c \in Channel : \A i \in 1 .. Len(inbox') :
                          Answers(i, c)' => i \in 1 .. Len(inbox) /\ Answers(i, c)
<1> USE DEF server
<1>1. /\ rooms \in [Channel -> Room]
      /\ UNCHANGED <<phase, outbox, recent, chat_table>>
  BY DEF TypeOK, ServerOK, Others, Arrive, Restate, Depart, Promote, Demote, Reappoint, Enter,
         Remove, Appoint, SetMode, Describe, KeepPlugin, chats
<1>2. ASSUME NEW m \in Message, Send(<<>>) \/ Send(<<m>>),
             m.type # "JCH" \/ m.who # Me,
             \A c \in Channel : Where(c)' \in {Where(c), "out"}
      PROVE  Goal
  <2>1. CASE phase = "off"
    <3>1. inbox' = <<>>
      BY <1>2, <2>1 DEF Send
    <3> QED
      BY <1>2, <3>1
  <2>2. CASE phase # "off"
    <3>1. PICK ms \in {<<>>, <<m>>} : Send(ms)
      BY <1>2
    <3>2. ms \in Seq(Message) /\ \A i \in 1 .. Len(ms) : ms[i] = m
      BY <3>1, OneAtMost
    <3>3. /\ Len(inbox) \in Nat /\ Len(ms) \in Nat /\ Len(inbox') = Len(inbox) + Len(ms)
          /\ \A i \in 1 .. Len(inbox) : inbox'[i] = inbox[i]
          /\ \A i \in Len(inbox) + 1 .. Len(inbox) + Len(ms) : inbox'[i] = m
      BY <2>2, <3>1, <3>2, SendAppends
    <3> QED
      BY <1>2, <3>3 DEF Answers
  <2> QED
    BY <2>1, <2>2
<1> SUFFICES Goal
  BY <1>1
<1> HIDE DEF Goal
<1>3. ASSUME NEW n \in Names, Arrive(n) \/ Promote(n) \/ Demote(n) PROVE Goal
  <2>1. PICK type \in {"NLN", "AOP", "DOP"} : Send(<<[type |-> type, who |-> n]>>)
    BY <1>3 DEF Arrive, Promote, Demote
  <2>2. [type |-> type, who |-> n] \in Message
    BY DEF Message
  <2> QED
    BY <1>2, <1>3, <2>1, <2>2 DEF Arrive, Promote, Demote, Where
<1>4. ASSUME NEW n \in Names, Restate(n) PROVE Goal
  <2>1. PICK s \in Statuses : Send(<<[type |-> "STA", who |-> n, status |-> s]>>)
    BY <1>4 DEF Restate, Statuses
  <2>2. [type |-> "STA", who |-> n, status |-> s] \in Message
    BY DEF Message
  <2> QED
    BY <1>2, <1>4, <2>1, <2>2 DEF Restate, Where
<1>5. ASSUME NEW n \in Names, Depart(n) PROVE Goal
  <2>1. [type |-> "FLN", who |-> n] \in Message
    BY DEF Message
  <2>2. \A c \in Channel : Where(c)' = Where(c)
    BY <1>1, <1>5 DEF Depart, Without, Where, Room
  <2> QED
    BY <1>2, <1>5, <2>1, <2>2 DEF Depart
<1>6. CASE Reappoint
  <2>1. PICK ops \in SUBSET Names : Send(<<[type |-> "ADL", ops |-> ops]>>)
    BY <1>6 DEF Reappoint
  <2>2. [type |-> "ADL", ops |-> ops] \in Message
    BY DEF Message
  <2> QED
    BY <1>2, <1>6, <2>1, <2>2 DEF Reappoint, Where
<1>7. ASSUME NEW n \in Names, NEW c \in Channel, Enter(n, c) PROVE Goal
  <2>1. [type |-> "JCH", chan |-> c, who |-> n] \in Message
    BY DEF Message
  <2>2. \A d \in Channel : Where(d)' = Where(d)
    BY <1>1, <1>7 DEF Enter, Where, Room
  <2> QED
    BY <1>2, <1>7, <2>1, <2>2 DEF Enter, Tell
<1>8. ASSUME NEW n \in Names, NEW c \in Channel, NEW how \in Departures, Remove(n, c, how)
      PROVE  Goal
  <2>1. [type |-> how, chan |-> c, who |-> n] \in Message /\ how # "JCH"
    BY DEF Message, Departures
  <2>2. \A d \in Channel : Where(d)' \in {Where(d), "out"}
    BY <1>1, <1>8 DEF Remove, Where, Room
  <2> QED
    BY <1>2, <1>8, <2>1, <2>2 DEF Remove, Tell
<1>9. ASSUME NEW c \in Channel, Appoint(c) PROVE Goal
  <2>1. PICK ops \in SUBSET Names, owner \in Names \cup {NoOwner} :
            /\ rooms' = [rooms EXCEPT ![c].owner = owner, ![c].ops = ops]
            /\ Tell(c, <<OperatorList(c, owner, ops)>>)
    BY <1>9 DEF Appoint
  <2>2. \A d \in Channel : Where(d)' = Where(d)
    BY <1>1, <2>1 DEF Where, Room
  <2>3. OperatorList(c, owner, ops) \in Message /\ OperatorList(c, owner, ops).type = "COL"
    BY <2>1 DEF Message, OperatorList
  <2>4. Send(<<>>) \/ Send(<<OperatorList(c, owner, ops)>>)
    BY <2>1 DEF Tell
  <2> QED
    BY <1>2, <2>2, <2>3, <2>4
<1>10. ASSUME NEW c \in Channel, SetMode(c) PROVE Goal
  <2>1. PICK mode \in Modes : /\ rooms' = [rooms EXCEPT ![c].mode = mode]
                              /\ Tell(c, <<[type |-> "RMO", chan |-> c, mode |-> mode]>>)
    BY <1>10 DEF SetMode
  <2>2. \A d \in Channel : Where(d)' = Where(d)
    BY <1>1, <2>1 DEF Where, Room
  <2>3. [type |-> "RMO", chan |-> c, mode |-> mode] \in Message
    BY DEF Message
  <2> QED
    BY <1>2, <2>1, <2>2, <2>3 DEF Tell
<1>11. ASSUME NEW c \in Channel, Describe(c) PROVE Goal
  <2>1. [type |-> "CDS", chan |-> c] \in Message
    BY DEF Message
  <2> QED
    BY <1>2, <1>11, <2>1 DEF Describe, Tell, Where
<1> QED
  BY <1>3, <1>4, <1>5, <1>6, <1>7, <1>8, <1>9, <1>10, <1>11 DEF Others

LEMMA ServeKeepsJoins ==
    ASSUME TypeOK, TypeOK', Orderly, JoinInv, Serve
    PROVE  JoinInv'
<1>1. /\ rooms \in [Channel -> Room] /\ outbox \in Seq(Request) /\ outbox # <<>>
      /\ inbox \in Seq(Message) /\ Len(inbox) \in Nat
      /\ phase # "off" /\ UNCHANGED <<phase, chat_table, recent>>
      /\ outbox' = Tail(outbox)
  BY DEF TypeOK, ServerOK, Serve, ServeJoin, ServeLeave, Orderly, NoChannelYet, KeepPlugin,
         chats
<1>2. PICK c \in Channel : c = Head(outbox).chan
  <2>1. Head(outbox) \in Request
    BY <1>1
  <2> QED
    BY <2>1 DEF Request
<1>3. /\ Len(outbox) \in Nat \ {0} /\ Len(outbox') = Len(outbox) - 1
      /\ \A i \in 1 .. Len(outbox') : i + 1 \in 1 .. Len(outbox) /\ outbox'[i] = outbox[i + 1]
      /\ outbox[1] = Head(outbox) /\ outbox[1] = [type |-> outbox[1].type, chan |-> c]
  <2>1. Head(outbox) \in Request /\ Head(outbox) = outbox[1]
    BY <1>1
  <2>2. outbox[1] = [type |-> outbox[1].type, chan |-> c]
    BY <1>2, <2>1 DEF Request
  <2> QED
    BY <1>1, <2>1, <2>2
<1>4. ASSUME NEW d \in Channel, NEW i \in 1 .. Len(outbox'), Asks(i, d)'
      PROVE  i + 1 \in 1 .. Len(outbox) /\ Asks(i + 1, d)
  BY <1>3, <1>4 DEF Asks
<1>5. ASSUME NEW d \in Channel, Where(d)' = Where(d) \/ Where(d)' = "out",
             d # c \/ Head(outbox).type # "LCH" \/ Where(d)' = "out",
             NEW i \in 1 .. Len(outbox'), Asks(i, d)', Where(d)' = "in"
      PROVE  \E j \in 1 .. i - 1 : Quits(j, d)'
  <2>1. Asks(i + 1, d) /\ Where(d) = "in"
    BY <1>4, <1>5 DEF Where
  <2>2. PICK j \in 1 .. i : Quits(j, d)
    BY <1>3, <1>4, <1>5, <2>1 DEF JoinInv, LeavesBeforeJoining
  <2>3. j # 1
    BY <1>3, <1>5, <2>2 DEF Quits, Where
  <2>4. j - 1 \in 1 .. i - 1 /\ Quits(j - 1, d)'
    BY <1>3, <2>2, <2>3 DEF Quits
  <2> QED
    BY <2>4
<1>6. ASSUME \A d \in Channel : \A i \in 1 .. Len(inbox') :
                 Answers(i, d)' => i \in 1 .. Len(inbox) /\ Answers(i, d),
             \A d \in Channel : Where(d)' = Where(d) \/ Where(d)' = "out",
             Head(outbox).type # "LCH" \/ Where(c)' = "out"
      PROVE  JoinInv'
  <2> SUFFICES ASSUME NEW d \in Channel
               PROVE  /\ \A i \in 1 .. Len(outbox') : Asks(i, d)' => d \in recent' /\ d \notin chat_table'
                      /\ \A i \in 1 .. Len(inbox') : Answers(i, d)' => d \in recent' /\ d \notin chat_table'
                      /\ \A i, j \in 1 .. Len(outbox') : Asks(i, d)' /\ Asks(j, d)' => i = j
                      /\ \A i, j \in 1 .. Len(inbox') : Answers(i, d)' /\ Answers(j, d)' => i = j
                      /\ \A i \in 1 .. Len(outbox'), j \in 1 .. Len(inbox') :
                             ~(Asks(i, d)' /\ Answers(j, d)')
                      /\ \A i \in 1 .. Len(outbox') :
                             Asks(i, d)' /\ Where(d)' = "in" => \E j \in 1 .. i - 1 : Quits(j, d)'
    BY JoinInvNext
  <2>1. \A i \in 1 .. Len(outbox) : Asks(i, d) => d \in recent /\ d \notin chat_table
    BY WhoIsJoining DEF JoinInv, JoiningIsRecent
  <2>2. \A i \in 1 .. Len(inbox) : Answers(i, d) => d \in recent /\ d \notin chat_table
    BY WhoIsJoining DEF JoinInv, JoiningIsRecent
  <2>3. /\ \A i, j \in 1 .. Len(outbox) : Asks(i, d) /\ Asks(j, d) => i = j
        /\ \A i, j \in 1 .. Len(inbox) : Answers(i, d) /\ Answers(j, d) => i = j
        /\ \A i \in 1 .. Len(outbox), j \in 1 .. Len(inbox) : ~(Asks(i, d) /\ Answers(j, d))
    BY DEF JoinInv, JoinsOnce
  <2>4. \A i \in 1 .. Len(outbox') : Asks(i, d)' => d \in recent' /\ d \notin chat_table'
    BY <1>1, <1>4, <2>1
  <2>5. \A i \in 1 .. Len(inbox') : Answers(i, d)' => d \in recent' /\ d \notin chat_table'
    BY <1>1, <1>6, <2>2
  <2>6. \A i, j \in 1 .. Len(outbox') : Asks(i, d)' /\ Asks(j, d)' => i = j
    <3> SUFFICES ASSUME NEW i \in 1 .. Len(outbox'), NEW j \in 1 .. Len(outbox'),
                        Asks(i, d)', Asks(j, d)'
                 PROVE  i = j
      OBVIOUS
    <3>1. i + 1 = j + 1
      BY <1>4, <2>3
    <3> QED
      BY <3>1, <1>3
  <2>7. \A i, j \in 1 .. Len(inbox') : Answers(i, d)' /\ Answers(j, d)' => i = j
    BY <1>6, <2>3
  <2>8. \A i \in 1 .. Len(outbox'), j \in 1 .. Len(inbox') : ~(Asks(i, d)' /\ Answers(j, d)')
    BY <1>4, <1>6, <2>3
  <2>9. \A i \in 1 .. Len(outbox') :
            Asks(i, d)' /\ Where(d)' = "in" => \E j \in 1 .. i - 1 : Quits(j, d)'
    BY <1>5, <1>6
  <2> QED
    BY <2>4, <2>5, <2>6, <2>7, <2>8, <2>9
<1>7. CASE ServeJoin
  <2>1. CASE /\ Me \notin rooms[c].users
             /\ rooms' = [rooms EXCEPT ![c].users = @ \cup {Me}]
             /\ Send(Welcome(c))
    <3>1. Welcome(c) \in Seq(Message)
      BY WelcomeType DEF TypeOK
    <3>2. /\ Len(Welcome(c)) = 4
          /\ Welcome(c)[1] = [type |-> "JCH", chan |-> c, who |-> Me]
          /\ \A i \in 2 .. 4 : Welcome(c)[i].type # "JCH"
      BY DEF Welcome, OperatorList
    <3>3. /\ Len(inbox') = Len(inbox) + 4
          /\ \A i \in 1 .. Len(inbox) : inbox'[i] = inbox[i]
          /\ \A i \in Len(inbox) + 1 .. Len(inbox) + 4 :
                 i - Len(inbox) \in 1 .. 4 /\ inbox'[i] = Welcome(c)[i - Len(inbox)]
      <4>1. /\ Len(inbox') = Len(inbox) + Len(Welcome(c))
            /\ \A i \in 1 .. Len(inbox) : inbox'[i] = inbox[i]
            /\ \A i \in Len(inbox) + 1 .. Len(inbox) + Len(Welcome(c)) :
                   /\ i - Len(inbox) \in 1 .. Len(Welcome(c))
                   /\ inbox'[i] = Welcome(c)[i - Len(inbox)]
        BY <1>1, <2>1, <3>1, SendAppends
      <4> QED
        BY <3>2, <4>1
    <3>4. Asks(1, c)
      <4>1. outbox[1].type = "JCH"
        BY <1>3, <1>7 DEF ServeJoin
      <4> QED
        BY <1>3, <4>1 DEF Asks
    <3>5. ASSUME NEW d \in Channel, NEW i \in 1 .. Len(inbox'), Answers(i, d)'
          PROVE  \/ i \in 1 .. Len(inbox) /\ Answers(i, d)
                 \/ i = Len(inbox) + 1 /\ d = c
      BY <1>1, <3>2, <3>3, <3>5 DEF Answers
    <3>6. /\ \A i \in 1 .. Len(outbox) : Asks(i, c) => i = 1
          /\ \A i \in 1 .. Len(inbox) : ~Answers(i, c)
      BY <1>3, <3>4 DEF JoinInv, JoinsOnce
    <3>7. /\ c \in recent /\ c \notin chat_table
          /\ \A i \in 1 .. Len(outbox') : ~Asks(i, c)'
      BY <1>3, <1>4, <3>4, <3>6, WhoIsJoining DEF JoinInv, JoiningIsRecent
    <3>8. \A d \in Channel : d # c => Where(d)' = Where(d)
      BY <1>1, <2>1 DEF Where, Room
    <3> SUFFICES ASSUME NEW d \in Channel
                 PROVE  /\ \A i \in 1 .. Len(outbox') : Asks(i, d)' => d \in recent' /\ d \notin chat_table'
                        /\ \A i \in 1 .. Len(inbox') : Answers(i, d)' => d \in recent' /\ d \notin chat_table'
                        /\ \A i, j \in 1 .. Len(outbox') : Asks(i, d)' /\ Asks(j, d)' => i = j
                        /\ \A i, j \in 1 .. Len(inbox') : Answers(i, d)' /\ Answers(j, d)' => i = j
                        /\ \A i \in 1 .. Len(outbox'), j \in 1 .. Len(inbox') :
                               ~(Asks(i, d)' /\ Answers(j, d)')
                        /\ \A i \in 1 .. Len(outbox') :
                               Asks(i, d)' /\ Where(d)' = "in" => \E j \in 1 .. i - 1 : Quits(j, d)'
      BY JoinInvNext
    <3>9. CASE d = c
      <4>1. \A i \in 1 .. Len(inbox') : Answers(i, d)' => i = Len(inbox) + 1
        BY <3>5, <3>6, <3>9
      <4> QED
        BY <1>1, <3>7, <3>9, <4>1
    <3>10. CASE d # c
      <4>1. \A i \in 1 .. Len(outbox) : Asks(i, d) => d \in recent /\ d \notin chat_table
        BY WhoIsJoining DEF JoinInv, JoiningIsRecent
      <4>2. \A i \in 1 .. Len(inbox) : Answers(i, d) => d \in recent /\ d \notin chat_table
        BY WhoIsJoining DEF JoinInv, JoiningIsRecent
      <4>3. /\ \A i, j \in 1 .. Len(outbox) : Asks(i, d) /\ Asks(j, d) => i = j
            /\ \A i, j \in 1 .. Len(inbox) : Answers(i, d) /\ Answers(j, d) => i = j
            /\ \A i \in 1 .. Len(outbox), j \in 1 .. Len(inbox) : ~(Asks(i, d) /\ Answers(j, d))
        BY DEF JoinInv, JoinsOnce
      <4>4. \A i \in 1 .. Len(inbox') : Answers(i, d)' => i \in 1 .. Len(inbox) /\ Answers(i, d)
        BY <3>5, <3>10
      <4>5. \A i, j \in 1 .. Len(outbox') : Asks(i, d)' /\ Asks(j, d)' => i = j
        <5> SUFFICES ASSUME NEW i \in 1 .. Len(outbox'), NEW j \in 1 .. Len(outbox'),
                            Asks(i, d)', Asks(j, d)'
                     PROVE  i = j
          OBVIOUS
        <5>1. i + 1 = j + 1
          BY <1>4, <4>3
        <5> QED
          BY <5>1, <1>3
      <4>6. \A i \in 1 .. Len(outbox') :
                Asks(i, d)' /\ Where(d)' = "in" => \E j \in 1 .. i - 1 : Quits(j, d)'
        BY <1>5, <3>8, <3>10
      <4>7. \A i \in 1 .. Len(outbox') : Asks(i, d)' => d \in recent' /\ d \notin chat_table'
        BY <1>1, <1>4, <4>1
      <4>8. \A i \in 1 .. Len(inbox') : Answers(i, d)' => d \in recent' /\ d \notin chat_table'
        BY <1>1, <4>2, <4>4
      <4>9. \A i, j \in 1 .. Len(inbox') : Answers(i, d)' /\ Answers(j, d)' => i = j
        BY <4>3, <4>4
      <4>10. \A i \in 1 .. Len(outbox'), j \in 1 .. Len(inbox') : ~(Asks(i, d)' /\ Answers(j, d)')
        BY <1>4, <4>3, <4>4
      <4> QED
        BY <4>5, <4>6, <4>7, <4>8, <4>9, <4>10
    <3> QED
      BY <3>9, <3>10
  <2>2. CASE UNCHANGED <<rooms, inbox>>
    BY <1>6, <1>7, <2>2 DEF ServeJoin, Where, Answers
  <2> QED
    BY <1>2, <1>7, <2>1, <2>2 DEF ServeJoin
<1>8. CASE ServeLeave
  <2> DEFINE m == [type |-> "LCH", chan |-> c, who |-> Me]
  <2>1. /\ rooms' = [rooms EXCEPT ![c].users = @ \ {Me}]
        /\ Send(<<>>) \/ Send(<<m>>)
    BY <1>2, <1>8 DEF ServeLeave, Tell
  <2>2. m \in Message /\ m.type # "JCH"
    BY NamesAssumption DEF Message, Departures
  <2>3. \A d \in Channel : Where(d)' = IF d = c THEN "out" ELSE Where(d)
    BY <1>1, <2>1 DEF Where, Room
  <2>4. \A d \in Channel : \A i \in 1 .. Len(inbox') :
            Answers(i, d)' => i \in 1 .. Len(inbox) /\ Answers(i, d)
    <3>1. PICK ms \in {<<>>, <<m>>} : Send(ms)
      BY <2>1
    <3> HIDE DEF m
    <3>2. ms \in Seq(Message) /\ \A i \in 1 .. Len(ms) : ms[i] = m
      BY <2>2, <3>1, OneAtMost
    <3>3. /\ Len(inbox) \in Nat /\ Len(ms) \in Nat /\ Len(inbox') = Len(inbox) + Len(ms)
          /\ \A i \in 1 .. Len(inbox) : inbox'[i] = inbox[i]
          /\ \A i \in Len(inbox) + 1 .. Len(inbox) + Len(ms) : inbox'[i] = m
      BY <1>1, <3>1, <3>2, SendAppends
    <3> QED
      BY <2>2, <3>3 DEF Answers
  <2> QED
    BY <1>6, <2>3, <2>4
<1> QED
  BY <1>7, <1>8 DEF Serve

LEMMA JoinStep ==
    /\ ~SlowServer
    /\ TypeOK /\ TypeOK' /\ ChatsMatch /\ Orderly /\ MembershipAgrees /\ JoinInv /\ [Next]_vars
    => JoinInv'
<1> SUFFICES ASSUME ~SlowServer, TypeOK, TypeOK', ChatsMatch, Orderly, MembershipAgrees, JoinInv,
                    [Next]_vars
             PROVE  JoinInv'
  OBVIOUS
<1> DEFINE Goal(d) ==
               /\ \A i \in 1 .. Len(outbox') : Asks(i, d)' => d \in recent' /\ d \notin chat_table'
               /\ \A i \in 1 .. Len(inbox') : Answers(i, d)' => d \in recent' /\ d \notin chat_table'
               /\ \A i, j \in 1 .. Len(outbox') : Asks(i, d)' /\ Asks(j, d)' => i = j
               /\ \A i, j \in 1 .. Len(inbox') : Answers(i, d)' /\ Answers(j, d)' => i = j
               /\ \A i \in 1 .. Len(outbox'), j \in 1 .. Len(inbox') :
                      ~(Asks(i, d)' /\ Answers(j, d)')
               /\ \A i \in 1 .. Len(outbox') :
                      Asks(i, d)' /\ Where(d)' = "in" => \E j \in 1 .. i - 1 : Quits(j, d)'
<1>0. (\A d \in Channel : Goal(d)) => JoinInv'
  BY JoinInvNext
<1>1. ASSUME NEW d \in Channel
      PROVE  /\ \A i \in 1 .. Len(outbox) : Asks(i, d) => d \in recent /\ d \notin chat_table
             /\ \A i \in 1 .. Len(inbox) : Answers(i, d) => d \in recent /\ d \notin chat_table
             /\ \A i, j \in 1 .. Len(outbox) : Asks(i, d) /\ Asks(j, d) => i = j
             /\ \A i, j \in 1 .. Len(inbox) : Answers(i, d) /\ Answers(j, d) => i = j
             /\ \A i \in 1 .. Len(outbox), j \in 1 .. Len(inbox) : ~(Asks(i, d) /\ Answers(j, d))
             /\ \A i \in 1 .. Len(outbox) :
                    Asks(i, d) /\ Where(d) = "in" => \E j \in 1 .. i - 1 : Quits(j, d)
  BY WhoIsJoining DEF JoinInv, JoiningIsRecent, JoinsOnce, LeavesBeforeJoining
\* Steps that bring no request, and no answer; channels that become known.
<1>2. ASSUME outbox' = outbox, NEW d \in Channel,
             Where(d)' = Where(d) \/ Where(d)' = "out",
             \A i \in 1 .. Len(inbox') : Answers(i, d)' => i \in 1 .. Len(inbox) /\ Answers(i, d),
             d \in recent => d \in recent' \/ ~Joining(d),
             d \in chat_table' => d \in chat_table
      PROVE  Goal(d)
  <2>1. \A i : Asks(i, d)' = Asks(i, d) /\ Quits(i, d)' = Quits(i, d)
    BY <1>2 DEF Asks, Quits
  <2>2. \A i \in 1 .. Len(outbox) : Asks(i, d) => Joining(d)
    BY WhoIsJoining
  <2>3. \A i \in 1 .. Len(inbox) : Answers(i, d) => Joining(d)
    BY WhoIsJoining
  <2>4. Where(d)' = "in" => Where(d) = "in"
    BY <1>2 DEF Where
  <2> QED
    BY <1>1, <1>2, <2>1, <2>2, <2>3, <2>4
<1>3. ASSUME UNCHANGED <<outbox, inbox, rooms>>, chat_table' \subseteq chat_table,
             \A d \in recent : d \in recent' \/ ~Joining(d)
      PROVE  JoinInv'
  <2>1. \A d \in Channel : /\ Where(d)' = Where(d)
                           /\ \A i : Answers(i, d)' = Answers(i, d)
    BY <1>3 DEF Where, Answers
  <2> HIDE DEF Goal
  <2> QED
    BY <1>0, <1>2, <1>3, <2>1
<1>4. CASE Process
  <2>1. UNCHANGED <<outbox, recent, rooms>> /\ Moves
    BY <1>4, WhereHeard, ProcessMoves
  <2>2. ASSUME NEW d \in Channel, NEW i \in 1 .. Len(inbox'), Answers(i, d)'
        PROVE  i + 1 \in 1 .. Len(inbox) /\ Answers(i + 1, d)
    BY <2>1, <2>2 DEF Moves, Answers
  <2>3. ASSUME NEW d \in Channel PROVE Goal(d)
    <3>1. \A i : Asks(i, d)' = Asks(i, d) /\ Quits(i, d)' = Quits(i, d)
      BY <2>1 DEF Asks, Quits
    <3>2. Where(d)' = Where(d)
      BY <2>1 DEF Where
    <3>3. d \in chat_table' => d \in chat_table \/ (1 \in 1 .. Len(inbox) /\ Answers(1, d))
      <4>1. WhereWord(inbox[1], d) \in {{}, {"in"}, {"out"}}
        BY DEF WhereWord
      <4>2. WhereWord(inbox[1], d) = {"in"} => Answers(1, d)
        BY DEF WhereWord, Answers
      <4> QED
        BY <1>4, <2>1, <4>1, <4>2, WhereHeard DEF Moves
    <3>4. \A i, j \in 1 .. Len(inbox') : Answers(i, d)' /\ Answers(j, d)' => i = j
      <4> SUFFICES ASSUME NEW i \in 1 .. Len(inbox'), NEW j \in 1 .. Len(inbox'),
                          Answers(i, d)', Answers(j, d)'
                   PROVE  i = j
        OBVIOUS
      <4>1. i + 1 = j + 1
        BY <1>1, <2>2
      <4> QED
        BY <4>1, <2>1 DEF Moves
    <3>5. \A i \in 1 .. Len(inbox') : Answers(i, d)' => d \in recent' /\ d \notin chat_table'
      <4> SUFFICES ASSUME NEW i \in 1 .. Len(inbox'), Answers(i, d)'
                   PROVE  d \in recent' /\ d \notin chat_table'
        OBVIOUS
      <4>1. i + 1 \in 1 .. Len(inbox) /\ Answers(i + 1, d) /\ i + 1 # 1
        BY <2>1, <2>2 DEF Moves
      <4> QED
        BY <1>1, <2>1, <3>3, <4>1
    <3> QED
      BY <1>1, <2>1, <2>2, <3>1, <3>2, <3>3, <3>4, <3>5
  <2> HIDE DEF Goal
  <2> QED
    BY <1>0, <2>3
<1>5. CASE Others
  <2>1. ASSUME NEW d \in Channel PROVE Goal(d)
    <3>1. /\ UNCHANGED <<outbox, recent, chat_table>>
          /\ Where(d)' = Where(d) \/ Where(d)' = "out"
          /\ \A i \in 1 .. Len(inbox') : Answers(i, d)' => i \in 1 .. Len(inbox) /\ Answers(i, d)
      BY <1>5, OthersDoNotJoinUs
    <3> HIDE DEF Goal
    <3> QED
      BY <1>2, <3>1
  <2> HIDE DEF Goal
  <2> QED
    BY <1>0, <2>1
<1>6. ASSUME NEW c \in Channel, NEW type \in {"JCH", "LCH"}, Ask(type, c)
      PROVE  /\ Len(outbox) \in Nat /\ Len(outbox') = Len(outbox) + 1
             /\ \A i \in 1 .. Len(outbox), d \in Channel : Asks(i, d)' <=> Asks(i, d)
             /\ \A i \in 1 .. Len(outbox), d \in Channel : Quits(i, d)' <=> Quits(i, d)
             /\ \A i \in 1 .. Len(outbox'), d \in Channel :
                    Asks(i, d)' => i \in 1 .. Len(outbox) \/ (d = c /\ type = "JCH")
  <2>1. /\ outbox \in Seq(Request) /\ Len(outbox) \in Nat /\ Len(outbox') = Len(outbox) + 1
        /\ \A i \in 1 .. Len(outbox) : outbox'[i] = outbox[i]
        /\ outbox'[Len(outbox) + 1] = [type |-> type, chan |-> c]
    BY <1>6 DEF TypeOK, ServerOK, Ask
  <2>2. \A i \in 1 .. Len(outbox), d \in Channel : Asks(i, d)' <=> Asks(i, d)
    BY <2>1 DEF Asks
  <2>3. \A i \in 1 .. Len(outbox), d \in Channel : Quits(i, d)' <=> Quits(i, d)
    BY <2>1 DEF Quits
  <2>4. ASSUME NEW i \in 1 .. Len(outbox'), NEW d \in Channel, Asks(i, d)', i \notin 1 .. Len(outbox)
        PROVE  d = c /\ type = "JCH"
    <3>1. outbox'[i] = [type |-> type, chan |-> c]
      BY <2>1, <2>4
    <3>2. outbox'[i].type = "JCH" /\ outbox'[i].chan = d
      BY <2>4 DEF Asks
    <3> QED
      BY <3>1, <3>2
  <2> QED
    BY <2>1, <2>2, <2>3, <2>4
<1>7. ASSUME NEW c \in Channel, JoinChannel(c) PROVE JoinInv'
  <2>1. /\ UNCHANGED <<inbox, rooms, chat_table>> /\ Ask("JCH", c)
        /\ recent' = recent \cup {c} /\ c \notin recent /\ c \notin chat_table
    BY <1>7 DEF JoinChannel, MayJoin, ChatsMatch, chats, server
  <2>2. \A d \in Channel : Where(d)' = Where(d) /\ \A i : Answers(i, d)' = Answers(i, d)
    BY <2>1 DEF Where, Answers
  <2>3. /\ \A i \in 1 .. Len(outbox) : ~Asks(i, c)
        /\ \A i \in 1 .. Len(inbox) : ~Answers(i, c)
    BY <1>1, <2>1
  <2>4. Where(c) = "in" => \E j \in 1 .. Len(outbox) : Quits(j, c)
    <3> SUFFICES ASSUME Where(c) = "in" PROVE \E j \in 1 .. Len(outbox) : Quits(j, c)
      OBVIOUS
    <3>1. ~Ends(WhereWords(c), Len(inbox), "in")
      <4>1. \A i \in 1 .. Len(inbox) : WhereWords(c)[i] # {"in"}
        BY <2>3 DEF WhereWords, WhereWord, Answers
      <4> QED
        BY <4>1 DEF Ends
    <3>2. WhereKnown(c)
      BY <3>1 DEF MembershipAgrees, WhereAgrees
    <3> QED
      BY <2>1, <3>2 DEF WhereKnown, Leaving, Quits
  <2>5. ASSUME NEW d \in Channel, d # c PROVE Goal(d)
    <3>1. \A i \in 1 .. Len(outbox') : Asks(i, d)' => i \in 1 .. Len(outbox) /\ Asks(i, d)
      BY <1>6, <2>1, <2>5
    <3>2. \A i \in 1 .. Len(outbox) : Quits(i, d)' <=> Quits(i, d)
      BY <1>6, <2>1
    <3>3. \A i \in 1 .. Len(outbox') :
              Asks(i, d)' /\ Where(d)' = "in" => \E j \in 1 .. i - 1 : Quits(j, d)'
      <4> SUFFICES ASSUME NEW i \in 1 .. Len(outbox'), Asks(i, d)', Where(d)' = "in"
                   PROVE  \E j \in 1 .. i - 1 : Quits(j, d)'
        OBVIOUS
      <4>1. PICK j \in 1 .. i - 1 : Quits(j, d)
        BY <1>1, <2>2, <3>1
      <4>2. j \in 1 .. Len(outbox)
        BY <1>6, <2>1, <3>1, <4>1
      <4> QED
        BY <3>2, <4>1, <4>2
    <3> QED
      BY <1>1, <2>1, <2>2, <3>1, <3>3
  <2>6. Goal(c)
    <3>1. \A i \in 1 .. Len(outbox') : Asks(i, c)' => i = Len(outbox) + 1
      BY <1>6, <2>1, <2>3
    <3>2. \A i \in 1 .. Len(outbox') :
              Asks(i, c)' /\ Where(c)' = "in" => \E j \in 1 .. i - 1 : Quits(j, c)'
      <4> SUFFICES ASSUME NEW i \in 1 .. Len(outbox'), Asks(i, c)', Where(c)' = "in"
                   PROVE  \E j \in 1 .. i - 1 : Quits(j, c)'
        OBVIOUS
      <4>1. PICK j \in 1 .. Len(outbox) : Quits(j, c)
        BY <2>2, <2>4
      <4>2. i = Len(outbox) + 1 /\ Quits(j, c)' /\ j \in 1 .. i - 1
        BY <1>6, <2>1, <3>1, <4>1
      <4> QED
        BY <4>2
    <3> QED
      BY <2>1, <2>2, <2>3, <3>1, <3>2
  <2> HIDE DEF Goal
  <2> QED
    BY <1>0, <2>5, <2>6
<1>8. ASSUME NEW c \in Channel, CloseWindow(c) PROVE JoinInv'
  <2>1. UNCHANGED <<inbox, rooms, recent>>
    BY <1>8 DEF CloseWindow, server
  <2>2. CASE convo[c] = "open"
    <3>1. Ask("LCH", c) /\ chat_table' \subseteq chat_table
      BY <1>8, <2>2 DEF CloseWindow, LeaveRequest, GotChannelLeft
    <3>2. ASSUME NEW d \in Channel PROVE Goal(d)
      <4>1. Where(d)' = Where(d) /\ \A i : Answers(i, d)' = Answers(i, d)
        BY <2>1 DEF Where, Answers
      <4>2. \A i \in 1 .. Len(outbox') : Asks(i, d)' => i \in 1 .. Len(outbox) /\ Asks(i, d)
        BY <1>6, <3>1
      <4>3. \A i \in 1 .. Len(outbox) : Quits(i, d)' <=> Quits(i, d)
        BY <1>6, <3>1
      <4>4. \A i \in 1 .. Len(outbox') :
                Asks(i, d)' /\ Where(d)' = "in" => \E j \in 1 .. i - 1 : Quits(j, d)'
        <5> SUFFICES ASSUME NEW i \in 1 .. Len(outbox'), Asks(i, d)', Where(d)' = "in"
                     PROVE  \E j \in 1 .. i - 1 : Quits(j, d)'
          OBVIOUS
        <5>1. PICK j \in 1 .. i - 1 : Quits(j, d)
          BY <1>1, <4>1, <4>2
        <5>2. j \in 1 .. Len(outbox)
          BY <1>6, <3>1, <4>2, <5>1
        <5> QED
          BY <4>3, <5>1, <5>2
      <4> QED
        BY <1>1, <2>1, <3>1, <4>1, <4>2, <4>4
    <3> HIDE DEF Goal
    <3> QED
      BY <1>0, <3>2
  <2>3. CASE convo[c] # "open"
    BY <1>3, <1>8, <2>1, <2>3 DEF CloseWindow, chats
  <2> QED
    BY <2>2, <2>3
<1>9. ASSUME NEW c \in Channel,
             KeepChat(c) \/ \E w \in Shows : Hide(c, w) \/ Show(c, w)
      PROVE  JoinInv'
  <2>1. UNCHANGED <<outbox, inbox, rooms, chat_table, recent>>
    BY <1>9 DEF KeepChat, Hide, Show, chats, server
  <2> QED
    BY <1>3, <2>1
<1>10. ASSUME NEW c \in Channel, Elapse(c) PROVE JoinInv'
  BY <1>3, <1>10 DEF Elapse, KeepTables, chats, server
<1>11. ASSUME NEW n \in Names, Overwrite(n) PROVE JoinInv'
  BY <1>3, <1>11 DEF Overwrite, KeepTables, chats, server
<1>12. CASE UNCHANGED vars
  BY <1>3, <1>12 DEF vars, chats, server
<1>13. CASE Login
  <2>1. /\ outbox' = <<>> /\ Len(inbox') = 3
        /\ \A i \in 1 .. 3 : inbox'[i].type = "JCH" => FALSE
    BY <1>13 DEF Login, Orderly, NoChannelYet
  <2>2. ASSUME NEW d \in Channel PROVE Goal(d)
    BY <2>1 DEF Answers
  <2> HIDE DEF Goal
  <2> QED
    BY <1>0, <2>2
<1>14. CASE Disconnect \/ Crash
  <2>1. outbox' = <<>> /\ inbox' = <<>>
    BY <1>14 DEF Disconnect, Crash, EndSession
  <2>2. ASSUME NEW d \in Channel PROVE Goal(d)
    BY <2>1
  <2> HIDE DEF Goal
  <2> QED
    BY <1>0, <2>2
<1>15. CASE User
  BY <1>7, <1>8, <1>9, <1>15 DEF User
<1> QED
  BY <1>4, <1>5, <1>10, <1>11, <1>12, <1>13, <1>14, <1>15, ServeKeepsJoins DEF Next

\* If answers take less than CHANNEL_JOIN_TIMEOUT, the server is never asked for a
\* channel we are in (NoDoubleJoin; flist_join_channel).
THEOREM NeverJoinsTwice == ~SlowServer => (Spec => []NoDoubleJoin)
<1> SUFFICES ASSUME ~SlowServer PROVE Spec => []NoDoubleJoin
  OBVIOUS
<1>1. Init => JoinInv
  <2>1. Init => outbox = <<>> /\ inbox = <<>>
    BY DEF Init
  <2> QED
    BY <2>1 DEF JoinInv, JoiningIsRecent, Joining, JoinsOnce, LeavesBeforeJoining
<1>2. /\ TypeOK /\ TypeOK' /\ ChatsMatch /\ OrderInv /\ MembershipAgrees /\ JoinInv /\ [Next]_vars
      => JoinInv'
  BY JoinStep DEF OrderInv
<1>3. TypeOK /\ JoinInv => NoDoubleJoin
  <2> SUFFICES ASSUME TypeOK, JoinInv, outbox # <<>>, Head(outbox).type = "JCH"
               PROVE  Me \notin rooms[Head(outbox).chan].users
    BY DEF NoDoubleJoin
  <2>1. Head(outbox) \in Request /\ Head(outbox) = outbox[1] /\ 1 \in 1 .. Len(outbox)
    BY DEF TypeOK, ServerOK
  <2>2. Head(outbox).chan \in Channel /\ Asks(1, Head(outbox).chan)
    BY <2>1 DEF Request, Asks
  <2>3. Where(Head(outbox).chan) # "in"
    BY <2>1, <2>2 DEF JoinInv, LeavesBeforeJoining
  <2> QED
    BY <2>3 DEF Where
<1> QED
  BY <1>1, <1>2, <1>3, TypeCorrect, ChatsAlwaysMatch, OrderAlwaysKept, MembershipAlwaysAgrees,
     PTL DEF Spec

----------------------------------------------------------------------------
(* What the server knows is what we know, or what is on its way.

   Each thing the server knows - the status of a character, whether it is a
   global operator, a setting of a channel we are in, whether somebody is
   there - is the last word of the messages about it; or there is no message
   about it and we know it.  A status is only taken from somebody who is known
   to be online, so another invariant says that whoever has one to tell will
   have been announced by then.                                              *)

Agree(w, n, v, ok)       == Ends(w, n, v) \/ (Wordless(w, n) /\ ok)
Follows(word, old, new)  == word = {new} \/ (word = {} /\ new = old)
InOut(b)                 == IF b THEN "in" ELSE "out"

StatusWord(m, n) ==
    {s \in Statuses :
        \/ m.type = "LIS" /\ m.status[n] = s /\ s # "offline"
        \/ m.type = "NLN" /\ m.who = n /\ s = "online"
        \/ m.type = "STA" /\ m.who = n /\ s = m.status
        \/ m.type = "FLN" /\ m.who = n /\ s = "offline"}

OperatorWord(m, n) ==
    {s \in {"in", "out"} :
        \/ m.type = "ADL" /\ s = InOut(n \in m.ops)
        \/ m.type = "AOP" /\ m.who = n /\ s = "in"
        \/ m.type = "DOP" /\ m.who = n /\ s = "out"}

Settings == {"owner", "ops", "mode"}

Sets(m, f) == \/ m.type = "COL" /\ f \in {"owner", "ops"}
              \/ m.type \in {"ICH", "RMO"} /\ f = "mode"

SettingWord(m, c, f) ==
    IF m.type = "JCH" /\ m.chan = c /\ m.who = Me
    THEN {Fresh[f]}
    ELSE IF Sets(m, f) /\ m.chan = c THEN {m[f]} ELSE {}

UserWord(m, c, n) ==
    {s \in {"in", "out"} :
        \/ m.type = "FLN" /\ m.who = n /\ s = "out"
        \/ m.type = "JCH" /\ m.chan = c /\ m.who = Me /\ s = "out"
        \/ m.type = "JCH" /\ m.chan = c /\ m.who = n /\ n # Me /\ s = "in"
        \/ m.type = "ICH" /\ m.chan = c /\ n \in m.users /\ s = "in"
        \/ m.type \in Departures /\ m.chan = c /\ m.who = n /\ n # Me /\ s = "out"}

StatusWords(s, n)     == [i \in 1 .. Len(s) |-> StatusWord(s[i], n)]
OperatorWords(s, n)   == [i \in 1 .. Len(s) |-> OperatorWord(s[i], n)]
SettingWords(s, c, f) == [i \in 1 .. Len(s) |-> SettingWord(s[i], c, f)]
UserWords(s, c, n)    == [i \in 1 .. Len(s) |-> UserWord(s[i], c, n)]

Appointed(n) == InOut(n \in operators)
Listed(n)    == InOut(n \in global_ops)
Inside(c, n) == InOut(n \in rooms[c].users)
Seen(c, n)   == InOut(n \in channel[c].users)

StatusAgrees(n) ==
    Agree(StatusWords(inbox, n), Len(inbox), present[n], all_characters[n] = present[n])

OperatorAgrees(n) ==
    Agree(OperatorWords(inbox, n), Len(inbox), Appointed(n),
          n \in lost \/ Listed(n) = Appointed(n))

SettingAgrees(c, f) ==
    Agree(SettingWords(inbox, c, f), Len(inbox), rooms[c][f],
          c \in chat_table => channel[c][f] = rooms[c][f])

UserAgrees(c, n) ==
    Agree(UserWords(inbox, c, n), Len(inbox), Inside(c, n),
          c \in chat_table => Seen(c, n) = Inside(c, n))

\* n is known to be online when what comes before i has been processed.
Announces(m, n) == \/ m.type = "NLN" /\ m.who = n
                   \/ m.type = "LIS" /\ m.status[n] # "offline"
Announced(n, i) ==
    \E k \in 0 .. i - 1 :
        /\ IF k = 0 THEN all_characters[n] # "offline" ELSE Announces(inbox[k], n)
        /\ \A j \in k + 1 .. i - 1 : ~Goes(inbox[j], n)

StatusesAreTaken ==
    /\ \A i \in 1 .. Len(inbox) : inbox[i].type = "STA" =>
           inbox[i].status # "offline" /\ Announced(inbox[i].who, i)
    /\ phase # "off" => \A n \in Names :
           present[n] # "offline" => Announced(n, Len(inbox) + 1)
    /\ phase = "off" => \A n \in Names : all_characters[n] = "offline"

CharactersAgree == phase # "off" =>
    \A n \in Names : StatusAgrees(n) /\ OperatorAgrees(n)

ChannelsAgree == \A c \in Channel : Where(c) = "in" =>
    /\ \A f \in Settings : SettingAgrees(c, f)
    /\ \A n \in Names : UserAgrees(c, n)

AgreeInv == StatusesAreTaken /\ CharactersAgree /\ ChannelsAgree

\* Messages are sent: they say what holds now, or leave the last word to others.
LEMMA AgreeSent ==
    ASSUME NEW n \in Nat, NEW k \in Nat, NEW w, NEW u, NEW ws,
           \A i \in 1 .. n : u[i] = w[i],
           \A i \in n + 1 .. n + k : u[i] = ws[i - n]
    PROVE  /\ \A v : Ends(ws, k, v) => Ends(u, n + k, v)
           /\ Wordless(ws, k) => /\ \A v : Ends(w, n, v) => Ends(u, n + k, v)
                                 /\ Wordless(w, n) => Wordless(u, n + k)
<1>1. ASSUME NEW v, Ends(ws, k, v) PROVE Ends(u, n + k, v)
  <2>1. PICK i \in 1 .. k : ws[i] = {v} /\ \A j \in i + 1 .. k : ws[j] = {}
    BY <1>1 DEF Ends
  <2>2. n + i \in n + 1 .. n + k /\ (n + i) - n = i
    OBVIOUS
  <2>3. \A j \in (n + i) + 1 .. n + k : j \in n + 1 .. n + k /\ j - n \in i + 1 .. k
    OBVIOUS
  <2>4. u[n + i] = {v} /\ \A j \in (n + i) + 1 .. n + k : u[j] = {}
    BY <2>1, <2>2, <2>3
  <2> QED
    BY <2>2, <2>4, Told
<1>2. ASSUME Wordless(ws, k)
      PROVE  /\ \A v : Ends(w, n, v) => Ends(u, n + k, v)
             /\ Wordless(w, n) => Wordless(u, n + k)
  <2>1. \A i \in n + 1 .. n + k : i - n \in 1 .. k
    OBVIOUS
  <2>2. \A i \in n + 1 .. n + k : u[i] = {}
    BY <1>2, <2>1 DEF Wordless
  <2> QED
    BY <2>2, Told
<1> QED
  BY <1>1, <1>2

LEMMA OneWord ==
    ASSUME NEW w
    PROVE  /\ \A v : w[1] = {v} => Ends(w, 1, v)
           /\ w[1] = {} => Wordless(w, 1)
  BY DEF Ends, Wordless

\* What each kind of message has no word about
LEMMA NoWord ==
    ASSUME NEW m
    PROVE  /\ m.type \notin {"LIS", "NLN", "STA", "FLN"} => \A n : StatusWord(m, n) = {}
           /\ m.type \notin {"ADL", "AOP", "DOP"} => \A n : OperatorWord(m, n) = {}
           /\ \A c : m.type \notin {"JCH", "COL", "ICH", "RMO"} \/ m.chan # c =>
                  \A f : SettingWord(m, c, f) = {}
           /\ \A c : m.type # "FLN" /\ (m.type \notin {"JCH", "ICH"} \cup Departures \/ m.chan # c) =>
                  \A n : UserWord(m, c, n) = {}
<1>1. m.type \notin {"LIS", "NLN", "STA", "FLN"} => \A n : StatusWord(m, n) = {}
  BY DEF StatusWord
<1>2. m.type \notin {"ADL", "AOP", "DOP"} => \A n : OperatorWord(m, n) = {}
  BY DEF OperatorWord
<1>3. \A c : m.type \notin {"JCH", "COL", "ICH", "RMO"} \/ m.chan # c =>
          \A f : SettingWord(m, c, f) = {}
  BY DEF SettingWord, Sets
<1>4. \A c : m.type # "FLN" /\ (m.type \notin {"JCH", "ICH"} \cup Departures \/ m.chan # c) =>
          \A n : UserWord(m, c, n) = {}
  BY DEF UserWord
<1> QED
  BY <1>1, <1>2, <1>3, <1>4

\* A message reports what changes as it is sent; or nothing does and none is.
Reports(m) ==
    /\ m.type = "STA" => m.status # "offline" /\ present[m.who] # "offline"
    /\ \A n \in Names : Follows(StatusWord(m, n), present[n], present'[n])
    /\ \A n \in Names : Follows(OperatorWord(m, n), Appointed(n), Appointed(n)')
    /\ \A c \in Channel : Where(c)' = "in" =>
           /\ Where(c) = "in"
           /\ \A f \in Settings : Follows(SettingWord(m, c, f), rooms[c][f], rooms'[c][f])
           /\ \A n \in Names : Follows(UserWord(m, c, n), Inside(c, n), Inside(c, n)')

Quiet ==
    /\ UNCHANGED <<present, operators>>
    /\ \A c \in Channel : Where(c)' = "in" => Where(c) = "in" /\ rooms'[c] = rooms[c]

Admits(c) ==
    /\ UNCHANGED <<present, operators>>
    /\ rooms' = [rooms EXCEPT ![c].users = @ \cup {Me}]
    /\ Send(Welcome(c))

LEMMA TheServerReports ==
    ASSUME TypeOK, phase # "off", Serve \/ Others
    PROVE  \/ \E m \in Message : Send(<<m>>) /\ Reports(m)
           \/ Send(<<>>) /\ Quiet
           \/ \E c \in Channel : Admits(c)
<1> DEFINE Goal == \/ \E m \in Message : Send(<<m>>) /\ Reports(m)
                   \/ Send(<<>>) /\ Quiet
                   \/ \E c \in Channel : Admits(c)
<1> SUFFICES Goal
  OBVIOUS
<1>0. present \in [Names -> Statuses] /\ rooms \in [Channel -> Room]
  BY DEF TypeOK, ServerOK
\* A message about one kind of thing
<1>1. ASSUME NEW m \in Message, Send(<<m>>), UNCHANGED <<operators, rooms>>,
             m.type \in {"NLN", "STA"},
             m.type = "STA" => m.status # "offline" /\ present[m.who] # "offline",
             \A n \in Names : Follows(StatusWord(m, n), present[n], present'[n])
      PROVE  Goal
  <2>1. /\ \A n : OperatorWord(m, n) = {}
        /\ \A c, f : SettingWord(m, c, f) = {}
        /\ \A c, n : UserWord(m, c, n) = {}
    BY <1>1, NoWord DEF Departures
  <2>2. Reports(m)
    BY <1>1, <2>1 DEF Reports, Follows, Appointed, Inside, Where
  <2> QED
    BY <1>1, <2>2
<1>2. ASSUME NEW m \in Message, Send(<<m>>), UNCHANGED <<present, rooms>>,
             m.type \in {"ADL", "AOP", "DOP"},
             \A n \in Names : Follows(OperatorWord(m, n), Appointed(n), Appointed(n)')
      PROVE  Goal
  <2>1. /\ \A n : StatusWord(m, n) = {}
        /\ \A c, f : SettingWord(m, c, f) = {}
        /\ \A c, n : UserWord(m, c, n) = {}
    BY <1>2, NoWord DEF Departures
  <2>2. Reports(m)
    BY <1>2, <2>1 DEF Reports, Follows, Inside, Where
  <2> QED
    BY <1>2, <2>2
<1>3. ASSUME NEW m \in Message, NEW c \in Channel, Send(<<m>>),
             UNCHANGED <<present, operators>>, m.chan = c,
             m.type \in {"JCH", "COL", "ICH", "RMO", "CDS"} \cup Departures,
             \A d \in Channel : d # c => rooms'[d] = rooms[d],
             Where(c)' = "in" =>
                 /\ Where(c) = "in"
                 /\ \A f \in Settings : Follows(SettingWord(m, c, f), rooms[c][f], rooms'[c][f])
                 /\ \A n \in Names : Follows(UserWord(m, c, n), Inside(c, n), Inside(c, n)')
      PROVE  Goal
  <2>1. /\ \A n : StatusWord(m, n) = {}
        /\ \A n : OperatorWord(m, n) = {}
        /\ \A d \in Channel : d # c =>
               /\ \A f : SettingWord(m, d, f) = {}
               /\ \A n : UserWord(m, d, n) = {}
    BY <1>3, NoWord DEF Departures
  <2>2. \A d \in Channel : d # c => Where(d)' = Where(d) /\ \A n : Inside(d, n)' = Inside(d, n)
    BY <1>3 DEF Where, Inside
  <2>3. ASSUME NEW d \in Channel, Where(d)' = "in"
        PROVE  /\ Where(d) = "in"
               /\ \A f \in Settings : Follows(SettingWord(m, d, f), rooms[d][f], rooms'[d][f])
               /\ \A n \in Names : Follows(UserWord(m, d, n), Inside(d, n), Inside(d, n)')
    <3>1. CASE d = c
      BY <1>3, <2>3, <3>1
    <3>2. CASE d # c
      BY <1>3, <2>1, <2>2, <2>3, <3>2 DEF Follows
    <3> QED
      BY <3>1, <3>2
  <2>4. Reports(m)
    BY <1>3, <2>1, <2>3 DEF Reports, Follows, Appointed, Departures
  <2> QED
    BY <1>3, <2>4
<1>4. ASSUME UNCHANGED <<present, operators>>, Send(<<>>), NEW c \in Channel, Where(c)' # "in",
             \A d \in Channel : d # c => rooms'[d] = rooms[d]
      PROVE  Goal
  BY <1>4 DEF Quiet, Where
<1>5. ASSUME NEW n \in Names, Arrive(n) PROVE Goal
  <2> DEFINE m == [type |-> "NLN", who |-> n]
  <2>1. m \in Message /\ m.type = "NLN"
    BY DEF Message
  <2>2. \A x \in Names : StatusWord(m, x) = IF x = n THEN {"online"} ELSE {}
    BY DEF StatusWord, Statuses
  <2>3. \A x \in Names : Follows(StatusWord(m, x), present[x], present'[x])
    BY <1>0, <1>5, <2>2 DEF Arrive, Follows
  <2> HIDE DEF m
  <2> QED
    BY <1>1, <1>5, <2>1, <2>3 DEF Arrive, m
<1>6. ASSUME NEW n \in Names, Restate(n) PROVE Goal
  <2>1. PICK s \in {"online", "looking"} :
            /\ present' = [present EXCEPT ![n] = s]
            /\ Send(<<[type |-> "STA", who |-> n, status |-> s]>>)
    BY <1>6 DEF Restate
  <2> DEFINE m == [type |-> "STA", who |-> n, status |-> s]
  <2>2. /\ m \in Message /\ m.type = "STA"
        /\ m.status # "offline" /\ m.who = n /\ present[n] # "offline"
    BY <1>6 DEF Message, Statuses, Restate
  <2>3. \A x \in Names : StatusWord(m, x) = IF x = n THEN {s} ELSE {}
    BY DEF StatusWord, Statuses
  <2>4. \A x \in Names : Follows(StatusWord(m, x), present[x], present'[x])
    BY <1>0, <2>1, <2>3 DEF Follows
  <2> HIDE DEF m
  <2> QED
    BY <1>1, <1>6, <2>1, <2>2, <2>4 DEF Restate, m
<1>7. ASSUME NEW n \in Names, Depart(n) PROVE Goal
  <2> DEFINE m == [type |-> "FLN", who |-> n]
  <2>1. m \in Message /\ m.type = "FLN"
    BY DEF Message
  <2>2. \A x \in Names : /\ StatusWord(m, x) = IF x = n THEN {"offline"} ELSE {}
                         /\ \A c : UserWord(m, c, x) = IF x = n THEN {"out"} ELSE {}
    BY DEF StatusWord, Statuses, UserWord, Departures
  <2>3. \A x \in Names : Follows(StatusWord(m, x), present[x], present'[x])
    BY <1>0, <1>7, <2>2 DEF Depart, Follows
  <2>4. \A c \in Channel : /\ Where(c)' = Where(c)
                           /\ \A f \in Settings : rooms'[c][f] = rooms[c][f]
                           /\ \A x \in Names : Follows(UserWord(m, c, x), Inside(c, x), Inside(c, x)')
    <3> SUFFICES ASSUME NEW c \in Channel
                 PROVE  /\ Where(c)' = Where(c)
                        /\ \A f \in Settings : rooms'[c][f] = rooms[c][f]
                        /\ \A x \in Names : Follows(UserWord(m, c, x), Inside(c, x), Inside(c, x)')
      OBVIOUS
    <3>1. rooms'[c] = [rooms[c] EXCEPT !.users = @ \ {n}] /\ rooms[c] \in Room /\ n # Me
      BY <1>0, <1>7 DEF Depart, Without
    <3>2. Where(c)' = Where(c)
      BY <3>1 DEF Where, Room
    <3>3. \A f \in Settings : rooms'[c][f] = rooms[c][f]
      BY <3>1 DEF Room, Settings
    <3>4. \A x \in Names : Follows(UserWord(m, c, x), Inside(c, x), Inside(c, x)')
      BY <2>2, <3>1 DEF Room, Inside, InOut, Follows
    <3> QED
      BY <3>2, <3>3, <3>4
  <2>5. /\ \A x : OperatorWord(m, x) = {}
        /\ \A c, f : SettingWord(m, c, f) = {}
    BY <2>1, NoWord
  <2>6. Reports(m)
    <3> HIDE DEF m
    <3> QED
      BY <1>7, <2>1, <2>3, <2>4, <2>5 DEF Reports, Follows, Appointed, Depart
  <2> QED
    BY <1>7, <2>1, <2>6 DEF Depart
<1>8. ASSUME NEW n \in Names, Promote(n) PROVE Goal
  <2> DEFINE m == [type |-> "AOP", who |-> n]
  <2>1. m \in Message /\ m.type = "AOP"
    BY DEF Message
  <2>2. \A x \in Names : OperatorWord(m, x) = IF x = n THEN {"in"} ELSE {}
    BY DEF OperatorWord
  <2>3. \A x \in Names : Follows(OperatorWord(m, x), Appointed(x), Appointed(x)')
    BY <1>8, <2>2 DEF Promote, Follows, Appointed, InOut
  <2> HIDE DEF m
  <2> QED
    BY <1>2, <1>8, <2>1, <2>3 DEF Promote, m
<1>9. ASSUME NEW n \in Names, Demote(n) PROVE Goal
  <2> DEFINE m == [type |-> "DOP", who |-> n]
  <2>1. m \in Message /\ m.type = "DOP"
    BY DEF Message
  <2>2. \A x \in Names : OperatorWord(m, x) = IF x = n THEN {"out"} ELSE {}
    BY DEF OperatorWord
  <2>3. \A x \in Names : Follows(OperatorWord(m, x), Appointed(x), Appointed(x)')
    BY <1>9, <2>2 DEF Demote, Follows, Appointed, InOut
  <2> HIDE DEF m
  <2> QED
    BY <1>2, <1>9, <2>1, <2>3 DEF Demote, m
<1>10. CASE Reappoint
  <2>1. PICK ops \in SUBSET Names : operators' = ops /\ Send(<<[type |-> "ADL", ops |-> ops]>>)
    BY <1>10 DEF Reappoint
  <2> DEFINE m == [type |-> "ADL", ops |-> ops]
  <2>2. m \in Message /\ m.type = "ADL"
    BY DEF Message
  <2>3. \A x \in Names : OperatorWord(m, x) = {InOut(x \in ops)}
    BY DEF OperatorWord, InOut
  <2>4. \A x \in Names : Follows(OperatorWord(m, x), Appointed(x), Appointed(x)')
    BY <2>1, <2>3 DEF Follows, Appointed
  <2> HIDE DEF m
  <2> QED
    BY <1>2, <1>10, <2>1, <2>2, <2>4 DEF Reappoint, m
<1>11. ASSUME NEW n \in Names, NEW c \in Channel, Enter(n, c) PROVE Goal
  <2> DEFINE m == [type |-> "JCH", chan |-> c, who |-> n]
  <2>1. /\ rooms' = [rooms EXCEPT ![c].users = @ \cup {n}] /\ n # Me
        /\ UNCHANGED <<present, operators>> /\ Tell(c, <<m>>)
    BY <1>11 DEF Enter
  <2>2. m \in Message /\ m.type = "JCH" /\ m.chan = c
    BY DEF Message
  <2>3. /\ \A d \in Channel : d # c => rooms'[d] = rooms[d]
        /\ Where(c)' = Where(c)
        /\ \A f \in Settings : rooms'[c][f] = rooms[c][f]
        /\ rooms'[c].users = rooms[c].users \cup {n}
    BY <1>0, <2>1 DEF Where, Room, Settings
  <2>4. /\ \A f \in Settings : SettingWord(m, c, f) = {}
        /\ \A x \in Names : UserWord(m, c, x) = IF x = n THEN {"in"} ELSE {}
    BY <2>1 DEF SettingWord, Sets, UserWord, Departures
  <2>5. \A x \in Names : Follows(UserWord(m, c, x), Inside(c, x), Inside(c, x)')
    BY <2>3, <2>4 DEF Follows, Inside, InOut
  <2>6. CASE Where(c) = "in"
    <3>1. Send(<<m>>)
      BY <2>1, <2>6 DEF Tell, Where
    <3> HIDE DEF m
    <3> QED
      BY <1>3, <2>1, <2>2, <2>3, <2>4, <2>5, <2>6, <3>1 DEF Follows
  <2>7. CASE Where(c) # "in"
    <3>1. Send(<<>>)
      BY <2>1, <2>7 DEF Tell, Where
    <3> QED
      BY <1>4, <2>1, <2>3, <2>7, <3>1
  <2> QED
    BY <2>6, <2>7
<1>12. ASSUME NEW n \in Names, NEW c \in Channel, NEW how \in Departures, Remove(n, c, how)
       PROVE  Goal
  <2> DEFINE m == [type |-> how, chan |-> c, who |-> n]
  <2>1. /\ rooms' = [rooms EXCEPT ![c].users = @ \ {n}]
        /\ UNCHANGED <<present, operators>> /\ Tell(c, <<m>>)
    BY <1>12 DEF Remove
  <2>2. m \in Message /\ m.type \in Departures /\ m.chan = c
    BY DEF Message
  <2>3. /\ \A d \in Channel : d # c => rooms'[d] = rooms[d]
        /\ \A f \in Settings : rooms'[c][f] = rooms[c][f]
        /\ rooms'[c].users = rooms[c].users \ {n}
    BY <1>0, <2>1 DEF Room, Settings
  <2>4. /\ \A f \in Settings : SettingWord(m, c, f) = {}
        /\ n # Me => \A x \in Names : UserWord(m, c, x) = IF x = n THEN {"out"} ELSE {}
    BY DEF SettingWord, Sets, UserWord, Departures
  <2>5. n # Me => \A x \in Names : Follows(UserWord(m, c, x), Inside(c, x), Inside(c, x)')
    BY <2>3, <2>4 DEF Follows, Inside, InOut
  <2>6. Where(c)' = "in" => Where(c) = "in" /\ n # Me
    BY <2>3 DEF Where
  <2>7. CASE Where(c) = "in"
    <3>1. Send(<<m>>)
      BY <2>1, <2>7 DEF Tell, Where
    <3> HIDE DEF m
    <3>2. \A f \in Settings : Follows(SettingWord(m, c, f), rooms[c][f], rooms'[c][f])
      BY <2>3, <2>4 DEF Follows
    <3> QED
      BY <1>3, <2>1, <2>2, <2>3, <2>5, <2>6, <2>7, <3>1, <3>2
  <2>8. CASE Where(c) # "in"
    <3>1. Send(<<>>)
      BY <2>1, <2>8 DEF Tell, Where
    <3> QED
      BY <1>4, <2>1, <2>3, <2>6, <2>8, <3>1
  <2> QED
    BY <2>7, <2>8
<1>13. ASSUME NEW c \in Channel, Appoint(c) PROVE Goal
  <2>1. PICK ops \in SUBSET Names, owner \in Names \cup {NoOwner} :
            /\ rooms' = [rooms EXCEPT ![c].owner = owner, ![c].ops = ops]
            /\ Tell(c, <<OperatorList(c, owner, ops)>>)
    BY <1>13 DEF Appoint
  <2> DEFINE m == OperatorList(c, owner, ops)
  <2>2. m \in Message /\ m.type = "COL" /\ m.chan = c /\ m.owner = owner /\ m.ops = ops
    BY <2>1 DEF Message, OperatorList
  <2>3. /\ \A d \in Channel : d # c => rooms'[d] = rooms[d]
        /\ rooms'[c].owner = owner /\ rooms'[c].ops = ops
        /\ rooms'[c].mode = rooms[c].mode /\ rooms'[c].users = rooms[c].users
    BY <1>0, <2>1 DEF Room
  <2> HIDE DEF m
  <2>4. /\ SettingWord(m, c, "owner") = {owner}
        /\ SettingWord(m, c, "ops") = {ops}
        /\ SettingWord(m, c, "mode") = {}
    BY <2>2 DEF SettingWord, Sets
  <2>5. \A f \in Settings : Follows(SettingWord(m, c, f), rooms[c][f], rooms'[c][f])
    BY <2>3, <2>4 DEF Follows, Settings
  <2>6. \A x \in Names : UserWord(m, c, x) = {}
    BY <2>2, NoWord DEF Departures
  <2>7. \A x \in Names : Follows(UserWord(m, c, x), Inside(c, x), Inside(c, x)')
    BY <2>3, <2>6 DEF Follows, Inside
  <2>8. UNCHANGED <<present, operators>> /\ Where(c)' = Where(c)
    BY <1>13, <2>3 DEF Appoint, Where
  <2>9. CASE Where(c) = "in"
    <3>1. Send(<<m>>)
      BY <2>1, <2>9 DEF Tell, Where, m
    <3> QED
      BY <1>3, <2>2, <2>3, <2>5, <2>7, <2>8, <2>9, <3>1
  <2>10. CASE Where(c) # "in"
    <3>1. Send(<<>>)
      BY <2>1, <2>10 DEF Tell, Where
    <3> QED
      BY <1>4, <2>3, <2>8, <2>10, <3>1
  <2> QED
    BY <2>9, <2>10
<1>14. ASSUME NEW c \in Channel, SetMode(c) PROVE Goal
  <2>1. PICK mode \in Modes : /\ rooms' = [rooms EXCEPT ![c].mode = mode]
                              /\ Tell(c, <<[type |-> "RMO", chan |-> c, mode |-> mode]>>)
    BY <1>14 DEF SetMode
  <2> DEFINE m == [type |-> "RMO", chan |-> c, mode |-> mode]
  <2>2. m \in Message /\ m.type = "RMO" /\ m.chan = c /\ m.mode = mode
    BY <2>1 DEF Message
  <2>3. /\ \A d \in Channel : d # c => rooms'[d] = rooms[d]
        /\ rooms'[c].owner = rooms[c].owner /\ rooms'[c].ops = rooms[c].ops
        /\ rooms'[c].mode = mode /\ rooms'[c].users = rooms[c].users
    BY <1>0, <2>1 DEF Room
  <2> HIDE DEF m
  <2>4. /\ SettingWord(m, c, "owner") = {}
        /\ SettingWord(m, c, "ops") = {}
        /\ SettingWord(m, c, "mode") = {mode}
    BY <2>2 DEF SettingWord, Sets
  <2>5. \A f \in Settings : Follows(SettingWord(m, c, f), rooms[c][f], rooms'[c][f])
    BY <2>3, <2>4 DEF Follows, Settings
  <2>6. \A x \in Names : UserWord(m, c, x) = {}
    BY <2>2, NoWord DEF Departures
  <2>7. \A x \in Names : Follows(UserWord(m, c, x), Inside(c, x), Inside(c, x)')
    BY <2>3, <2>6 DEF Follows, Inside
  <2>8. UNCHANGED <<present, operators>> /\ Where(c)' = Where(c)
    BY <1>14, <2>3 DEF SetMode, Where
  <2>9. CASE Where(c) = "in"
    <3>1. Send(<<m>>)
      BY <2>1, <2>9 DEF Tell, Where, m
    <3> QED
      BY <1>3, <2>2, <2>3, <2>5, <2>7, <2>8, <2>9, <3>1
  <2>10. CASE Where(c) # "in"
    <3>1. Send(<<>>)
      BY <2>1, <2>10 DEF Tell, Where
    <3> QED
      BY <1>4, <2>3, <2>8, <2>10, <3>1
  <2> QED
    BY <2>9, <2>10
<1>15. ASSUME NEW c \in Channel, Describe(c) PROVE Goal
  <2> DEFINE m == [type |-> "CDS", chan |-> c]
  <2>1. m \in Message /\ m.type = "CDS" /\ m.chan = c
    BY DEF Message
  <2>2. UNCHANGED <<present, operators, rooms>> /\ (Send(<<>>) \/ Send(<<m>>))
    BY <1>15 DEF Describe, server, Tell
  <2> HIDE DEF m
  <2>3. /\ \A f \in Settings : SettingWord(m, c, f) = {}
        /\ \A x \in Names : UserWord(m, c, x) = {}
    BY <2>1, NoWord DEF Departures
  <2>4. CASE Send(<<m>>)
    BY <1>3, <2>1, <2>2, <2>3, <2>4 DEF Follows, Inside, Where
  <2>5. CASE Send(<<>>)
    BY <2>2, <2>5 DEF Quiet, Where
  <2> QED
    BY <2>2, <2>4, <2>5
<1>16. ASSUME outbox # <<>> PROVE Head(outbox).chan \in Channel
  <2>1. Head(outbox) \in Request
    BY <1>16 DEF TypeOK, ServerOK
  <2> QED
    BY <2>1 DEF Request
<1>17. CASE ServeJoin
  <2>1. PICK c \in Channel : \/ /\ rooms' = [rooms EXCEPT ![c].users = @ \cup {Me}]
                                /\ Send(Welcome(c))
                            \/ UNCHANGED <<rooms, inbox>>
    BY <1>16, <1>17 DEF ServeJoin
  <2>2. UNCHANGED <<present, operators>>
    BY <1>17 DEF ServeJoin
  <2>3. CASE UNCHANGED <<rooms, inbox>>
    <3>1. Send(<<>>)
      BY <2>3 DEF Send, TypeOK, ServerOK
    <3> QED
      BY <2>2, <2>3, <3>1 DEF Quiet, Where
  <2> QED
    BY <2>1, <2>2, <2>3 DEF Admits
<1>18. CASE ServeLeave
  <2>1. PICK c \in Channel : /\ rooms' = [rooms EXCEPT ![c].users = @ \ {Me}]
                             /\ Tell(c, <<[type |-> "LCH", chan |-> c, who |-> Me]>>)
    BY <1>16, <1>18 DEF ServeLeave
  <2> DEFINE m == [type |-> "LCH", chan |-> c, who |-> Me]
  <2>2. UNCHANGED <<present, operators>> /\ (Send(<<>>) \/ Send(<<m>>))
    BY <1>18, <2>1 DEF ServeLeave, Tell
  <2>3. m \in Message /\ m.type \in Departures /\ m.chan = c
    BY NamesAssumption DEF Message, Departures
  <2>4. /\ \A d \in Channel : d # c => rooms'[d] = rooms[d]
        /\ Where(c)' # "in"
    BY <1>0, <2>1 DEF Where, Room
  <2> HIDE DEF m
  <2>5. CASE Send(<<m>>)
    BY <1>3, <2>2, <2>3, <2>4, <2>5
  <2>6. CASE Send(<<>>)
    BY <1>4, <2>2, <2>4, <2>6
  <2> QED
    BY <2>2, <2>5, <2>6
<1> HIDE DEF Goal
<1> QED
  BY <1>5, <1>6, <1>7, <1>8, <1>9, <1>10, <1>11, <1>12, <1>13, <1>14, <1>15, <1>17, <1>18
     DEF Serve, Others

\* What is heard is known, and nothing else is forgotten.
Heeds(m) ==
    /\ \A n \in Names : Follows(StatusWord(m, n), all_characters[n], all_characters'[n])
    /\ \A n \in Names \ lost' :
           /\ Follows(OperatorWord(m, n), Listed(n), Listed(n)')
           /\ OperatorWord(m, n) = {} => n \notin lost
    /\ \A c \in chat_table' :
           /\ \A f \in Settings :
                  /\ Follows(SettingWord(m, c, f), channel[c][f], channel'[c][f])
                  /\ SettingWord(m, c, f) = {} => c \in chat_table
           /\ \A n \in Names :
                  /\ Follows(UserWord(m, c, n), Seen(c, n), Seen(c, n)')
                  /\ UserWord(m, c, n) = {} => c \in chat_table

LEMMA ThePluginHeeds ==
    ASSUME TypeOK, ChatsMatch, Process,
           inbox[1].type = "STA" => all_characters[inbox[1].who] # "offline"
    PROVE  Heeds(inbox[1])
<1> DEFINE m == inbox[1]
<1> SUFFICES Heeds(m)
  OBVIOUS
<1>0. /\ all_characters \in [Names -> Statuses]
      /\ channel \in [Channel -> Room]
      /\ chat_table \subseteq Channel
  BY DEF TypeOK, PluginOK
<1>1. ASSUME NEW type, Receive(type) PROVE m.type = type /\ Head(inbox) = m /\ m \in Message
  BY <1>1, Received DEF Receive, TypeOK
<1>2. \A c \in Channel : Known(c) <=> c \in chat_table
  BY KnownIsJoined
<1> HIDE DEF m
\* A message about one kind of thing
<1>3. ASSUME m.type \in {"LIS", "NLN", "STA"}, UNCHANGED <<globals, chat_table, channel>>,
             \A n \in Names : Follows(StatusWord(m, n), all_characters[n], all_characters'[n])
      PROVE  Heeds(m)
  <2>1. /\ \A n : OperatorWord(m, n) = {}
        /\ \A c, f : SettingWord(m, c, f) = {}
        /\ \A c, n : UserWord(m, c, n) = {}
    BY <1>3, NoWord DEF Departures
  <2> QED
    BY <1>3, <2>1 DEF Heeds, Follows, Listed, Seen, globals
<1>4. ASSUME m.type \in {"ADL", "AOP", "DOP"}, UNCHANGED <<all_characters, chat_table, channel>>,
             \A n \in Names \ lost' : /\ Follows(OperatorWord(m, n), Listed(n), Listed(n)')
                                      /\ OperatorWord(m, n) = {} => n \notin lost
      PROVE  Heeds(m)
  <2>1. /\ \A n : StatusWord(m, n) = {}
        /\ \A c, f : SettingWord(m, c, f) = {}
        /\ \A c, n : UserWord(m, c, n) = {}
    BY <1>4, NoWord DEF Departures
  <2> QED
    BY <1>4, <2>1 DEF Heeds, Follows, Seen
<1>5. ASSUME NEW c \in Channel, m.chan = c, UNCHANGED <<all_characters, global_ops, lost>>,
             m.type \in {"JCH", "COL", "ICH", "RMO", "CDS"} \cup Departures,
             \A d \in Channel : d # c => channel'[d] = channel[d] /\ (d \in chat_table' => d \in chat_table),
             c \in chat_table' =>
                 /\ \A f \in Settings : /\ Follows(SettingWord(m, c, f), channel[c][f], channel'[c][f])
                                        /\ SettingWord(m, c, f) = {} => c \in chat_table
                 /\ \A n \in Names : /\ Follows(UserWord(m, c, n), Seen(c, n), Seen(c, n)')
                                     /\ UserWord(m, c, n) = {} => c \in chat_table,
             chat_table' \subseteq Channel
      PROVE  Heeds(m)
  <2>1. /\ \A n : StatusWord(m, n) = {}
        /\ \A n : OperatorWord(m, n) = {}
        /\ \A d \in Channel : d # c =>
               /\ \A f : SettingWord(m, d, f) = {}
               /\ \A n : UserWord(m, d, n) = {}
    BY <1>5, NoWord DEF Departures
  <2>2. ASSUME NEW d \in chat_table'
        PROVE  /\ \A f \in Settings : /\ Follows(SettingWord(m, d, f), channel[d][f], channel'[d][f])
                                      /\ SettingWord(m, d, f) = {} => d \in chat_table
               /\ \A n \in Names : /\ Follows(UserWord(m, d, n), Seen(d, n), Seen(d, n)')
                                   /\ UserWord(m, d, n) = {} => d \in chat_table
    <3>1. CASE d = c
      BY <1>5, <3>1
    <3>2. CASE d # c
      BY <1>5, <2>1, <3>2 DEF Follows, Seen
    <3> QED
      BY <3>1, <3>2
  <2> QED
    BY <1>5, <2>1, <2>2 DEF Heeds, Follows, Listed
\* One about a channel that is ignored, or that has no word about it
<1>6. ASSUME NEW c \in Channel, m.chan = c, UNCHANGED <<all_characters, global_ops, lost>>,
             m.type \in {"JCH", "COL", "ICH", "RMO", "CDS"} \cup Departures,
             UNCHANGED <<channel, chat_table>>, c \notin chat_table \/ m.type = "CDS"
      PROVE  Heeds(m)
  <2>1. m.type = "CDS" => /\ \A f : SettingWord(m, c, f) = {}
                          /\ \A n : UserWord(m, c, n) = {}
    BY NoWord DEF Departures
  <2> QED
    BY <1>0, <1>5, <1>6, <2>1 DEF Follows, Seen
<1>7. CASE ProcessLIS
  <2>1. m.type = "LIS" /\ Head(inbox) = m /\ m.status \in [Names -> Statuses]
    BY <1>1, <1>7, Payload DEF ProcessLIS
  <2>2. \A n \in Names : StatusWord(m, n) = {m.status[n]} \ {"offline"}
    BY <2>1 DEF StatusWord
  <2>3. \A n \in Names : Follows(StatusWord(m, n), all_characters[n], all_characters'[n])
    BY <1>0, <1>7, <2>1, <2>2 DEF Follows, ProcessLIS
  <2> QED
    BY <1>3, <1>7, <2>1, <2>3 DEF ProcessLIS, chats
<1>8. ASSUME NEW n \in Names, ProcessNLN(n) PROVE Heeds(m)
  <2>1. m.type = "NLN" /\ m.who = n
    BY <1>1, <1>8 DEF ProcessNLN, About
  <2>2. \A x \in Names : StatusWord(m, x) = IF x = n THEN {"online"} ELSE {}
    BY <2>1 DEF StatusWord, Statuses
  <2>3. \A x \in Names : Follows(StatusWord(m, x), all_characters[x], all_characters'[x])
    BY <1>0, <1>8, <2>2 DEF Follows, ProcessNLN
  <2> QED
    BY <1>3, <1>8, <2>1, <2>3 DEF ProcessNLN, chats
<1>9. ASSUME NEW n \in Names, ProcessSTA(n) PROVE Heeds(m)
  <2>1. m.type = "STA" /\ m.who = n /\ Head(inbox) = m /\ m.status \in Statuses
    BY <1>1, <1>9, Payload DEF ProcessSTA, About
  <2>2. \A x \in Names : StatusWord(m, x) = IF x = n THEN {m.status} ELSE {}
    BY <2>1 DEF StatusWord
  <2>3. all_characters[n] # "offline"
    BY <2>1 DEF m
  <2>4. \A x \in Names : Follows(StatusWord(m, x), all_characters[x], all_characters'[x])
    BY <1>0, <1>9, <2>1, <2>2, <2>3 DEF Follows, ProcessSTA
  <2> QED
    BY <1>3, <1>9, <2>1, <2>4 DEF ProcessSTA, globals
<1>10. ASSUME NEW n \in Names, ProcessFLN(n) PROVE Heeds(m)
  <2>1. m.type = "FLN" /\ m.who = n
    BY <1>1, <1>10 DEF ProcessFLN, About
  <2>2. \A x \in Names : /\ StatusWord(m, x) = IF x = n THEN {"offline"} ELSE {}
                         /\ \A c : UserWord(m, c, x) = IF x = n THEN {"out"} ELSE {}
    BY <2>1 DEF StatusWord, Statuses, UserWord, Departures
  <2>3. \A x \in Names : Follows(StatusWord(m, x), all_characters[x], all_characters'[x])
    BY <1>0, <1>10, <2>2 DEF ProcessFLN, Follows
  <2>4. UNCHANGED <<global_ops, lost, chat_table>>
    BY <1>10 DEF ProcessFLN, globals
  <2>5. \A c \in Channel : /\ \A f \in Settings : channel'[c][f] = channel[c][f]
                           /\ channel'[c].users = channel[c].users \ {n}
    <3> SUFFICES ASSUME NEW c \in Channel
                 PROVE  /\ \A f \in Settings : channel'[c][f] = channel[c][f]
                        /\ channel'[c].users = channel[c].users \ {n}
      OBVIOUS
    <3>1. channel'[c] = [channel[c] EXCEPT !.users = @ \ {n}] /\ channel[c] \in Room
      BY <1>0, <1>10 DEF ProcessFLN, ForgetUser
    <3> QED
      BY <3>1 DEF Room, Settings
  <2>6. \A c \in Channel, x \in Names : Follows(UserWord(m, c, x), Seen(c, x), Seen(c, x)')
    BY <2>2, <2>5 DEF Follows, Seen, InOut
  <2>7. /\ \A x : OperatorWord(m, x) = {}
        /\ \A c, f : SettingWord(m, c, f) = {}
    BY <2>1, NoWord
  <2> QED
    BY <1>0, <2>3, <2>4, <2>5, <2>6, <2>7 DEF Heeds, Follows, Listed
<1>11. CASE ProcessADL
  <2>1. m.type = "ADL" /\ Head(inbox) = m
    BY <1>1, <1>11 DEF ProcessADL
  <2>2. \A x \in Names : OperatorWord(m, x) = {InOut(x \in m.ops)}
    BY <2>1 DEF OperatorWord, InOut
  <2>3. \A x \in Names : /\ Follows(OperatorWord(m, x), Listed(x), Listed(x)')
                         /\ OperatorWord(m, x) # {}
    BY <1>11, <2>1, <2>2 DEF ProcessADL, Follows, Listed
  <2> QED
    BY <1>4, <1>11, <2>1, <2>3 DEF ProcessADL
<1>12. ASSUME NEW n \in Names, ProcessAOP(n) PROVE Heeds(m)
  <2>1. m.type = "AOP" /\ m.who = n
    BY <1>1, <1>12 DEF ProcessAOP, About
  <2>2. \A x \in Names : OperatorWord(m, x) = IF x = n THEN {"in"} ELSE {}
    BY <2>1 DEF OperatorWord
  <2>3. \A x \in Names \ lost' : /\ Follows(OperatorWord(m, x), Listed(x), Listed(x)')
                                 /\ OperatorWord(m, x) = {} => x \notin lost
    BY <1>12, <2>2 DEF ProcessAOP, Follows, Listed, InOut
  <2> QED
    BY <1>4, <1>12, <2>1, <2>3 DEF ProcessAOP
<1>13. ASSUME NEW n \in Names, ProcessDOP(n) PROVE Heeds(m)
  <2>1. m.type = "DOP" /\ m.who = n
    BY <1>1, <1>13 DEF ProcessDOP, About
  <2>2. \A x \in Names : OperatorWord(m, x) = IF x = n THEN {"out"} ELSE {}
    BY <2>1 DEF OperatorWord
  <2>3. \A x \in Names \ lost' : /\ Follows(OperatorWord(m, x), Listed(x), Listed(x)')
                                 /\ OperatorWord(m, x) = {} => x \notin lost
    BY <1>13, <2>2 DEF ProcessDOP, Follows, Listed, InOut
  <2> QED
    BY <1>4, <1>13, <2>1, <2>3 DEF ProcessDOP
<1>14. ASSUME NEW c \in Channel, ProcessOwnJCH(c) PROVE Heeds(m)
  <2>1. m.type = "JCH" /\ m.chan = c /\ m.who = Me
    BY <1>1, <1>14 DEF ProcessOwnJCH, In, About
  <2>2. /\ \A f \in Settings : SettingWord(m, c, f) = {Fresh[f]}
        /\ \A n \in Names : UserWord(m, c, n) = {"out"}
    BY <2>1 DEF SettingWord, UserWord, Departures
  <2>3. /\ chat_table' = chat_table \cup {c}
        /\ channel' = [channel EXCEPT ![c] = Fresh]
        /\ UNCHANGED <<all_characters, global_ops, lost>>
    BY <1>14 DEF ProcessOwnJCH, presence, globals
  <2>4. /\ \A f \in Settings : Follows(SettingWord(m, c, f), channel[c][f], channel'[c][f])
        /\ \A n \in Names : Follows(UserWord(m, c, n), Seen(c, n), Seen(c, n)')
    BY <1>0, <2>2, <2>3 DEF Follows, Seen, InOut, Fresh
  <2> QED
    BY <1>0, <1>5, <2>1, <2>2, <2>3, <2>4
<1>15. ASSUME NEW c \in Channel, ProcessOwnLCH(c) PROVE Heeds(m)
  <2>1. PICK type \in Departures : In(type, c) /\ About(type, Me)
    BY <1>15 DEF ProcessOwnLCH
  <2>2. m.type \in Departures /\ m.chan = c
    BY <1>1, <2>1 DEF In, About
  <2>3. UNCHANGED <<all_characters, global_ops, lost>>
    BY <1>15 DEF ProcessOwnLCH, presence, globals
  <2>4. CASE convo[c] = "none"
    BY <1>2, <1>6, <1>15, <2>2, <2>3, <2>4 DEF ProcessOwnLCH, chats, Known
  <2>5. CASE convo[c] # "none"
    BY <1>0, <1>5, <1>15, <2>2, <2>3, <2>5 DEF ProcessOwnLCH, GotChannelLeft
  <2> QED
    BY <2>4, <2>5
<1>16. ASSUME NEW c \in Channel, NEW n \in Names, ProcessJCH(c, n) PROVE Heeds(m)
  <2>1. m.type = "JCH" /\ m.chan = c /\ m.who = n /\ n # Me
    BY <1>1, <1>16 DEF ProcessJCH, In, About
  <2>2. UNCHANGED <<all_characters, global_ops, lost, chat_table>>
    BY <1>16 DEF ProcessJCH
  <2>3. CASE c \in chat_table
    <3>1. channel' = [channel EXCEPT ![c].users = @ \cup {n}]
      BY <1>2, <1>16, <2>3 DEF ProcessJCH
    <3>2. /\ \A d \in Channel : d # c => channel'[d] = channel[d]
          /\ \A f \in Settings : channel'[c][f] = channel[c][f]
          /\ channel'[c].users = channel[c].users \cup {n}
      BY <1>0, <3>1 DEF Room, Settings
    <3>3. /\ \A f \in Settings : SettingWord(m, c, f) = {}
          /\ \A x \in Names : UserWord(m, c, x) = IF x = n THEN {"in"} ELSE {}
      BY <2>1 DEF SettingWord, Sets, UserWord, Departures
    <3>4. /\ \A f \in Settings : Follows(SettingWord(m, c, f), channel[c][f], channel'[c][f])
          /\ \A x \in Names : Follows(UserWord(m, c, x), Seen(c, x), Seen(c, x)')
      BY <3>2, <3>3 DEF Follows, Seen, InOut
    <3> QED
      BY <1>0, <1>5, <2>1, <2>2, <2>3, <3>2, <3>4
  <2>4. CASE c \notin chat_table
    BY <1>2, <1>6, <1>16, <2>1, <2>2, <2>4 DEF ProcessJCH
  <2> QED
    BY <2>3, <2>4
<1>17. ASSUME NEW c \in Channel, NEW n \in Names, ProcessLCH(c, n) PROVE Heeds(m)
  <2>1. PICK type \in Departures : In(type, c) /\ About(type, n)
    BY <1>17 DEF ProcessLCH
  <2>2. m.type \in Departures /\ m.chan = c /\ m.who = n /\ n # Me
    BY <1>1, <1>17, <2>1 DEF ProcessLCH, In, About
  <2>3. UNCHANGED <<all_characters, global_ops, lost, chat_table>>
    BY <1>17 DEF ProcessLCH, presence, globals
  <2>4. CASE c \in chat_table
    <3>1. /\ \A d \in Channel : d # c => channel'[d] = channel[d]
          /\ \A f \in Settings : channel'[c][f] = channel[c][f]
          /\ channel'[c].users = channel[c].users \ {n}
      BY <1>0, <1>2, <1>17, <2>4 DEF ProcessLCH, Room, Settings
    <3>2. /\ \A f \in Settings : SettingWord(m, c, f) = {}
          /\ \A x \in Names : UserWord(m, c, x) = IF x = n THEN {"out"} ELSE {}
      BY <2>2 DEF SettingWord, Sets, UserWord, Departures
    <3>3. /\ \A f \in Settings : Follows(SettingWord(m, c, f), channel[c][f], channel'[c][f])
          /\ \A x \in Names : Follows(UserWord(m, c, x), Seen(c, x), Seen(c, x)')
      BY <3>1, <3>2 DEF Follows, Seen, InOut
    <3> QED
      BY <1>0, <1>5, <2>2, <2>3, <2>4, <3>1, <3>3
  <2>5. CASE c \notin chat_table
    BY <1>2, <1>6, <1>17, <2>2, <2>3, <2>5 DEF ProcessLCH
  <2> QED
    BY <2>4, <2>5
<1>18. ASSUME NEW c \in Channel, ProcessCOL(c) PROVE Heeds(m)
  <2>1. m.type = "COL" /\ m.chan = c /\ Head(inbox) = m
    BY <1>1, <1>18 DEF ProcessCOL, In
  <2>2. UNCHANGED <<all_characters, global_ops, lost, chat_table>>
    BY <1>18 DEF ProcessCOL
  <2>3. CASE c \in chat_table
    <3>1. channel' = [channel EXCEPT ![c].owner = m.owner, ![c].ops = m.ops]
      BY <1>2, <1>18, <2>1, <2>3 DEF ProcessCOL
    <3>2. /\ \A d \in Channel : d # c => channel'[d] = channel[d]
          /\ channel'[c].owner = m.owner /\ channel'[c].ops = m.ops
          /\ channel'[c].mode = channel[c].mode /\ channel'[c].users = channel[c].users
      BY <1>0, <3>1 DEF Room
    <3>3. /\ SettingWord(m, c, "owner") = {m.owner}
          /\ SettingWord(m, c, "ops") = {m.ops}
          /\ SettingWord(m, c, "mode") = {}
          /\ \A x \in Names : UserWord(m, c, x) = {}
      BY <2>1, NoWord DEF SettingWord, Sets, Departures
    <3>4. /\ \A f \in Settings : Follows(SettingWord(m, c, f), channel[c][f], channel'[c][f])
          /\ \A x \in Names : Follows(UserWord(m, c, x), Seen(c, x), Seen(c, x)')
      BY <3>2, <3>3 DEF Follows, Seen, Settings
    <3> QED
      BY <1>0, <1>5, <2>1, <2>2, <2>3, <3>2, <3>4
  <2>4. CASE c \notin chat_table
    BY <1>2, <1>6, <1>18, <2>1, <2>2, <2>4 DEF ProcessCOL
  <2> QED
    BY <2>3, <2>4
<1>19. ASSUME NEW c \in Channel, ProcessICH(c) PROVE Heeds(m)
  <2>1. m.type = "ICH" /\ m.chan = c /\ Head(inbox) = m
    BY <1>1, <1>19 DEF ProcessICH, In
  <2>2. UNCHANGED <<all_characters, global_ops, lost, chat_table>>
    BY <1>19 DEF ProcessICH
  <2>3. CASE c \in chat_table
    <3>1. channel' = [channel EXCEPT ![c].mode = m.mode, ![c].users = @ \cup m.users]
      BY <1>2, <1>19, <2>1, <2>3 DEF ProcessICH
    <3>2. /\ \A d \in Channel : d # c => channel'[d] = channel[d]
          /\ channel'[c].owner = channel[c].owner /\ channel'[c].ops = channel[c].ops
          /\ channel'[c].mode = m.mode /\ channel'[c].users = channel[c].users \cup m.users
      BY <1>0, <3>1 DEF Room
    <3>3. /\ SettingWord(m, c, "owner") = {}
          /\ SettingWord(m, c, "ops") = {}
          /\ SettingWord(m, c, "mode") = {m.mode}
      BY <2>1 DEF SettingWord, Sets
    <3>4. \A x \in Names : UserWord(m, c, x) = IF x \in m.users THEN {"in"} ELSE {}
      BY <2>1 DEF UserWord, Departures
    <3>5. /\ \A f \in Settings : Follows(SettingWord(m, c, f), channel[c][f], channel'[c][f])
          /\ \A x \in Names : Follows(UserWord(m, c, x), Seen(c, x), Seen(c, x)')
      BY <3>2, <3>3, <3>4 DEF Follows, Seen, Settings, InOut
    <3> QED
      BY <1>0, <1>5, <2>1, <2>2, <2>3, <3>2, <3>5
  <2>4. CASE c \notin chat_table
    BY <1>2, <1>6, <1>19, <2>1, <2>2, <2>4 DEF ProcessICH
  <2> QED
    BY <2>3, <2>4
<1>20. ASSUME NEW c \in Channel, ProcessRMO(c) PROVE Heeds(m)
  <2>1. m.type = "RMO" /\ m.chan = c /\ Head(inbox) = m
    BY <1>1, <1>20 DEF ProcessRMO, In
  <2>2. UNCHANGED <<all_characters, global_ops, lost, chat_table>>
    BY <1>20 DEF ProcessRMO, presence, globals
  <2>3. CASE c \in chat_table
    <3>1. channel' = [channel EXCEPT ![c].mode = m.mode]
      BY <1>2, <1>20, <2>1, <2>3 DEF ProcessRMO
    <3>2. /\ \A d \in Channel : d # c => channel'[d] = channel[d]
          /\ channel'[c].owner = channel[c].owner /\ channel'[c].ops = channel[c].ops
          /\ channel'[c].mode = m.mode /\ channel'[c].users = channel[c].users
      BY <1>0, <3>1 DEF Room
    <3>3. /\ SettingWord(m, c, "owner") = {}
          /\ SettingWord(m, c, "ops") = {}
          /\ SettingWord(m, c, "mode") = {m.mode}
          /\ \A x \in Names : UserWord(m, c, x) = {}
      BY <2>1, NoWord DEF SettingWord, Sets, Departures
    <3>4. /\ \A f \in Settings : Follows(SettingWord(m, c, f), channel[c][f], channel'[c][f])
          /\ \A x \in Names : Follows(UserWord(m, c, x), Seen(c, x), Seen(c, x)')
      BY <3>2, <3>3 DEF Follows, Seen, Settings
    <3> QED
      BY <1>0, <1>5, <2>1, <2>2, <2>3, <3>2, <3>4
  <2>4. CASE c \notin chat_table
    BY <1>2, <1>6, <1>20, <2>1, <2>2, <2>4 DEF ProcessRMO
  <2> QED
    BY <2>3, <2>4
<1>21. ASSUME NEW c \in Channel, ProcessCDS(c) PROVE Heeds(m)
  <2>1. m.type = "CDS" /\ m.chan = c
    BY <1>1, <1>21 DEF ProcessCDS, In
  <2> QED
    BY <1>6, <1>21, <2>1 DEF ProcessCDS, presence, globals
<1> QED
  BY <1>7, <1>8, <1>9, <1>10, <1>11, <1>12, <1>13, <1>14, <1>15, <1>16, <1>17, <1>18, <1>19,
     <1>20, <1>21 DEF Process

\* What sending some messages does to an agreement.
LEMMA AgreementSent ==
    ASSUME TypeOK, phase # "off", NEW ms \in Seq(Message), Send(ms),
           UNCHANGED <<all_characters, global_ops, lost, chat_table, channel>>
    PROVE  /\ \A n \in Names :
                  \/ Ends(StatusWords(ms, n), Len(ms), present'[n])
                  \/ Wordless(StatusWords(ms, n), Len(ms)) /\ StatusAgrees(n) /\ present'[n] = present[n]
                  => StatusAgrees(n)'
           /\ \A n \in Names :
                  \/ Ends(OperatorWords(ms, n), Len(ms), Appointed(n)')
                  \/ Wordless(OperatorWords(ms, n), Len(ms)) /\ OperatorAgrees(n) /\ Appointed(n)' = Appointed(n)
                  => OperatorAgrees(n)'
           /\ \A c \in Channel, f \in Settings :
                  \/ Ends(SettingWords(ms, c, f), Len(ms), rooms'[c][f])
                  \/ Wordless(SettingWords(ms, c, f), Len(ms)) /\ SettingAgrees(c, f) /\ rooms'[c][f] = rooms[c][f]
                  => SettingAgrees(c, f)'
           /\ \A c \in Channel, n \in Names :
                  \/ Ends(UserWords(ms, c, n), Len(ms), Inside(c, n)')
                  \/ Wordless(UserWords(ms, c, n), Len(ms)) /\ UserAgrees(c, n) /\ Inside(c, n)' = Inside(c, n)
                  => UserAgrees(c, n)'
<1>1. /\ Len(inbox) \in Nat /\ Len(ms) \in Nat
      /\ Len(inbox') = Len(inbox) + Len(ms)
      /\ \A i \in 1 .. Len(inbox) : i \in 1 .. Len(inbox') /\ inbox'[i] = inbox[i]
      /\ \A i \in Len(inbox) + 1 .. Len(inbox) + Len(ms) :
             /\ i \in 1 .. Len(inbox')
             /\ i - Len(inbox) \in 1 .. Len(ms) /\ inbox'[i] = ms[i - Len(inbox)]
  BY SendAppends
<1>2. ASSUME NEW n \in Names,
             \/ Ends(StatusWords(ms, n), Len(ms), present'[n])
             \/ Wordless(StatusWords(ms, n), Len(ms)) /\ StatusAgrees(n) /\ present'[n] = present[n]
      PROVE  StatusAgrees(n)'
  <2> DEFINE w  == StatusWords(inbox, n)
             u  == StatusWords(inbox', n)
             ws == StatusWords(ms, n)
  <2>1. /\ \A i \in 1 .. Len(inbox) : u[i] = w[i]
        /\ \A i \in Len(inbox) + 1 .. Len(inbox) + Len(ms) : u[i] = ws[i - Len(inbox)]
    BY <1>1 DEF StatusWords
  <2>2. /\ \A v : Ends(ws, Len(ms), v) => Ends(u, Len(inbox'), v)
        /\ Wordless(ws, Len(ms)) => /\ \A v : Ends(w, Len(inbox), v) => Ends(u, Len(inbox'), v)
                                    /\ Wordless(w, Len(inbox)) => Wordless(u, Len(inbox'))
    <3> HIDE DEF w, u, ws
    <3> QED
      BY <1>1, <2>1, AgreeSent
  <2> QED
    BY <1>2, <2>2 DEF StatusAgrees, Agree
<1>3. ASSUME NEW n \in Names,
             \/ Ends(OperatorWords(ms, n), Len(ms), Appointed(n)')
             \/ Wordless(OperatorWords(ms, n), Len(ms)) /\ OperatorAgrees(n) /\ Appointed(n)' = Appointed(n)
      PROVE  OperatorAgrees(n)'
  <2> DEFINE w  == OperatorWords(inbox, n)
             u  == OperatorWords(inbox', n)
             ws == OperatorWords(ms, n)
  <2>1. /\ \A i \in 1 .. Len(inbox) : u[i] = w[i]
        /\ \A i \in Len(inbox) + 1 .. Len(inbox) + Len(ms) : u[i] = ws[i - Len(inbox)]
    BY <1>1 DEF OperatorWords
  <2>2. /\ \A v : Ends(ws, Len(ms), v) => Ends(u, Len(inbox'), v)
        /\ Wordless(ws, Len(ms)) => /\ \A v : Ends(w, Len(inbox), v) => Ends(u, Len(inbox'), v)
                                    /\ Wordless(w, Len(inbox)) => Wordless(u, Len(inbox'))
    <3> HIDE DEF w, u, ws
    <3> QED
      BY <1>1, <2>1, AgreeSent
  <2> QED
    BY <1>3, <2>2 DEF OperatorAgrees, Agree, Listed
<1>4. ASSUME NEW c \in Channel, NEW f \in Settings,
             \/ Ends(SettingWords(ms, c, f), Len(ms), rooms'[c][f])
             \/ Wordless(SettingWords(ms, c, f), Len(ms)) /\ SettingAgrees(c, f) /\ rooms'[c][f] = rooms[c][f]
      PROVE  SettingAgrees(c, f)'
  <2> DEFINE w  == SettingWords(inbox, c, f)
             u  == SettingWords(inbox', c, f)
             ws == SettingWords(ms, c, f)
  <2>1. /\ \A i \in 1 .. Len(inbox) : u[i] = w[i]
        /\ \A i \in Len(inbox) + 1 .. Len(inbox) + Len(ms) : u[i] = ws[i - Len(inbox)]
    BY <1>1 DEF SettingWords
  <2>2. /\ \A v : Ends(ws, Len(ms), v) => Ends(u, Len(inbox'), v)
        /\ Wordless(ws, Len(ms)) => /\ \A v : Ends(w, Len(inbox), v) => Ends(u, Len(inbox'), v)
                                    /\ Wordless(w, Len(inbox)) => Wordless(u, Len(inbox'))
    <3> HIDE DEF w, u, ws
    <3> QED
      BY <1>1, <2>1, AgreeSent
  <2> QED
    BY <1>4, <2>2 DEF SettingAgrees, Agree
<1>5. ASSUME NEW c \in Channel, NEW n \in Names,
             \/ Ends(UserWords(ms, c, n), Len(ms), Inside(c, n)')
             \/ Wordless(UserWords(ms, c, n), Len(ms)) /\ UserAgrees(c, n) /\ Inside(c, n)' = Inside(c, n)
      PROVE  UserAgrees(c, n)'
  <2> DEFINE w  == UserWords(inbox, c, n)
             u  == UserWords(inbox', c, n)
             ws == UserWords(ms, c, n)
  <2>1. /\ \A i \in 1 .. Len(inbox) : u[i] = w[i]
        /\ \A i \in Len(inbox) + 1 .. Len(inbox) + Len(ms) : u[i] = ws[i - Len(inbox)]
    BY <1>1 DEF UserWords
  <2>2. /\ \A v : Ends(ws, Len(ms), v) => Ends(u, Len(inbox'), v)
        /\ Wordless(ws, Len(ms)) => /\ \A v : Ends(w, Len(inbox), v) => Ends(u, Len(inbox'), v)
                                    /\ Wordless(w, Len(inbox)) => Wordless(u, Len(inbox'))
    <3> HIDE DEF w, u, ws
    <3> QED
      BY <1>1, <2>1, AgreeSent
  <2> QED
    BY <1>5, <2>2 DEF UserAgrees, Agree, Seen
<1> QED
  BY <1>2, <1>3, <1>4, <1>5

\* What the server and the others do is told, or it concerns nobody we know of.
LEMMA ServerKeepsAgreement ==
    ASSUME TypeOK, Orderly, MembershipAgrees, CharactersAgree, ChannelsAgree, Serve \/ Others
    PROVE  CharactersAgree' /\ ChannelsAgree'
<1>0. UNCHANGED <<phase, all_characters, global_ops, lost, chat_table, channel>>
  BY DEF Serve, ServeJoin, ServeLeave, Others, Arrive, Restate, Depart, Promote, Demote, Reappoint,
         Enter, Remove, Appoint, SetMode, Describe, KeepPlugin, presence, globals, chats
<1>1. CASE phase = "off"
  <2>1. Others
    BY <1>1 DEF Serve, ServeJoin, ServeLeave, Orderly, NoChannelYet
  <2>2. \A c \in Channel : Where(c)' # "in"
    BY <1>1, <2>1, NowhereYet, OthersDoNotJoinUs DEF Orderly
  <2> QED
    BY <1>0, <1>1, <2>2 DEF CharactersAgree, ChannelsAgree
<1>2. CASE phase # "off"
  <2>1. /\ \A n \in Names : StatusAgrees(n) /\ OperatorAgrees(n)
        /\ \A c \in Channel : Where(c) = "in" =>
               /\ \A f \in Settings : SettingAgrees(c, f)
               /\ \A n \in Names : UserAgrees(c, n)
    BY <1>2 DEF CharactersAgree, ChannelsAgree
  <2> DEFINE Kept == /\ \A n \in Names : StatusAgrees(n)' /\ OperatorAgrees(n)'
                     /\ \A c \in Channel : Where(c)' = "in" =>
                            /\ \A f \in Settings : SettingAgrees(c, f)'
                            /\ \A n \in Names : UserAgrees(c, n)'
  <2> SUFFICES Kept
    BY DEF CharactersAgree, ChannelsAgree
  <2>2. ASSUME NEW m \in Message, Send(<<m>>), Reports(m) PROVE Kept
    <3>0. <<m>> \in Seq(Message) /\ Len(<<m>>) = 1 /\ <<m>>[1] = m
      OBVIOUS
    <3>1. \A n \in Names :
              \/ Ends(StatusWords(<<m>>, n), 1, present'[n])
              \/ Wordless(StatusWords(<<m>>, n), 1) /\ present'[n] = present[n]
      BY <2>2, <3>0, OneWord DEF Reports, Follows, StatusWords
    <3>2. \A n \in Names :
              \/ Ends(OperatorWords(<<m>>, n), 1, Appointed(n)')
              \/ Wordless(OperatorWords(<<m>>, n), 1) /\ Appointed(n)' = Appointed(n)
      BY <2>2, <3>0, OneWord DEF Reports, Follows, OperatorWords
    <3>3. \A c \in Channel, f \in Settings : Where(c)' = "in" =>
              /\ Where(c) = "in"
              /\ \/ Ends(SettingWords(<<m>>, c, f), 1, rooms'[c][f])
                 \/ Wordless(SettingWords(<<m>>, c, f), 1) /\ rooms'[c][f] = rooms[c][f]
      BY <2>2, <3>0, OneWord DEF Reports, Follows, SettingWords
    <3>4. \A c \in Channel, n \in Names : Where(c)' = "in" =>
              /\ Where(c) = "in"
              /\ \/ Ends(UserWords(<<m>>, c, n), 1, Inside(c, n)')
                 \/ Wordless(UserWords(<<m>>, c, n), 1) /\ Inside(c, n)' = Inside(c, n)
      BY <2>2, <3>0, OneWord DEF Reports, Follows, UserWords
    <3> DEFINE ms == <<m>>
    <3>5. ms \in Seq(Message) /\ Send(ms) /\ Len(ms) = 1
      BY <2>2, <3>0
    <3> HIDE DEF ms
    <3>6. \A n \in Names : StatusAgrees(n)'
      BY <1>0, <1>2, <2>1, <3>1, <3>5, AgreementSent DEF ms
    <3>7. \A n \in Names : OperatorAgrees(n)'
      BY <1>0, <1>2, <2>1, <3>2, <3>5, AgreementSent DEF ms
    <3>8. \A c \in Channel, f \in Settings : Where(c)' = "in" => SettingAgrees(c, f)'
      BY <1>0, <1>2, <2>1, <3>3, <3>5, AgreementSent DEF ms
    <3>9. \A c \in Channel, n \in Names : Where(c)' = "in" => UserAgrees(c, n)'
      BY <1>0, <1>2, <2>1, <3>4, <3>5, AgreementSent DEF ms
    <3> QED
      BY <3>6, <3>7, <3>8, <3>9
  <2>3. ASSUME Send(<<>>), Quiet PROVE Kept
    <3>0. <<>> \in Seq(Message) /\ Len(<<>>) = 0
      OBVIOUS
    <3>1. \A w : Wordless(w, 0)
      BY DEF Wordless
    <3>2. /\ \A n \in Names : present'[n] = present[n] /\ Appointed(n)' = Appointed(n)
          /\ \A c \in Channel : Where(c)' = "in" =>
                 /\ Where(c) = "in"
                 /\ \A f : rooms'[c][f] = rooms[c][f]
                 /\ \A n : Inside(c, n)' = Inside(c, n)
      BY <2>3 DEF Quiet, Appointed, Inside
    <3>3. \A n \in Names : StatusAgrees(n)' /\ OperatorAgrees(n)'
      BY <1>0, <1>2, <2>1, <2>3, <3>0, <3>1, <3>2, AgreementSent
    <3>4. \A c \in Channel, f \in Settings : Where(c)' = "in" => SettingAgrees(c, f)'
      BY <1>0, <1>2, <2>1, <2>3, <3>0, <3>1, <3>2, AgreementSent
    <3>5. \A c \in Channel, n \in Names : Where(c)' = "in" => UserAgrees(c, n)'
      BY <1>0, <1>2, <2>1, <2>3, <3>0, <3>1, <3>2, AgreementSent
    <3> QED
      BY <3>3, <3>4, <3>5
  <2>4. ASSUME NEW c \in Channel, Admits(c) PROVE Kept
    <3> DEFINE ms == Welcome(c)
    <3>1. ms \in Seq(Message) /\ Send(ms) /\ Len(ms) = 4
      BY <2>4, WelcomeType DEF Admits, TypeOK, Welcome
    <3>2. /\ ms[1] = [type |-> "JCH", chan |-> c, who |-> Me]
          /\ ms[2] = OperatorList(c, rooms[c].owner, rooms[c].ops)
          /\ ms[3] = [type |-> "ICH", chan |-> c, users |-> rooms[c].users \cup {Me},
                      mode |-> rooms[c].mode]
          /\ ms[4] = [type |-> "CDS", chan |-> c]
      BY DEF Welcome
    <3>3. /\ \A d \in Channel : d # c => rooms'[d] = rooms[d] /\ Where(d)' = Where(d)
          /\ rooms'[c].users = rooms[c].users \cup {Me}
          /\ rooms'[c].owner = rooms[c].owner /\ rooms'[c].ops = rooms[c].ops
          /\ rooms'[c].mode = rooms[c].mode
      BY <2>4 DEF Admits, TypeOK, ServerOK, Room, Where
    <3> HIDE DEF ms
    <3>4. \A i \in 1 .. 4 : ms[i].type \in {"JCH", "COL", "ICH", "CDS"} /\ ms[i].chan = c
      BY <3>2 DEF OperatorList
    <3>5. \A n \in Names : /\ Wordless(StatusWords(ms, n), 4)
                           /\ Wordless(OperatorWords(ms, n), 4)
      BY <3>1, <3>4, NoWord DEF Wordless, StatusWords, OperatorWords
    <3>6. \A d \in Channel : d # c => /\ \A f : Wordless(SettingWords(ms, d, f), 4)
                                      /\ \A n : Wordless(UserWords(ms, d, n), 4)
      BY <3>1, <3>4, NoWord DEF Wordless, SettingWords, UserWords, Departures
    <3>7. \A f \in Settings : Ends(SettingWords(ms, c, f), 4, rooms'[c][f])
      <4>1. /\ SettingWord(ms[2], c, "owner") = {rooms[c].owner}
            /\ SettingWord(ms[2], c, "ops") = {rooms[c].ops}
            /\ SettingWord(ms[3], c, "mode") = {rooms[c].mode}
            /\ SettingWord(ms[3], c, "owner") = {} /\ SettingWord(ms[3], c, "ops") = {}
            /\ \A f : SettingWord(ms[4], c, f) = {}
        BY <3>2 DEF SettingWord, Sets, OperatorList
      <4>2. \A f \in Settings : \A i \in 1 .. 4 : SettingWords(ms, c, f)[i] = SettingWord(ms[i], c, f)
        BY <3>1 DEF SettingWords
      <4>3. ASSUME NEW f \in {"owner", "ops"}
            PROVE  /\ SettingWords(ms, c, f)[2] = {rooms'[c][f]}
                   /\ \A j \in 2 + 1 .. 4 : SettingWords(ms, c, f)[j] = {}
        BY <3>3, <4>1, <4>2 DEF Settings
      <4>4. /\ SettingWords(ms, c, "mode")[3] = {rooms'[c].mode}
            /\ \A j \in 3 + 1 .. 4 : SettingWords(ms, c, "mode")[j] = {}
        BY <3>3, <4>1, <4>2 DEF Settings
      <4>5. \A f \in {"owner", "ops"} : Ends(SettingWords(ms, c, f), 4, rooms'[c][f])
        BY <4>3 DEF Ends
      <4>6. Ends(SettingWords(ms, c, "mode"), 4, rooms'[c].mode)
        BY <4>4 DEF Ends
      <4> QED
        BY <4>5, <4>6 DEF Settings
    <3>8. \A n \in Names : Ends(UserWords(ms, c, n), 4, Inside(c, n)')
      <4> SUFFICES ASSUME NEW n \in Names PROVE Ends(UserWords(ms, c, n), 4, Inside(c, n)')
        OBVIOUS
      <4>1. /\ UserWord(ms[1], c, n) = {"out"}
            /\ UserWord(ms[2], c, n) = {} /\ UserWord(ms[4], c, n) = {}
            /\ UserWord(ms[3], c, n) = IF n \in rooms[c].users \cup {Me} THEN {"in"} ELSE {}
        BY <3>2 DEF UserWord, OperatorList, Departures
      <4>2. \A i \in 1 .. 4 : UserWords(ms, c, n)[i] = UserWord(ms[i], c, n)
        BY <3>1 DEF UserWords
      <4>3. CASE n \in rooms[c].users \cup {Me}
        <5>1. Inside(c, n)' = "in"
          BY <3>3, <4>3 DEF Inside, InOut
        <5>2. /\ UserWords(ms, c, n)[3] = {Inside(c, n)'}
              /\ \A j \in 3 + 1 .. 4 : UserWords(ms, c, n)[j] = {}
          BY <4>1, <4>2, <4>3, <5>1
        <5> QED
          BY <5>2 DEF Ends
      <4>4. CASE n \notin rooms[c].users \cup {Me}
        <5>1. Inside(c, n)' = "out"
          BY <3>3, <4>4 DEF Inside, InOut
        <5>2. /\ UserWords(ms, c, n)[1] = {Inside(c, n)'}
              /\ \A j \in 1 + 1 .. 4 : UserWords(ms, c, n)[j] = {}
          BY <4>1, <4>2, <4>4, <5>1
        <5> QED
          BY <5>2 DEF Ends
      <4> QED
        BY <4>3, <4>4
    <3>9. \A n \in Names : StatusAgrees(n)' /\ OperatorAgrees(n)'
      BY <1>0, <1>2, <2>1, <2>4, <3>1, <3>5, AgreementSent DEF Admits, Appointed
    <3>10. ASSUME NEW d \in Channel, Where(d)' = "in"
           PROVE  /\ \A f \in Settings : SettingAgrees(d, f)'
                  /\ \A n \in Names : UserAgrees(d, n)'
      <4>1. CASE d = c
        BY <1>0, <1>2, <3>1, <3>7, <3>8, <4>1, AgreementSent
      <4>2. CASE d # c
        <5>1. Where(d) = "in" /\ \A n : Inside(d, n)' = Inside(d, n)
          BY <3>3, <3>10, <4>2 DEF Inside
        <5>2. \A f \in Settings : /\ Wordless(SettingWords(ms, d, f), Len(ms))
                                  /\ SettingAgrees(d, f) /\ rooms'[d][f] = rooms[d][f]
          BY <2>1, <3>1, <3>3, <3>6, <4>2, <5>1
        <5>3. \A n \in Names : /\ Wordless(UserWords(ms, d, n), Len(ms))
                               /\ UserAgrees(d, n) /\ Inside(d, n)' = Inside(d, n)
          BY <2>1, <3>1, <3>6, <4>2, <5>1
        <5>4. \A f \in Settings : SettingAgrees(d, f)'
          BY <1>0, <1>2, <3>1, <5>2, AgreementSent
        <5>5. \A n \in Names : UserAgrees(d, n)'
          BY <1>0, <1>2, <3>1, <5>3, AgreementSent
        <5> QED
          BY <5>4, <5>5
      <4> QED
        BY <4>1, <4>2
    <3> QED
      BY <3>9, <3>10
  <2> HIDE DEF Kept
  <2> QED
    BY <1>2, <2>2, <2>3, <2>4, TheServerReports
<1> QED
  BY <1>1, <1>2

\* Whoever is known to be online by a message is so as long as no FLN comes before.
LEMMA AnnouncedHeard ==
    ASSUME TypeOK, Process, Heeds(inbox[1]),
           inbox[1].type = "STA" => inbox[1].status # "offline",
           NEW n \in Names, NEW i \in 1 .. Len(inbox), Announced(n, i + 1)
    PROVE  Announced(n, i)'
<1>1. /\ Len(inbox) \in Nat \ {0} /\ Len(inbox') = Len(inbox) - 1
      /\ \A k \in 1 .. Len(inbox') : inbox'[k] = inbox[k + 1]
  BY ProcessMoves DEF Moves
<1>2. PICK k \in 0 .. i : /\ IF k = 0 THEN all_characters[n] # "offline" ELSE Announces(inbox[k], n)
                          /\ \A j \in k + 1 .. i : ~Goes(inbox[j], n)
  BY DEF Announced
<1>3. Follows(StatusWord(inbox[1], n), all_characters[n], all_characters'[n])
  BY DEF Heeds
<1>4. StatusWord(inbox[1], n) = {"offline"} => Goes(inbox[1], n)
  <2> SUFFICES ASSUME "offline" \in StatusWord(inbox[1], n) PROVE Goes(inbox[1], n)
    OBVIOUS
  <2> QED
    BY DEF StatusWord, Goes
<1>5. \A j \in 1 .. i - 1 : inbox'[j] = inbox[j + 1]
  BY <1>1
<1>6. CASE k = 0
  <2>1. all_characters'[n] # "offline"
    BY <1>2, <1>3, <1>4, <1>6 DEF Follows
  <2>2. \A j \in 0 + 1 .. i - 1 : ~Goes(inbox'[j], n)
    BY <1>2, <1>5, <1>6
  <2> QED
    BY <2>1, <2>2 DEF Announced
<1>7. CASE k = 1
  <2>1. StatusWord(inbox[1], n) # {}
    <3>1. inbox[1] \in Message
      BY <1>1 DEF TypeOK, ServerOK
    <3>2. CASE inbox[1].type = "NLN" /\ inbox[1].who = n
      <4>1. "online" \in StatusWord(inbox[1], n)
        BY <3>2 DEF StatusWord, Statuses
      <4> QED
        BY <4>1
    <3>3. CASE inbox[1].type = "LIS" /\ inbox[1].status[n] # "offline"
      <4>1. inbox[1].status[n] \in Statuses
        BY <3>1, <3>3, Payload
      <4>2. inbox[1].status[n] \in StatusWord(inbox[1], n)
        BY <3>3, <4>1 DEF StatusWord
      <4> QED
        BY <4>2
    <3> QED
      BY <1>2, <1>7, <3>2, <3>3 DEF Announces
  <2>2. ~Goes(inbox[1], n)
    BY <1>2, <1>7 DEF Announces, Goes
  <2>3. all_characters'[n] # "offline"
    BY <1>3, <1>4, <2>1, <2>2 DEF Follows
  <2>4. \A j \in 0 + 1 .. i - 1 : ~Goes(inbox'[j], n)
    BY <1>2, <1>5, <1>7
  <2> QED
    BY <2>3, <2>4 DEF Announced
<1>8. CASE k \notin {0, 1}
  <2>1. k - 1 \in 0 .. i - 1 /\ k - 1 # 0 /\ inbox'[k - 1] = inbox[k]
    BY <1>5, <1>8
  <2>2. \A j \in (k - 1) + 1 .. i - 1 : ~Goes(inbox'[j], n)
    BY <1>2, <1>5, <1>8
  <2> QED
    BY <1>2, <1>8, <2>1, <2>2 DEF Announced
<1> QED
  BY <1>6, <1>7, <1>8

LEMMA AnnouncedSent ==
    ASSUME TypeOK, phase # "off", NEW ms \in Seq(Message), Send(ms), all_characters' = all_characters,
           NEW n \in Names
    PROVE  /\ \A i \in 1 .. Len(inbox) + 1 : Announced(n, i) => Announced(n, i)'
           /\ /\ Announced(n, Len(inbox) + 1)
              /\ \A j \in 1 .. Len(ms) : ~Goes(ms[j], n)
              => Announced(n, Len(inbox) + 1)'
           /\ Len(ms) = 1 /\ Announces(ms[1], n) => Announced(n, Len(inbox) + 1)'
<1> DEFINE l == Len(inbox)
           r == Len(inbox')
<1>1. /\ l \in Nat /\ Len(ms) \in Nat /\ r = l + Len(ms)
      /\ \A i \in 1 .. l : inbox'[i] = inbox[i]
      /\ \A i \in l + 1 .. r : i - l \in 1 .. Len(ms) /\ inbox'[i] = ms[i - l]
  BY SendAppends
<1>2. ASSUME NEW i \in 1 .. l + 1, NEW k \in 0 .. i - 1,
             IF k = 0 THEN all_characters[n] # "offline" ELSE Announces(inbox[k], n)
      PROVE  IF k = 0 THEN all_characters'[n] # "offline" ELSE Announces(inbox'[k], n)
  BY <1>1, <1>2
<1>3. \A i \in 1 .. l + 1 : Announced(n, i) => Announced(n, i)'
  <2> SUFFICES ASSUME NEW i \in 1 .. l + 1, Announced(n, i) PROVE Announced(n, i)'
    OBVIOUS
  <2>1. PICK k \in 0 .. i - 1 :
            /\ IF k = 0 THEN all_characters[n] # "offline" ELSE Announces(inbox[k], n)
            /\ \A j \in k + 1 .. i - 1 : ~Goes(inbox[j], n)
    BY DEF Announced
  <2>2. \A j \in k + 1 .. i - 1 : ~Goes(inbox'[j], n)
    BY <1>1, <2>1
  <2> QED
    BY <1>2, <2>1, <2>2 DEF Announced
<1>4. ASSUME Announced(n, l + 1), \A j \in 1 .. Len(ms) : ~Goes(ms[j], n)
      PROVE  Announced(n, l + 1)'
  <2>1. PICK k \in 0 .. (l + 1) - 1 :
            /\ IF k = 0 THEN all_characters[n] # "offline" ELSE Announces(inbox[k], n)
            /\ \A j \in k + 1 .. (l + 1) - 1 : ~Goes(inbox[j], n)
    BY <1>4 DEF Announced
  <2>2. IF k = 0 THEN all_characters'[n] # "offline" ELSE Announces(inbox'[k], n)
    BY <1>1, <1>2, <2>1
  <2>3. \A j \in k + 1 .. (r + 1) - 1 : ~Goes(inbox'[j], n)
    BY <1>1, <1>4, <2>1
  <2>4. k \in 0 .. (r + 1) - 1
    BY <1>1
  <2> QED
    BY <2>2, <2>3, <2>4 DEF Announced
<1>5. ASSUME Len(ms) = 1, Announces(ms[1], n) PROVE Announced(n, l + 1)'
  <2>1. r \in 0 .. (r + 1) - 1 /\ r # 0 /\ Announces(inbox'[r], n)
    BY <1>1, <1>5
  <2>2. \A j \in r + 1 .. (r + 1) - 1 : ~Goes(inbox'[j], n)
    BY <1>1
  <2> QED
    BY <2>1, <2>2 DEF Announced
<1> QED
  BY <1>3, <1>4, <1>5

LEMMA StatusesTakenSent ==
    ASSUME TypeOK, Orderly, StatusesAreTaken, Serve \/ Others
    PROVE  StatusesAreTaken'
<1>0. UNCHANGED <<phase, all_characters>>
  BY DEF Serve, ServeJoin, ServeLeave, Others, Arrive, Restate, Depart, Promote, Demote, Reappoint,
         Enter, Remove, Appoint, SetMode, Describe, KeepPlugin, presence
<1>1. ASSUME NEW ms \in Seq(Message), Send(ms), phase # "off",
             \A i \in 1 .. Len(ms) : ms[i].type = "STA" =>
                 Len(ms) = 1 /\ ms[i].status # "offline" /\ present[ms[i].who] # "offline",
             \A n \in Names : present'[n] # "offline" =>
                 \/ present[n] # "offline" /\ \A j \in 1 .. Len(ms) : ~Goes(ms[j], n)
                 \/ Len(ms) = 1 /\ Announces(ms[1], n)
      PROVE  StatusesAreTaken'
  <2>1. /\ Len(inbox) \in Nat /\ Len(ms) \in Nat
        /\ Len(inbox') = Len(inbox) + Len(ms)
        /\ \A i \in 1 .. Len(inbox) : inbox'[i] = inbox[i]
        /\ \A i \in Len(inbox) + 1 .. Len(inbox) + Len(ms) :
               i - Len(inbox) \in 1 .. Len(ms) /\ inbox'[i] = ms[i - Len(inbox)]
    BY <1>1, SendAppends
  <2>2. ASSUME NEW i \in 1 .. Len(inbox'), inbox'[i].type = "STA"
        PROVE  inbox'[i].status # "offline" /\ Announced(inbox[i].who, i)'
    <3>1. inbox'[i].who \in Names
      <4>1. inbox' \in Seq(Message)
        BY <1>1 DEF Send, TypeOK, ServerOK
      <4>2. inbox'[i] \in Message
        BY <4>1
      <4> QED
        BY <2>2, <4>2 DEF Message, Departures
    <3>2. PICK n \in Names : n = inbox'[i].who
      BY <3>1
    <3>3. CASE i \in 1 .. Len(inbox)
      <4>1. inbox'[i].status # "offline" /\ Announced(n, i)
        BY <2>1, <2>2, <3>2, <3>3 DEF StatusesAreTaken
      <4>2. Announced(n, i)'
        BY <1>0, <1>1, <2>1, <3>3, <4>1, AnnouncedSent
      <4> QED
        BY <3>2, <4>1, <4>2
    <3>4. CASE i \notin 1 .. Len(inbox)
      <4>1. /\ i = Len(inbox) + 1 /\ inbox'[i].status # "offline" /\ present[n] # "offline"
        BY <1>1, <2>1, <2>2, <3>2, <3>4
      <4>2. Announced(n, i)
        BY <1>1, <4>1 DEF StatusesAreTaken
      <4>3. Announced(n, i)'
        BY <1>0, <1>1, <2>1, <4>1, <4>2, AnnouncedSent
      <4> QED
        BY <3>2, <4>1, <4>3
    <3> QED
      BY <3>3, <3>4
  <2>3. ASSUME NEW n \in Names, present'[n] # "offline"
        PROVE  Announced(n, Len(inbox) + 1)'
    <3>1. CASE present[n] # "offline" /\ \A j \in 1 .. Len(ms) : ~Goes(ms[j], n)
      <4>1. Announced(n, Len(inbox) + 1)
        BY <1>1, <3>1 DEF StatusesAreTaken
      <4> QED
        BY <1>0, <1>1, <3>1, <4>1, AnnouncedSent
    <3>2. CASE Len(ms) = 1 /\ Announces(ms[1], n)
      BY <1>0, <1>1, <3>2, AnnouncedSent
    <3> QED
      BY <1>1, <2>3, <3>1, <3>2
  <2> QED
    BY <1>0, <1>1, <2>2, <2>3 DEF StatusesAreTaken
<1>2. CASE phase = "off"
  <2>1. inbox' = <<>>
    <3>1. PICK ms \in Seq(Message) : Sends(ms)
      BY WhatIsSent DEF Orderly
    <3> QED
      BY <1>2, <3>1 DEF Sends, Send
  <2> QED
    BY <1>0, <1>2, <2>1 DEF StatusesAreTaken
<1>3. CASE phase # "off"
  <2>1. ASSUME NEW m \in Message, Send(<<m>>), Reports(m) PROVE StatusesAreTaken'
    <3>1. <<m>> \in Seq(Message) /\ Len(<<m>>) = 1 /\ <<m>>[1] = m
      OBVIOUS
    <3>2. m.type = "STA" => m.status # "offline" /\ present[m.who] # "offline"
      BY <2>1 DEF Reports
    <3>3. ASSUME NEW n \in Names, present'[n] # "offline"
          PROVE  \/ present[n] # "offline" /\ ~Goes(m, n)
                 \/ Announces(m, n)
      <4>1. Follows(StatusWord(m, n), present[n], present'[n])
        BY <2>1 DEF Reports
      <4>2. Goes(m, n) => "offline" \in StatusWord(m, n)
        BY DEF Goes, StatusWord, Statuses
      <4>3. ASSUME present[n] = "offline" PROVE Announces(m, n)
        <5>1. present'[n] \in StatusWord(m, n)
          BY <3>3, <4>1, <4>3 DEF Follows
        <5> QED
          BY <3>2, <3>3, <4>3, <5>1 DEF StatusWord, Announces
      <4> QED
        BY <3>3, <4>1, <4>2, <4>3 DEF Follows
    <3> DEFINE ms == <<m>>
    <3>4. /\ ms \in Seq(Message) /\ Send(ms) /\ Len(ms) = 1
          /\ \A i \in 1 .. Len(ms) : ms[i] = m
      BY <2>1, <3>1
    <3> HIDE DEF ms
    <3>5. \A i \in 1 .. Len(ms) : ms[i].type = "STA" =>
              Len(ms) = 1 /\ ms[i].status # "offline" /\ present[ms[i].who] # "offline"
      BY <3>2, <3>4
    <3>6. \A n \in Names : present'[n] # "offline" =>
              \/ present[n] # "offline" /\ \A j \in 1 .. Len(ms) : ~Goes(ms[j], n)
              \/ Len(ms) = 1 /\ Announces(ms[1], n)
      BY <3>3, <3>4
    <3> QED
      BY <1>1, <1>3, <3>4, <3>5, <3>6
  <2>2. ASSUME Send(<<>>), Quiet PROVE StatusesAreTaken'
    <3> DEFINE ms == <<>>
    <3>1. ms \in Seq(Message) /\ Send(ms) /\ Len(ms) = 0
      BY <2>2
    <3> HIDE DEF ms
    <3>2. \A i \in 1 .. Len(ms) : FALSE
      BY <3>1
    <3>3. present' = present
      BY <2>2 DEF Quiet
    <3> QED
      BY <1>1, <1>3, <3>1, <3>2, <3>3
  <2>3. ASSUME NEW c \in Channel, Admits(c) PROVE StatusesAreTaken'
    <3>1. Welcome(c) \in Seq(Message) /\ Send(Welcome(c)) /\ present' = present
      BY <2>3, WelcomeType DEF Admits, TypeOK
    <3>2. \A i \in 1 .. Len(Welcome(c)) : Welcome(c)[i].type \notin {"STA", "FLN"}
      BY DEF Welcome, OperatorList
    <3> QED
      BY <1>1, <1>3, <3>1, <3>2 DEF Goes
  <2> QED
    BY <1>3, <2>1, <2>2, <2>3, TheServerReports
<1> QED
  BY <1>2, <1>3

LEMMA StatusesTakenHeard ==
    ASSUME TypeOK, ChatsMatch, Orderly, StatusesAreTaken, Process
    PROVE  StatusesAreTaken' /\ Heeds(inbox[1])
<1>1. /\ Len(inbox) \in Nat \ {0} /\ Len(inbox') = Len(inbox) - 1
      /\ \A k \in 1 .. Len(inbox') : inbox'[k] = inbox[k + 1]
      /\ present' = present
  BY ProcessMoves DEF Moves
<1>2. phase # "off" /\ phase' # "off"
  <2>1. inbox # <<>>
    BY <1>1
  <2> QED
    BY <2>1, WhatIsProcessed DEF Orderly, NothingKnown
<1>3. Heeds(inbox[1])
  <2>1. ASSUME inbox[1].type = "STA" PROVE all_characters[inbox[1].who] # "offline"
    <3>1. Announced(inbox[1].who, 1)
      BY <1>1, <2>1 DEF StatusesAreTaken
    <3> QED
      BY <3>1 DEF Announced
  <2> QED
    BY <2>1, ThePluginHeeds
<1>4. inbox[1].type = "STA" => inbox[1].status # "offline"
  BY <1>1 DEF StatusesAreTaken
<1>5. ASSUME NEW i \in 1 .. Len(inbox'), inbox'[i].type = "STA"
      PROVE  inbox'[i].status # "offline" /\ Announced(inbox[i].who, i)'
  <2>1. /\ i + 1 \in 1 .. Len(inbox) /\ i \in 1 .. Len(inbox) /\ inbox'[i] = inbox[i + 1]
        /\ inbox[i + 1].type = "STA"
    BY <1>1, <1>5
  <2>2. inbox[i + 1].who \in Names
    <3>1. inbox[i + 1] \in Message
      BY <2>1 DEF TypeOK, ServerOK
    <3> QED
      BY <2>1, <3>1 DEF Message, Departures
  <2>3. PICK n \in Names : n = inbox[i + 1].who
    BY <2>2
  <2>4. inbox[i + 1].status # "offline" /\ Announced(n, i + 1)
    BY <2>1, <2>3 DEF StatusesAreTaken
  <2>5. Announced(n, i)'
    BY <1>3, <1>4, <2>1, <2>4, AnnouncedHeard
  <2> QED
    BY <2>1, <2>3, <2>4, <2>5
<1>6. ASSUME NEW n \in Names, present'[n] # "offline"
      PROVE  Announced(n, Len(inbox) + 1)'
  <2>1. PICK l \in 1 .. Len(inbox) : l = Len(inbox)
    BY <1>1
  <2>2. Announced(n, l + 1)
    BY <1>1, <1>2, <1>6, <2>1 DEF StatusesAreTaken
  <2>3. Announced(n, l)'
    BY <1>3, <1>4, <2>2, AnnouncedHeard
  <2>4. Len(inbox') + 1 = l
    BY <1>1, <2>1
  <2> QED
    BY <2>3, <2>4
<1> QED
  BY <1>2, <1>3, <1>5, <1>6 DEF StatusesAreTaken

\* What we handle is what we are told.
LEMMA PluginKeepsAgreement ==
    ASSUME TypeOK, CharactersAgree, ChannelsAgree, phase # "off", Process, Heeds(inbox[1])
    PROVE  CharactersAgree' /\ ChannelsAgree'
<1>1. /\ Len(inbox) \in Nat \ {0} /\ Len(inbox') = Len(inbox) - 1
      /\ 1 \in 1 .. Len(inbox)
      /\ \A i \in 1 .. Len(inbox') : i + 1 \in 1 .. Len(inbox) /\ inbox'[i] = inbox[i + 1]
      /\ UNCHANGED <<present, operators, rooms>>
  BY ProcessMoves DEF Moves
<1>2. /\ \A n \in Names : Appointed(n)' = Appointed(n)
      /\ \A c \in Channel : Where(c)' = Where(c) /\ \A n : Inside(c, n)' = Inside(c, n)
  BY <1>1 DEF Appointed, Where, Inside
<1>3. ASSUME NEW n \in Names, StatusAgrees(n)
      PROVE  StatusAgrees(n)'
  <2> DEFINE l == Len(inbox)
             w == StatusWords(inbox, n)
             u == StatusWords(inbox', n)
  <2>1. /\ l \in Nat \ {0} /\ Len(inbox') = l - 1
        /\ \A i \in 1 .. l - 1 : u[i] = w[i + 1]
        /\ w[1] = StatusWord(inbox[1], n)
    BY <1>1 DEF StatusWords
  <2>2. /\ w[1] = {present[n]} => all_characters'[n] = present[n]
        /\ w[1] = {} => all_characters'[n] = all_characters[n]
    <3>1. Follows(w[1], all_characters[n], all_characters'[n])
      BY <2>1 DEF Heeds
    <3> HIDE DEF w
    <3> QED
      BY <3>1 DEF Follows
  <2>3. /\ Ends(w, l, present[n]) => Ends(u, l - 1, present[n]) \/ (Wordless(u, l - 1) /\ w[1] = {present[n]})
        /\ Wordless(w, l) => Wordless(u, l - 1) /\ w[1] = {}
    <3> HIDE DEF l, w, u
    <3> QED
      BY <2>1, Heard
  <2>4. Ends(w, l, present[n]) \/ (Wordless(w, l) /\ all_characters[n] = present[n])
    BY <1>3 DEF StatusAgrees, Agree
  <2>5. Ends(u, l - 1, present[n]) \/ (Wordless(u, l - 1) /\ all_characters'[n] = present[n])
    <3> HIDE DEF l, w, u
    <3> QED
      BY <2>2, <2>3, <2>4
  <2> QED
    BY <1>1, <1>2, <2>1, <2>5 DEF StatusAgrees, Agree
<1>4. ASSUME NEW n \in Names, OperatorAgrees(n)
      PROVE  OperatorAgrees(n)'
  <2> DEFINE l == Len(inbox)
             w == OperatorWords(inbox, n)
             u == OperatorWords(inbox', n)
  <2>1. /\ l \in Nat \ {0} /\ Len(inbox') = l - 1
        /\ \A i \in 1 .. l - 1 : u[i] = w[i + 1]
        /\ w[1] = OperatorWord(inbox[1], n)
    BY <1>1 DEF OperatorWords
  <2>2. ASSUME n \notin lost'
        PROVE  /\ w[1] = {Appointed(n)} => Listed(n)' = Appointed(n)
               /\ w[1] = {} => n \notin lost /\ Listed(n)' = Listed(n)
    <3>1. Follows(w[1], Listed(n), Listed(n)') /\ (w[1] = {} => n \notin lost)
      BY <2>1, <2>2 DEF Heeds
    <3> HIDE DEF w
    <3> QED
      BY <3>1 DEF Follows
  <2>3. /\ Ends(w, l, Appointed(n)) => Ends(u, l - 1, Appointed(n)) \/ (Wordless(u, l - 1) /\ w[1] = {Appointed(n)})
        /\ Wordless(w, l) => Wordless(u, l - 1) /\ w[1] = {}
    <3> HIDE DEF l, w, u
    <3> QED
      BY <2>1, Heard
  <2>4. Ends(w, l, Appointed(n)) \/ (Wordless(w, l) /\ (n \notin lost => Listed(n) = Appointed(n)))
    BY <1>4 DEF OperatorAgrees, Agree
  <2>5. Ends(u, l - 1, Appointed(n)) \/ (Wordless(u, l - 1) /\ (n \notin lost' => Listed(n)' = Appointed(n)))
    <3> HIDE DEF l, w, u
    <3> QED
      BY <2>2, <2>3, <2>4
  <2> QED
    BY <1>1, <1>2, <2>1, <2>5 DEF OperatorAgrees, Agree
<1>5. ASSUME NEW c \in Channel, NEW f \in Settings, SettingAgrees(c, f)
      PROVE  SettingAgrees(c, f)'
  <2> DEFINE l == Len(inbox)
             w == SettingWords(inbox, c, f)
             u == SettingWords(inbox', c, f)
  <2>1. /\ l \in Nat \ {0} /\ Len(inbox') = l - 1
        /\ \A i \in 1 .. l - 1 : u[i] = w[i + 1]
        /\ w[1] = SettingWord(inbox[1], c, f)
    BY <1>1 DEF SettingWords
  <2>2. ASSUME c \in chat_table'
        PROVE  /\ w[1] = {rooms[c][f]} => channel'[c][f] = rooms[c][f]
               /\ w[1] = {} => c \in chat_table /\ channel'[c][f] = channel[c][f]
    <3>1. Follows(w[1], channel[c][f], channel'[c][f]) /\ (w[1] = {} => c \in chat_table)
      BY <2>1, <2>2 DEF Heeds
    <3> HIDE DEF w
    <3> QED
      BY <3>1 DEF Follows
  <2>3. /\ Ends(w, l, rooms[c][f]) => Ends(u, l - 1, rooms[c][f]) \/ (Wordless(u, l - 1) /\ w[1] = {rooms[c][f]})
        /\ Wordless(w, l) => Wordless(u, l - 1) /\ w[1] = {}
    <3> HIDE DEF l, w, u
    <3> QED
      BY <2>1, Heard
  <2>4. Ends(w, l, rooms[c][f]) \/ (Wordless(w, l) /\ (c \in chat_table => channel[c][f] = rooms[c][f]))
    BY <1>5 DEF SettingAgrees, Agree
  <2>5. Ends(u, l - 1, rooms[c][f]) \/ (Wordless(u, l - 1) /\ (c \in chat_table' => channel'[c][f] = rooms[c][f]))
    <3> HIDE DEF l, w, u
    <3> QED
      BY <2>2, <2>3, <2>4
  <2> QED
    BY <1>1, <1>2, <2>1, <2>5 DEF SettingAgrees, Agree
<1>6. ASSUME NEW c \in Channel, NEW n \in Names, UserAgrees(c, n)
      PROVE  UserAgrees(c, n)'
  <2> DEFINE l == Len(inbox)
             w == UserWords(inbox, c, n)
             u == UserWords(inbox', c, n)
  <2>1. /\ l \in Nat \ {0} /\ Len(inbox') = l - 1
        /\ \A i \in 1 .. l - 1 : u[i] = w[i + 1]
        /\ w[1] = UserWord(inbox[1], c, n)
    BY <1>1 DEF UserWords
  <2>2. ASSUME c \in chat_table'
        PROVE  /\ w[1] = {Inside(c, n)} => Seen(c, n)' = Inside(c, n)
               /\ w[1] = {} => c \in chat_table /\ Seen(c, n)' = Seen(c, n)
    <3>1. Follows(w[1], Seen(c, n), Seen(c, n)') /\ (w[1] = {} => c \in chat_table)
      BY <2>1, <2>2 DEF Heeds
    <3> HIDE DEF w
    <3> QED
      BY <3>1 DEF Follows
  <2>3. /\ Ends(w, l, Inside(c, n)) => Ends(u, l - 1, Inside(c, n)) \/ (Wordless(u, l - 1) /\ w[1] = {Inside(c, n)})
        /\ Wordless(w, l) => Wordless(u, l - 1) /\ w[1] = {}
    <3> HIDE DEF l, w, u
    <3> QED
      BY <2>1, Heard
  <2>4. Ends(w, l, Inside(c, n)) \/ (Wordless(w, l) /\ (c \in chat_table => Seen(c, n) = Inside(c, n)))
    BY <1>6 DEF UserAgrees, Agree
  <2>5. Ends(u, l - 1, Inside(c, n)) \/ (Wordless(u, l - 1) /\ (c \in chat_table' => Seen(c, n)' = Inside(c, n)))
    <3> HIDE DEF l, w, u
    <3> QED
      BY <2>2, <2>3, <2>4
  <2> QED
    BY <1>1, <1>2, <2>1, <2>5 DEF UserAgrees, Agree
<1> QED
  BY <1>2, <1>3, <1>4, <1>5, <1>6 DEF CharactersAgree, ChannelsAgree

\* What happens at our side of the connection makes us know less at most.
LEMMA AgreementKept ==
    ASSUME AgreeInv, UNCHANGED <<phase, inbox, all_characters, present, operators, rooms>>,
           \A n \in Names \ lost' : n \notin lost /\ Listed(n)' = Listed(n),
           \A c \in chat_table' : c \in chat_table /\ channel'[c] = channel[c]
    PROVE  AgreeInv'
<1>1. StatusesAreTaken'
  BY DEF AgreeInv, StatusesAreTaken, Announced
<1>2. \A n \in Names : Appointed(n)' = Appointed(n) /\ (StatusAgrees(n) => StatusAgrees(n)')
  BY DEF StatusAgrees, Agree, Appointed
<1>3. \A n \in Names : OperatorAgrees(n) => OperatorAgrees(n)'
  BY <1>2 DEF OperatorAgrees, Agree
<1>4. \A c \in Channel : Where(c)' = Where(c) /\ \A n : Inside(c, n)' = Inside(c, n)
  BY DEF Where, Inside
<1>5. \A c \in Channel, f \in Settings : SettingAgrees(c, f) => SettingAgrees(c, f)'
  BY DEF SettingAgrees, Agree
<1>6. \A c \in Channel, n \in Names : UserAgrees(c, n) => UserAgrees(c, n)'
  BY <1>4 DEF UserAgrees, Agree, Seen
<1> QED
  BY <1>1, <1>2, <1>3, <1>4, <1>5, <1>6 DEF AgreeInv, CharactersAgree, ChannelsAgree

LEMMA AgreeStep ==
    TypeOK /\ ChatsMatch /\ Orderly /\ MembershipAgrees /\ AgreeInv /\ [Next]_vars => AgreeInv'
<1> SUFFICES ASSUME TypeOK, ChatsMatch, Orderly, MembershipAgrees, AgreeInv, [Next]_vars
             PROVE  AgreeInv'
  OBVIOUS
<1>0. StatusesAreTaken /\ CharactersAgree /\ ChannelsAgree
  BY DEF AgreeInv
<1>1. CASE Process
  <2>1. phase # "off"
    <3>1. inbox # <<>>
      BY <1>1, ProcessMoves DEF Moves
    <3> QED
      BY <3>1 DEF Orderly, NothingKnown
  <2> QED
    BY <1>0, <1>1, <2>1, StatusesTakenHeard, PluginKeepsAgreement DEF AgreeInv
<1>2. CASE Serve \/ Others
  BY <1>0, <1>2, StatusesTakenSent, ServerKeepsAgreement DEF AgreeInv
<1>3. ASSUME UNCHANGED <<phase, inbox, all_characters, present, operators, rooms, global_ops, lost,
                         chat_table, channel>>
      PROVE  AgreeInv'
  BY <1>3, AgreementKept DEF Listed
<1>4. CASE User
  <2> USE DEF presence, globals, chats, server
  <2>1. ASSUME NEW c \in Channel, NEW w \in Shows, Hide(c, w) \/ Show(c, w) PROVE AgreeInv'
    BY <1>3, <2>1 DEF Hide, Show
  <2>2. ASSUME NEW c \in Channel, JoinChannel(c) \/ KeepChat(c) PROVE AgreeInv'
    BY <1>3, <2>2 DEF JoinChannel, KeepChat
  <2>3. ASSUME NEW c \in Channel, CloseWindow(c) PROVE AgreeInv'
    <3>1. UNCHANGED <<phase, inbox, all_characters, present, operators, rooms, global_ops, lost>>
      BY <2>3 DEF CloseWindow
    <3>2. \A d \in chat_table' : d \in chat_table /\ channel'[d] = channel[d]
      BY <2>3 DEF CloseWindow, GotChannelLeft, TypeOK, PluginOK
    <3> QED
      BY <3>1, <3>2, AgreementKept DEF Listed
  <2> QED
    BY <1>4, <2>1, <2>2, <2>3 DEF User
<1>5. ASSUME NEW c \in Channel, Elapse(c) PROVE AgreeInv'
  BY <1>3, <1>5 DEF Elapse, KeepTables, presence, globals, chats, server
<1>6. ASSUME NEW n \in Names, Overwrite(n) PROVE AgreeInv'
  <2>1. /\ UNCHANGED <<phase, inbox, all_characters, present, operators, rooms, chat_table, channel>>
        /\ global_ops' = global_ops \ {n} /\ lost' = lost \cup {n}
    BY <1>6 DEF Overwrite, KeepTables, presence, chats, server
  <2>2. \A x \in Names \ lost' : x \notin lost /\ Listed(x)' = Listed(x)
    BY <2>1 DEF Listed, InOut
  <2> QED
    BY <2>1, <2>2, AgreementKept
<1>7. CASE UNCHANGED vars
  BY <1>3, <1>7 DEF vars, presence, globals, chats, server
<1>8. CASE Login
  <2>1. /\ Len(inbox') = 3
        /\ inbox'[1] = [type |-> "ADL", ops |-> operators]
        /\ inbox'[2] = [type |-> "LIS", status |-> present]
        /\ inbox'[3] = [type |-> "NLN", who |-> Me]
        /\ phase = "off" /\ phase' = "login"
        /\ UNCHANGED <<all_characters, operators, rooms>>
        /\ present' = [present EXCEPT ![Me] = "online"]
        /\ present \in [Names -> Statuses] /\ Me \in Names
        /\ \A n \in Names : all_characters[n] = "offline"
        /\ present[Me] = "offline"
    BY <1>0, <1>8, NamesAssumption DEF Login, presence, globals, chats, TypeOK, ServerOK, StatusesAreTaken,
       Orderly, NothingKnown
  <2>2. ASSUME NEW n \in Names PROVE StatusAgrees(n)'
    <3>1. /\ StatusWord(inbox'[1], n) = {}
          /\ StatusWord(inbox'[2], n) = {present[n]} \ {"offline"}
          /\ StatusWord(inbox'[3], n) = IF n = Me THEN {"online"} ELSE {}
      BY <2>1 DEF StatusWord, Statuses
    <3>2. \A i \in 1 .. 3 : StatusWords(inbox', n)[i] = StatusWord(inbox'[i], n)
      BY <2>1 DEF StatusWords
    <3>3. CASE n = Me
      <4>1. /\ StatusWords(inbox', n)[3] = {present'[n]}
            /\ \A j \in 3 + 1 .. 3 : StatusWords(inbox', n)[j] = {}
        BY <2>1, <3>1, <3>2, <3>3
      <4> QED
        BY <2>1, <4>1 DEF StatusAgrees, Agree, Ends
    <3>4. CASE n # Me /\ present[n] # "offline"
      <4>1. /\ StatusWords(inbox', n)[2] = {present'[n]}
            /\ \A j \in 2 + 1 .. 3 : StatusWords(inbox', n)[j] = {}
        BY <2>1, <3>1, <3>2, <3>4
      <4> QED
        BY <2>1, <4>1 DEF StatusAgrees, Agree, Ends
    <3>5. CASE n # Me /\ present[n] = "offline"
      <4>1. \A i \in 1 .. 3 : StatusWords(inbox', n)[i] = {}
        BY <3>1, <3>2, <3>5
      <4>2. all_characters'[n] = present'[n]
        BY <2>1, <3>5
      <4> QED
        BY <2>1, <4>1, <4>2 DEF StatusAgrees, Agree, Wordless
    <3> QED
      BY <3>3, <3>4, <3>5
  <2>3. ASSUME NEW n \in Names PROVE OperatorAgrees(n)'
    <3>1. /\ OperatorWord(inbox'[1], n) = {Appointed(n)}
          /\ OperatorWord(inbox'[2], n) = {} /\ OperatorWord(inbox'[3], n) = {}
      BY <2>1 DEF OperatorWord, Appointed, InOut
    <3>2. \A i \in 1 .. 3 : OperatorWords(inbox', n)[i] = OperatorWord(inbox'[i], n)
      BY <2>1 DEF OperatorWords
    <3>3. Appointed(n)' = Appointed(n)
      BY <2>1 DEF Appointed
    <3>4. /\ OperatorWords(inbox', n)[1] = {Appointed(n)'}
          /\ \A j \in 1 + 1 .. 3 : OperatorWords(inbox', n)[j] = {}
      BY <3>1, <3>2, <3>3
    <3> QED
      BY <2>1, <3>4 DEF OperatorAgrees, Agree, Ends
  <2>4. \A c \in Channel : Where(c)' # "in"
    BY <2>1, NowhereYet DEF Orderly, Where
  <2>5. ASSUME NEW n \in Names, present'[n] # "offline" PROVE Announced(n, Len(inbox) + 1)'
    <3>1. CASE n = Me
      <4>1. /\ 3 \in 0 .. (3 + 1) - 1 /\ Announces(inbox'[3], n)
            /\ \A j \in 3 + 1 .. (3 + 1) - 1 : ~Goes(inbox'[j], n)
        BY <2>1, <3>1 DEF Announces
      <4> QED
        BY <2>1, <4>1 DEF Announced
    <3>2. CASE n # Me
      <4>1. /\ 2 \in 0 .. (3 + 1) - 1 /\ Announces(inbox'[2], n)
            /\ \A j \in 2 + 1 .. (3 + 1) - 1 : ~Goes(inbox'[j], n)
        BY <2>1, <2>5, <3>2 DEF Announces, Goes
      <4> QED
        BY <2>1, <4>1 DEF Announced
    <3> QED
      BY <3>1, <3>2
  <2>6. \A i \in 1 .. Len(inbox') : inbox'[i].type # "STA"
    BY <2>1
  <2>7. StatusesAreTaken'
    BY <2>1, <2>5, <2>6 DEF StatusesAreTaken
  <2> QED
    BY <2>2, <2>3, <2>4, <2>7 DEF AgreeInv, CharactersAgree, ChannelsAgree
<1>9. CASE Disconnect \/ Crash
  <2>1. /\ phase' = "off" /\ inbox' = <<>> /\ rooms' = Without(Me)
        /\ all_characters' = [n \in Names |-> "offline"]
        /\ rooms \in [Channel -> Room]
    BY <1>9 DEF Disconnect, Crash, EndSession, TypeOK, ServerOK
  <2>2. \A c \in Channel : Where(c)' # "in"
    BY <2>1 DEF Where, Without, Room
  <2> QED
    BY <2>1, <2>2 DEF AgreeInv, StatusesAreTaken, CharactersAgree, ChannelsAgree
<1> QED
  BY <1>1, <1>2, <1>4, <1>5, <1>6, <1>7, <1>8, <1>9 DEF Next

\* Once nothing is on its way the plugin knows what the server knows
\* (AgreesWhenQuiet; the handlers of NLN, LIS, STA, FLN, ADL, AOP, DOP, JCH, LCH,
\* COL, ICH and RMO together).
THEOREM AgreesWhenAllIsHeard == Spec => []AgreesWhenQuiet
<1>1. Init => AgreeInv
  <2> SUFFICES ASSUME Init PROVE AgreeInv
    OBVIOUS
  <2>1. /\ inbox = <<>> /\ phase = "off" /\ \A n \in Names : all_characters[n] = "offline"
        /\ \A c \in Channel : Where(c) # "in"
    BY DEF Init, Where, NewRoom
  <2> QED
    BY <2>1 DEF AgreeInv, StatusesAreTaken, CharactersAgree, ChannelsAgree
<1>2. /\ TypeOK /\ ChatsMatch /\ OrderInv /\ MembershipAgrees /\ AgreeInv /\ [Next]_vars
      => AgreeInv'
  BY AgreeStep DEF OrderInv
<1>3. TypeOK /\ MembershipAgrees /\ AgreeInv => AgreesWhenQuiet
  <2> SUFFICES ASSUME TypeOK, MembershipAgrees, AgreeInv,
                      phase = "online", inbox = <<>>, outbox = <<>>
               PROVE  /\ all_characters = present
                      /\ global_ops \ lost = operators \ lost
                      /\ chat_table = {c \in Channel : Me \in rooms[c].users}
                      /\ \A c \in chat_table : channel[c] = rooms[c]
    BY DEF AgreesWhenQuiet
  <2>0. \A w, v : ~Ends(w, Len(inbox), v)
    BY DEF Ends
  <2>1. all_characters = present
    <3>1. \A n \in Names : all_characters[n] = present[n]
      BY <2>0 DEF AgreeInv, CharactersAgree, StatusAgrees, Agree
    <3> QED
      BY <3>1 DEF TypeOK, PluginOK, ServerOK
  <2>2. global_ops \ lost = operators \ lost
    <3>1. \A n \in Names \ lost : Listed(n) = Appointed(n)
      BY <2>0 DEF AgreeInv, CharactersAgree, OperatorAgrees, Agree
    <3>2. \A n \in Names \ lost : n \in global_ops <=> n \in operators
      BY <3>1 DEF Listed, Appointed, InOut
    <3> QED
      BY <3>2 DEF TypeOK, PluginOK, ServerOK
  <2>3. ASSUME NEW c \in Channel PROVE c \in chat_table <=> Where(c) = "in"
    <3>1. WhereKnown(c) /\ ~Leaving(c)
      BY <2>0 DEF MembershipAgrees, WhereAgrees, Leaving
    <3> QED
      BY <3>1 DEF WhereKnown
  <2>4. chat_table = {c \in Channel : Me \in rooms[c].users}
    BY <2>3 DEF Where, TypeOK, PluginOK
  <2>5. ASSUME NEW c \in chat_table PROVE channel[c] = rooms[c]
    <3>1. c \in Channel /\ Where(c) = "in"
      BY <2>3 DEF TypeOK, PluginOK
    <3>2. channel[c] \in Room /\ rooms[c] \in Room
      BY <3>1 DEF TypeOK, PluginOK, ServerOK
    <3>3. \A f \in Settings : channel[c][f] = rooms[c][f]
      BY <2>0, <3>1 DEF AgreeInv, ChannelsAgree, SettingAgrees, Agree
    <3>4. \A n \in Names : Seen(c, n) = Inside(c, n)
      BY <2>0, <3>1 DEF AgreeInv, ChannelsAgree, UserAgrees, Agree
    <3>5. channel[c].users = rooms[c].users
      BY <3>2, <3>4 DEF Room, Seen, Inside, InOut
    <3>6. /\ channel[c].owner = rooms[c].owner /\ channel[c].ops = rooms[c].ops
          /\ channel[c].mode = rooms[c].mode
      BY <3>3 DEF Settings
    <3> QED
      BY <3>2, <3>5, <3>6 DEF Room
  <2> QED
    BY <2>1, <2>2, <2>4, <2>5
<1> QED
  BY <1>1, <1>2, <1>3, TypeCorrect, ChatsAlwaysMatch, OrderAlwaysKept, MembershipAlwaysAgrees,
     PTL DEF Spec
============================================================================
