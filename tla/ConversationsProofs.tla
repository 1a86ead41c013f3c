------------------------ MODULE ConversationsProofs ------------------------
(* What Conversations promises, for every set of characters and every bound. *)
EXTENDS Conversations, SequenceTheorems, FiniteSetTheorems, TLAPS

----------------------------------------------------------------------------
(* Lists of names.                                                          *)

\* A finite set is listed, and everybody once.
LEMMA SetToSeqLists ==
    ASSUME NEW S, IsFiniteSet(S)
    PROVE  /\ SetToSeq(S) \in Seq(S)
           /\ ToSet(SetToSeq(S)) = S
           /\ IsInjective(SetToSeq(S))
<1> DEFINE n == Cardinality(S)
           f == SetToSeq(S)
<1>1. n \in Nat /\ ExistsBijection(1..n, S)
  BY FS_CardinalityType
<1>2. \E g \in [1..n -> S] : IsInjective(g)
  BY <1>1 DEF ExistsBijection, Bijection, Injection
<1>3. f \in [1..n -> S] /\ IsInjective(f)
  BY <1>2 DEF SetToSeq
<1>4. f \in Injection(1..n, S)
  BY <1>3 DEF Injection
<1>5. Cardinality(1..n) = Cardinality(S)
  BY <1>1, FS_Interval, SMT
<1>6. f \in Surjection(1..n, S)
  BY <1>4, <1>5, FS_Injection
<1>7. ToSet(f) = S
  BY <1>3, <1>6 DEF ToSet, Surjection
<1>8. f \in Seq(S)
  BY <1>1, <1>3
<1> QED
  BY <1>3, <1>7, <1>8

\* Whom a list names.
LEMMA ListedNames ==
    ASSUME NEW S, NEW s \in Seq(S)
    PROVE  /\ DOMAIN s = 1..Len(s)
           /\ Len(s) \in Nat
           /\ \A x : x \in ToSet(s) <=> \E i \in 1..Len(s) : s[i] = x
           /\ ToSet(s) \subseteq S
  BY DEF ToSet

\* Two lists that share no name, one after the other.
LEMMA TwoLists ==
    ASSUME NEW S, NEW s \in Seq(S), NEW t \in Seq(S),
           IsInjective(s), IsInjective(t), ToSet(s) \cap ToSet(t) = {}
    PROVE  IsInjective(s \o t)
<1> DEFINE st == s \o t
<1>1. st \in Seq(S) /\ Len(st) = Len(s) + Len(t)
  BY ConcatProperties
<1>2. \A i \in 1..Len(st) : st[i] = IF i <= Len(s) THEN s[i] ELSE t[i - Len(s)]
  BY <1>1, ConcatProperties
<1> HIDE DEF st
<1>3. DOMAIN st = 1..Len(st) /\ DOMAIN s = 1..Len(s) /\ DOMAIN t = 1..Len(t)
  BY <1>1
<1>4. Len(s) \in Nat /\ Len(t) \in Nat
  OBVIOUS
<1>5. ASSUME NEW i \in 1..Len(st), NEW j \in 1..Len(st), st[i] = st[j]
      PROVE  i = j
  <2>1. CASE i <= Len(s) /\ j <= Len(s)
    BY <1>2, <1>3, <1>4, <1>5, <2>1 DEF IsInjective
  <2>2. CASE ~(i <= Len(s)) /\ ~(j <= Len(s))
    <3>1. i - Len(s) \in 1..Len(t) /\ j - Len(s) \in 1..Len(t)
      BY <1>1, <1>4, <2>2
    <3>2. t[i - Len(s)] = t[j - Len(s)]
      BY <1>2, <1>5, <2>2
    <3>3. i - Len(s) = j - Len(s)
      BY <1>3, <3>1, <3>2 DEF IsInjective
    <3> QED
      BY <1>4, <3>3
  <2>3. ASSUME NEW k \in 1..Len(st), NEW l \in 1..Len(st), st[k] = st[l],
               k <= Len(s), ~(l <= Len(s))
        PROVE  FALSE
    <3>1. k \in 1..Len(s) /\ l - Len(s) \in 1..Len(t)
      BY <1>1, <1>4, <2>3
    <3>2. s[k] = t[l - Len(s)]
      BY <1>2, <2>3
    <3>3. s[k] \in ToSet(s) /\ t[l - Len(s)] \in ToSet(t)
      BY <3>1, ListedNames
    <3> QED
      BY <3>2, <3>3
  <2> QED
    BY <1>5, <2>1, <2>2, <2>3
<1> QED
  BY <1>3, <1>5 DEF IsInjective, st

\* DeleteFirst takes the name off a list that names everybody once.
LEMMA DeleteFirstDeletes ==
    ASSUME ignore_list \in Seq(Names), IsInjective(ignore_list), NEW name
    PROVE  /\ DeleteFirst(name) \in Seq(Names)
           /\ ToSet(DeleteFirst(name)) = ToSet(ignore_list) \ {name}
           /\ IsInjective(DeleteFirst(name))
<1> DEFINE s == ignore_list
<1>0. Len(s) \in Nat /\ DOMAIN s = 1..Len(s)
  OBVIOUS
<1>1. CASE ~IsIgnored(name)
  <2>1. DeleteFirst(name) = s /\ name \notin ToSet(s)
    BY <1>1 DEF DeleteFirst, IsIgnored, ToSet
  <2> QED
    BY <2>1
<1>2. CASE IsIgnored(name)
  <2> DEFINE First(i) == s[i] = name /\ \A j \in 1..(i - 1) : s[j] # name
             i == CHOOSE i \in DOMAIN s : First(i)
             r == RemoveAt(s, i)
  <2>1. PICK k \in 1..Len(s) : s[k] = name
    BY <1>0, <1>2 DEF IsIgnored
  <2>2. First(k)
    BY <1>0, <2>1 DEF IsInjective
  <2>3. i \in 1..Len(s) /\ s[i] = name
    BY <1>0, <2>2
  <2>4. DeleteFirst(name) = r
    BY <1>2 DEF DeleteFirst
  <2> HIDE DEF i
  <2> DEFINE a == SubSeq(s, 1, i - 1)
             b == SubSeq(s, i + 1, Len(s))
  <2>5. r = a \o b
    BY DEF RemoveAt
  <2>6. /\ a \in Seq(Names) /\ Len(a) = i - 1
        /\ \A j \in 1..(i - 1) : a[j] = s[j]
    BY <1>0, <2>3, SubSeqProperties, ElementOfSeq
  <2>7. /\ b \in Seq(Names) /\ Len(b) = Len(s) - i
        /\ \A j \in 1..(Len(s) - i) : b[j] = s[j + i]
    <3>1. \A j \in (i + 1)..Len(s) : s[j] \in Names
      BY <1>0, <2>3, ElementOfSeq
    <3>2. /\ b \in Seq(Names)
          /\ Len(b) = IF i + 1 <= Len(s) THEN Len(s) - (i + 1) + 1 ELSE 0
          /\ \A j \in 1 .. Len(s) - (i + 1) + 1 : b[j] = s[(i + 1) + j - 1]
      BY <1>0, <2>3, <3>1, SubSeqProperties
    <3> HIDE DEF b, s
    <3>a. Len(b) = IF i + 1 <= Len(s) THEN Len(s) - (i + 1) + 1 ELSE 0
      BY <3>2
    <3>b. i \in Nat /\ i <= Len(s) /\ Len(s) \in Nat
      BY <1>0, <2>3
    <3>3. Len(b) = Len(s) - i /\ Len(s) - (i + 1) + 1 = Len(s) - i
      BY <3>a, <3>b
    <3>4. \A j \in 1..(Len(s) - i) : b[j] = s[j + i]
      <4> SUFFICES ASSUME NEW j \in 1..(Len(s) - i) PROVE b[j] = s[j + i]
        OBVIOUS
      <4>1. b[j] = s[(i + 1) + j - 1]
        BY <3>2, <3>3
      <4>2. (i + 1) + j - 1 = j + i
        BY <1>0, <2>3
      <4> QED
        BY <4>1, <4>2
    <3> QED
      BY <3>2, <3>3, <3>4
  <2> HIDE DEF r, a, b
  <2>8. r \in Seq(Names) /\ Len(r) = Len(s) - 1
    <3>1. a \o b \in Seq(Names) /\ Len(a \o b) = Len(a) + Len(b)
      BY <2>6, <2>7, ConcatProperties
    <3> QED
      BY <1>0, <2>3, <2>5, <2>6, <2>7, <3>1
  <2>9. \A j \in 1..(Len(s) - 1) : r[j] = IF j < i THEN s[j] ELSE s[j + 1]
    <3> SUFFICES ASSUME NEW j \in 1..(Len(s) - 1)
                 PROVE  r[j] = IF j < i THEN s[j] ELSE s[j + 1]
      OBVIOUS
    <3>1. r[j] = IF j <= Len(a) THEN a[j] ELSE b[j - Len(a)]
      <4>1. j \in 1..(Len(a) + Len(b))
        BY <1>0, <2>3, <2>6, <2>7
      <4> QED
        BY <2>5, <2>6, <2>7, <4>1, ConcatProperties
    <3>2. CASE j < i
      BY <1>0, <2>3, <2>6, <3>1, <3>2
    <3>3. CASE ~(j < i)
      <4>1. j - (i - 1) \in 1..(Len(s) - i)
        BY <1>0, <2>3, <3>3
      <4>2. r[j] = b[j - (i - 1)]
        BY <1>0, <2>3, <2>6, <3>1, <3>3
      <4>3. r[j] = s[j - (i - 1) + i]
        BY <2>7, <4>1, <4>2
      <4> QED
        BY <1>0, <2>3, <3>3, <4>3
    <3> QED
      BY <3>2, <3>3
  <2>10. ToSet(r) = ToSet(s) \ {name}
    <3>1. ASSUME NEW x \in ToSet(r)
          PROVE  x \in ToSet(s) \ {name}
      <4>1. PICK j \in 1..Len(r) : r[j] = x
        BY <2>8, <3>1, ListedNames
      <4>2. PICK l \in 1..Len(s) : l # i /\ s[l] = x
        BY <1>0, <2>3, <2>8, <2>9, <4>1
      <4>3. x # name
        BY <1>0, <2>3, <4>2 DEF IsInjective
      <4> QED
        BY <4>2, <4>3, ListedNames
    <3>2. ASSUME NEW x \in ToSet(s) \ {name}
          PROVE  x \in ToSet(r)
      <4>1. PICK l \in 1..Len(s) : s[l] = x
        BY <3>2, ListedNames
      <4>2. l # i
        BY <2>3, <3>2, <4>1
      <4>3. CASE l < i
        <5>1. l \in 1..Len(r) /\ r[l] = x
          BY <1>0, <2>3, <2>8, <2>9, <4>1, <4>3
        <5> QED
          BY <2>8, <5>1, ListedNames
      <4>4. CASE ~(l < i)
        <5>1. l - 1 \in 1..Len(r) /\ r[l - 1] = s[(l - 1) + 1]
          BY <1>0, <2>3, <2>8, <2>9, <4>2, <4>4
        <5>2. r[l - 1] = x
          BY <1>0, <4>1, <5>1
        <5> QED
          BY <2>8, <5>1, <5>2, ListedNames
      <4> QED
        BY <4>3, <4>4
    <3> QED
      BY <3>1, <3>2
  <2>11. IsInjective(r)
    <3>1. DOMAIN r = 1..(Len(s) - 1)
      BY <2>8
    <3>2. ASSUME NEW j \in 1..(Len(s) - 1), NEW l \in 1..(Len(s) - 1), r[j] = r[l]
          PROVE  j = l
      BY <1>0, <2>3, <2>9, <3>2 DEF IsInjective
    <3> QED
      BY <3>1, <3>2 DEF IsInjective
  <2> QED
    BY <2>4, <2>8, <2>10, <2>11 DEF r
<1> QED
  BY <1>1, <1>2

----------------------------------------------------------------------------
(* Types.                                                                   *)

LineType == [convo : Convos, author : People \cup {Me}, kind : Kinds]
SentType == [kind : {"PRI", "MSG", "LRP", "TPN", "RLL"}, to : Convos]

\* A line of a window of ours.
LEMMA LinesHaveType ==
    ASSUME NEW convo \in Convos, NEW author \in People \cup {Me}, NEW kind \in Kinds
    PROVE  Line(convo, author, kind) \in LineType
  BY DEF Line, LineType

LEMMA ConvosThereAre ==
    /\ Chat \in Convos
    /\ \A name \in People : Im(name) \in Convos /\ Im(name) # Chat /\ Im(name).name = name
    /\ Names \subseteq People /\ GLOBAL_NAME \in People
    /\ Me \notin Names /\ GLOBAL_NAME \notin Names /\ Me \notin People
  BY ConversationsAssumption DEF Convos, Chat, Im, People

\* Opening a private conversation, there or not.
LEMMA OpenedKeeps ==
    ASSUME TypeOK, NEW name \in People, Opened(name)
    PROVE  /\ windows' \subseteq Convos /\ windows \subseteq windows' /\ Im(name) \in windows'
           /\ group' \in [People -> Groups]
           /\ \A n \in People : group'[n] = "im" => group[n] = "im" \/ Im(n) \in windows'
  BY ConvosThereAre DEF TypeOK, Opened, Checked, Groups, ImGroup

\* A message that is shown, if it is, in the window it opens.
LEMMA GotImTypes ==
    ASSUME TypeOK, NEW name \in People, NEW author \in People \cup {Me}, NEW kind \in Kinds,
           GotIm(name, author, kind)
    PROVE  TypeOK'
<1>1. windows' \subseteq Convos /\ group' \in [People -> Groups]
  BY OpenedKeeps DEF GotIm
<1>2. Line(Im(name), author, kind) \in LineType
  BY LinesHaveType, ConvosThereAre
<1> QED
  BY <1>1, <1>2 DEF GotIm, Arrives, Silent, account, server, bounds, TypeOK, LineType

LEMMA NothingShownTypes == TypeOK /\ NothingShown => TypeOK'
  BY DEF NothingShown, Arrives, Silent, account, server, bounds, blist, TypeOK

LEMMA InChatTypes ==
    ASSUME TypeOK, NEW show, NEW author \in People \cup {Me}, NEW kind \in Kinds,
           InChat(show, author, kind)
    PROVE  TypeOK'
<1>1. Line(Chat, author, kind) \in LineType
  BY LinesHaveType, ConvosThereAre
<1> QED
  BY <1>1 DEF InChat, Arrives, Silent, account, server, bounds, blist, TypeOK, LineType

LEMMA WindowingTypes == TypeOK /\ Windowing => TypeOK'
<1> SUFFICES ASSUME TypeOK, Windowing PROVE TypeOK'
  OBVIOUS
<1> USE DEF account, server, bounds, blist, Quiet
<1>1. ASSUME NEW name \in People, OpenIm(name) PROVE TypeOK'
  <2>1. windows' \subseteq Convos /\ group' \in [People -> Groups]
    BY <1>1, OpenedKeeps DEF OpenIm
  <2> QED
    BY <1>1, <2>1 DEF OpenIm, TypeOK
<1>2. ASSUME NEW name \in People, CloseIm(name) PROVE TypeOK'
  BY <1>2 DEF CloseIm, Removed, TypeOK, Groups, ImGroup
<1>3. CASE ToggleChat
  BY <1>3, ConvosThereAre DEF ToggleChat, TypeOK
<1>4. ASSUME NEW found \in SUBSET Names, ApplyFilter(found) PROVE TypeOK'
  BY <1>4 DEF ApplyFilter, TypeOK, Groups
<1>5. ASSUME NEW name \in Names, NEW to \in Groups \ {"im"}, Rearrange(name, to)
      PROVE  TypeOK'
  BY <1>5 DEF Rearrange, TypeOK, Groups
<1> QED
  BY <1>1, <1>2, <1>3, <1>4, <1>5 DEF Windowing

LEMMA SessionTypes == TypeOK /\ (Login \/ LoginRefused \/ Close) => TypeOK'
<1> SUFFICES ASSUME TypeOK, Login \/ LoginRefused \/ Close PROVE TypeOK'
  OBVIOUS
<1> USE DEF account, server, bounds, blist, Quiet
<1>1. CASE Login
  <2>1. group' \in [People -> Groups]
    BY <1>1 DEF Login, Cleared, TypeOK, Groups, ImGroup
  <2>2. inbox' \in Seq(Requests)
    <3>1. [action |-> "init", characters |-> ignored] \in Requests
      BY DEF Requests, TypeOK
    <3> QED
      BY <1>1, <3>1 DEF Login
  <2>3. sessions' \in 0..MaxSessions
    BY <1>1, ConversationsAssumption DEF Login, TypeOK
  <2>4. ignore_list' \in Seq(Names) /\ max' \in [Variables -> {0, Limit}] /\ live' \in BOOLEAN
    BY <1>1 DEF Login
  <2> QED
    BY <1>1, <2>1, <2>2, <2>3, <2>4 DEF Login, TypeOK
<1>2. CASE Close
  <2>1. /\ live' = FALSE /\ ignore_list' = <<>> /\ saved' = Nowhere /\ requests' = <<>>
        /\ inbox' = <<>> /\ asked' = <<>> /\ lines' = {} /\ sent' = {}
        /\ UNCHANGED <<max, windows, group, ignored, made, sessions>>
    BY <1>2 DEF Close
  <2>2. /\ ignore_list' \in Seq(Names) /\ requests' \in Seq(Requests)
        /\ inbox' \in Seq(Requests)
        /\ asked' \in Seq([what : {"uptime", "kinks"}, convo : Convos])
    BY <2>1
  <2> QED
    BY <2>1, <2>2 DEF TypeOK
<1>3. CASE LoginRefused
  <2>1. sessions' \in 0..MaxSessions
    BY <1>3, ConversationsAssumption DEF LoginRefused, TypeOK
  <2> QED
    BY <1>3, <2>1 DEF LoginRefused, TypeOK
<1> QED
  BY <1>1, <1>2, <1>3

LEMMA RequestTypes ==
    ASSUME TypeOK, NEW action \in {"add", "delete"}, NEW name \in Names,
           RequestIgnore(action, name)
    PROVE  TypeOK'
<1>1. [action |-> action, characters |-> {name}] \in Requests
  BY DEF Requests
<1>2. requests' \in Seq(Requests)
  BY <1>1, AppendProperties DEF RequestIgnore, TypeOK
<1>3. made' \in 0..MaxRequests
  BY ConversationsAssumption DEF RequestIgnore, TypeOK
<1>4. /\ UNCHANGED <<live, ignore_list, max, saved, windows, group, ignored, inbox, asked>>
      /\ UNCHANGED sessions /\ lines' = {} /\ sent' = {}
  BY DEF RequestIgnore, account, blist, Quiet
<1> QED
  BY <1>2, <1>3, <1>4 DEF TypeOK


\* The messages whose handlers write a line or none.
LEMMA ReceivingTypes == TypeOK /\ Receiving => TypeOK'
<1> SUFFICES ASSUME TypeOK, Receiving PROVE TypeOK'
  OBVIOUS
<1> USE ConvosThereAre
<1>1. ASSUME NEW name \in Names, ProcessPRI(name) PROVE TypeOK'
  BY <1>1, GotImTypes, NothingShownTypes DEF ProcessPRI, Kinds
<1>2. ASSUME NEW name \in Names, ProcessTPN(name) PROVE TypeOK'
  <2>1. Line(Im(name), name, "typing") \in LineType
    BY LinesHaveType DEF Kinds
  <2>2. lines' \subseteq LineType
    BY <1>2, <2>1 DEF ProcessTPN, Arrives
  <2> QED
    BY <1>2, <2>2
       DEF ProcessTPN, Arrives, Silent, account, server, bounds, blist, TypeOK, LineType
<1>3. ASSUME NEW name \in People, ProcessSYS(name) PROVE TypeOK'
  BY <1>3, GotImTypes DEF ProcessSYS, Kinds
<1>4. ASSUME NEW name \in Names,
             ProcessPrivateRLL(name, Me) \/ ProcessPrivateRLL(Me, name)
      PROVE  TypeOK'
  BY <1>4, GotImTypes, NothingShownTypes DEF ProcessPrivateRLL, RollWindow, Kinds
<1>5. ASSUME NEW name \in Names, NEW show \in BOOLEAN,
             ProcessRLL(name, show) \/ ProcessLRP(name, show)
      PROVE  TypeOK'
  BY <1>5, InChatTypes DEF ProcessRLL, ProcessLRP, Kinds
<1>6. ASSUME NEW name \in Names, NEW show \in BOOLEAN, NEW warns \in BOOLEAN,
             NEW operator \in BOOLEAN, ProcessMSG(name, show, warns, operator)
      PROVE  TypeOK'
  BY <1>6, InChatTypes DEF ProcessMSG, Kinds
<1>7. CASE ProcessBRO
  BY <1>7, GotImTypes, NothingShownTypes DEF ProcessBRO, Kinds
<1>8. CASE ProcessChannelSYS
  BY <1>8, InChatTypes DEF ProcessChannelSYS, Kinds
<1>9. ASSUME NEW variable \in Told, ProcessVAR(variable) PROVE TypeOK'
  <2>1. max' \in [Variables -> {0, Limit}]
    BY <1>9 DEF ProcessVAR, TypeOK
  <2> QED
    BY <1>9, <2>1 DEF ProcessVAR, Quiet, blist, server, bounds, TypeOK
<1> QED
  BY <1>1, <1>2, <1>3, <1>4, <1>5, <1>6, <1>7, <1>8, <1>9 DEF Receiving

LEMMA SendingTypes == TypeOK /\ Sending => TypeOK'
<1> SUFFICES ASSUME TypeOK, Sending PROVE TypeOK'
  OBVIOUS
<1> DEFINE Still == UNCHANGED <<live, ignore_list, max, saved, windows, group, ignored,
                                requests, inbox, asked, made, sessions>>
<1>0. ASSUME Still, lines' \subseteq LineType, sent' \subseteq SentType PROVE TypeOK'
  BY <1>0 DEF TypeOK, LineType, SentType
<1>1. ASSUME NEW name \in People, NEW length \in Lengths, SendIm(name, length)
      PROVE  TypeOK'
  <2>1. Line(Im(name), Me, "say") \in LineType
    BY LinesHaveType, ConvosThereAre DEF Kinds
  <2>2. [kind |-> "PRI", to |-> Im(name)] \in SentType
    BY ConvosThereAre DEF SentType
  <2>3. lines' \subseteq LineType /\ sent' \subseteq SentType
    BY <1>1, <2>1, <2>2 DEF SendIm, Echo
  <2> QED
    BY <1>0, <1>1, <2>3 DEF SendIm, account, blist, server, bounds
<1>2. ASSUME NEW ad \in BOOLEAN, NEW length \in Lengths, SendChat(ad, length)
      PROVE  TypeOK'
  <2>1. Line(Chat, Me, IF ad THEN "ad" ELSE "say") \in LineType
    BY LinesHaveType, ConvosThereAre DEF Kinds
  <2>2. [kind |-> IF ad THEN "LRP" ELSE "MSG", to |-> Chat] \in SentType
    BY ConvosThereAre DEF SentType
  <2>3. lines' \subseteq LineType /\ sent' \subseteq SentType
    BY <1>2, <2>1, <2>2 DEF SendChat, Quiet
  <2> QED
    BY <1>0, <1>2, <2>3 DEF SendChat, account, blist, server, bounds
<1>3. ASSUME NEW operator \in BOOLEAN, NEW length \in Lengths, SendWarning(operator, length)
      PROVE  TypeOK'
  <2>1. Line(Chat, Me, "warning") \in LineType
    BY LinesHaveType, ConvosThereAre DEF Kinds
  <2>2. [kind |-> "MSG", to |-> Chat] \in SentType
    BY ConvosThereAre DEF SentType
  <2>3. lines' \subseteq LineType /\ sent' \subseteq SentType
    BY <1>3, <2>1, <2>2 DEF SendWarning, Quiet
  <2> QED
    BY <1>0, <1>3, <2>3 DEF SendWarning, account, blist, server, bounds
<1>4. ASSUME NEW kind \in {"TPN", "RLL"}, NEW convo \in Convos, SendSign(kind, convo)
      PROVE  TypeOK'
  <2>1. lines' \subseteq LineType /\ sent' \subseteq SentType
    BY <1>4 DEF SendSign, SentType
  <2> QED
    BY <1>0, <1>4, <2>1 DEF SendSign, account, blist, server, bounds
<1>5. ASSUME NEW what \in {"uptime", "kinks"}, NEW convo \in Convos, Ask(what, convo)
      PROVE  TypeOK'
  <2>1. asked' \in Seq([what : {"uptime", "kinks"}, convo : Convos])
    BY <1>5, AppendProperties DEF Ask, TypeOK
  <2>2. made' \in 0..MaxRequests
    BY <1>5, ConversationsAssumption DEF Ask, TypeOK
  <2>3. /\ UNCHANGED <<live, ignore_list, max, windows, group, ignored, requests, inbox>>
        /\ UNCHANGED sessions /\ lines' = {} /\ sent' = {} /\ saved' = convo
    BY <1>5 DEF Ask, blist, Quiet
  <2> QED
    BY <2>1, <2>2, <2>3 DEF TypeOK
<1>6. ASSUME NEW last \in BOOLEAN, Answer(last)
      PROVE  TypeOK'
  <2>1. asked' \in Seq([what : {"uptime", "kinks"}, convo : Convos])
    BY <1>6, HeadTailProperties DEF Answer, TypeOK
  <2>2. lines' \subseteq LineType
    <3>1. CASE saved \in windows
      <4>1. Line(saved, GLOBAL_NAME, "answer") \in LineType
        BY <3>1, LinesHaveType, ConvosThereAre DEF Kinds, TypeOK
      <4> QED
        BY <1>6, <3>1, <4>1 DEF Answer
    <3>2. CASE saved \notin windows
      BY <1>6, <3>2 DEF Answer
    <3> QED
      BY <3>1, <3>2
  <2>3. /\ UNCHANGED <<live, ignore_list, max, saved, windows, group, ignored, requests>>
        /\ UNCHANGED <<inbox, made, sessions>> /\ sent' = {}
    BY <1>6 DEF Answer, account, blist, bounds, Silent
  <2> QED
    BY <2>1, <2>2, <2>3 DEF TypeOK, LineType
<1> QED
  BY <1>1, <1>2, <1>3, <1>4, <1>5, <1>6 DEF Sending

----------------------------------------------------------------------------
(* The ignore list.  What a list will say of a character once the messages on
   their way are processed is what the last of them says that mentions the
   character, or what the list says now if none does.  The list itself counts
   as word 0.                                                                *)

Word(i) == IF i = 0 THEN [action |-> "init", characters |-> ToSet(ignore_list)]
                    ELSE inbox[i]

Mentions(m, name) == m.action = "init" \/ name \in m.characters

Lists(m, name) == name \in m.characters /\ m.action # "delete"

Says(i, name) == Lists(Word(i), name)

\* Of the first n words, the last one about name is word i.
LastWord(name, i, n) ==
    /\ i \in 0..n
    /\ Mentions(Word(i), name)
    /\ \A k \in (i + 1)..n : ~Mentions(Word(k), name)

\* The server acknowledges what changed its list: one character.
Acknowledgement(m) ==
    \E action \in {"add", "delete"}, name \in Names :
        m = [action |-> action, characters |-> {name}]

WellFormed ==
    /\ IsFiniteSet(ignored)
    /\ \A i \in 1..Len(requests) : Acknowledgement(requests[i])
    /\ \A i \in 1..Len(inbox) :
          \/ Acknowledgement(inbox[i])
          \/ inbox[i].action = "init" /\ IsFiniteSet(inbox[i].characters)
    /\ live \/ (requests = <<>> /\ inbox = <<>>)

\* The last word about a character is what the server's list says.
LastWordIsRight ==
    live => \A name \in Names : \A i \in 0..Len(inbox) :
        LastWord(name, i, Len(inbox)) => (Says(i, name) <=> name \in ignored)

\* Nobody is added who is listed already.
NobodyAddedTwice ==
    live => \A i \in 1..Len(inbox) : inbox[i].action = "add" =>
        \A name \in inbox[i].characters : \A j \in 0..(i - 1) :
            LastWord(name, j, i - 1) => ~Says(j, name)

IgnoreInv ==
    /\ TypeOK
    /\ WellFormed
    /\ LastWordIsRight
    /\ NobodyAddedTwice
    /\ IsInjective(ignore_list)

\* An acknowledgement is of one character.
LEMMA AcknowledgementIsOne ==
    ASSUME NEW m, Acknowledgement(m)
    PROVE  /\ m.action \in {"add", "delete"}
           /\ \E name \in Names : m.characters = {name}
           /\ IsFiniteSet(m.characters)
           /\ m \in Requests
<1>1. PICK action \in {"add", "delete"}, name \in Names :
         m = [action |-> action, characters |-> {name}]
  BY DEF Acknowledgement
<1>2. m.action = action /\ m.characters = {name} /\ m \in Requests
  BY <1>1 DEF Requests
<1> QED
  BY <1>2, FS_Singleton

LEMMA IgnoreInit == Init => IgnoreInv
<1> SUFFICES ASSUME Init PROVE IgnoreInv
  OBVIOUS
<1>1. TypeOK
  <2>1. /\ ignore_list \in Seq(Names) /\ requests \in Seq(Requests) /\ inbox \in Seq(Requests)
        /\ asked \in Seq([what : {"uptime", "kinks"}, convo : Convos])
    BY DEF Init
  <2>2. made \in 0..MaxRequests /\ sessions \in 0..MaxSessions
    BY ConversationsAssumption DEF Init
  <2>3. group \in [People -> Groups] /\ max \in [Variables -> {0, Limit}]
    BY DEF Init, Groups
  <2> QED
    BY <2>1, <2>2, <2>3 DEF Init, TypeOK
<1>2. WellFormed /\ LastWordIsRight /\ NobodyAddedTwice /\ IsInjective(ignore_list)
  BY DEF Init, WellFormed, LastWordIsRight, NobodyAddedTwice, IsInjective
<1> QED
  BY <1>1, <1>2 DEF IgnoreInv

lists == <<live, ignore_list, ignored, requests, inbox>>

\* Five actions have to do with the lists.
LEMMA ListSteps ==
    [Next]_vars => \/ Login \/ Close \/ ServeIgnore \/ ProcessIGN
                   \/ \E action \in {"add", "delete"}, name \in Names :
                         RequestIgnore(action, name)
                   \/ UNCHANGED lists
<1> SUFFICES ASSUME [Next]_vars
             PROVE  \/ Login \/ Close \/ ServeIgnore \/ ProcessIGN
                    \/ \E action \in {"add", "delete"}, name \in Names :
                          RequestIgnore(action, name)
                    \/ UNCHANGED lists
  OBVIOUS
<1> USE DEF lists, account, server, blist, bounds
<1>1. CASE Windowing
  BY <1>1 DEF Windowing, OpenIm, CloseIm, ToggleChat, ApplyFilter, Rearrange
<1>2. CASE Ignoring
  BY <1>2 DEF Ignoring, IgnoreCommand, IgnoreMenuItem
<1>3. CASE Receiving
  <2>1. (\E written : Arrives(written)) \/ \E variable \in Told : ProcessVAR(variable)
    BY <1>3 DEF Receiving, ProcessPRI, ProcessTPN, ProcessSYS, ProcessPrivateRLL,
                ProcessRLL, ProcessLRP, ProcessMSG, ProcessBRO, ProcessChannelSYS,
                GotIm, NothingShown, InChat
  <2> QED
    BY <2>1 DEF Arrives, ProcessVAR
<1>4. CASE Sending
  BY <1>4 DEF Sending, SendIm, SendChat, SendWarning, SendSign, Ask, Answer
<1>5. CASE LoginRefused \/ UNCHANGED vars
  BY <1>5 DEF LoginRefused, vars
<1> QED
  BY <1>1, <1>2, <1>3, <1>4, <1>5 DEF Next

\* What becomes of the words when the first message is processed.
LEMMA WordsShift ==
    ASSUME TypeOK, WellFormed, IsInjective(ignore_list), NobodyAddedTwice, live, ProcessIGN
    PROVE  LET m == inbox[1]
           IN  /\ inbox' \in Seq(Requests) /\ Len(inbox) \in Nat /\ Len(inbox) >= 1
               /\ Len(inbox') = Len(inbox) - 1
               /\ \A i \in 1..Len(inbox') : inbox'[i] = inbox[i + 1]
               /\ ignore_list' \in Seq(Names)
               /\ IsInjective(ignore_list')
               /\ \A name \in Names : name \in ToSet(ignore_list') <=>
                     IF Mentions(m, name) THEN Lists(m, name) ELSE name \in ToSet(ignore_list)
<1> DEFINE m == inbox[1]
<1>1. /\ inbox # <<>> /\ inbox \in Seq(Requests) /\ ignore_list \in Seq(Names)
      /\ inbox' = Tail(inbox) /\ Head(inbox) = m
  BY DEF ProcessIGN, TypeOK
<1>2. /\ Len(inbox) \in Nat /\ Len(inbox) >= 1 /\ m \in Requests
      /\ inbox' \in Seq(Requests) /\ Len(inbox') = Len(inbox) - 1
      /\ \A i \in 1..Len(inbox') : inbox'[i] = inbox[i + 1]
  <2>1. Len(inbox) \in Nat /\ Len(inbox) >= 1 /\ DOMAIN inbox = 1..Len(inbox)
    BY <1>1
  <2>2. m \in Requests
    BY <1>1, <2>1
  <2>3. /\ Tail(inbox) \in Seq(Requests) /\ Len(Tail(inbox)) = Len(inbox) - 1
        /\ \A i \in 1..Len(Tail(inbox)) : Tail(inbox)[i] = inbox[i + 1]
    BY <1>1, HeadTailProperties
  <2> QED
    BY <1>1, <2>1, <2>2, <2>3
<1>3. m.characters \subseteq Names /\ m.action \in {"init", "add", "delete"}
  BY <1>2 DEF Requests
<1>4. Acknowledgement(m) \/ (m.action = "init" /\ IsFiniteSet(m.characters))
  BY <1>2 DEF WellFormed
<1> HIDE DEF m
<1>5. IsFiniteSet(m.characters)
  BY <1>4, AcknowledgementIsOne
<1>6. /\ SetToSeq(m.characters) \in Seq(Names)
      /\ ToSet(SetToSeq(m.characters)) = m.characters
      /\ IsInjective(SetToSeq(m.characters))
  BY <1>3, <1>5, SetToSeqLists, SeqMonotonic
<1> DEFINE Done == /\ ignore_list' \in Seq(Names)
                   /\ IsInjective(ignore_list')
                   /\ \A name \in Names : name \in ToSet(ignore_list') <=>
                         IF Mentions(m, name) THEN Lists(m, name)
                         ELSE name \in ToSet(ignore_list)
<1>7. ASSUME m.action = "init" PROVE Done
  <2>1. ignore_list' = SetToSeq(m.characters)
    BY <1>1, <1>7 DEF ProcessIGN, InitReplaces
  <2> QED
    BY <1>6, <1>7, <2>1 DEF Mentions, Lists
<1>8. ASSUME m.action = "add" PROVE Done
  <2>1. ignore_list' = ignore_list \o SetToSeq(m.characters)
    BY <1>1, <1>8 DEF ProcessIGN
  <2>2. ToSet(ignore_list) \cap m.characters = {}
    <3> SUFFICES ASSUME NEW name \in m.characters, name \in ToSet(ignore_list)
                 PROVE  FALSE
      OBVIOUS
    <3>1. LastWord(name, 0, 1 - 1)
      BY DEF LastWord, Mentions, Word
    <3>2. Says(0, name)
      BY DEF Lists, Word, Says
    <3>3. 1 \in 1..Len(inbox) /\ 0 \in 0..(1 - 1) /\ inbox[1].action = "add"
          /\ name \in inbox[1].characters
      BY <1>2, <1>8 DEF m
    <3>4. ~Says(0, name)
      BY <3>1, <3>3 DEF NobodyAddedTwice
    <3> QED
      BY <3>2, <3>4
  <2>3. IsInjective(ignore_list')
    <3>1. ToSet(ignore_list) \cap ToSet(SetToSeq(m.characters)) = {}
      BY <1>6, <2>2
    <3> QED
      BY <1>1, <1>6, <2>1, <3>1, TwoLists
  <2>4. ignore_list' \in Seq(Names)
    BY <1>1, <1>6, <2>1, ConcatProperties
  <2>5. ToSet(ignore_list') = ToSet(ignore_list) \cup m.characters
    <3>1. Range(ignore_list') = Range(ignore_list) \cup Range(SetToSeq(m.characters))
      BY <1>1, <1>6, <2>1, RangeConcatenation
    <3>2. \A s : Range(s) = ToSet(s)
      BY DEF Range, ToSet
    <3> QED
      BY <1>6, <3>1, <3>2
  <2> QED
    BY <1>8, <2>3, <2>4, <2>5 DEF Mentions, Lists
<1>9. ASSUME m.action = "delete" PROVE Done
  <2>1. PICK x \in Names : m.characters = {x}
    BY <1>4, <1>9, AcknowledgementIsOne
  <2>2. ignore_list' = DeleteFirst(x)
    BY <1>1, <1>9, <2>1 DEF ProcessIGN
  <2>3. /\ ignore_list' \in Seq(Names) /\ IsInjective(ignore_list')
        /\ ToSet(ignore_list') = ToSet(ignore_list) \ {x}
    BY <1>1, <2>2, DeleteFirstDeletes
  <2> QED
    BY <1>9, <2>1, <2>3 DEF Mentions, Lists
<1> QED
  BY <1>2, <1>3, <1>7, <1>8, <1>9 DEF m

\* The last word after a message is processed is one there was before.
LEMMA LastWordShifts ==
    ASSUME TypeOK, WellFormed, IsInjective(ignore_list), NobodyAddedTwice, live, ProcessIGN,
           NEW name \in Names, NEW n \in 0..Len(inbox'), NEW i \in 0..n,
           LastWord(name, i, n)'
    PROVE  \E k \in 0..(n + 1) : /\ LastWord(name, k, n + 1)
                                 /\ Says(i, name)' <=> Says(k, name)
<1>1. /\ Len(inbox) \in Nat /\ Len(inbox) >= 1 /\ Len(inbox') = Len(inbox) - 1
      /\ \A k \in 1..Len(inbox') : inbox'[k] = inbox[k + 1]
      /\ name \in ToSet(ignore_list') <=>
            IF Mentions(inbox[1], name) THEN Lists(inbox[1], name)
            ELSE name \in ToSet(ignore_list)
  BY WordsShift
<1>2. n \in Nat /\ n <= Len(inbox')
  BY <1>1
<1>3. \A k \in 1..n : Word(k)' = Word(k + 1)
  BY <1>1, <1>2 DEF Word
<1>4. /\ Mentions(Word(i)', name)
      /\ \A k \in (i + 1)..n : ~Mentions(Word(k)', name)
      /\ Says(i, name)' <=> Lists(Word(i)', name)
      /\ \A k : Says(k, name) <=> Lists(Word(k), name)
  BY DEF LastWord, Mentions, Lists, Says
<1>5. \A k \in (i + 2)..(n + 1) : ~Mentions(Word(k), name)
  <2> SUFFICES ASSUME NEW k \in (i + 2)..(n + 1) PROVE ~Mentions(Word(k), name)
    OBVIOUS
  <2>1. k - 1 \in (i + 1)..n /\ k - 1 \in 1..n /\ (k - 1) + 1 = k
    BY <1>2
  <2> QED
    BY <1>3, <1>4, <2>1
<1>6. CASE i # 0
  <2>1. i \in 1..n /\ i + 1 \in 0..(n + 1) /\ (i + 1) + 1 = i + 2
    BY <1>2, <1>6
  <2>2. Word(i)' = Word(i + 1)
    BY <1>3, <2>1
  <2>3. LastWord(name, i + 1, n + 1)
    BY <1>4, <1>5, <2>1, <2>2 DEF LastWord
  <2> QED
    BY <1>4, <2>1, <2>2, <2>3
<1>7. CASE i = 0
  <2>1. Says(i, name)' <=> name \in ToSet(ignore_list')
    BY <1>7 DEF Word, Lists, Says
  <2>2. Word(1) = inbox[1] /\ Mentions(Word(0), name)
        /\ (Says(0, name) <=> name \in ToSet(ignore_list))
    BY DEF Word, Lists, Mentions, Says
  <2>3. CASE Mentions(Word(1), name)
    <3>1. LastWord(name, 1, n + 1)
      BY <1>2, <1>5, <1>7, <2>3 DEF LastWord
    <3> QED
      BY <1>1, <1>2, <1>4, <2>1, <2>2, <2>3, <3>1
  <2>4. CASE ~Mentions(Word(1), name)
    <3>1. \A k \in (0 + 1)..(n + 1) : ~Mentions(Word(k), name)
      BY <1>2, <1>5, <1>7, <2>4
    <3>2. LastWord(name, 0, n + 1)
      BY <1>2, <2>2, <3>1 DEF LastWord
    <3> QED
      BY <1>1, <1>2, <2>1, <2>2, <2>4, <3>2
  <2> QED
    BY <2>3, <2>4
<1> QED
  BY <1>6, <1>7

LEMMA ProcessIGNKeeps == IgnoreInv /\ ProcessIGN => IgnoreInv'
<1> SUFFICES ASSUME IgnoreInv, ProcessIGN PROVE IgnoreInv'
  OBVIOUS
<1>1. TypeOK /\ WellFormed /\ LastWordIsRight /\ NobodyAddedTwice /\ IsInjective(ignore_list)
  BY DEF IgnoreInv
<1>2. live
  BY <1>1 DEF WellFormed, ProcessIGN
<1>3. /\ inbox' \in Seq(Requests) /\ Len(inbox) \in Nat /\ Len(inbox) >= 1
      /\ Len(inbox') = Len(inbox) - 1
      /\ \A i \in 1..Len(inbox') : inbox'[i] = inbox[i + 1]
      /\ ignore_list' \in Seq(Names)
      /\ IsInjective(ignore_list')
  BY <1>1, <1>2, WordsShift
<1>4. /\ UNCHANGED <<live, max, saved, windows, group, ignored, requests, asked>>
      /\ UNCHANGED <<made, sessions>> /\ lines' = {} /\ sent' = {}
  BY DEF ProcessIGN, Quiet, blist, bounds
<1>5. TypeOK'
  BY <1>1, <1>3, <1>4 DEF TypeOK
<1>6. WellFormed'
  <2>1. \A i \in 1..Len(inbox') : i + 1 \in 1..Len(inbox)
    BY <1>3
  <2>2. \A i \in 1..Len(inbox') :
           \/ Acknowledgement(inbox'[i])
           \/ inbox'[i].action = "init" /\ IsFiniteSet(inbox'[i].characters)
    BY <1>1, <1>3, <2>1 DEF WellFormed
  <2> QED
    BY <1>1, <1>2, <1>4, <2>2 DEF WellFormed, Acknowledgement
<1>7. LastWordIsRight'
  <2>0. PICK n \in Nat : n = Len(inbox')
    BY <1>3
  <2> SUFFICES ASSUME NEW name \in Names, NEW i \in 0..n, LastWord(name, i, n)'
               PROVE  Says(i, name)' <=> name \in ignored'
    BY <2>0 DEF LastWordIsRight
  <2>1. n \in 0..Len(inbox') /\ n + 1 = Len(inbox)
    BY <1>3, <2>0
  <2>2. PICK k \in 0..(n + 1) : /\ LastWord(name, k, n + 1)
                                /\ Says(i, name)' <=> Says(k, name)
    BY <1>1, <1>2, <2>1, LastWordShifts
  <2>3. Says(k, name) <=> name \in ignored
    BY <1>1, <1>2, <2>1, <2>2 DEF LastWordIsRight
  <2> QED
    BY <1>4, <2>2, <2>3
<1>8. NobodyAddedTwice'
  <2> SUFFICES ASSUME NEW i \in 1..Len(inbox'), inbox'[i].action = "add",
                      NEW name \in inbox'[i].characters, NEW j \in 0..(i - 1),
                      LastWord(name, j, i - 1)'
               PROVE  ~(Says(j, name)')
    BY DEF NobodyAddedTwice
  <2>1. /\ inbox[i + 1].action = "add" /\ name \in inbox[i + 1].characters
        /\ i + 1 \in 1..Len(inbox) /\ i - 1 \in 0..Len(inbox') /\ (i - 1) + 1 = (i + 1) - 1
        /\ i \in Nat
    BY <1>3
  <2>2. name \in Names
    <3>1. inbox'[i] \in Requests
      BY <1>3
    <3> QED
      BY <3>1 DEF Requests
  <2>3. PICK k \in 0..((i - 1) + 1) : /\ LastWord(name, k, (i - 1) + 1)
                                      /\ Says(j, name)' <=> Says(k, name)
    BY <1>1, <1>2, <2>1, <2>2, LastWordShifts
  <2>4. ~Says(k, name)
    BY <1>1, <1>2, <2>1, <2>3 DEF NobodyAddedTwice
  <2> QED
    BY <2>3, <2>4
<1> QED
  BY <1>3, <1>5, <1>6, <1>7, <1>8 DEF IgnoreInv

\* What the server adds to the messages is the last word about one character.
LEMMA ServeIgnoreKeeps == IgnoreInv /\ ServeIgnore => IgnoreInv'
<1> SUFFICES ASSUME IgnoreInv, ServeIgnore PROVE IgnoreInv'
  OBVIOUS
<1>1. TypeOK /\ WellFormed /\ LastWordIsRight /\ NobodyAddedTwice /\ IsInjective(ignore_list)
  BY DEF IgnoreInv
<1>2. /\ UNCHANGED <<live, ignore_list, max, saved, windows, group, asked, made, sessions>>
      /\ lines' = {} /\ sent' = {} /\ requests # <<>> /\ requests' = Tail(requests)
  BY DEF ServeIgnore, account, blist, bounds, Quiet
<1>3. live
  BY <1>1, <1>2 DEF WellFormed
<1>4. /\ requests' \in Seq(Requests) /\ Len(requests) \in Nat /\ Len(requests) >= 1
      /\ Len(requests') = Len(requests) - 1
      /\ \A i \in 1..Len(requests') : requests'[i] = requests[i + 1]
      /\ Head(requests) = requests[1]
  <2>1. requests \in Seq(Requests)
    BY <1>1 DEF TypeOK
  <2>2. Len(requests) \in Nat /\ Len(requests) >= 1 /\ Head(requests) = requests[1]
    BY <1>2, <2>1
  <2> QED
    BY <1>2, <2>1, <2>2, HeadTailProperties
<1>5. PICK action \in {"add", "delete"}, x \in Names :
         Head(requests) = [action |-> action, characters |-> {x}]
  <2>1. 1 \in 1..Len(requests) /\ Head(requests) = requests[1]
    BY <1>4
  <2>2. Acknowledgement(requests[1])
    BY <1>1, <2>1 DEF WellFormed
  <2> QED
    BY <2>1, <2>2 DEF Acknowledgement
<1> DEFINE request == [action |-> action, characters |-> {x}]
<1>6. /\ ignored' = IF action = "add" THEN ignored \cup {x} ELSE ignored \ {x}
      /\ inbox' = IF ignored' = ignored THEN inbox ELSE Append(inbox, request)
  <2>1. /\ Head(requests).action = action /\ Head(requests).characters = {x}
        /\ Head(requests) = request
    BY <1>5
  <2>2. LET changed == IF action = "add" THEN ignored \cup {x} ELSE ignored \ {x}
        IN  /\ ignored' = changed
            /\ inbox' = IF changed = ignored THEN inbox ELSE Append(inbox, request)
    BY <2>1 DEF ServeIgnore
  <2> QED
    BY <2>2
<1>7. ignored' \subseteq Names /\ IsFiniteSet(ignored')
  <2>1. ignored \subseteq Names /\ IsFiniteSet(ignored)
    BY <1>1 DEF TypeOK, WellFormed
  <2>2. IsFiniteSet(ignored \cup {x}) /\ IsFiniteSet(ignored \ {x})
    BY <2>1, FS_AddElement, FS_RemoveElement
  <2> QED
    BY <1>6, <2>1, <2>2
<1>8. request \in Requests /\ Acknowledgement(request)
  BY DEF Requests, Acknowledgement
<1>9. \A i \in 1..Len(requests') : Acknowledgement(requests'[i])
  <2>1. \A i \in 1..Len(requests') : i + 1 \in 1..Len(requests)
    BY <1>4
  <2> QED
    BY <1>1, <1>4, <2>1 DEF WellFormed
<1>10. CASE ignored' = ignored
  <2>1. UNCHANGED <<inbox, ignored>>
    BY <1>6, <1>10
  <2>2. TypeOK'
    BY <1>1, <1>2, <1>4, <2>1 DEF TypeOK
  <2>3. WellFormed'
    BY <1>1, <1>2, <1>3, <1>9, <2>1 DEF WellFormed, Acknowledgement
  <2>4. LastWordIsRight' /\ NobodyAddedTwice'
    BY <1>1, <1>2, <2>1
       DEF LastWordIsRight, NobodyAddedTwice, LastWord, Word, Says, Lists, Mentions
  <2> QED
    BY <1>1, <1>2, <2>2, <2>3, <2>4 DEF IgnoreInv
<1>11. CASE ignored' # ignored
  <2>1. inbox' = Append(inbox, request) /\ inbox \in Seq(Requests)
    BY <1>1, <1>6, <1>11 DEF TypeOK
  <2>2. PICK n \in Nat : n = Len(inbox)
    BY <2>1
  <2>3. /\ inbox' \in Seq(Requests) /\ Len(inbox') = n + 1 /\ inbox'[n + 1] = request
        /\ \A i \in 1..n : inbox'[i] = inbox[i]
    BY <1>8, <2>1, <2>2, AppendProperties
  <2> HIDE DEF request
  <2>4. request.action = action /\ request.characters = {x}
    BY DEF request
  <2>5. x \in ignored' <=> x \notin ignored
    BY <1>6, <1>11
  <2>6. action = "add" <=> x \in ignored'
    BY <1>6
  <2>7. \A name \in Names : name # x => (name \in ignored' <=> name \in ignored)
    BY <1>6
  <2>8. TypeOK'
    BY <1>1, <1>2, <1>4, <1>7, <2>3 DEF TypeOK
  <2>9. WellFormed'
    <3>1. \A i \in 1..Len(inbox') :
             \/ Acknowledgement(inbox'[i])
             \/ inbox'[i].action = "init" /\ IsFiniteSet(inbox'[i].characters)
      <4> SUFFICES ASSUME NEW i \in 1..(n + 1)
                   PROVE  \/ Acknowledgement(inbox'[i])
                          \/ inbox'[i].action = "init" /\ IsFiniteSet(inbox'[i].characters)
        BY <2>3
      <4>1. CASE i \in 1..n
        BY <1>1, <2>2, <2>3, <4>1 DEF WellFormed
      <4>2. CASE i = n + 1
        BY <1>8, <2>3, <4>2
      <4> QED
        BY <4>1, <4>2
    <3> QED
      BY <1>2, <1>3, <1>7, <1>9, <3>1 DEF WellFormed, Acknowledgement
  <2>10. \A i \in 0..n : Word(i)' = Word(i)
    BY <1>2, <2>2, <2>3 DEF Word
  <2>11. Word(n + 1)' = request
    BY <2>2, <2>3 DEF Word
  <2>12. ASSUME NEW name, NEW i \in 0..n
         PROVE  Says(i, name)' <=> Says(i, name)
    BY <2>10 DEF Says, Lists
  <2>13. ASSUME NEW name, NEW m \in 0..n, NEW i \in 0..m, LastWord(name, i, m)'
         PROVE  LastWord(name, i, m)
    <3>1. /\ Mentions(Word(i)', name)
          /\ \A k \in (i + 1)..m : ~Mentions(Word(k)', name)
      BY <2>13 DEF LastWord, Mentions
    <3>2. \A k \in i..m : Word(k)' = Word(k)
      BY <2>10
    <3> QED
      BY <3>1, <3>2 DEF LastWord
  <2>14. LastWordIsRight'
    <3> SUFFICES ASSUME NEW name \in Names, NEW i \in 0..(n + 1), LastWord(name, i, n + 1)'
                 PROVE  Says(i, name)' <=> name \in ignored'
      BY <2>3 DEF LastWordIsRight
    <3>1. /\ Mentions(Word(i)', name)
          /\ \A k \in (i + 1)..(n + 1) : ~Mentions(Word(k)', name)
      BY DEF LastWord, Mentions
    <3>2. CASE i = n + 1
      <4>1. name = x
        BY <2>4, <2>11, <3>1, <3>2 DEF Mentions
      <4>2. Says(i, name)' <=> action = "add"
        BY <2>4, <2>11, <3>2, <4>1 DEF Says, Lists
      <4> QED
        BY <2>6, <4>1, <4>2
    <3>3. CASE i \in 0..n
      <4>1. name # x
        <5>1. n + 1 \in (i + 1)..(n + 1)
          BY <3>3
        <5>2. ~Mentions(request, name)
          BY <2>11, <3>1, <5>1
        <5> QED
          BY <2>4, <5>2 DEF Mentions
      <4>2. LastWord(name, i, n)'
        BY <3>1, <3>3 DEF LastWord, Mentions
      <4>3. LastWord(name, i, n)
        BY <2>13, <3>3, <4>2
      <4>4. Says(i, name) <=> name \in ignored
        BY <1>1, <1>3, <2>2, <3>3, <4>3 DEF LastWordIsRight
      <4> QED
        BY <2>7, <2>12, <3>3, <4>1, <4>4
    <3> QED
      BY <3>2, <3>3
  <2>15. NobodyAddedTwice'
    <3> SUFFICES ASSUME NEW i \in 1..(n + 1), inbox'[i].action = "add",
                        NEW name \in inbox'[i].characters, NEW j \in 0..(i - 1),
                        LastWord(name, j, i - 1)'
                 PROVE  ~(Says(j, name)')
      BY <2>3 DEF NobodyAddedTwice
    <3>1. i - 1 \in 0..n /\ j \in 0..n
      OBVIOUS
    <3>2. LastWord(name, j, i - 1) /\ (Says(j, name)' <=> Says(j, name))
      BY <2>12, <2>13, <3>1
    <3>3. CASE i = n + 1
      <4>1. name = x /\ x \in ignored'
        BY <2>3, <2>4, <2>6, <3>3
      <4>2. i - 1 = Len(inbox) /\ j \in 0..Len(inbox)
        BY <2>2, <3>1, <3>3
      <4>3. Says(j, name) <=> name \in ignored
        BY <1>1, <1>3, <3>2, <4>1, <4>2 DEF LastWordIsRight
      <4> QED
        BY <2>5, <3>2, <4>1, <4>3
    <3>4. CASE i \in 1..n
      <4>1. inbox[i].action = "add" /\ name \in inbox[i].characters /\ i \in 1..Len(inbox)
        BY <2>2, <2>3, <3>4
      <4> QED
        BY <1>1, <1>3, <3>2, <4>1 DEF NobodyAddedTwice
    <3> QED
      BY <3>3, <3>4
  <2> QED
    BY <1>1, <1>2, <2>8, <2>9, <2>14, <2>15 DEF IgnoreInv
<1> QED
  BY <1>10, <1>11

LEMMA RequestKeeps ==
    ASSUME IgnoreInv, NEW action \in {"add", "delete"}, NEW name \in Names,
           RequestIgnore(action, name)
    PROVE  IgnoreInv'
<1> DEFINE request == [action |-> action, characters |-> {name}]
<1>1. TypeOK' /\ requests \in Seq(Requests)
  BY RequestTypes DEF IgnoreInv, TypeOK
<1>2. /\ UNCHANGED <<live, ignore_list, ignored, inbox>> /\ live
      /\ requests' = Append(requests, request)
  BY DEF RequestIgnore, account
<1>3. request \in Requests /\ Acknowledgement(request)
  BY DEF Requests, Acknowledgement
<1>4. PICK n \in Nat : n = Len(requests)
  BY <1>1
<1> HIDE DEF request
<1>5. /\ Len(requests') = n + 1 /\ requests'[n + 1] = request
      /\ \A i \in 1..n : requests'[i] = requests[i]
  BY <1>1, <1>2, <1>3, <1>4, AppendProperties
<1>6. \A i \in 1..Len(requests') : Acknowledgement(requests'[i])
  <2> SUFFICES ASSUME NEW i \in 1..(n + 1) PROVE Acknowledgement(requests'[i])
    BY <1>5
  <2>1. CASE i \in 1..n
    BY <1>4, <1>5, <2>1 DEF IgnoreInv, WellFormed
  <2>2. CASE i = n + 1
    BY <1>3, <1>5, <2>2
  <2> QED
    BY <2>1, <2>2
<1>7. WellFormed'
  BY <1>2, <1>6 DEF IgnoreInv, WellFormed, Acknowledgement
<1>8. LastWordIsRight' /\ NobodyAddedTwice'
  BY <1>2 DEF IgnoreInv, LastWordIsRight, NobodyAddedTwice, LastWord, Word, Says, Lists,
              Mentions
<1> QED
  BY <1>1, <1>2, <1>7, <1>8 DEF IgnoreInv

\* A session begins with the whole of the server's list.
LEMMA LoginKeeps == IgnoreInv /\ Login => IgnoreInv'
<1> SUFFICES ASSUME IgnoreInv, Login PROVE IgnoreInv'
  OBVIOUS
<1> DEFINE init == [action |-> "init", characters |-> ignored]
<1>1. TypeOK'
  BY SessionTypes DEF IgnoreInv
<1>2. /\ live' = TRUE /\ ignore_list' = <<>> /\ inbox' = <<init>> /\ UNCHANGED ignored
      /\ requests' = <<>>
  BY DEF Login, IgnoreInv, WellFormed
<1>3. Len(inbox') = 1 /\ inbox'[1] = init /\ Len(requests') = 0
  BY <1>2
<1>4. init.action = "init" /\ init.characters = ignored
  OBVIOUS
<1> HIDE DEF init
<1>5. WellFormed'
  BY <1>2, <1>3, <1>4 DEF IgnoreInv, WellFormed, Acknowledgement
<1>6. Word(1)' = init
  BY <1>3 DEF Word
<1>7. LastWordIsRight'
  <2> SUFFICES ASSUME NEW name \in Names, NEW i \in 0..1, LastWord(name, i, 1)'
               PROVE  Says(i, name)' <=> name \in ignored'
    BY <1>3 DEF LastWordIsRight
  <2>1. i = 1
    <3>1. \A k \in (i + 1)..1 : ~Mentions(Word(k)', name)
      BY DEF LastWord, Mentions
    <3>2. Mentions(Word(1)', name)
      BY <1>4, <1>6 DEF Mentions
    <3> QED
      BY <3>1, <3>2
  <2> QED
    BY <1>2, <1>4, <1>6, <2>1 DEF Says, Lists
<1>8. NobodyAddedTwice'
  BY <1>3, <1>4 DEF NobodyAddedTwice
<1> QED
  BY <1>1, <1>2, <1>5, <1>7, <1>8 DEF IgnoreInv, IsInjective

LEMMA IgnoreStep == IgnoreInv /\ [Next]_vars => IgnoreInv'
<1> SUFFICES ASSUME IgnoreInv, [Next]_vars PROVE IgnoreInv'
  OBVIOUS
<1>1. CASE Close
  <2>1. TypeOK'
    BY <1>1, SessionTypes DEF IgnoreInv
  <2>2. /\ live' = FALSE /\ ignore_list' = <<>> /\ requests' = <<>> /\ inbox' = <<>>
        /\ UNCHANGED ignored
    BY <1>1 DEF Close
  <2>3. Len(requests') = 0 /\ Len(inbox') = 0
    BY <2>2
  <2>4. WellFormed'
    BY <2>2, <2>3 DEF IgnoreInv, WellFormed
  <2>5. IsInjective(ignore_list')
    BY <2>2 DEF IsInjective
  <2>6. LastWordIsRight' /\ NobodyAddedTwice'
    BY <2>2 DEF LastWordIsRight, NobodyAddedTwice
  <2> QED
    BY <2>1, <2>4, <2>5, <2>6 DEF IgnoreInv
<1>2. CASE UNCHANGED lists
  <2>0. /\ live' = live /\ ignore_list' = ignore_list /\ ignored' = ignored
        /\ requests' = requests /\ inbox' = inbox
        /\ WellFormed /\ LastWordIsRight /\ NobodyAddedTwice /\ IsInjective(ignore_list)
    BY <1>2 DEF lists, IgnoreInv
  <2>1. WellFormed' /\ IsInjective(ignore_list')
    BY <2>0 DEF WellFormed, Acknowledgement
  <2>3. LastWordIsRight'
    BY <2>0 DEF LastWordIsRight, LastWord, Word, Says, Lists, Mentions
  <2>4. NobodyAddedTwice'
    BY <2>0 DEF NobodyAddedTwice, LastWord, Word, Says, Lists, Mentions
  <2>2. TypeOK'
    <3>1. CASE Windowing \/ Receiving \/ Sending
      BY <3>1, WindowingTypes, ReceivingTypes, SendingTypes DEF IgnoreInv
    <3>2. CASE Login \/ LoginRefused \/ Close \/ Ignoring
      BY <3>2, LoginKeeps, SessionTypes, ProcessIGNKeeps, ServeIgnoreKeeps, RequestKeeps
         DEF Ignoring, IgnoreCommand, IgnoreMenuItem, IgnoreInv
    <3>3. CASE UNCHANGED vars
      BY <3>3 DEF vars, IgnoreInv, TypeOK
    <3> QED
      BY <3>1, <3>2, <3>3 DEF Next
  <2> QED
    BY <2>0, <2>1, <2>2, <2>3, <2>4 DEF IgnoreInv
<1> QED
  BY <1>1, <1>2, ListSteps, LoginKeeps, ServeIgnoreKeeps, ProcessIGNKeeps, RequestKeeps

LEMMA IgnoreInvariant == Spec => []IgnoreInv
  BY IgnoreInit, IgnoreStep, PTL DEF Spec

\* Types, of any number of characters, requests and sessions.
THEOREM TypeCorrect == Spec => []TypeOK
<1>1. IgnoreInv => TypeOK
  BY DEF IgnoreInv
<1> QED
  BY <1>1, IgnoreInvariant, PTL

\* Once its answers have been processed, the copy of the ignore list names whom
\* the server ignores for us and nobody twice, however requests of the user,
\* requests for what is so already, and sessions follow one another: the answers
\* change the copy in the order in which the server's list has changed.
THEOREM IgnoreListAlwaysAgrees == Spec => []IgnoreListAgrees
<1>1. IgnoreInv => IgnoreListAgrees
  <2> SUFFICES ASSUME IgnoreInv, live, requests = <<>>, inbox = <<>>
               PROVE  ToSet(ignore_list) = ignored /\ IsInjective(ignore_list)
    BY DEF IgnoreListAgrees
  <2>1. ToSet(ignore_list) \subseteq Names /\ ignored \subseteq Names
    BY ListedNames DEF IgnoreInv, TypeOK
  <2>2. ASSUME NEW name \in Names
        PROVE  name \in ToSet(ignore_list) <=> name \in ignored
    <3>1. Len(inbox) = 0
      OBVIOUS
    <3>2. LastWord(name, 0, 0)
      BY DEF LastWord, Word, Mentions
    <3>3. Says(0, name) <=> name \in ignored
      BY <3>1, <3>2 DEF IgnoreInv, LastWordIsRight
    <3> QED
      BY <3>3 DEF Says, Lists, Word
  <2> QED
    BY <2>1, <2>2 DEF IgnoreInv
<1> QED
  BY <1>1, IgnoreInvariant, PTL

----------------------------------------------------------------------------
(* Windows and buddies.                                                     *)

\* A message leaves the windows alone or opens one.
LEMMA ReceivingOpens ==
    Receiving => \/ UNCHANGED <<live, windows, group>>
                 \/ \E name \in People : Opened(name) /\ UNCHANGED live
<1> SUFFICES ASSUME Receiving
             PROVE  \/ UNCHANGED <<live, windows, group>>
                    \/ \E name \in People : Opened(name) /\ UNCHANGED live
  OBVIOUS
<1> USE DEF account, blist
<1>1. ASSUME NEW name \in People, NEW author, NEW kind, GotIm(name, author, kind)
      PROVE  Opened(name) /\ UNCHANGED live
  BY <1>1 DEF GotIm, Arrives
<1>2. NothingShown => UNCHANGED <<live, windows, group>>
  BY DEF NothingShown, Arrives
<1>3. ASSUME NEW show, NEW author, NEW kind, InChat(show, author, kind)
      PROVE  UNCHANGED <<live, windows, group>>
  BY <1>3 DEF InChat, Arrives
<1>4. ASSUME NEW name \in Names, ProcessPRI(name) \/ ProcessTPN(name) \/ ProcessSYS(name)
      PROVE  \/ UNCHANGED <<live, windows, group>>
             \/ Opened(name) /\ UNCHANGED live
  BY <1>1, <1>2, <1>4, ConvosThereAre DEF ProcessPRI, ProcessTPN, ProcessSYS, Arrives
<1>5. ASSUME NEW name \in Names,
             ProcessPrivateRLL(name, Me) \/ ProcessPrivateRLL(Me, name)
      PROVE  \/ UNCHANGED <<live, windows, group>>
             \/ Opened(name) /\ UNCHANGED live
  BY <1>1, <1>2, <1>5, ConvosThereAre DEF ProcessPrivateRLL, RollWindow
<1>6. ASSUME NEW name \in Names, NEW show \in BOOLEAN,
             ProcessRLL(name, show) \/ ProcessLRP(name, show)
      PROVE  UNCHANGED <<live, windows, group>>
  BY <1>3, <1>6 DEF ProcessRLL, ProcessLRP
<1>7. ASSUME NEW name \in Names, NEW show \in BOOLEAN, NEW warns \in BOOLEAN,
             NEW operator \in BOOLEAN, ProcessMSG(name, show, warns, operator)
      PROVE  UNCHANGED <<live, windows, group>>
  BY <1>3, <1>7 DEF ProcessMSG
<1>8. ASSUME ProcessBRO \/ ProcessSYS(GLOBAL_NAME)
      PROVE  \/ UNCHANGED <<live, windows, group>>
             \/ Opened(GLOBAL_NAME) /\ UNCHANGED live
  BY <1>1, <1>2, <1>8, ConvosThereAre DEF ProcessBRO, ProcessSYS
<1>9. ASSUME ProcessChannelSYS \/ \E variable \in Told : ProcessVAR(variable)
      PROVE  UNCHANGED <<live, windows, group>>
  BY <1>3, <1>9 DEF ProcessChannelSYS, ProcessVAR
<1> QED
  BY <1>4, <1>5, <1>6, <1>7, <1>8, <1>9, ConvosThereAre DEF Receiving

\* Every action that closes a window or makes a temporary buddy is looked at.
LEMMA BuddiesStep ==
    ASSUME TypeOK, TypeOK', [Next]_vars, TemporaryBuddiesHaveWindows
    PROVE  TemporaryBuddiesHaveWindows'
<1> USE DEF account, server, bounds, blist
<1> SUFFICES ASSUME live', NEW n \in People, group'[n] = "im"
             PROVE  Im(n) \in windows'
  BY DEF TemporaryBuddiesHaveWindows
<1>0. live => (group[n] = "im" => Im(n) \in windows)
  BY DEF TemporaryBuddiesHaveWindows
<1>1. CASE Login
  BY <1>1 DEF Login, Cleared, ImGroup
<1>2. CASE LoginRefused \/ Close
  BY <1>2 DEF LoginRefused, Close
<1>3. CASE Windowing
  <2>1. ASSUME NEW name \in People, OpenIm(name) PROVE Im(n) \in windows'
    BY <1>0, <2>1, OpenedKeeps DEF OpenIm
  <2>2. ASSUME NEW name \in People, CloseIm(name) PROVE Im(n) \in windows'
    <3>1. live /\ windows' = windows \ {Im(name)} /\ group' = Removed(name)
      BY <2>2 DEF CloseIm
    <3>2. n # name /\ group[n] = "im"
      BY <3>1 DEF Removed, ImGroup, TypeOK
    <3>3. Im(n) # Im(name)
      BY <3>2, ConvosThereAre
    <3> QED
      BY <1>0, <3>1, <3>2, <3>3
  <2>3. CASE ToggleChat
    BY <1>0, <2>3, ConvosThereAre DEF ToggleChat
  <2>4. ASSUME NEW found \in SUBSET Names, ApplyFilter(found) PROVE Im(n) \in windows'
    BY <1>0, <2>4 DEF ApplyFilter
  <2>5. ASSUME NEW name \in Names, NEW to \in Groups \ {"im"}, Rearrange(name, to)
        PROVE  Im(n) \in windows'
    BY <1>0, <2>5 DEF Rearrange, TypeOK
  <2> QED
    BY <1>3, <2>1, <2>2, <2>3, <2>4, <2>5 DEF Windowing
<1>4. CASE Ignoring
  BY <1>0, <1>4 DEF Ignoring, IgnoreCommand, IgnoreMenuItem, RequestIgnore, ServeIgnore,
                    ProcessIGN
<1>5. CASE Receiving
  BY <1>0, <1>5, OpenedKeeps, ReceivingOpens
<1>6. CASE Sending
  BY <1>0, <1>6 DEF Sending, SendIm, SendChat, SendWarning, SendSign, Ask, Answer
<1>7. CASE UNCHANGED vars
  BY <1>0, <1>7 DEF vars
<1> QED
  BY <1>1, <1>2, <1>3, <1>4, <1>5, <1>6, <1>7 DEF Next

\* Whomever the plugin has put in the temporary group has a window, in every session, whatever
\* windows are opened by either side, closed with or without a connection, and
\* whatever searches, synchronisation and the user do to the groups meanwhile.
THEOREM TemporaryBuddiesAlwaysHaveWindows == Spec => []TemporaryBuddiesHaveWindows
<1>1. Init => TemporaryBuddiesHaveWindows
  BY IgnoreInit DEF Init, TemporaryBuddiesHaveWindows, IgnoreInv
<1>2. TypeOK /\ TypeOK' /\ [Next]_vars /\ TemporaryBuddiesHaveWindows
         => TemporaryBuddiesHaveWindows'
  BY BuddiesStep
<1> QED
  BY <1>1, <1>2, TypeCorrect, PTL DEF Spec

----------------------------------------------------------------------------
(* What is written, and what is sent.                                       *)

\* A line may be written: of nobody we ignore, in a window that belongs to it.
Belongs(line) ==
    /\ IsIgnored(line.author) => line.kind \in {"warning", "system"}
    /\ line.convo \in windows
    /\ line.convo # Chat /\ line.kind # "answer" => line.author \in {line.convo.name, Me}

LEMMA LineFields ==
    ASSUME NEW convo, NEW author, NEW kind
    PROVE  /\ Line(convo, author, kind).convo = convo
           /\ Line(convo, author, kind).author = author
           /\ Line(convo, author, kind).kind = kind
  BY DEF Line

\* We are not on our own ignore list, and the server is not.
LEMMA OnlyNamesAreIgnored ==
    TypeOK => ~IsIgnored(Me) /\ ~IsIgnored(GLOBAL_NAME)
<1> SUFFICES ASSUME TypeOK PROVE ~IsIgnored(Me) /\ ~IsIgnored(GLOBAL_NAME)
  OBVIOUS
<1>1. \A i \in DOMAIN ignore_list : ignore_list[i] \in Names
  BY DEF TypeOK
<1> QED
  BY <1>1, ConvosThereAre DEF IsIgnored

\* The lines of a message: each handler looks at the ignore list, but for
\* warnings and what comes from the server.
LEMMA ReceivedBelong ==
    ASSUME TypeOK, Receiving, NEW line \in lines'
    PROVE  Belongs(line)'
<1> USE DEF account
<1>a. \A name : IsIgnored(name)' <=> IsIgnored(name)
  <2>1. ignore_list' = ignore_list
    BY DEF Receiving, ProcessPRI, ProcessTPN, ProcessSYS, ProcessPrivateRLL, ProcessRLL,
           ProcessLRP, ProcessMSG, ProcessBRO, ProcessChannelSYS, ProcessVAR, GotIm,
           NothingShown, InChat, Arrives
  <2> QED
    BY <2>1 DEF IsIgnored
<1>b. ~IsIgnored(Me) /\ ~IsIgnored(GLOBAL_NAME)
  BY OnlyNamesAreIgnored
<1>1. ASSUME NEW name \in People, NEW author, NEW kind, GotIm(name, author, kind),
             ~IsIgnored(author) \/ kind = "system", author \in {name, Me}
      PROVE  Belongs(line)'
  <2>1. line = Line(Im(name), author, kind)
    BY <1>1 DEF GotIm, Arrives
  <2>2. line.convo = Im(name) /\ line.author = author /\ line.kind = kind
    BY <2>1, LineFields
  <2>3. Im(name) \in windows' /\ Im(name).name = name
    BY <1>1, OpenedKeeps, ConvosThereAre DEF GotIm
  <2> QED
    BY <1>1, <1>a, <2>2, <2>3 DEF Belongs
<1>2. ~NothingShown
  BY DEF NothingShown, Arrives
<1>3. ASSUME NEW show, NEW author, NEW kind, InChat(show, author, kind),
             (show => ~IsIgnored(author)) \/ kind \in {"warning", "system"}
      PROVE  Belongs(line)'
  <2>1. line = Line(Chat, author, kind) /\ Chat \in windows' /\ show
    BY <1>3 DEF InChat, Arrives, blist
  <2>2. line.convo = Chat /\ line.author = author /\ line.kind = kind
    BY <2>1, LineFields
  <2> QED
    BY <1>3, <1>a, <2>1, <2>2 DEF Belongs
<1>4. ASSUME NEW name \in Names, ProcessPRI(name) \/ ProcessSYS(name)
      PROVE  Belongs(line)'
  BY <1>1, <1>2, <1>4, ConvosThereAre DEF ProcessPRI, ProcessSYS
<1>5. ASSUME NEW name \in Names, ProcessTPN(name)
      PROVE  Belongs(line)'
  <2>1. ~IsIgnored(name) /\ Im(name) \in windows' /\ line = Line(Im(name), name, "typing")
    BY <1>5 DEF ProcessTPN, Arrives, blist
  <2>2. line.convo = Im(name) /\ line.author = name /\ Im(name).name = name
    BY <2>1, LineFields, ConvosThereAre
  <2> QED
    BY <1>a, <2>1, <2>2 DEF Belongs
<1>6. ASSUME NEW name \in Names,
             ProcessPrivateRLL(name, Me) \/ ProcessPrivateRLL(Me, name)
      PROVE  Belongs(line)'
  <2>1. RollWindow(name, Me) = name /\ RollWindow(Me, name) = name
    BY ConvosThereAre DEF RollWindow
  <2>2. /\ ProcessPrivateRLL(name, Me) => ~IsIgnored(name) /\ GotIm(name, name, "roll")
        /\ ProcessPrivateRLL(Me, name) => GotIm(name, Me, "roll")
    BY <1>2, <1>b, <2>1 DEF ProcessPrivateRLL
  <2> QED
    BY <1>1, <1>6, <1>b, <2>2, ConvosThereAre
<1>7. ASSUME NEW name \in Names, NEW show \in BOOLEAN,
             ProcessRLL(name, show) \/ ProcessLRP(name, show)
      PROVE  Belongs(line)'
  BY <1>3, <1>7 DEF ProcessRLL, ProcessLRP
<1>8. ASSUME NEW name \in Names, NEW show \in BOOLEAN, NEW warns \in BOOLEAN,
             NEW operator \in BOOLEAN, ProcessMSG(name, show, warns, operator)
      PROVE  Belongs(line)'
  <2>1. \/ InChat(TRUE, name, "warning")
        \/ InChat(show /\ ~IsIgnored(name), name, "say")
    BY <1>8 DEF ProcessMSG, Warns
  <2> QED
    BY <1>3, <2>1
<1>9. ASSUME ProcessBRO \/ ProcessSYS(GLOBAL_NAME)
      PROVE  Belongs(line)'
  BY <1>1, <1>2, <1>9, <1>b, ConvosThereAre DEF ProcessBRO, ProcessSYS
<1>10. ASSUME ProcessChannelSYS \/ \E variable \in Told : ProcessVAR(variable)
      PROVE  Belongs(line)'
  BY <1>3, <1>10 DEF ProcessChannelSYS, ProcessVAR, Quiet
<1> QED
  BY <1>4, <1>5, <1>6, <1>7, <1>8, <1>9, <1>10 DEF Receiving

LEMMA LinesStep == TypeOK /\ [Next]_vars /\ LinesBelong => LinesBelong'
<1> SUFFICES ASSUME TypeOK, [Next]_vars, LinesBelong PROVE LinesBelong'
  OBVIOUS
<1>0. (\A line \in lines' : Belongs(line)') => LinesBelong'
  BY DEF LinesBelong, Belongs
<1>1. CASE lines' = {}
  BY <1>1 DEF LinesBelong
<1>2. CASE Receiving
  BY <1>0, <1>2, ReceivedBelong
<1>3. CASE Login \/ LoginRefused \/ Close \/ Windowing \/ Ignoring
  <2>1. lines' = {}
    BY <1>3 DEF Login, LoginRefused, Close, Windowing, OpenIm, CloseIm, ToggleChat, ApplyFilter, Rearrange,
                Ignoring, IgnoreCommand, IgnoreMenuItem, RequestIgnore, ServeIgnore,
                ProcessIGN, Quiet
  <2> QED
    BY <1>1, <2>1
<1>4. CASE Sending
  <2> SUFFICES ASSUME NEW line \in lines' PROVE Belongs(line)'
    BY <1>0
  <2>1. /\ \A name : IsIgnored(name)' <=> IsIgnored(name)
        /\ windows' = windows
    BY <1>4 DEF Sending, SendIm, SendChat, SendWarning, SendSign, Ask, Answer, account, blist,
                IsIgnored
  <2>2. ASSUME NEW convo \in windows, NEW author \in {Me, GLOBAL_NAME}, NEW kind,
               line = Line(convo, author, kind),
               convo # Chat => author = Me \/ kind = "answer"
        PROVE  Belongs(line)'
    <3>1. line.convo = convo /\ line.author = author /\ line.kind = kind
      BY <2>2, LineFields
    <3> QED
      BY <2>1, <2>2, <3>1, OnlyNamesAreIgnored DEF Belongs
  <2>3. ASSUME NEW name \in People, NEW length \in Lengths, SendIm(name, length)
        PROVE  Belongs(line)'
    BY <2>2, <2>3 DEF SendIm, Echo
  <2>4. ASSUME NEW ad \in BOOLEAN, NEW length \in Lengths, SendChat(ad, length)
        PROVE  Belongs(line)'
    BY <2>2, <2>4 DEF SendChat, Quiet
  <2>5. ASSUME NEW operator \in BOOLEAN, NEW length \in Lengths,
               SendWarning(operator, length)
        PROVE  Belongs(line)'
    BY <2>2, <2>5 DEF SendWarning, Quiet
  <2>6. ASSUME NEW last \in BOOLEAN, Answer(last) PROVE Belongs(line)'
    BY <2>2, <2>6 DEF Answer
  <2> QED
    BY <1>4, <2>3, <2>4, <2>5, <2>6 DEF Sending, SendSign, Ask, Quiet
<1>5. CASE UNCHANGED vars
  BY <1>5 DEF vars, LinesBelong, IsIgnored
<1> QED
  BY <1>2, <1>3, <1>4, <1>5 DEF Next

\* Nobody we ignore is heard, and a window has what belongs to it: each of the
\* handlers that write looks for itself, and at the right one of two characters.
THEOREM LinesAlwaysBelong == Spec => []LinesBelong
<1>1. Init => LinesBelong
  BY DEF Init, LinesBelong
<1>2. TypeOK /\ [Next]_vars /\ LinesBelong => LinesBelong'
  BY LinesStep
<1> QED
  BY <1>1, <1>2, TypeCorrect, PTL DEF Spec

\* What the property says of one character.
Echoed(n) ==
    Line(Im(n), Me, "say") \in lines <=>
       \E message \in sent : message.kind = "PRI" /\ message.to = Im(n)

LEMMA EchoedOne == EchoedIffSent <=> \A n \in People : ~IsIgnored(n) => Echoed(n)
  BY DEF EchoedIffSent, Echoed

\* Only sending writes what we say in private, and what it writes it sends.
LEMMA EchoStep == TypeOK /\ [Next]_vars /\ EchoedIffSent => EchoedIffSent'
<1> SUFFICES ASSUME TypeOK, [Next]_vars, EchoedIffSent, NEW n \in People, ~IsIgnored(n)'
             PROVE  Echoed(n)'
  BY DEF EchoedIffSent, Echoed
<1> DEFINE echo == Line(Im(n), Me, "say")
           Goal == echo \in lines' <=>
                      \E message \in sent' : message.kind = "PRI" /\ message.to = Im(n)
<1>a. echo.convo = Im(n) /\ echo.author = Me /\ echo.kind = "say" /\ Im(n) # Chat
      /\ n \in People
  BY LineFields, ConvosThereAre
<1> HIDE DEF echo
<1> SUFFICES Goal
  BY DEF Echoed, echo
<1>1. ASSUME sent' = {}, echo \notin lines' PROVE Goal
  BY <1>1
<1>2. CASE Login \/ LoginRefused \/ Close \/ Windowing \/ Ignoring
  BY <1>1, <1>2
     DEF Login, LoginRefused, Close, Windowing, OpenIm, CloseIm, ToggleChat, ApplyFilter, Rearrange,
         Ignoring, IgnoreCommand, IgnoreMenuItem, RequestIgnore, ServeIgnore, ProcessIGN,
         Quiet
<1>3. CASE Receiving
  <2>0. sent' = {}
    BY <1>3
       DEF Receiving, ProcessPRI, ProcessTPN, ProcessSYS, ProcessPrivateRLL, ProcessRLL,
           ProcessLRP, ProcessMSG, ProcessBRO, ProcessChannelSYS, ProcessVAR, GotIm,
           NothingShown, InChat, Arrives, Silent, Quiet
  <2>1. ASSUME NEW line \in lines' PROVE line.kind # "say" \/ line.author # Me
    <3>1. ASSUME NEW name, NEW author, NEW kind, GotIm(name, author, kind),
                 kind # "say" \/ author # Me
          PROVE  line.kind # "say" \/ line.author # Me
      BY <3>1, LineFields DEF GotIm, Arrives
    <3>2. ASSUME NEW show, NEW author, NEW kind, InChat(show, author, kind),
                 kind # "say" \/ author # Me
          PROVE  line.kind # "say" \/ line.author # Me
      BY <3>2, LineFields DEF InChat, Arrives
    <3>3. ~NothingShown
      BY DEF NothingShown, Arrives
    <3>4. ASSUME NEW name \in Names, ProcessPRI(name) \/ ProcessSYS(name)
          PROVE  line.kind # "say" \/ line.author # Me
      BY <3>1, <3>3, <3>4, ConvosThereAre DEF ProcessPRI, ProcessSYS
    <3>5. ASSUME NEW name \in Names, ProcessTPN(name)
          PROVE  line.kind # "say" \/ line.author # Me
      BY <3>5, LineFields DEF ProcessTPN, Arrives
    <3>6. ASSUME NEW name \in Names,
                 ProcessPrivateRLL(name, Me) \/ ProcessPrivateRLL(Me, name)
          PROVE  line.kind # "say" \/ line.author # Me
      BY <3>1, <3>3, <3>6 DEF ProcessPrivateRLL
    <3>7. ASSUME NEW name \in Names, NEW show \in BOOLEAN,
                 ProcessRLL(name, show) \/ ProcessLRP(name, show)
          PROVE  line.kind # "say" \/ line.author # Me
      BY <3>2, <3>7 DEF ProcessRLL, ProcessLRP
    <3>8. ASSUME NEW name \in Names, NEW show \in BOOLEAN, NEW warns \in BOOLEAN,
                 NEW operator \in BOOLEAN, ProcessMSG(name, show, warns, operator)
          PROVE  line.kind # "say" \/ line.author # Me
      <4>1. \E shown, kind : InChat(shown, name, kind)
        BY <3>8 DEF ProcessMSG
      <4> QED
        BY <3>2, <4>1, ConvosThereAre
    <3>9. ASSUME ProcessBRO \/ ProcessSYS(GLOBAL_NAME)
          PROVE  line.kind # "say" \/ line.author # Me
      BY <3>1, <3>3, <3>9, ConvosThereAre DEF ProcessBRO, ProcessSYS
    <3>10. ASSUME ProcessChannelSYS \/ \E variable \in Told : ProcessVAR(variable)
           PROVE  line.kind # "say" \/ line.author # Me
      BY <3>2, <3>10 DEF ProcessChannelSYS, ProcessVAR, Quiet
    <3> QED
      BY <1>3, <3>4, <3>5, <3>6, <3>7, <3>8, <3>9, <3>10 DEF Receiving
  <2>2. echo \notin lines'
    BY <1>a, <2>1
  <2> QED
    BY <1>1, <2>0, <2>2
<1>4. ASSUME NEW name \in People, NEW length \in Lengths, SendIm(name, length) PROVE Goal
  <2>1. name = n <=> Im(name) = Im(n)
    BY <1>a, ConvosThereAre
  <2>2. ignore_list' = ignore_list
    BY <1>4 DEF SendIm, account
  <2>3. ~IsIgnored(n)
    BY <2>2 DEF IsIgnored
  <2>4. Line(Im(name), Me, "say").convo = Im(name)
    BY LineFields
  <2>5. CASE name = n
    <3>1. Line(Im(name), Me, "say") = echo
      BY <2>5 DEF echo
    <3>2. CASE TooLong("priv", length)
      BY <1>4, <3>2 DEF SendIm, Echo
    <3>3. CASE ~TooLong("priv", length)
      BY <1>4, <2>3, <2>5, <3>1, <3>3 DEF SendIm, Echo
    <3> QED
      BY <3>2, <3>3
  <2>6. CASE name # n
    <3>1. echo \notin lines'
      BY <1>4, <1>a, <2>1, <2>4, <2>6 DEF SendIm, Echo
    <3>2. \A message \in sent' : message.to # Im(n)
      BY <1>4, <2>1, <2>6 DEF SendIm
    <3> QED
      BY <3>1, <3>2
  <2> QED
    BY <2>5, <2>6
<1>5. ASSUME NEW ad \in BOOLEAN, NEW length \in Lengths, SendChat(ad, length) PROVE Goal
  <2>1. \A line \in lines' : line.convo = Chat
    BY <1>5, LineFields DEF SendChat, Quiet
  <2>2. \A message \in sent' : message.to = Chat
    BY <1>5 DEF SendChat, Quiet
  <2> QED
    BY <1>a, <2>1, <2>2
<1>6. ASSUME NEW operator \in BOOLEAN, NEW length \in Lengths, SendWarning(operator, length)
      PROVE  Goal
  <2>1. \A line \in lines' : line.convo = Chat
    BY <1>6, LineFields DEF SendWarning, Quiet
  <2>2. \A message \in sent' : message.to = Chat
    BY <1>6 DEF SendWarning, Quiet
  <2> QED
    BY <1>a, <2>1, <2>2
<1>7. ASSUME NEW kind \in {"TPN", "RLL"}, NEW convo \in Convos, SendSign(kind, convo)
      PROVE  Goal
  BY <1>7 DEF SendSign
<1>8. ASSUME NEW what \in {"uptime", "kinks"}, NEW convo \in Convos, Ask(what, convo)
      PROVE  Goal
  BY <1>1, <1>8 DEF Ask, Quiet
<1>9. ASSUME NEW last \in BOOLEAN, Answer(last) PROVE Goal
  <2>1. \A line \in lines' : line.kind = "answer"
    BY <1>9, LineFields DEF Answer
  <2> QED
    BY <1>1, <1>9, <1>a, <2>1 DEF Answer, Silent
<1>10. CASE UNCHANGED vars
  <2>1. lines' = lines /\ sent' = sent /\ ignore_list' = ignore_list
    BY <1>10 DEF vars
  <2>2. ~IsIgnored(n)
    BY <2>1 DEF IsIgnored
  <2>3. Echoed(n)
    BY <2>2, EchoedOne
  <2> QED
    BY <2>1, <2>3 DEF Echoed, echo
<1> QED
  BY <1>2, <1>3, <1>4, <1>5, <1>6, <1>7, <1>8, <1>9, <1>10 DEF Next, Sending

\* What a private window shows as said by us has been sent in that step, and what
\* has been sent is shown, though two handlers decide, each for itself.
THEOREM AlwaysEchoedIffSent == Spec => []EchoedIffSent
<1>1. Init => EchoedIffSent
  BY DEF Init, EchoedIffSent
<1>2. TypeOK /\ [Next]_vars /\ EchoedIffSent => EchoedIffSent'
  BY EchoStep
<1> QED
  BY <1>1, <1>2, TypeCorrect, PTL DEF Spec
=============================================================================
