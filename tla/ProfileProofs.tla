---------------------------- MODULE ProfileProofs ----------------------------
(* The safety properties of Profile hold for any characters and any number of
   profiles asked for.                                                      *)
EXTENDS Profile, TLAPS

\* The Boolean variables stay Boolean.
FlagsOK == {live, category_table, global_profile_request} \subseteq BOOLEAN

LEMMA FlagsStep == FlagsOK /\ [Next]_vars => FlagsOK'
  BY DEF FlagsOK, Next, vars, Load, Unload, FieldsArrive, GetProfile, ProfileArrives,
     Serve, Receiving, Receive, ReceiveStart, ReceiveRow, ReceiveEnd, ReceiveFlood,
     ReceiveError, globals

\* What has been asked for and what a window shows have their types.
LEMMA PagesOK ==
    ASSUME TypeOK, NEW who \in Whom, NEW page \in Pages
    PROVE  Displayed(who, page) \in [Names -> Pages]
  BY DEF TypeOK, Displayed, Whom

LEMMA PageOK ==
    /\ Page("status") \in Pages /\ Page("error") \in Pages /\ Page("nothing") \in Pages
    /\ \A rows \in SUBSET Names : Rows(rows) \in Pages
    /\ Rows(NoTable) \in Pages
  BY DEF Page, Pages, Rows

LEMMA InitInv == Init => ProfileInv
<1> SUFFICES ASSUME Init
             PROVE  ProfileInv
  OBVIOUS
<1>1. FlagsOK
  BY DEF Init, FlagsOK
<1>2. shown \in [Names -> Pages]
  BY PageOK DEF Init
<1>3. TypeOK
  BY <1>1, <1>2, ProfileAssumption DEF Init, TypeOK, FlagsOK, Whom
<1> QED
  BY <1>3 DEF Init, ProfileInv, HandlesMatchRequests, Handles, WindowWaits,
     AnswersAreWhole, TableIsOfOne

\* A message leaves the inbox at its head, and the answers stay whole.
LEMMA ReceiveWhole ==
    ASSUME TypeOK, AnswersAreWhole, NEW type, Receive(type)
    PROVE  /\ AnswersAreWhole'
           /\ inbox' \in Seq(Messages)
           /\ Head(inbox) \in Messages /\ Head(inbox).type = type
           /\ type \in {"start", "row"} =>
                /\ Head(inbox).of \in Names
                /\ inbox' # <<>>
                /\ Head(inbox') = [type |-> Follows(type), of |-> Head(inbox).of]
<1>1. /\ inbox \in Seq(Messages) /\ inbox # <<>> /\ inbox' = Tail(inbox)
      /\ Head(inbox).type = type
  BY DEF TypeOK, Receive
<1>2. /\ inbox' \in Seq(Messages) /\ Len(inbox') = Len(inbox) - 1
      /\ DOMAIN inbox = 1 .. Len(inbox) /\ DOMAIN inbox' = 1 .. Len(inbox')
      /\ Len(inbox) \in Nat \ {0}
      /\ \A i \in DOMAIN inbox' : inbox'[i] = inbox[i + 1]
      /\ Head(inbox) = inbox[1] /\ Head(inbox) \in Messages
  BY <1>1
<1>3. AnswersAreWhole'
  <2> SUFFICES ASSUME NEW i \in DOMAIN inbox', inbox'[i].type \in {"start", "row"}
               PROVE  /\ inbox'[i].of \in Names
                      /\ i + 1 \in DOMAIN inbox'
                      /\ inbox'[i + 1] = [type |-> Follows(inbox'[i].type), of |-> inbox'[i].of]
    BY DEF AnswersAreWhole
  <2>1. i + 1 \in DOMAIN inbox /\ inbox'[i] = inbox[i + 1]
    BY <1>2
  <2>2. /\ inbox[i + 1].of \in Names
        /\ i + 2 \in DOMAIN inbox
        /\ inbox[i + 2] = [type |-> Follows(inbox[i + 1].type), of |-> inbox[i + 1].of]
    BY <1>2, <2>1 DEF AnswersAreWhole
  <2> QED
    BY <1>2, <2>1, <2>2
<1>4. ASSUME type \in {"start", "row"}
      PROVE  /\ Head(inbox).of \in Names
             /\ inbox' # <<>>
             /\ Head(inbox') = [type |-> Follows(type), of |-> Head(inbox).of]
  <2>1. /\ Head(inbox).of \in Names
        /\ 2 \in DOMAIN inbox
        /\ inbox[2] = [type |-> Follows(type), of |-> Head(inbox).of]
    BY <1>1, <1>2, <1>4 DEF AnswersAreWhole
  <2> QED
    BY <1>2, <2>1
<1> QED
  BY <1>1, <1>2, <1>3, <1>4

\* An answer of the chat server is whole.
LEMMA ServeWhole ==
    ASSUME TypeOK, AnswersAreWhole, Serve
    PROVE  /\ AnswersAreWhole' /\ inbox' \in Seq(Messages)
           /\ inbox # <<>> => inbox' # <<>> /\ Head(inbox') = Head(inbox)
<1>1. inbox \in Seq(Messages) /\ Head(asked) \in Whom
  BY DEF TypeOK, Serve
<1>2. PICK answer \in Answers(Head(asked)) : inbox' = inbox \o answer
  BY DEF Serve
<1> DEFINE n == Len(answer)
<1>3. /\ answer \in Seq(Messages)
      /\ \A i \in DOMAIN answer : answer[i].type \in {"start", "row"} =>
           /\ answer[i].of \in Names
           /\ i + 1 \in DOMAIN answer
           /\ answer[i + 1] = [type |-> Follows(answer[i].type), of |-> answer[i].of]
  <2> DEFINE who == Head(asked)
             m(type) == [type |-> type, of |-> who]
  <2>1. \A type \in {"start", "row", "end", "flood", "error"} : m(type) \in Messages
    BY <1>1 DEF Messages
  <2>2. \/ answer = <<m("error")>>
        \/ answer = <<m("flood")>>
        \/ who \in Names /\ answer = <<m("start"), m("row"), m("end")>>
    BY <1>1, <1>2 DEF Answers, Whom
  <2>3. CASE answer = <<m("error")>>
    <3>1. DOMAIN answer = {1} /\ answer[1].type = "error"
      BY <2>3
    <3> QED
      BY <2>1, <2>3, <3>1
  <2>4. CASE answer = <<m("flood")>>
    <3>1. DOMAIN answer = {1} /\ answer[1].type = "flood"
      BY <2>4
    <3> QED
      BY <2>1, <2>4, <3>1
  <2>5. CASE who \in Names /\ answer = <<m("start"), m("row"), m("end")>>
    <3>1. /\ DOMAIN answer = {1, 2, 3}
          /\ answer[1] = m("start") /\ answer[2] = m("row") /\ answer[3] = m("end")
      BY <2>5
    <3>2. answer \in Seq(Messages)
      BY <2>1, <2>5
    <3> QED
      BY <2>5, <3>1, <3>2 DEF Follows
  <2> QED
    BY <2>2, <2>3, <2>4, <2>5
<1>4. /\ inbox' \in Seq(Messages)
      /\ DOMAIN inbox = 1 .. Len(inbox) /\ DOMAIN answer = 1 .. n
      /\ DOMAIN inbox' = 1 .. (Len(inbox) + n)
      /\ Len(inbox) \in Nat /\ n \in Nat
      /\ \A i \in DOMAIN inbox : inbox'[i] = inbox[i]
      /\ \A i \in DOMAIN answer : inbox'[Len(inbox) + i] = answer[i]
  BY <1>1, <1>2, <1>3
<1>5. ASSUME NEW i \in DOMAIN inbox', inbox'[i].type \in {"start", "row"}
      PROVE  /\ inbox'[i].of \in Names
             /\ i + 1 \in DOMAIN inbox'
             /\ inbox'[i + 1] = [type |-> Follows(inbox'[i].type), of |-> inbox'[i].of]
  <2>1. CASE i \in DOMAIN inbox
    BY <1>4, <1>5, <2>1 DEF AnswersAreWhole
  <2>2. CASE i \notin DOMAIN inbox
    <3> DEFINE j == i - Len(inbox)
    <3>1. j \in DOMAIN answer /\ i = Len(inbox) + j
      BY <1>4, <2>2
    <3> HIDE DEF j
    <3>2. /\ answer[j].of \in Names
          /\ j + 1 \in DOMAIN answer
          /\ answer[j + 1] = [type |-> Follows(answer[j].type), of |-> answer[j].of]
      BY <1>3, <1>4, <1>5, <3>1
    <3>3. Len(inbox) + (j + 1) = i + 1 /\ i + 1 \in DOMAIN inbox'
      BY <1>4, <3>1, <3>2
    <3> QED
      BY <1>4, <3>1, <3>2, <3>3
  <2> QED
    BY <2>1, <2>2
<1>6. inbox # <<>> => inbox' # <<>> /\ Head(inbox') = Head(inbox)
  BY <1>1, <1>4
<1> QED
  BY <1>4, <1>5, <1>6 DEF AnswersAreWhole

\* Every step preserves the invariant.
LEMMA StepInv == ProfileInv /\ [Next]_vars => ProfileInv'
<1> SUFFICES ASSUME ProfileInv, [Next]_vars
             PROVE  ProfileInv'
  OBVIOUS
<1> USE ProfileAssumption
<1>0. /\ TypeOK /\ web = Handles /\ WindowWaits /\ AnswersAreWhole /\ TableIsOfOne
      /\ FlagsOK'
  BY FlagsStep DEF ProfileInv, HandlesMatchRequests, TypeOK, FlagsOK
<1>1. CASE Load
  <2>1. /\ live' = TRUE /\ global_profile_request' = TRUE /\ web' = web \cup {Fields}
        /\ UNCHANGED <<character, table, profile_request, category_table, shown, asked,
                       inbox, asks>>
    BY <1>1 DEF Load, Started, dialogue, chat
  <2>2. web' = Handles' /\ web' \subseteq Requests
    BY <1>0, <2>1 DEF Handles, Requests, TypeOK
  <2>3. TypeOK'
    BY <1>0, <2>1, <2>2 DEF TypeOK, FlagsOK
  <2> QED
    BY <1>0, <2>1, <2>2, <2>3 DEF ProfileInv, HandlesMatchRequests, WindowWaits,
       AnswersAreWhole, TableIsOfOne
<1>2. CASE Unload
  <2>1. /\ web' = {} /\ character' = NoOne /\ table' = NoTable /\ profile_request' = NoOne
        /\ global_profile_request' = FALSE
        /\ asked' = <<>> /\ inbox' = <<>>
        /\ UNCHANGED <<shown, asks>>
    BY <1>0, <1>2 DEF Unload, Unloaded
  <2>2. TypeOK'
    BY <1>0, <2>1 DEF TypeOK, FlagsOK, Whom
  <2> QED
    BY <2>1, <2>2 DEF ProfileInv, HandlesMatchRequests, Handles, WindowWaits,
       AnswersAreWhole, TableIsOfOne
<1>3. ASSUME NEW ok \in BOOLEAN, FieldsArrive(ok)
      PROVE  ProfileInv'
  <2>1. /\ web' = web \ {Fields} /\ global_profile_request' = FALSE
        /\ UNCHANGED <<character, table, profile_request, shown, asked, inbox, asks>>
    BY <1>3 DEF FieldsArrive, Ended, dialogue, chat
  <2>2. web' = Handles'
    BY <1>0, <2>1 DEF Handles, Fields, Of
  <2>3. TypeOK'
    BY <1>0, <2>1 DEF TypeOK, FlagsOK
  <2> QED
    BY <1>0, <2>1, <2>2, <2>3 DEF ProfileInv, HandlesMatchRequests, WindowWaits,
       AnswersAreWhole, TableIsOfOne
<1>4. ASSUME NEW who \in Names, NEW present \in BOOLEAN, GetProfile(who, present)
      PROVE  ProfileInv'
  <2>1. /\ table' = NoTable /\ asks' = asks + 1 /\ asks < MaxAsks
        /\ shown' = [shown EXCEPT ![who] = Page("status")]
        /\ character' = IF present THEN who ELSE NoOne
        /\ UNCHANGED <<live, category_table, global_profile_request, inbox>>
    BY <1>4 DEF GetProfile, Displayed, globals
  <2>2. /\ asked' \in Seq(Whom)
        /\ \/ /\ present /\ profile_request' = who
              /\ web' = (web \ {Of(profile_request)}) \cup {Of(who)}
           \/ profile_request' = NoOne /\ web' = web \ {Of(profile_request)}
    BY <1>0, <1>4 DEF GetProfile, Cancelled, TypeOK, Whom
  <2>3. web' = Handles' /\ web' \subseteq Requests
    BY <1>0, <2>1, <2>2 DEF Handles, Requests, Fields, Of, TypeOK
  <2>4. TypeOK'
    <3>1. shown' \in [Names -> Pages]
      BY <1>0, <2>1, PageOK DEF TypeOK
    <3>2. asks' \in 0 .. MaxAsks
      BY <1>0, <2>1 DEF TypeOK
    <3>3. character' \in Whom /\ profile_request' \in Whom
      BY <2>1, <2>2 DEF Whom
    <3> QED
      BY <1>0, <2>1, <2>2, <2>3, <3>1, <3>2, <3>3 DEF TypeOK, FlagsOK
  <2>5. WindowWaits'
    BY <1>0, <2>1, <2>2 DEF WindowWaits, TypeOK, Page
  <2> QED
    BY <1>0, <2>1, <2>3, <2>4, <2>5 DEF ProfileInv, HandlesMatchRequests,
       AnswersAreWhole, TableIsOfOne
<1>5. ASSUME NEW who \in Names, NEW ok \in BOOLEAN, ProfileArrives(who, ok)
      PROVE  ProfileInv'
  <2>1. /\ Of(who) \in web /\ web' = web \ {Of(who)} /\ profile_request' = NoOne
        /\ UNCHANGED <<live, category_table, global_profile_request, table, inbox, asks>>
    BY <1>5 DEF ProfileArrives, Ended, globals
  <2>2. profile_request = who
    BY <1>0, <2>1 DEF Handles, Of, Fields
  <2>3. web' = Handles'
    BY <1>0, <2>1, <2>2 DEF Handles, Of, Fields
  <2>4. /\ shown' \in [Names -> Pages] /\ asked' \in Seq(Whom)
        /\ (character' = character /\ shown' = shown) \/ character' = NoOne
    <3>1. Rows({who}) \in Pages
      BY PageOK
    <3>2. CASE ok
      <4>1. /\ shown' = Displayed(character, Rows({who}))
            /\ character' = NoOne /\ asked' = asked
        BY <1>5, <3>2 DEF ProfileArrives
      <4>2. character \in Whom /\ asked \in Seq(Whom)
        BY <1>0 DEF TypeOK
      <4>3. Displayed(character, Rows({who})) \in [Names -> Pages]
        BY <1>0, <3>1, <4>2, PagesOK
      <4> QED
        BY <4>1, <4>2, <4>3
    <3>3. CASE ~ok
      <4>1. asked' = Append(asked, character) /\ UNCHANGED <<shown, character>>
        BY <1>5, <3>3 DEF ProfileArrives, FallsBack
      <4> QED
        BY <1>0, <4>1 DEF TypeOK
    <3> QED
      BY <3>2, <3>3
  <2>5. TypeOK'
    BY <1>0, <2>1, <2>4 DEF TypeOK, FlagsOK, Whom
  <2> QED
    BY <1>0, <2>1, <2>3, <2>4, <2>5 DEF ProfileInv, HandlesMatchRequests, WindowWaits,
       AnswersAreWhole, TableIsOfOne
<1>6. CASE Serve
  <2>1. /\ UNCHANGED <<live, category_table, global_profile_request, character, table,
                       profile_request, web, shown, asks>>
        /\ asked' \in Seq(Whom)
    BY <1>0, <1>6 DEF Serve, globals, dialogue, TypeOK
  <2>2. AnswersAreWhole' /\ inbox' \in Seq(Messages)
    BY <1>0, <1>6, ServeWhole
  <2>3. TypeOK'
    BY <1>0, <2>1, <2>2 DEF TypeOK, FlagsOK
  <2>4. inbox # <<>> => inbox' # <<>> /\ Head(inbox') = Head(inbox)
    BY <1>0, <1>6, ServeWhole
  <2>5. TableIsOfOne'
    BY <1>0, <2>1, <2>4 DEF TableIsOfOne
  <2> QED
    BY <1>0, <2>1, <2>2, <2>3, <2>5 DEF ProfileInv, HandlesMatchRequests, Handles,
       WindowWaits
<1>7. ASSUME NEW type, Receive(type)
      PROVE  /\ UNCHANGED <<live, category_table, global_profile_request, profile_request,
                            web, asked, asks>>
             /\ AnswersAreWhole' /\ inbox' \in Seq(Messages)
             /\ web' = Handles'
  BY <1>0, <1>7, ReceiveWhole DEF Receive, globals, Handles
<1>8. ASSUME NEW type, Receive(type),
             character' \in Whom, table' # NoTable => table' \subseteq Names,
             shown' \in [Names -> Pages]
      PROVE  HandlesMatchRequests' /\ AnswersAreWhole'
  <2>1. TypeOK'
    BY <1>0, <1>7, <1>8 DEF TypeOK, FlagsOK
  <2> QED
    BY <1>7, <1>8, <2>1 DEF HandlesMatchRequests
<1>9. CASE ReceiveStart
  <2>1. /\ Receive("start")
        /\ table' = IF character = NoOne THEN table ELSE {}
        /\ UNCHANGED <<character, shown>>
    BY <1>9 DEF ReceiveStart
  <2>2. HandlesMatchRequests' /\ AnswersAreWhole'
    BY <1>0, <1>8, <2>1 DEF TypeOK
  <2>3. WindowWaits' /\ TableIsOfOne'
    BY <1>0, <1>7, <2>1, ReceiveWhole DEF WindowWaits, TableIsOfOne, Follows
  <2> QED
    BY <2>2, <2>3 DEF ProfileInv
<1>10. CASE ReceiveRow
  <2>1. /\ Receive("row")
        /\ table' = IF character = NoOne \/ table = NoTable
                    THEN table ELSE table \cup {Head(inbox).of}
        /\ UNCHANGED <<character, shown>>
    BY <1>10 DEF ReceiveRow
  <2>2. HandlesMatchRequests' /\ AnswersAreWhole'
    <3>1. table' # NoTable => table' \subseteq Names
      BY <1>0, <2>1, ReceiveWhole DEF TypeOK
    <3> QED
      BY <1>0, <1>8, <2>1, <3>1 DEF TypeOK
  <2>3. WindowWaits' /\ TableIsOfOne'
    BY <1>0, <1>7, <2>1, ReceiveWhole DEF WindowWaits, TableIsOfOne, Follows
  <2> QED
    BY <2>2, <2>3 DEF ProfileInv
<1>11. CASE ReceiveEnd
  <2>1. /\ Receive("end")
        /\ shown' = Displayed(character, Rows(table))
        /\ character' = NoOne
        /\ table' = IF character = NoOne THEN table ELSE NoTable
    BY <1>11 DEF ReceiveEnd, Over
  <2>2. HandlesMatchRequests' /\ AnswersAreWhole'
    <3>1. Rows(table) \in Pages
      BY <1>0, PageOK DEF TypeOK
    <3> QED
      BY <1>0, <1>8, <2>1, <3>1, PagesOK DEF TypeOK, Whom
  <2> QED
    BY <2>1, <2>2 DEF ProfileInv, WindowWaits, TableIsOfOne
<1>12. CASE ReceiveFlood
  <2>1. /\ Receive("flood")
        /\ shown' = Displayed(character, Page("error"))
        /\ character' = NoOne
        /\ UNCHANGED table
    BY <1>12 DEF ReceiveFlood
  <2>2. HandlesMatchRequests' /\ AnswersAreWhole'
    BY <1>0, <1>8, <2>1, PageOK, PagesOK DEF TypeOK, Whom
  <2> QED
    BY <2>1, <2>2 DEF ProfileInv, WindowWaits, TableIsOfOne
<1>13. CASE ReceiveError
  <2>1. Receive("error") /\ UNCHANGED <<character, table, shown>>
    BY <1>13 DEF ReceiveError
  <2>2. HandlesMatchRequests' /\ AnswersAreWhole'
    BY <1>0, <1>8, <2>1 DEF TypeOK
  <2>3. Head(inbox).type = "error"
    BY <2>1 DEF Receive
  <2>4. WindowWaits' /\ TableIsOfOne'
    BY <1>0, <1>7, <2>1, <2>3 DEF WindowWaits, TableIsOfOne
  <2> QED
    BY <2>2, <2>4 DEF ProfileInv
<1>14. CASE UNCHANGED vars
  BY <1>0, <1>14 DEF vars, ProfileInv, HandlesMatchRequests, TypeOK, Handles, WindowWaits,
     AnswersAreWhole, TableIsOfOne
<1> QED
  BY <1>1, <1>2, <1>3, <1>4, <1>5, <1>6, <1>9, <1>10, <1>11, <1>12, <1>13, <1>14
     DEF Next, Receiving

LEMMA Invariance == Spec => []ProfileInv
  BY InitInv, StepInv, PTL DEF Spec

\* No web request outlives its handle, for any characters and any number of asks.
THEOREM HandlesAlwaysMatch == Spec => []HandlesMatchRequests
<1>1. ProfileInv => HandlesMatchRequests
  BY DEF ProfileInv
<1> QED
  BY <1>1, Invariance, PTL

\* A window changes by asking for its character, or by an answer, which comes for
\* the character that is expected.
LEMMA ShownSteps ==
    ASSUME ProfileInv, Next, NEW who \in Names, shown'[who] # shown[who]
    PROVE  \/ shown'[who] = Page("status")
           \/ shown'[who] = Page("error") /\ character = who
           \/ shown'[who] = Rows({who}) /\ character = who
           \/ ReceiveEnd /\ shown'[who] = Rows(table) /\ character = who
<1>0. shown \in [Names -> Pages] /\ character \in Whom
  BY DEF ProfileInv, HandlesMatchRequests, TypeOK
<1>1. ASSUME NEW page, shown' = Displayed(character, page)
      PROVE  character = who /\ shown'[who] = page
  BY <1>0, <1>1 DEF Displayed, Whom
<1>2. ASSUME NEW other \in Names, NEW present \in BOOLEAN, GetProfile(other, present)
      PROVE  shown'[who] = Page("status")
  BY <1>0, <1>2, ProfileAssumption DEF GetProfile, Displayed
<1>3. ASSUME NEW other \in Names, NEW ok \in BOOLEAN, ProfileArrives(other, ok)
      PROVE  shown'[who] = Rows({who}) /\ character = who
  <2>1. shown' = Displayed(character, Rows({other}))
    BY <1>3 DEF ProfileArrives
  <2>2. character = who /\ shown'[who] = Rows({other})
    BY <1>1, <2>1
  <2>3. profile_request = other
    BY <1>3 DEF ProfileArrives, ProfileInv, HandlesMatchRequests, Handles, Of, Fields
  <2>4. other = who
    BY <2>2, <2>3, ProfileAssumption DEF ProfileInv, WindowWaits
  <2> QED
    BY <2>2, <2>4
<1>4. CASE ReceiveEnd
  BY <1>1, <1>4 DEF ReceiveEnd
<1>5. CASE ReceiveFlood
  BY <1>1, <1>5 DEF ReceiveFlood
<1>6. CASE Load \/ Unload \/ Serve \/ ReceiveStart \/ ReceiveRow \/ ReceiveError
  BY <1>6 DEF Load, Unload, Serve, ReceiveStart, ReceiveRow, ReceiveError
<1>7. ASSUME NEW ok \in BOOLEAN, FieldsArrive(ok)
      PROVE  FALSE
  BY <1>7 DEF FieldsArrive
<1> QED
  BY <1>2, <1>3, <1>4, <1>5, <1>6, <1>7 DEF Next, Receiving

\* A window shows the profile of its own character, unless PRD messages of another
\* one end there.
THEOREM AlwaysOwnProfile == Spec => OwnProfile
<1>1. ASSUME ProfileInv, [Next]_vars, NEW who \in Names,
             shown'[who].rows # shown[who].rows
      PROVE  shown'[who].rows \subseteq {who} \/ Stale(who)
  <2>1. Next /\ shown'[who] # shown[who]
    BY <1>1 DEF vars
  <2>2. CASE ReceiveEnd /\ shown'[who] = Rows(table) /\ character = who
    <3>1. inbox # <<>> /\ inbox' = Tail(inbox)
      BY <2>2 DEF ReceiveEnd, Receive
    <3>2. table = NoTable \/ table \subseteq {Head(inbox).of}
      BY <1>1, <2>2, ProfileAssumption DEF ProfileInv, TableIsOfOne
    <3> QED
      BY <2>2, <3>1, <3>2 DEF Stale, Rows
  <2>3. CASE shown'[who] = Page("status") \/ shown'[who] = Page("error")
    BY <2>3 DEF Page
  <2>4. CASE shown'[who] = Rows({who})
    BY <2>4, ProfileAssumption DEF Rows
  <2> QED
    BY <1>1, <2>1, <2>2, <2>3, <2>4, ShownSteps
<1>2. ProfileInv /\ [Next]_vars
        => [\A who \in Names : shown'[who].rows # shown[who].rows
                                => shown'[who].rows \subseteq {who} \/ Stale(who)]_vars
  BY <1>1
<1> QED
  BY <1>2, Invariance, PTL DEF Spec, OwnProfile

\* A profile that is shown stays until it is asked for again.
THEOREM ProfileStays == Spec => ShownProfileStays
<1>1. ASSUME ProfileInv, [Next]_vars, NEW who \in Names,
             shown[who].what = "profile", shown'[who] # shown[who]
      PROVE  shown'[who] = Page("status")
  <2>1. Next
    BY <1>1 DEF vars
  <2>2. character # who
    BY <1>1, ProfileAssumption DEF ProfileInv, WindowWaits
  <2> QED
    BY <1>1, <2>1, <2>2, ShownSteps
<1>2. ProfileInv /\ [Next]_vars
        => [\A who \in Names : shown[who].what = "profile" /\ shown'[who] # shown[who]
                                => shown'[who] = Page("status")]_vars
  BY <1>1
<1> QED
  BY <1>2, Invariance, PTL DEF Spec, ShownProfileStays
=============================================================================
