----------------------------- MODULE IconsProofs -----------------------------
(* The safety properties of Icons hold for any characters, icons and
   conversations, any number of slots and any bounds.                       *)
EXTENDS Icons, FiniteSetTheorems, TLAPS

\* The invariant holds at the start.
LEMMA InitInv == Init => IconsInv
<1> SUFFICES ASSUME Init
             PROVE  IconsInv
  OBVIOUS
<1>1. IsFiniteSet({}) /\ Cardinality({}) = 0
  BY FS_EmptySet
<1>2. live \in BOOLEAN
  BY DEF Init
<1>3. TypeOK
  BY <1>2 DEF Init, TypeOK
<1> QED
  BY <1>1, <1>3, IconsAssumption DEF Init, IconsInv, UrlsAreRequests, SlotsInUse, Distinct

\* A step that leaves the requests and the queue alone.
LEMMA SameRequests ==
    ASSUME IconsInv, TypeOK', UNCHANGED <<icon_requests, icon_request_queue, urls, fetches>>
    PROVE  IconsInv'
  BY DEF IconsInv, UrlsAreRequests, SlotsInUse, Distinct

\* A new request is no other, and is in flight or the last of the queue.
LEMMA StartOrQueueInv ==
    ASSUME IconsInv,
           NEW fli \in Requests, fli.id = fetches + 1,
           StartOrQueue(fli),
           smiley' \in [Convos -> [Smileys -> {"none", "open", "left"}]]
    PROVE  IconsInv'
<1> USE IconsAssumption DEF IconsInv, UrlsAreRequests, SlotsInUse, Distinct
<1> DEFINE q == icon_request_queue
<1>1. /\ fetches \in Nat /\ fetches' = fetches + 1
      /\ icon_requests \subseteq Requests /\ q \in Seq(Requests)
      /\ live /\ live'
      /\ urls = icon_requests
  BY DEF StartOrQueue, TypeOK
<1>2. fli \notin icon_requests /\ \A i \in DOMAIN q : q[i] # fli
  BY <1>1
<1>3. CASE MayFetch
  <2>1. /\ icon_requests' = icon_requests \cup {fli}
        /\ urls' = icon_requests'
        /\ q' = q
    BY <1>1, <1>3 DEF StartOrQueue
  <2>2. /\ IsFiniteSet(icon_requests')
        /\ Cardinality(icon_requests') = Cardinality(icon_requests) + 1
        /\ Cardinality(icon_requests) \in Nat
    BY <1>2, <2>1, FS_AddElement, FS_CardinalityType
  <2>3. q = <<>>
    BY <1>3, <2>2 DEF MayFetch
  <2>4. TypeOK'
    BY <1>1, <2>1 DEF StartOrQueue, TypeOK, libpurple, bounds
  <2>5. SlotsInUse'
    BY <1>3, <2>1, <2>2, <2>3 DEF MayFetch
  <2>6. Distinct'
    BY <1>1, <2>1, <2>2, <2>3 DEF Requests
  <2> QED
    BY <2>1, <2>4, <2>5, <2>6
<1>4. CASE ~MayFetch
  <2>1. /\ icon_requests' = icon_requests
        /\ urls' = urls
        /\ q' = Append(q, fli)
    BY <1>4 DEF StartOrQueue
  <2>2. Cardinality(icon_requests) = FLIST_MAX_ICON_REQUESTS
    BY <1>4, FS_CardinalityType DEF MayFetch
  <2>3. q' \in Seq(Requests) /\ q' # <<>> /\ Len(q') = Len(q) + 1
    BY <1>1, <2>1
  <2>4. TypeOK'
    BY <1>1, <2>1, <2>3 DEF StartOrQueue, TypeOK, libpurple, bounds
  <2>5. \A i \in DOMAIN q' : q'[i] = IF i = Len(q) + 1 THEN fli ELSE q[i]
    BY <1>1, <2>1
  <2>6. Distinct'
    <3>1. /\ DOMAIN q' = 1 .. Len(q) + 1
          /\ DOMAIN q = 1 .. Len(q)
          /\ Len(q) \in Nat
      BY <1>1, <2>3
    <3>2. ASSUME NEW i \in DOMAIN q PROVE q[i].id <= fetches'
      <4>1. q[i] \in Requests
        BY <1>1
      <4> QED
        BY <1>1, <4>1 DEF Requests
    <3>3. ASSUME NEW r \in icon_requests' PROVE r.id <= fetches'
      BY <1>1, <2>1 DEF Requests
    <3>4. ASSUME NEW i \in DOMAIN q'
          PROVE  /\ q'[i].id <= fetches'
                 /\ q'[i] \notin icon_requests'
                 /\ \A j \in DOMAIN q' : q'[j] = q'[i] => j = i
      <4>1. CASE i = Len(q) + 1
        BY <1>1, <1>2, <2>1, <2>5, <3>1, <4>1
      <4>2. CASE i \in DOMAIN q
        BY <1>1, <1>2, <2>1, <2>5, <3>1, <3>2, <4>2
      <4> QED
        BY <3>1, <4>1, <4>2
    <3> QED
      BY <2>1, <3>3, <3>4
  <2> QED
    BY <1>1, <2>1, <2>2, <2>3, <2>4, <2>6
<1> QED
  BY <1>3, <1>4

\* The callback takes its request away and starts the next one of the queue.
LEMMA FetchedInv ==
    ASSUME IconsInv,
           NEW fli \in urls, NEW ok \in BOOLEAN, Fetched(fli, ok)
    PROVE  IconsInv'
<1> USE IconsAssumption DEF IconsInv, UrlsAreRequests, SlotsInUse, Distinct
<1> DEFINE q == icon_request_queue
<1>1. /\ fetches' = fetches /\ fetches \in Nat
      /\ icon_requests \subseteq Requests /\ q \in Seq(Requests)
      /\ urls = icon_requests /\ fli \in icon_requests
      /\ UNCHANGED <<live, libpurple, bounds>>
  BY DEF Fetched, TypeOK
<1>2. PICK n \in 0 .. Len(q) :
        /\ Dropped(n)
        /\ icon_requests' = (icon_requests \ {fli}) \cup StartedAfter(n)
        /\ urls' = (urls \ {fli}) \cup StartedAfter(n)
        /\ q' = SubSeq(q, n + 2, Len(q))
  BY DEF Fetched
<1>3. urls' = icon_requests'
  BY <1>1, <1>2
<1>4. /\ IsFiniteSet(icon_requests \ {fli})
      /\ Cardinality(icon_requests \ {fli}) = Cardinality(icon_requests) - 1
      /\ Cardinality(icon_requests) \in Nat
  BY <1>1, FS_RemoveElement, FS_CardinalityType
<1>5. smiley' \in [Convos -> [Smileys -> {"none", "open", "left"}]]
  BY DEF TypeOK, Fetched, Closed
<1>6. live
  BY <1>1 DEF TypeOK
<1>7. CASE n < Len(q)
  <2>1. StartedAfter(n) = {q[n + 1]}
    BY <1>7, <1>2 DEF Dropped, StartedAfter
  <2>2. q[n + 1] \in Requests /\ q[n + 1] \notin icon_requests
    BY <1>1, <1>2, <1>7
  <2>3. /\ IsFiniteSet(icon_requests')
        /\ Cardinality(icon_requests') = Cardinality(icon_requests)
    <3> DEFINE rest == icon_requests \ {fli}
    <3>1. q[n + 1] \notin rest /\ IsFiniteSet(rest)
      BY <1>4, <2>2
    <3>2. icon_requests' = rest \cup {q[n + 1]}
      BY <1>2, <2>1
    <3>3. Cardinality(rest) = Cardinality(icon_requests) - 1
      BY <1>4
    <3> HIDE DEF rest
    <3>4. IsFiniteSet(rest \cup {q[n + 1]}) /\ Cardinality(rest \cup {q[n + 1]}) = Cardinality(rest) + 1
      BY <3>1, FS_AddElement
    <3> QED
      BY <1>4, <3>2, <3>3, <3>4
  <2>4. /\ q' \in Seq(Requests)
        /\ Len(q') = Len(q) - n - 1
        /\ \A i \in 1 .. Len(q') : q'[i] = q[i + n + 1]
    BY <1>1, <1>2, <1>7
  <2>5. TypeOK'
    <3>1. icon_requests' \subseteq Requests /\ urls' \subseteq Requests
      BY <1>1, <1>2, <1>3, <2>1, <2>2
    <3>2. q' \in Seq(Requests)
      BY <2>4
    <3>3. TypeOK
      OBVIOUS
    <3> QED
      BY <1>1, <1>5, <1>6, <3>1, <3>2, <3>3 DEF TypeOK, libpurple, bounds
  <2>6. SlotsInUse'
    BY <1>1, <1>7, <2>3
  <2>7. \A i \in 1 .. Len(q') : i + n + 1 \in 1 .. Len(q) /\ i + n + 1 # n + 1
    <3> DEFINE len == Len(q)
    <3>1. len \in Nat /\ n \in Nat /\ n < len /\ Len(q') = len - n - 1
      BY <1>1, <1>7, <2>4
    <3> HIDE DEF len
    <3> QED
      <4>1. \A i \in 1 .. (len - n - 1) : i + n + 1 \in 1 .. len /\ i + n + 1 # n + 1
        BY <3>1
      <4> QED
        BY <3>1, <4>1 DEF len
  <2>8. ASSUME NEW i \in DOMAIN q'
        PROVE  /\ q'[i].id <= fetches'
               /\ q'[i] \notin icon_requests'
               /\ \A j \in DOMAIN q' : q'[j] = q'[i] => j = i
    <3>1. DOMAIN q' = 1 .. Len(q') /\ DOMAIN q = 1 .. Len(q)
      BY <1>1, <2>4
    <3>2. n + 1 \in 1 .. Len(q)
      BY <1>1, <1>2, <1>7
    <3>3. q'[i] = q[i + n + 1] /\ i + n + 1 \in DOMAIN q /\ i + n + 1 # n + 1
      BY <2>4, <2>7, <2>8, <3>1
    <3>4. q[i + n + 1] \notin icon_requests /\ q[i + n + 1] # q[n + 1]
      BY <3>1, <3>2, <3>3
    <3>5. ASSUME NEW j \in DOMAIN q', q'[j] = q'[i] PROVE j = i
      <4>1. q'[j] = q[j + n + 1] /\ j + n + 1 \in DOMAIN q
        BY <2>4, <2>7, <3>1
      <4>2. j + n + 1 = i + n + 1
        BY <3>3, <3>5, <4>1
      <4> QED
        BY <1>2, <2>8, <3>1, <4>2
    <3> QED
      BY <1>1, <1>2, <2>1, <3>3, <3>4, <3>5
  <2>9. \A r \in icon_requests' : r.id <= fetches'
    <3>1. n + 1 \in DOMAIN q
      BY <1>1, <1>2, <1>7
    <3>2. q[n + 1].id <= fetches
      BY <3>1
    <3> QED
      BY <1>1, <1>2, <2>1, <3>2
  <2> QED
    BY <1>3, <2>3, <2>5, <2>6, <2>8, <2>9
<1>8. CASE n = Len(q)
  <2>1. StartedAfter(n) = {} /\ q' = <<>>
    BY <1>1, <1>2, <1>8 DEF StartedAfter
  <2>2. icon_requests' = icon_requests \ {fli}
    BY <1>2, <2>1
  <2>3. TypeOK'
    BY <1>1, <1>3, <1>5, <1>6, <2>1, <2>2 DEF TypeOK, libpurple, bounds
  <2> QED
    BY <1>1, <1>3, <1>4, <2>1, <2>2, <2>3
<1> QED
  BY <1>1, <1>2, <1>7, <1>8

\* Every step preserves the invariant.
LEMMA StepInv == IconsInv /\ [Next]_vars => IconsInv'
<1> SUFFICES ASSUME IconsInv, [Next]_vars
             PROVE  IconsInv'
  OBVIOUS
<1> USE IconsAssumption
<1>0. TypeOK /\ urls = icon_requests /\ Distinct
  BY DEF IconsInv, UrlsAreRequests
<1>1. CASE Login
  <2>1. TypeOK'
    BY <1>0, <1>1 DEF Login, TypeOK, libpurple
  <2> QED
    BY <1>1, <2>1, SameRequests DEF Login
<1>2. CASE CancelAll
  <2>1. icon_requests' = {} /\ urls' = {} /\ icon_request_queue' = <<>>
    BY <1>0, <1>2 DEF CancelAll, Cancelled, EmptyQueue
  <2>2. TypeOK'
    <3>1. live' \in BOOLEAN /\ smiley' \in [Convos -> [Smileys -> {"none", "open", "left"}]]
      BY <1>0, <1>2 DEF CancelAll, TypeOK
    <3>2. UNCHANGED <<buddies, open, fetches, sessions, changes>>
      BY <1>2 DEF CancelAll, libpurple, bounds
    <3> QED
      BY <1>0, <2>1, <3>1, <3>2 DEF TypeOK
  <2> QED
    BY <2>1, <2>2, FS_EmptySet DEF IconsInv, UrlsAreRequests, SlotsInUse, Distinct
<1>3. ASSUME NEW character \in Characters, FetchIcon(character)
      PROVE  IconsInv'
  <2> DEFINE fli == Fetch(None, None, character)
  <2>1. fli \in Requests /\ fli.id = fetches + 1
    BY <1>0 DEF Fetch, Requests, TypeOK
  <2>2. StartOrQueue(fli) /\ smiley' = smiley
    BY <1>3 DEF FetchIcon
  <2> HIDE DEF fli
  <2> QED
    BY <1>0, <2>1, <2>2, StartOrQueueInv DEF TypeOK
<1>4. ASSUME NEW convo \in Convos, NEW name \in Smileys, AddSmiley(convo, name)
      PROVE  smiley' \in [Convos -> [Smileys -> {"none", "open", "left"}]]
  BY <1>0, <1>4 DEF AddSmiley, TypeOK
<1>5. ASSUME NEW character \in Characters, NEW convo \in Convos,
             FetchAvatar(character, convo)
      PROVE  IconsInv'
  <2> DEFINE fli == Fetch(convo, character, character)
  <2>1. fli \in Requests /\ fli.id = fetches + 1
    BY <1>0 DEF Fetch, Requests, Smileys, TypeOK
  <2>2. StartOrQueue(fli) /\ smiley' \in [Convos -> [Smileys -> {"none", "open", "left"}]]
    BY <1>4, <1>5 DEF FetchAvatar, Smileys
  <2> HIDE DEF fli
  <2> QED
    BY <2>1, <2>2, StartOrQueueInv
<1>6. ASSUME NEW name \in EIcons, NEW convo \in Convos, FetchEicon(name, convo)
      PROVE  IconsInv'
  <2> DEFINE fli == Fetch(convo, name, None)
  <2>1. fli \in Requests /\ fli.id = fetches + 1
    BY <1>0 DEF Fetch, Requests, Smileys, TypeOK
  <2>2. StartOrQueue(fli) /\ smiley' \in [Convos -> [Smileys -> {"none", "open", "left"}]]
    BY <1>4, <1>6 DEF FetchEicon, Smileys
  <2> HIDE DEF fli
  <2> QED
    BY <2>1, <2>2, StartOrQueueInv
<1>7. CASE AnswerArrives
  BY <1>7, FetchedInv DEF AnswerArrives
<1>8. ASSUME NEW convo \in Convos, OpenConvo(convo) \/ CloseConvo(convo)
      PROVE  IconsInv'
  <2>1. TypeOK'
    BY <1>0, <1>8 DEF OpenConvo, CloseConvo, TypeOK, account, bounds
  <2> QED
    BY <1>8, <2>1, SameRequests DEF OpenConvo, CloseConvo, account
<1>9. ASSUME NEW character \in Characters, AddBuddy(character) \/ RemoveBuddy(character)
      PROVE  IconsInv'
  <2>1. TypeOK'
    BY <1>0, <1>9 DEF AddBuddy, RemoveBuddy, TypeOK, account, bounds
  <2> QED
    BY <1>9, <2>1, SameRequests DEF AddBuddy, RemoveBuddy, account
<1>10. CASE UNCHANGED vars
  <2>1. TypeOK'
    BY <1>0, <1>10 DEF vars, TypeOK
  <2> QED
    BY <1>10, <2>1, SameRequests DEF vars
<1> QED
  BY <1>1, <1>2, <1>3, <1>5, <1>6, <1>7, <1>8, <1>9, <1>10 DEF Next

LEMMA Invariance == Spec => []IconsInv
  BY InitInv, StepInv, PTL DEF Spec

\* The URLs the event loop fetches are the requests of the session there is, and
\* all variables keep their types: a callback never finds its account freed.
THEOREM UrlsAlwaysRequests == Spec => []UrlsAreRequests
<1>1. IconsInv => UrlsAreRequests
  BY DEF IconsInv
<1> QED
  BY <1>1, Invariance, PTL

\* However many slots there are, they are all in use while something waits.
THEOREM SlotsAlwaysInUse == Spec => []SlotsInUse
<1>1. IconsInv => SlotsInUse
  BY DEF IconsInv
<1> QED
  BY <1>1, Invariance, PTL
=============================================================================
