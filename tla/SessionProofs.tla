--------------------------- MODULE SessionProofs ---------------------------
(* The safety properties of Session hold for every value of its constants.  *)
EXTENDS Session, TLAPS

\* The Boolean variables stay Boolean.
LEMMA FlagsStep == FlagsOK /\ [Next]_vars => FlagsOK'
  BY DEF FlagsOK, Next, vars, error, Error, Login, TicketTimerFires, TicketReturns,
     ReceiveTicket, ConnectFails, Connected, SslFails, SslUp, ConnectionBreaks,
     HandshakeAccepted, ReceiveIDN, ReceiveOwnNLN, ReceiveERR, ReceivePIN,
     PingTimesOut, Disconnect, UserDisconnects, Close, UserEnables,
     UpdateCheckReturns, First

\* The invariant holds at the start.
LEMMA InitInv == Init => SessionInv
<1> SUFFICES ASSUME Init
             PROVE  SessionInv
  OBVIOUS
<1>1. FlagsOK
  BY DEF FlagsOK, Init
<1> QED
  BY <1>1, SessionAssumption DEF Init, SessionInv, TypeOK, HandlesMatchSources,
     TicketCycle, Watched, OnlineIsIdentified, Nothing, StatusMatchesSocket, Held,
     Sources, Statuses, Pending

\* Every step preserves the invariant.
LEMMA StepInv == SessionInv /\ [Next]_vars => SessionInv'
<1> SUFFICES ASSUME SessionInv, [Next]_vars
             PROVE  SessionInv'
  OBVIOUS
<1>0. FlagsOK'
  BY FlagsStep DEF SessionInv, TypeOK
<1> USE SessionAssumption
    DEF SessionInv, TypeOK, HandlesMatchSources, TicketCycle, Watched,
        OnlineIsIdentified, Nothing, StatusMatchesSocket, Held, Sources, Statuses,
        Pending, Added, Removed, Rearmed, Error, Readable, error
<1>1. ASSUME NEW validUrl \in BOOLEAN, Login(validUrl) PROVE SessionInv'
  <2>1. CASE validUrl
    BY <1>0, <1>1, <2>1 DEF Login
  <2>2. CASE ~validUrl
    BY <1>0, <1>1, <2>2 DEF Login
  <2> QED
    BY <2>1, <2>2
<1>2. CASE TicketTimerFires
  BY <1>0, <1>2 DEF TicketTimerFires
<1>3. ASSUME NEW outcome \in Outcomes, NEW connects \in BOOLEAN,
             ReceiveTicket(outcome, connects)
      PROVE  SessionInv'
  <2> DEFINE connected == outcome = "ticket" /\ First /\ connects
  <2>1. /\ "ticket_request" \in handles
        /\ "ticket_timer" \notin handles
    BY <1>3 DEF ReceiveTicket
  <2>2. handles' = (handles \ {"ticket_request"}) \cup {"ticket_timer"}
    BY <1>3 DEF ReceiveTicket, Renewed
  <2>3. ASSUME NEW s \in Sources
        PROVE  loop'[s] = IF s = "ticket_request" THEN 0
                          ELSE IF s = "ticket_timer" THEN 1
                          ELSE IF s = "proxy" /\ connected THEN 1
                          ELSE loop[s]
    BY <1>3, <2>1 DEF ReceiveTicket, Renewed, First
  <2>4. loop' \in [Sources -> 0 .. 1]
    BY <1>3, <2>1 DEF ReceiveTicket, Renewed, First
  <2>5. /\ connection_status' = IF connected THEN "CONNECT" ELSE connection_status
        /\ connected => connection_status = "OFFLINE" /\ ticket'
        /\ ticket => ticket'
        /\ live /\ live'
        /\ disconnecting => disconnecting'
        /\ online' = online
        /\ UNCHANGED <<tls, update_check, pings>>
    BY <1>3 DEF ReceiveTicket, First
  <2> HIDE DEF connected
  <2> QED
    BY <1>0, <2>1, <2>2, <2>3, <2>4, <2>5
<1>4. CASE ConnectFails
  BY <1>0, <1>4 DEF ConnectFails
<1>5. CASE Connected
  BY <1>0, <1>5 DEF Connected
<1>6. CASE SslFails
  BY <1>0, <1>6 DEF SslFails
<1>7. CASE SslUp
  BY <1>0, <1>7 DEF SslUp, ArmedByHandshake
<1>8. CASE ConnectionBreaks
  BY <1>0, <1>8 DEF ConnectionBreaks
<1>9. CASE HandshakeAccepted
  BY <1>0, <1>9 DEF HandshakeAccepted
<1>10. CASE ReceiveIDN
  BY <1>0, <1>10 DEF ReceiveIDN
<1>11. CASE ReceiveOwnNLN
  BY <1>0, <1>11 DEF ReceiveOwnNLN
<1>12. ASSUME NEW loggedInElsewhere \in BOOLEAN, ReceiveERR(loggedInElsewhere)
       PROVE  SessionInv'
  BY <1>0, <1>12 DEF ReceiveERR
<1>13. CASE ReceivePIN
  BY <1>0, <1>13 DEF ReceivePIN
<1>14. CASE PingTimesOut
  BY <1>0, <1>14 DEF PingTimesOut
<1>15. CASE Disconnect
  BY <1>0, <1>15 DEF Disconnect, Close, Left, Cancelled
<1>16. CASE UserDisconnects
  BY <1>0, <1>16 DEF UserDisconnects, Close, Left, Cancelled
<1>17. CASE UserEnables
  BY <1>0, <1>17 DEF UserEnables
<1>18. CASE UpdateCheckReturns
  BY <1>0, <1>18 DEF UpdateCheckReturns
<1>19. CASE UNCHANGED vars
  BY <1>0, <1>19 DEF vars
<1> QED
  BY <1>1, <1>2, <1>3, <1>4, <1>5, <1>6, <1>7, <1>8, <1>9, <1>10, <1>11, <1>12,
     <1>13, <1>14, <1>15, <1>16, <1>17, <1>18, <1>19 DEF Next, TicketReturns

----------------------------------------------------------------------------
\* The inductive invariant holds of every behaviour.
THEOREM Invariance == Spec => []SessionInv
<1>1. Init => SessionInv
  BY InitInv
<1>2. SessionInv /\ [Next]_vars => SessionInv'
  BY StepInv
<1> QED
  BY <1>1, <1>2, PTL DEF Spec

\* Every variable keeps its type; in particular no source of the event loop is
\* ever armed twice.
THEOREM TypeCorrect == Spec => []TypeOK
<1>1. SessionInv => TypeOK
  BY DEF SessionInv
<1> QED
  BY <1>1, Invariance, PTL

\* However logins, failures and closes follow each other, each handle of the
\* account stands for exactly one source of the loop, and flist_close leaves no
\* source in the loop but the version check, which has no handle.
THEOREM OnlyVersionCheckOutlives == Spec => []HandlesMatchSources
<1>1. SessionInv => HandlesMatchSources
  BY DEF SessionInv
<1> QED
  BY <1>1, Invariance, PTL

\* The ticket of a session in good standing is always about to be renewed.
THEOREM TicketIsRenewed == Spec => []TicketCycle
<1>1. SessionInv => TicketCycle
  BY DEF SessionInv
<1> QED
  BY <1>1, Invariance, PTL

\* No socket is up without the watchdog, except when the session is ending.
THEOREM NoSilentConnection == Spec => []Watched
<1>1. SessionInv => Watched
  BY DEF SessionInv
<1> QED
  BY <1>1, Invariance, PTL

\* Pidgin is told that we are online only when we are.
THEOREM OnlineMeansOnline == Spec => []OnlineIsIdentified
<1>1. SessionInv => OnlineIsIdentified
  BY DEF SessionInv
<1> QED
  BY <1>1, Invariance, PTL
=============================================================================
