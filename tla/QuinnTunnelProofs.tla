------------------------- MODULE QuinnTunnelProofs -------------------------
(***************************************************************************)
(* QuinnInv is invariant, for any number of callers and streams.  The      *)
(* proof takes its parts in turn: what the steps do to the streams and     *)
(* their counter, the types, the reason, the lock of the name.             *)
(***************************************************************************)
EXTENDS QuinnTunnel, FiniteSetTheorems, TLAPS

Streams == Openers \union Arrivals
OpenStreams == {s \in Streams : link[s] = "open"}

LEMMA QuinnInitInv == Init => QuinnInv
<1> SUFFICES ASSUME Init PROVE QuinnInv
  OBVIOUS
<1>1. QuinnTypeOK
  BY DEF Init, QuinnTypeOK
<1>2. StreamsAreCounted
  <2>1. {s \in Openers \union Arrivals : link[s] = "open"} = {}
    BY DEF Init
  <2> QED
    BY <2>1, FS_EmptySet DEF Init, StreamsAreCounted
<1>3. ReasonInv /\ NoticeHasReason /\ OneCloserSucceeds
  BY DEF Init, ReasonInv, NoticeHasReason, OneCloserSucceeds
<1>4. LockInv /\ OneAuthentication
  BY QuinnAssumption DEF Init, LockInv, OneAuthentication
<1> QED
  BY <1>1, <1>2, <1>3, <1>4 DEF QuinnInv
-----------------------------------------------------------------------------
(***************************************************************************)
(* The streams: one is opened and counted, one is dropped and discounted,  *)
(* or one moves between states in which no guard counts it.                *)
(***************************************************************************)
StreamOpened == \E s \in Streams :
    /\ link[s] # "open" /\ link' = [link EXCEPT ![s] = "open"] /\ active' = active + 1
StreamDropped == \E s \in Streams :
    /\ link[s] = "open" /\ link' = [link EXCEPT ![s] = "over"] /\ active' = active - 1
StreamMoved == \E s \in Streams, v \in {"opening", "failed", "stored", "over"} :
    /\ link[s] # "open" /\ link' = [link EXCEPT ![s] = v] /\ active' = active

LEMMA StreamStep ==
    ASSUME [Next]_vars
    PROVE  UNCHANGED <<link, active>> \/ StreamOpened \/ StreamDropped \/ StreamMoved
<1> USE DEF Streams
<1>1. CASE UNCHANGED vars
  BY <1>1 DEF vars, streams
<1>2. CASE LoseConnection \/ DropTunnel \/ AskDownlink \/ TakeDownlink \/ ReleaseDownlink \/ JoinChannels
           \/ JoinCancels \/ PollIncoming
  BY <1>2 DEF LoseConnection, DropTunnel, AskDownlink, TakeDownlink, ReleaseDownlink, JoinChannels,
              JoinCancels, PollIncoming, IncomingEnds, AcceptFails, StoreAcceptReason, CloseIncoming,
              streams
<1>3. ASSUME NEW a \in Arrivals, AcceptStream(a) PROVE StreamOpened
  BY <1>3 DEF AcceptStream, StreamOpened
<1>4. ASSUME NEW o \in Openers, OpenLink(o) PROVE StreamMoved
  BY <1>4 DEF OpenLink, StreamMoved
<1>5. ASSUME NEW o \in Openers, FinishOpen(o) PROVE StreamOpened \/ StreamMoved
  BY <1>5 DEF FinishOpen, LinkOpens, StoreOpenReason, CloseOutgoing, StreamOpened, StreamMoved
<1>6. ASSUME NEW s \in Openers \union Arrivals, DropStream(s) PROVE StreamDropped \/ StreamMoved
  BY <1>6 DEF DropStream, StreamDropped, StreamMoved
<1>7. ASSUME NEW c \in Closers, Close(c) PROVE UNCHANGED <<link, active>>
  BY <1>7 DEF Close, SendClose, SwapReason, FinishClose, streams
<1>8. ASSUME NEW ch \in Channels, OnClosed(ch) PROVE UNCHANGED <<link, active>>
  BY <1>8 DEF OnClosed, streams
<1>9. ASSUME NEW r \in Reporters, Report(r) \/ FinishReport(r) PROVE UNCHANGED <<link, active>>
  BY <1>9 DEF Report, FinishReport, LockAuthenticated, StoreAuthenticated, streams
<1>10. ASSUME NEW l \in Listeners, AwaitAuthentication(l) PROVE UNCHANGED <<link, active>>
  BY <1>10 DEF AwaitAuthentication, streams
<1> QED
  BY <1>1, <1>2, <1>3, <1>4, <1>5, <1>6, <1>7, <1>8, <1>9, <1>10 DEF Next

LEMMA CountInv ==
    ASSUME QuinnTypeOK, StreamsAreCounted, [Next]_vars
    PROVE  StreamsAreCounted' /\ active' \in Nat
<1> DEFINE LinkStates == {"idle", "opening", "failed", "stored", "open", "over"}
<1>1. /\ link \in [Streams -> LinkStates] /\ active \in Nat /\ active = Cardinality(OpenStreams)
  BY DEF QuinnTypeOK, StreamsAreCounted, Streams, OpenStreams
<1>2. IsFiniteSet(OpenStreams)
  BY QuinnAssumption, FS_Subset DEF Streams, OpenStreams
<1>3. SUFFICES active' = Cardinality(OpenStreams') /\ active' \in Nat
  BY DEF StreamsAreCounted, Streams, OpenStreams
<1>4. CASE UNCHANGED <<link, active>>
  BY <1>1, <1>4 DEF OpenStreams
<1>5. CASE StreamOpened
  <2>1. PICK s \in Streams :
            link[s] # "open" /\ link' = [link EXCEPT ![s] = "open"] /\ active' = active + 1
    BY <1>5 DEF StreamOpened
  <2>2. OpenStreams' = OpenStreams \union {s} /\ s \notin OpenStreams
    BY <1>1, <2>1 DEF OpenStreams
  <2>3. Cardinality(OpenStreams \union {s}) = Cardinality(OpenStreams) + 1
    BY <1>2, <2>2, FS_AddElement, Zenon
  <2> QED
    BY <1>1, <2>1, <2>2, <2>3
<1>6. CASE StreamDropped
  <2>1. PICK s \in Streams :
            link[s] = "open" /\ link' = [link EXCEPT ![s] = "over"] /\ active' = active - 1
    BY <1>6 DEF StreamDropped
  <2>2. OpenStreams' = OpenStreams \ {s} /\ s \in OpenStreams
    BY <1>1, <2>1 DEF OpenStreams
  <2>3. /\ IsFiniteSet(OpenStreams \ {s})
        /\ Cardinality(OpenStreams \ {s}) = Cardinality(OpenStreams) - 1
    BY <1>2, <2>2, FS_RemoveElement, Zenon
  <2>4. Cardinality(OpenStreams \ {s}) \in Nat
    BY <2>3, FS_CardinalityType
  <2> QED
    BY <1>1, <2>1, <2>2, <2>3, <2>4
<1>7. CASE StreamMoved
  <2>1. PICK s \in Streams, v \in {"opening", "failed", "stored", "over"} :
            link[s] # "open" /\ link' = [link EXCEPT ![s] = v] /\ active' = active
    BY <1>7 DEF StreamMoved
  <2>2. OpenStreams' = OpenStreams
    BY <1>1, <2>1 DEF OpenStreams
  <2> QED
    BY <1>1, <2>1, <2>2
<1> QED
  BY <1>4, <1>5, <1>6, <1>7, StreamStep

LEMMA LinkType ==
    ASSUME QuinnTypeOK, [Next]_vars
    PROVE  link' \in [Openers \union Arrivals ->
                         {"idle", "opening", "failed", "stored", "open", "over"}]
  BY StreamStep DEF QuinnTypeOK, StreamOpened, StreamDropped, StreamMoved, Streams
-----------------------------------------------------------------------------
\* The failures of the connection, as close reasons.
LEMMA ToTunnelErrorType ==
    ASSUME NEW e \in ConnectionErrors
    PROVE  ToTunnelError(e) \in TunnelErrors
  BY DEF ToTunnelError, ConnectionErrors, TunnelErrors

\* Whatever cancels a token leaves four tokens.
TokenType ==
    /\ closed \in BOOLEAN /\ incoming_closed \in BOOLEAN /\ outgoing_closed \in BOOLEAN
    /\ unused_outgoing \in BOOLEAN

LEMMA TokenStep ==
    ASSUME TokenType, CancelAll \/ CancelIncoming \/ CancelOutgoing \/ DropShares
    PROVE  TokenType'
<1>1. CASE DropShares
  BY <1>1, Zenon DEF DropShares, TokenType
<1> QED
  BY <1>1 DEF CancelAll, CancelIncoming, CancelOutgoing, TokenType

LEMMA TypeInv ==
    ASSUME QuinnInv, [Next]_vars
    PROVE  QuinnTypeOK'
<1>1. /\ QuinnTypeOK /\ active' \in Nat
      /\ link' \in [Openers \union Arrivals ->
                        {"idle", "opening", "failed", "stored", "open", "over"}]
  BY CountInv, LinkType DEF QuinnInv
<1> USE DEF tokens, streams, closing, auth, QuinnTypeOK
<1>2. CASE UNCHANGED vars
  BY <1>1, <1>2 DEF vars
<1>3. CASE LoseConnection \/ AskDownlink \/ TakeDownlink \/ JoinChannels
  BY <1>1, <1>3, QuinnAssumption DEF LoseConnection, AskDownlink, TakeDownlink, JoinChannels
<1>4. CASE DropTunnel \/ ReleaseDownlink \/ JoinCancels
  <2>1. TokenType'
    BY <1>1, <1>4, TokenStep DEF DropTunnel, ReleaseDownlink, JoinCancels, TokenType
  <2>2. CASE DropTunnel
    BY <1>1, <2>1, <2>2 DEF DropTunnel, TokenType
  <2>3. CASE ReleaseDownlink
    BY <1>1, <2>1, <2>3 DEF ReleaseDownlink, TokenType
  <2>4. CASE JoinCancels
    BY <1>1, <2>1, <2>4 DEF JoinCancels, TokenType
  <2> QED
    BY <1>4, <2>2, <2>3, <2>4
<1>5. CASE PollIncoming
  <2>1. CASE IncomingEnds \/ AcceptFails
    BY <1>1, <2>1 DEF IncomingEnds, AcceptFails
  <2>2. CASE StoreAcceptReason
    BY <1>1, <2>2 DEF StoreAcceptReason, CloseReasons, TunnelErrors
  <2>3. CASE CloseIncoming
    <3>1. TokenType'
      BY <1>1, <2>3, TokenStep DEF CloseIncoming, TokenType
    <3> QED
      BY <1>1, <2>3, <3>1 DEF CloseIncoming, TokenType
  <2> QED
    BY <1>5, <2>1, <2>2, <2>3 DEF PollIncoming
<1>6. ASSUME NEW a \in Arrivals, AcceptStream(a) PROVE QuinnTypeOK'
  BY <1>1, <1>6 DEF AcceptStream
<1>7. ASSUME NEW o \in Openers, OpenLink(o) PROVE QuinnTypeOK'
  BY <1>1, <1>7 DEF OpenLink
<1>8. ASSUME NEW o \in Openers, FinishOpen(o) PROVE QuinnTypeOK'
  <2>1. CASE LinkOpens(o) \/ CloseOutgoing(o)
    <3>1. TokenType'
      BY <1>1, <2>1, TokenStep DEF LinkOpens, CloseOutgoing, TokenType
    <3> QED
      BY <1>1, <2>1, <3>1 DEF LinkOpens, CloseOutgoing, TokenType
  <2>2. CASE StoreOpenReason(o)
    <3>1. conn \in ConnectionErrors
      BY <2>2 DEF QuinnInv, ReasonInv, StoreOpenReason
    <3> QED
      BY <1>1, <2>2, <3>1, ToTunnelErrorType DEF StoreOpenReason, CloseReasons
  <2> QED
    BY <1>8, <2>1, <2>2 DEF FinishOpen
<1>9. ASSUME NEW s \in Openers \union Arrivals, DropStream(s) PROVE QuinnTypeOK'
  <2>1. TokenType'
    BY <1>1, <1>9, TokenStep DEF DropStream, TokenType
  <2> QED
    BY <1>1, <1>9, <2>1 DEF DropStream, TokenType
<1>10. ASSUME NEW c \in Closers, Close(c) PROVE QuinnTypeOK'
  <2>1. CASE SendClose(c) \/ SwapReason(c)
    BY <1>1, <2>1 DEF SendClose, SwapReason, CloseReasons, ConnectionErrors
  <2>2. CASE FinishClose(c)
    <3>1. TokenType'
      BY <1>1, <2>2, TokenStep DEF FinishClose, TokenType
    <3> QED
      BY <1>1, <2>2, <3>1 DEF FinishClose, TokenType
  <2> QED
    BY <1>10, <2>1, <2>2 DEF Close
<1>11. ASSUME NEW ch \in Channels, OnClosed(ch) PROVE QuinnTypeOK'
  BY <1>1, <1>11 DEF OnClosed
<1>12. ASSUME NEW r \in Reporters, Report(r) \/ FinishReport(r) PROVE QuinnTypeOK'
  BY <1>1, <1>12 DEF Report, FinishReport, LockAuthenticated, StoreAuthenticated
<1>13. ASSUME NEW l \in Listeners, AwaitAuthentication(l) PROVE QuinnTypeOK'
  BY <1>1, <1>13 DEF AwaitAuthentication
<1> QED
  BY <1>2, <1>3, <1>4, <1>5, <1>6, <1>7, <1>8, <1>9, <1>10, <1>11, <1>12, <1>13 DEF Next
-----------------------------------------------------------------------------
(***************************************************************************)
(* The close reason.  It is never taken back, so a part of ReasonInv can   *)
(* only be broken by the step that makes its premise true.                 *)
(***************************************************************************)
LEMMA ReasonStays ==
    ASSUME QuinnInv, [Next]_vars, ReasonStored
    PROVE  ReasonStored'
<1>1. ASSUME NEW o \in Openers, StoreOpenReason(o) PROVE ReasonStored'
  <2>1. conn \in ConnectionErrors
    BY <1>1 DEF QuinnInv, QuinnTypeOK, ReasonInv, StoreOpenReason
  <2> QED
    BY <1>1, <2>1, ToTunnelErrorType, QuinnAssumption
    DEF StoreOpenReason, ReasonStored, CloseReasons
<1>2. CASE UNCHANGED close_reason
  BY <1>2 DEF ReasonStored
<1>3. CASE StoreAcceptReason \/ \E c \in Closers : SwapReason(c)
  BY <1>3 DEF StoreAcceptReason, SwapReason, ReasonStored
<1>4. \/ UNCHANGED close_reason
      \/ StoreAcceptReason \/ (\E c \in Closers : SwapReason(c))
      \/ \E o \in Openers : StoreOpenReason(o)
  BY DEF Next, vars, LoseConnection, DropTunnel, AskDownlink, TakeDownlink, ReleaseDownlink, JoinChannels,
         JoinCancels, PollIncoming, IncomingEnds, AcceptFails, CloseIncoming, AcceptStream,
         OpenLink, FinishOpen, LinkOpens, CloseOutgoing, DropStream, Close, SendClose, FinishClose,
         OnClosed, Report, FinishReport, LockAuthenticated, StoreAuthenticated, AwaitAuthentication
<1> QED
  BY <1>1, <1>2, <1>3, <1>4

LEMMA StoredInv ==
    ASSUME QuinnInv, QuinnTypeOK', [Next]_vars
    PROVE  ReasonInv'
<1> USE DEF tokens, streams, closing, auth
<1>1. QuinnTypeOK /\ ReasonInv
  BY DEF QuinnInv
<1>2. ReasonStored => ReasonStored'
  BY ReasonStays
<1>3. CASE UNCHANGED vars
  BY <1>1, <1>3 DEF vars, ReasonInv, ReasonStored
<1>4. CASE LoseConnection
  BY <1>1, <1>4, QuinnAssumption DEF LoseConnection, ReasonInv, ReasonStored, ConnectionErrors
<1>5. CASE AskDownlink \/ TakeDownlink \/ JoinChannels
  BY <1>1, <1>5 DEF AskDownlink, TakeDownlink, JoinChannels, ReasonInv, ReasonStored
<1>6. CASE DropTunnel
  BY <1>1, <1>6 DEF DropTunnel, ReasonInv, ReasonStored
<1>7. CASE ReleaseDownlink
  <2>1. handle => UNCHANGED tokens
    BY <1>1, <1>7 DEF ReleaseDownlink, DropShares, IncomingShared, OutgoingShared, QuinnTypeOK
  <2> QED
    BY <1>1, <1>7, <2>1 DEF ReleaseDownlink, ReasonInv, ReasonStored
<1>8. CASE JoinCancels
  BY <1>1, <1>8 DEF JoinCancels, ReasonInv, ReasonStored
<1>9. CASE PollIncoming
  BY <1>1, <1>2, <1>9
  DEF PollIncoming, IncomingEnds, AcceptFails, StoreAcceptReason, CloseIncoming, CancelIncoming,
      ReasonInv, ReasonStored
<1>10. ASSUME NEW a \in Arrivals, AcceptStream(a) PROVE ReasonInv'
  BY <1>1, <1>10 DEF AcceptStream, ReasonInv, ReasonStored, QuinnTypeOK
<1>11. ASSUME NEW o \in Openers, OpenLink(o) PROVE ReasonInv'
  BY <1>1, <1>11 DEF OpenLink, ReasonInv, ReasonStored, QuinnTypeOK
<1>12. ASSUME NEW o \in Openers, LinkOpens(o) PROVE ReasonInv'
  <2>1. handle => UNCHANGED tokens
    BY <1>1, <1>12 DEF LinkOpens, DropShares, IncomingShared, OutgoingShared, QuinnTypeOK
  <2> QED
    BY <1>1, <1>12, <2>1 DEF LinkOpens, ReasonInv, ReasonStored, QuinnTypeOK
<1>13. ASSUME NEW o \in Openers, StoreOpenReason(o) PROVE ReasonInv'
  <2>1. conn \in ConnectionErrors
    BY <1>1, <1>13 DEF QuinnTypeOK, ReasonInv, StoreOpenReason
  <2>2. ReasonStored'
    BY <1>13, <2>1, ToTunnelErrorType, QuinnAssumption
    DEF StoreOpenReason, ReasonStored, CloseReasons
  <2> QED
    BY <1>1, <1>13, <2>2 DEF StoreOpenReason, ReasonInv, QuinnTypeOK
<1>14. ASSUME NEW o \in Openers, CloseOutgoing(o) PROVE ReasonInv'
  BY <1>1, <1>14 DEF CloseOutgoing, CancelOutgoing, ReasonInv, ReasonStored, QuinnTypeOK
<1>15. ASSUME NEW s \in Openers \union Arrivals, DropStream(s) PROVE ReasonInv'
  <2>1. handle => UNCHANGED tokens
    BY <1>1, <1>15 DEF DropStream, DropShares, IncomingShared, OutgoingShared, QuinnTypeOK
  <2> QED
    BY <1>1, <1>15, <2>1 DEF DropStream, ReasonInv, ReasonStored, QuinnTypeOK
<1>16. ASSUME NEW c \in Closers, SendClose(c) PROVE ReasonInv'
  BY <1>1, <1>16 DEF SendClose, ReasonInv, ReasonStored, QuinnTypeOK
<1>17. ASSUME NEW c \in Closers, SwapReason(c) PROVE ReasonInv'
  <2>1. ReasonStored'
    BY <1>17, QuinnAssumption DEF SwapReason, ReasonStored, CloseReasons
  <2> QED
    BY <1>1, <1>17, <2>1 DEF SwapReason, ReasonInv
<1>18. ASSUME NEW c \in Closers, FinishClose(c) PROVE ReasonInv'
  BY <1>1, <1>18 DEF FinishClose, CancelAll, ReasonInv, ReasonStored, QuinnTypeOK
<1>19. ASSUME NEW ch \in Channels, OnClosed(ch) PROVE ReasonInv'
  BY <1>1, <1>19 DEF OnClosed, ReasonInv, ReasonStored
<1>20. ASSUME NEW r \in Reporters, Report(r) \/ FinishReport(r) PROVE ReasonInv'
  BY <1>1, <1>20
  DEF Report, FinishReport, LockAuthenticated, StoreAuthenticated, ReasonInv, ReasonStored
<1>21. ASSUME NEW l \in Listeners, AwaitAuthentication(l) PROVE ReasonInv'
  BY <1>1, <1>21 DEF AwaitAuthentication, ReasonInv, ReasonStored
<1> QED
  BY <1>3, <1>4, <1>5, <1>6, <1>7, <1>8, <1>9, <1>10, <1>11, <1>12, <1>13, <1>14, <1>15, <1>16,
     <1>17, <1>18, <1>19, <1>20, <1>21
  DEF Next, FinishOpen, Close

LEMMA NoticeInv ==
    ASSUME QuinnInv, QuinnTypeOK', [Next]_vars
    PROVE  NoticeHasReason'
<1>1. ASSUME NEW ch \in Channels, OnClosed(ch) PROVE NoticeHasReason'
  BY <1>1
  DEF OnClosed, TokenOf, Channels, QuinnInv, ReasonInv, ReasonStored, QuinnTypeOK, NoticeHasReason
<1>2. \/ \E ch \in Channels : OnClosed(ch)
      \/ UNCHANGED noticed /\ (handle' => handle)
  BY DEF Next, vars, LoseConnection, DropTunnel, AskDownlink, TakeDownlink, ReleaseDownlink, JoinChannels,
         JoinCancels, PollIncoming, IncomingEnds, AcceptFails, StoreAcceptReason, CloseIncoming,
         AcceptStream, OpenLink, FinishOpen, LinkOpens, StoreOpenReason, CloseOutgoing, DropStream,
         Close, SendClose, SwapReason, FinishClose, Report, FinishReport, LockAuthenticated,
         StoreAuthenticated, AwaitAuthentication
<1> QED
  BY <1>1, <1>2 DEF NoticeHasReason, QuinnInv

LEMMA CloserInv ==
    ASSUME QuinnInv, [Next]_vars
    PROVE  OneCloserSucceeds'
<1>1. ASSUME NEW c \in Closers, SwapReason(c) PROVE OneCloserSucceeds'
  BY <1>1 DEF SwapReason, QuinnInv, ReasonInv, ReasonStored, QuinnTypeOK, OneCloserSucceeds
<1>2. (\E c \in Closers : SwapReason(c)) \/ UNCHANGED answer
  BY DEF Next, vars, closing, LoseConnection, DropTunnel, AskDownlink, TakeDownlink, ReleaseDownlink,
         JoinChannels, JoinCancels, PollIncoming, IncomingEnds, AcceptFails, StoreAcceptReason,
         CloseIncoming, AcceptStream, OpenLink, FinishOpen, LinkOpens, StoreOpenReason,
         CloseOutgoing, DropStream, Close, SendClose, FinishClose, OnClosed, Report, FinishReport,
         LockAuthenticated, StoreAuthenticated, AwaitAuthentication
<1> QED
  BY <1>1, <1>2 DEF OneCloserSucceeds, QuinnInv
-----------------------------------------------------------------------------
(***************************************************************************)
(* The authenticated name.                                                 *)
(***************************************************************************)
LEMMA NameInv ==
    ASSUME QuinnInv, [Next]_vars
    PROVE  LockInv' /\ OneAuthentication'
<1>1. /\ reporter \in [Reporters -> {"idle", "checked", "locked", "ok", "taken", "closed"}]
      /\ listener \in [Listeners -> Reporters \union {"idle", "waiting", "closed"}]
      /\ authenticated \in Reporters \union {"none"} /\ "none" \notin Reporters
      /\ LockInv /\ OneAuthentication
  BY QuinnAssumption DEF QuinnInv, QuinnTypeOK
<1>2. ASSUME NEW r \in Reporters, Report(r) PROVE LockInv' /\ OneAuthentication'
  BY <1>1, <1>2 DEF Report, LockInv, OneAuthentication
<1>3. ASSUME NEW r \in Reporters, LockAuthenticated(r) PROVE LockInv' /\ OneAuthentication'
  BY <1>1, <1>3 DEF LockAuthenticated, LockHeld, LockInv, OneAuthentication
<1>4. ASSUME NEW r \in Reporters, StoreAuthenticated(r) PROVE LockInv' /\ OneAuthentication'
  BY <1>1, <1>4 DEF StoreAuthenticated, LockInv, OneAuthentication
<1>5. ASSUME NEW l \in Listeners, AwaitAuthentication(l) PROVE LockInv' /\ OneAuthentication'
  <2>1. UNCHANGED <<reporter, authenticated>>
    BY <1>5 DEF AwaitAuthentication
  <2>2. listener'[l] \in {"closed", "waiting", authenticated}
    BY <1>1, <1>5 DEF AwaitAuthentication
  <2>3. \A m \in Listeners \ {l} : listener'[m] = listener[m]
    BY <1>1, <1>5 DEF AwaitAuthentication
  <2>4. \A m \in Listeners : listener'[m] \in Reporters => reporter[listener'[m]] = "ok"
    BY <1>1, <2>2, <2>3, QuinnAssumption DEF LockInv, OneAuthentication
  <2> QED
    BY <1>1, <2>1, <2>4 DEF LockInv, OneAuthentication
<1>6. CASE UNCHANGED auth
  BY <1>1, <1>6 DEF auth, LockInv, OneAuthentication
<1>7. \/ UNCHANGED auth
      \/ \E r \in Reporters : Report(r) \/ FinishReport(r)
      \/ \E l \in Listeners : AwaitAuthentication(l)
  BY DEF Next, vars, LoseConnection, DropTunnel, AskDownlink, TakeDownlink, ReleaseDownlink, JoinChannels,
         JoinCancels, PollIncoming, IncomingEnds, AcceptFails, StoreAcceptReason, CloseIncoming,
         AcceptStream, OpenLink, FinishOpen, LinkOpens, StoreOpenReason, CloseOutgoing, DropStream,
         Close, SendClose, SwapReason, FinishClose, OnClosed
<1> QED
  BY <1>2, <1>3, <1>4, <1>5, <1>6, <1>7 DEF FinishReport
-----------------------------------------------------------------------------
LEMMA QuinnStepInv == QuinnInv /\ [Next]_vars => QuinnInv'
<1> SUFFICES ASSUME QuinnInv, [Next]_vars PROVE QuinnInv'
  OBVIOUS
<1>1. QuinnTypeOK'
  BY TypeInv
<1>2. StreamsAreCounted'
  BY CountInv DEF QuinnInv
<1>3. ReasonInv' /\ NoticeHasReason' /\ OneCloserSucceeds'
  BY <1>1, StoredInv, NoticeInv, CloserInv
<1> QED
  BY <1>1, <1>2, <1>3, NameInv DEF QuinnInv

(***************************************************************************)
(* QuinnInv is invariant, whatever the scheduler does.                     *)
(***************************************************************************)
THEOREM QuinnCorrect == Spec => []QuinnInv
  BY QuinnInitInv, QuinnStepInv, PTL DEF Spec, Safety

(***************************************************************************)
(* Whoever on_closed, on_closed_uplink or on_closed_downlink tells of a    *)
(* closed channel is told the reason, unless the tunnel was dropped.       *)
(***************************************************************************)
THEOREM NoticeIsExplained == Spec => []NoticeHasReason
  BY QuinnCorrect, PTL DEF QuinnInv

(***************************************************************************)
(* active_stream_count counts the live stream guards.                      *)
(***************************************************************************)
THEOREM CounterIsExact == Spec => []StreamsAreCounted
  BY QuinnCorrect, PTL DEF QuinnInv

(***************************************************************************)
(* Of any number of racing close calls one at most gives the reason.       *)
(***************************************************************************)
THEOREM OneCloseGivesReason == Spec => []OneCloserSucceeds
  BY QuinnCorrect, PTL DEF QuinnInv

(***************************************************************************)
(* Of any number of racing report_authentication_success calls one at most *)
(* succeeds, and on_authenticated answers with that one's name.            *)
(***************************************************************************)
THEOREM OneNameIsReported == Spec => []OneAuthentication
  BY QuinnCorrect, PTL DEF QuinnInv
=============================================================================
