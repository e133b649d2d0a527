----------------------- MODULE ServerConnectorProofs ------------------------
(***************************************************************************)
(* What holds of ServerConnector for any number of attempts and replies    *)
(* and any timeout.                                                        *)
(***************************************************************************)
EXTENDS ServerConnector, TLAPS

(* The inductive invariant.  SocketsMatchResult speaks of the moments      *)
(* between two calls; what makes it true is decided inside one, where the  *)
(* pointers are set one after the other and the sockets they name must     *)
(* still be alive, and of this attempt, when the answer comes.             *)
CallInv ==
  /\ pc \in {"tcp", "send", "time", "poll"} =>
       /\ ~ isConnected
       /\ attempt >= 1
       /\ udpSocket = <<"udp", attempt>>
       /\ heap[udpSocket] = "live"
  /\ pc \in {"send", "time", "poll"} =>
       /\ tcpSocket = <<"tcp", attempt>>
       /\ heap[tcpSocket] = "live"
  /\ result = "false" => attempt >= 1
  /\ isConnected => attempt >= 1

Inv == TypeOK /\ CallInv /\ SocketsMatchResult

LEMMA EmptyInbox == <<>> \in Seq(Replies) /\ Len(<<>>) = 0
OBVIOUS

LEMMA InvInit == Init => Inv
<1> SUFFICES ASSUME Init PROVE Inv
  OBVIOUS
<1>1. TypeOK
  <2>1. inbox \in Seq(Replies) /\ sent \in 0 .. MaxReplies /\ Len(inbox) <= sent
    BY ConnectorAssumption, EmptyInbox DEF Init
  <2>2. heap \in [Objects -> {"none", "live", "caller", "connector"}]
    BY DEF Init
  <2>3. isConnected \in BOOLEAN
    BY DEF Init
  <2> QED  BY ConnectorAssumption, <2>1, <2>2, <2>3 DEF Init, TypeOK
<1>2. CallInv /\ SocketsMatchResult
  BY DEF Init, CallInv, SocketsMatchResult
<1> QED  BY <1>1, <1>2 DEF Inv

(* A socket object of the current attempt is an object of the model.       *)
LEMMA AttemptObjects ==
  \A k \in 1 .. MaxAttempts : <<"udp", k>> \in Objects /\ <<"tcp", k>> \in Objects
BY ConnectorAssumption DEF Objects, Attempts

(* What is read from the connection is the first packet, and the rest are  *)
(* packets still.                                                          *)
LEMMA InboxFacts ==
  ASSUME TypeOK
  PROVE  /\ \A r \in Replies : /\ Append(inbox, r) \in Seq(Replies)
                               /\ Len(Append(inbox, r)) = Len(inbox) + 1
         /\ inbox # <<>> => /\ Tail(inbox) \in Seq(Replies)
                            /\ Len(Tail(inbox)) <= sent
BY DEF TypeOK

(* CleanUpSockets, called inside an attempt, deletes both of its sockets   *)
(* and leaves no pointer.                                                  *)
CleanedUp ==
  /\ heap' \in [Objects -> {"none", "live", "caller", "connector"}]
  /\ \A p \in {"udp", "tcp"} : heap'[<<p, attempt>>] = "connector"
  /\ tcpSocket' = NULL /\ udpSocket' = NULL
  /\ ~ isConnected' /\ UNCHANGED <<isConnected, playerID>>
  /\ attempt >= 1 /\ result' = "false" /\ pc' = "idle"

LEMMA CleanUpFacts ==
  ASSUME Inv, pc \in {"send", "time", "poll"}, ReturnFalse
  PROVE  CleanedUp
<1>1. attempt \in 1 .. MaxAttempts
  BY ConnectorAssumption DEF Inv, TypeOK, CallInv
<1>2. <<"udp", attempt>> \in Objects /\ <<"tcp", attempt>> \in Objects
  BY <1>1, AttemptObjects
<1> QED
  BY <1>1, <1>2 DEF Inv, TypeOK, CallInv, ReturnFalse, CleanUpSockets, CleanedUp

(* ... which is all the invariant asks of a call that returns false.       *)
LEMMA InvAfterCleanUp ==
  ASSUME TypeOK, CleanedUp, UNCHANGED <<server, sent, attempt, elapsed, fetched>>,
         inbox' \in Seq(Replies) /\ Len(inbox') <= sent
  PROVE  Inv'
<1>1. TypeOK'
  BY DEF TypeOK, CleanedUp
<1>2. CallInv'
  BY DEF CallInv, CleanedUp
<1>3. SocketsMatchResult'
  BY DEF SocketsMatchResult, CleanedUp
<1> QED  BY <1>1, <1>2, <1>3 DEF Inv

LEMMA InvStep == Inv /\ [Next]_vars => Inv'
<1> SUFFICES ASSUME Inv, [Next]_vars PROVE Inv'
  OBVIOUS
<1> USE ConnectorAssumption
<1>1. ASSUME NEW r \in Replies, Reply(r) PROVE Inv'
  BY <1>1, InboxFacts DEF Inv, TypeOK, CallInv, SocketsMatchResult, Reply, members
<1>2. CASE ServerEnds
  BY <1>2 DEF Inv, TypeOK, CallInv, SocketsMatchResult, ServerEnds, members
<1>3. CASE Tick
  BY <1>3 DEF Inv, TypeOK, CallInv, SocketsMatchResult, Tick, members, remote
<1>4. CASE AlreadyConnected
  BY <1>4 DEF Inv, TypeOK, CallInv, SocketsMatchResult, AlreadyConnected, members, remote
<1>5. CASE OpenUdp
  <2>1. attempt' = attempt + 1 /\ attempt' \in 1 .. MaxAttempts /\ <<"udp", attempt'>> \in Objects
    <3>1. attempt \in Nat /\ attempt < MaxAttempts /\ attempt' = attempt + 1
      BY <1>5 DEF OpenUdp, Inv, TypeOK
    <3>2. attempt' \in 1 .. MaxAttempts
      BY <3>1
    <3> QED  BY <3>1, <3>2, AttemptObjects
  <2>2. ~ isConnected /\ pc = "idle"
    BY <1>5 DEF OpenUdp, MayConnect
  <2>3. CASE pc' = "tcp"
    BY <1>5, <2>1, <2>2, <2>3
    DEF Inv, TypeOK, CallInv, SocketsMatchResult, OpenUdp, remote
  <2>4. CASE pc' = pc
    BY <1>5, <2>1, <2>2, <2>4
    DEF Inv, TypeOK, CallInv, SocketsMatchResult, OpenUdp, remote
  <2> QED  BY <1>5, <2>3, <2>4 DEF OpenUdp
<1>6. CASE OpenTcp
  <2>1. attempt \in 1 .. MaxAttempts /\ <<"tcp", attempt>> \in Objects /\ <<"udp", attempt>> \in Objects
    <3>1. attempt \in 1 .. MaxAttempts
      BY <1>6 DEF OpenTcp, Inv, TypeOK, CallInv
    <3> QED  BY <3>1, AttemptObjects
  <2>2. CASE pc' = "send"
    <3>1. TypeOK'
      <4>1. inbox' \in Seq(Replies) /\ sent' \in 0 .. MaxReplies /\ Len(inbox') <= sent'
        BY <1>6, <2>2, EmptyInbox DEF OpenTcp
      <4> QED  BY <1>6, <2>1, <2>2, <4>1 DEF Inv, TypeOK, OpenTcp
    <3>2. CallInv' /\ SocketsMatchResult'
      BY <1>6, <2>1, <2>2 DEF Inv, TypeOK, CallInv, SocketsMatchResult, OpenTcp
    <3> QED  BY <3>1, <3>2 DEF Inv
  <2>3. CASE pc' = "idle"
    BY <1>6, <2>1, <2>3 DEF Inv, TypeOK, CallInv, SocketsMatchResult, OpenTcp, remote
  <2> QED  BY <1>6, <2>2, <2>3 DEF OpenTcp
<1>7. CASE SendRequest
  <2>1. CASE pc' = "time" /\ elapsed' = 0 /\ UNCHANGED <<heap, members, result>>
    BY <1>7, <2>1 DEF Inv, TypeOK, CallInv, SocketsMatchResult, SendRequest, members, remote
  <2>2. CASE ReturnFalse /\ UNCHANGED elapsed
    <3>1. CleanedUp
      BY <1>7, <2>2, CleanUpFacts DEF SendRequest
    <3>2. UNCHANGED <<remote, attempt, elapsed, fetched>>
      BY <1>7, <2>2 DEF SendRequest
    <3> QED  BY <3>1, <3>2, InvAfterCleanUp DEF remote, Inv, TypeOK
  <2> QED  BY <1>7, <2>1, <2>2 DEF SendRequest
<1>8. CASE KeepWaiting
  BY <1>8 DEF Inv, TypeOK, CallInv, SocketsMatchResult, KeepWaiting, members, remote
<1>9. CASE TimeOut
  <2>1. CleanedUp
    BY <1>9, CleanUpFacts DEF TimeOut
  <2> QED  BY <1>9, <2>1, InvAfterCleanUp DEF TimeOut, remote, Inv, TypeOK
<1>10. CASE SleepOn
  BY <1>10 DEF Inv, TypeOK, CallInv, SocketsMatchResult, SleepOn, members, remote
<1>11. CASE UseNull
  BY <1>11 DEF Inv, TypeOK, CallInv, SocketsMatchResult, UseNull, members, remote
<1>12. CASE SpinInGetPacket
  BY <1>12, InboxFacts DEF Inv, TypeOK, CallInv, SocketsMatchResult, SpinInGetPacket, members
<1>13. CASE IgnorePacket
  BY <1>13, InboxFacts DEF Inv, TypeOK, CallInv, SocketsMatchResult, IgnorePacket, members
<1>14. CASE Rejected
  <2>1. CleanedUp
    BY <1>14, CleanUpFacts DEF Rejected
  <2> QED  BY <1>14, <2>1, InboxFacts, InvAfterCleanUp DEF Rejected, Inv
<1>15. CASE Accepted
  BY <1>15, InboxFacts DEF Inv, TypeOK, CallInv, SocketsMatchResult, Accepted
<1>16. CASE Destroy
  BY <1>16 DEF Inv, TypeOK, CallInv, SocketsMatchResult, Destroy, members, remote
<1>17. ASSUME NEW o \in Objects, GetSocket(o) PROVE Inv'
  BY <1>17 DEF Inv, TypeOK, CallInv, SocketsMatchResult, GetSocket, members, remote
<1>18. ASSUME NEW o \in Objects, CallerDeletes(o) PROVE Inv'
  BY <1>18 DEF Inv, TypeOK, CallInv, SocketsMatchResult, CallerDeletes, members, remote
<1>19. CASE UNCHANGED vars
  BY <1>19 DEF Inv, TypeOK, CallInv, SocketsMatchResult, vars, members, remote
<1> QED
  BY <1>1, <1>2, <1>3, <1>4, <1>5, <1>6, <1>7, <1>8, <1>9, <1>10, <1>11, <1>12, <1>13,
     <1>14, <1>15, <1>16, <1>17, <1>18, <1>19
  DEF Next, ConnectToServer, Caller

(* Every reachable state satisfies the inductive invariant.                *)
THEOREM Invariance == Spec => []Inv
BY InvInit, InvStep, PTL DEF Spec

(* ServerConnector never leaves its types: the sockets its pointers name   *)
(* and the getters return are sockets some attempt made.                   *)
THEOREM Typing == Spec => []TypeOK
<1>1. Inv => TypeOK
  BY DEF Inv
<1> QED  BY <1>1, Invariance, PTL

(* Whatever the server sends and whenever it goes away, however often      *)
(* ConnectToServer is called: when it has returned false no pointer is     *)
(* left and both sockets of the attempt are deleted, and while connected   *)
(* both pointers name sockets of one attempt that the connector keeps.     *)
THEOREM ResultMatchesSockets == Spec => []SocketsMatchResult
<1>1. Inv => SocketsMatchResult
  BY DEF Inv
<1> QED  BY <1>1, Invariance, PTL
=============================================================================
