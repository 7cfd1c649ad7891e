-------------------------- MODULE PermissionProofs --------------------------
(***************************************************************************)
(* The permission requests of a run for any number of pages, requests and  *)
(* reopenings and any capacity of respCh: as long as one page answers and  *)
(* is not opened anew, each decision is taken for the request it was made  *)
(* for, although nothing on the way compares the two.  An interrupted run  *)
(* comes nearer to its release, and an answer under way to the CLI.        *)
(***************************************************************************)
EXTENDS PermissionExchange, TLAPS

\* A handler that is about to send has a reply to send.
InHand == \A b \in Browsers : handler[b] = "send" => Len(bridge[b]) > 0

\* One page answers and has not been opened anew.
Lone == /\ reopens = 0
        /\ \A b, c \in Browsers : replied[b] # {} /\ replied[c] # {} => b = c

\* What has been shown has been asked, and a dock is not shown again.
Shown ==
    /\ \A i \in DOMAIN timeline : timeline[i] \in 1..asked \/ timeline[i] = Idle
    /\ \A b \in Browsers : dock[b] <= asked
    /\ reopens = 0 => \A b \in Browsers : dock[b] = None \/ dock[b] \notin replied[b]

\* Every request but the last has its own decision, so that claude, when it asks,
\* waits for the last one.
Answered ==
    /\ \A n \in Requests : n < asked => answer[n] = n
    /\ \A n \in Requests : n > asked => answer[n] = None
    /\ asked # 0 => answer[asked] \in {None, asked}
    /\ asked # 0 /\ claude = "working" => answer[asked] = asked
    /\ claude = "asking" => asked # 0 /\ answer[asked] = None
    /\ \A n \in Requests : answer[n] = n => \E b \in Browsers : n \in replied[b]

\* There is at most one reply under way, in the bridge of its page or in respCh,
\* and it is for the last request, which has no decision yet.
Undecided == asked # 0 /\ answer[asked] = None

OneReply ==
    /\ \A b \in Browsers :
           \/ bridge[b] = <<>>
           \/ bridge[b] = <<asked>> /\ Undecided /\ asked \in replied[b] /\ respCh = <<>>
    /\ \/ respCh = <<>>
       \/ respCh = <<asked>> /\ Undecided /\ \E b \in Browsers : asked \in replied[b]

LoneInv == Lone => Answered /\ OneReply

ReplyInv == TypeOK /\ InHand /\ Shown /\ LoneInv

-----------------------------------------------------------------------------
(* Each part of the invariant is preserved.                                *)

\* The types: a dock that can be answered names a request, and a handler only
\* sends what the bridge has read.
LEMMA TypeStep == TypeOK /\ InHand /\ [Next]_vars => TypeOK' /\ InHand'
<1> SUFFICES ASSUME TypeOK, InHand, [Next]_vars PROVE TypeOK' /\ InHand'
  OBVIOUS
<1>0. /\ MaxRequests \in Nat /\ RespCap \in Nat /\ MaxReopens \in Nat /\ MaxDrops \in Nat
      /\ None \in 0..MaxRequests /\ Idle \in 1..Idle /\ Requests \subseteq 0..MaxRequests
      /\ \A x \in 0..MaxRequests : x # None => x \in Requests
      /\ \A x \in 1..Idle : x # Idle => x \in 0..MaxRequests
      /\ \A x \in 0..MaxRequests : x < MaxRequests => x + 1 \in 0..MaxRequests /\ x + 1 \in 1..Idle
  BY ConstantsAssumption DEF Requests, Idle, None
<1> USE <1>0 DEF TypeOK, InHand, run, page, net
<1>1. CASE ControlRequest
  <2>1. asked + 1 \in 0..MaxRequests /\ asked + 1 \in 1..Idle
    BY <1>1 DEF ControlRequest
  <2>2. Append(timeline, asked + 1) \in Seq(1..Idle)
    BY <2>1
  <2>4. timeline' \in Seq(1..Idle)
    BY <1>1, <2>2 DEF ControlRequest
  <2>3. drops' \in 0..MaxDrops
    BY <1>1 DEF ControlRequest
  <2> QED BY <1>1, <2>1, <2>4, <2>3 DEF ControlRequest
<1>2. CASE TakeResponse
  <2>1. respCh' \in Seq(Requests) /\ Head(respCh) \in Requests
    BY <1>2 DEF TakeResponse
  <2>2. answer' \in [Requests -> 0..MaxRequests]
    BY <1>2, <2>1 DEF TakeResponse
  <2>3. claude' \in {"working", "asking", "exited"}
    BY <1>2 DEF TakeResponse
  <2> QED BY <1>2, <2>1, <2>2, <2>3 DEF TakeResponse
<1>3. CASE WaitCancelled
  BY <1>3 DEF WaitCancelled
<1>4. CASE RunEnds
  BY <1>4 DEF RunEnds
<1>5. CASE CloseChannels
  BY <1>5 DEF CloseChannels
<1>6. CASE EmitIdle
  BY <1>6 DEF EmitIdle
<1>7. CASE Release
  BY <1>7 DEF Release
<1>8. CASE ClaudeExits
  BY <1>8 DEF ClaudeExits
<1>9. CASE Interrupt
  BY <1>9 DEF Interrupt
<1>10. ASSUME NEW b \in Browsers, Receive(b) PROVE TypeOK' /\ InHand'
  <2> DEFINE ev == timeline[pos[b] + 1]
  <2>1. ev \in 1..Idle
    <3>0. timeline \in Seq(1..Idle) /\ pos[b] \in Nat
      OBVIOUS
    <3>2. pos[b] < Len(timeline)
      BY <1>10 DEF Receive
    <3>1. pos[b] + 1 \in DOMAIN timeline
      BY <3>0, <3>2
    <3> QED BY <3>0, <3>1
  <2>5. dock[b] \in 0..MaxRequests
    OBVIOUS
  <2>2. dock'[b] \in {None, dock[b], ev} /\ (dock'[b] = ev => ev # Idle)
    BY <1>10, <2>1, <2>5, ConstantsAssumption, SMTT(30) DEF Receive, Requests, Idle, None
  <2>3. dock'[b] \in 0..MaxRequests
    BY <2>1, <2>2, <2>5
  <2>4. dock' \in [Browsers -> 0..MaxRequests]
    BY <1>10, <2>3 DEF Receive
  <2>6. pos' \in [Browsers -> Nat] /\ UNCHANGED <<run, replied, reopens, net, drops>>
    BY <1>10, SMTT(30) DEF Receive
  <2> QED BY <2>4, <2>6
<1>11. ASSUME NEW b \in Browsers, ReplyPermission(b) PROVE TypeOK' /\ InHand'
  <2>1. dock[b] \in Requests
    BY <1>11 DEF ReplyPermission
  <2>5. bridge[b] \in Seq(Requests)
    OBVIOUS
  <2>2. /\ Append(bridge[b], dock[b]) \in Seq(Requests)
        /\ Len(Append(bridge[b], dock[b])) > 0
    BY <2>1, <2>5
  <2>3. bridge' = [bridge EXCEPT ![b] = Append(bridge[b], dock[b])]
    BY <1>11 DEF ReplyPermission
  <2>4. bridge' \in [Browsers -> Seq(Requests)] /\ InHand'
    BY <1>11, <2>2, <2>3 DEF ReplyPermission
  <2> QED BY <1>11, <2>1, <2>4 DEF ReplyPermission
<1>12. ASSUME NEW b \in Browsers, OpenSession(b) PROVE TypeOK' /\ InHand'
  BY <1>12 DEF OpenSession
<1>13. ASSUME NEW b \in Browsers, ReplyLookup(b) PROVE TypeOK' /\ InHand'
  <2>1. CASE entry
    <3>1. bridge[b] \in Seq(Requests) /\ bridge[b] # <<>>
      BY <1>13 DEF ReplyLookup
    <3>2. Len(bridge[b]) > 0
      BY <3>1
    <3> QED BY <1>13, <2>1, <3>2 DEF ReplyLookup
  <2>2. CASE ~entry
    <3>1. Tail(bridge[b]) \in Seq(Requests) /\ handler[b] = "idle"
      BY <1>13 DEF ReplyLookup
    <3>2. bridge' = [bridge EXCEPT ![b] = Tail(bridge[b])]
          /\ UNCHANGED <<run, page, drops, handler, lost>>
      BY <1>13, <2>2 DEF ReplyLookup
    <3> QED BY <3>1, <3>2
  <2> QED BY <2>1, <2>2
<1>14. ASSUME NEW b \in Browsers, ReplySend(b) PROVE TypeOK' /\ InHand'
  <2>0. Head(bridge[b]) \in Requests /\ respCh' = Append(respCh, Head(bridge[b]))
    BY <1>14 DEF ReplySend
  <2>1. respCh' \in Seq(Requests)
    BY <2>0
  <2> QED BY <1>14, <2>1 DEF ReplySend, Replied
<1>15. ASSUME NEW b \in Browsers, ReplyGivesUp(b) PROVE TypeOK' /\ InHand'
  BY <1>15 DEF ReplyGivesUp, Replied
<1>16. ASSUME NEW b \in Browsers, ReplyPanics(b) PROVE TypeOK' /\ InHand'
  BY <1>16 DEF ReplyPanics
<1>17. CASE UNCHANGED vars
  BY <1>17 DEF vars
<1>18. ASSUME NEW b \in Browsers, ReplyNotSent(b) PROVE TypeOK' /\ InHand'
  BY <1>18 DEF ReplyNotSent
<1>19. ASSUME NEW b \in Browsers, SocketBreaks(b) PROVE TypeOK' /\ InHand'
  <2> DEFINE read == IF handler[b] = "send" THEN <<Head(bridge[b])>> ELSE <<>>
             gone == {<<b, bridge[b][i]>> : i \in Len(read) + 1..Len(bridge[b])}
  <2>1. /\ bridge' = [bridge EXCEPT ![b] = read] /\ lost' = lost \cup gone
        /\ UNCHANGED <<run, page, handler, drops>>
    BY <1>19 DEF SocketBreaks
  <2>2. bridge[b] \in Seq(Requests) /\ (handler[b] = "send" => Head(bridge[b]) \in Requests)
    OBVIOUS
  <2>3. read \in Seq(Requests) /\ (handler[b] = "send" => Len(read) > 0) /\ Len(read) \in Nat
    BY <2>2
  <2>4. gone \subseteq Browsers \X Requests
    <3>1. \A i \in Len(read) + 1..Len(bridge[b]) : bridge[b][i] \in Requests
      <4> HIDE DEF read
      <4> QED BY <2>2, <2>3
    <3> HIDE DEF read
    <3> QED BY <3>1
  <2> HIDE DEF read, gone
  <2> QED BY <2>1, <2>3, <2>4
<1>20. ASSUME NEW b \in Browsers, DeliveryFails(b) PROVE TypeOK' /\ InHand'
  <2>1. bridge[b] \in Seq(Requests) /\ bridge[b] # <<>> /\ handler[b] = "idle"
    BY <1>20 DEF DeliveryFails
  <2>2. Tail(bridge[b]) \in Seq(Requests) /\ Head(bridge[b]) \in Requests
    BY <2>1
  <2>3. bridge' \in [Browsers -> Seq(Requests)] /\ InHand'
    BY <1>20, <2>1, <2>2 DEF DeliveryFails
  <2>4. lost' \subseteq Browsers \X Requests
    BY <1>20, <2>2 DEF DeliveryFails
  <2> QED BY <1>20, <2>3, <2>4 DEF DeliveryFails
<1> QED
  BY <1>1, <1>2, <1>3, <1>4, <1>5, <1>6, <1>7, <1>8, <1>9, <1>10, <1>11, <1>12,
     <1>13, <1>14, <1>15, <1>16, <1>17, <1>18, <1>19, <1>20
     DEF Next, RunLoop, HandlePermissionReply

\* Shown: a page shows what the timeline has, unless it has been answered.
LEMMA ShownStep == TypeOK /\ Shown /\ [Next]_vars => Shown'
<1> SUFFICES ASSUME TypeOK, Shown, [Next]_vars PROVE Shown'
  OBVIOUS
<1> USE ConstantsAssumption DEF TypeOK, Shown, Requests, Idle, None, run, page, net
<1>1. CASE ControlRequest
  <2>1. /\ timeline' \in {timeline, Append(timeline, asked + 1)}
        /\ asked' = asked + 1 /\ UNCHANGED <<dock, replied, reopens>>
    BY <1>1 DEF ControlRequest
  <2>2. \A i \in DOMAIN timeline' : timeline'[i] \in 1..asked' \/ timeline'[i] = Idle
    <3>1. \A x \in 1..asked : x \in 1..asked'
      BY <2>1
    <3>2. asked + 1 \in 1..asked'
      BY <2>1
    <3>3. \A i \in DOMAIN Append(timeline, asked + 1) :
             \/ i \in DOMAIN timeline /\ Append(timeline, asked + 1)[i] = timeline[i]
             \/ Append(timeline, asked + 1)[i] = asked + 1
      OBVIOUS
    <3> QED BY <2>1, <3>1, <3>2, <3>3
  <2>3. \A b \in Browsers : dock[b] <= asked'
    BY <2>1
  <2> QED BY <2>1, <2>2, <2>3
<1>2. CASE EmitIdle
  BY <1>2 DEF EmitIdle
<1>3. ASSUME NEW b \in Browsers, Receive(b) PROVE Shown'
  <2> DEFINE ev == timeline[pos[b] + 1]
  <2>0. timeline \in Seq(1..Idle) /\ pos[b] \in Nat /\ pos[b] < Len(timeline)
    BY <1>3 DEF Receive
  <2>7. pos[b] + 1 \in DOMAIN timeline
    BY <2>0
  <2>1. ev \in 1..asked \/ ev = Idle
    BY <2>7
  <2>2. /\ dock'[b] \in {None, dock[b], ev} /\ (dock'[b] = ev => ev # Idle)
        /\ dock'[b] = None \/ dock'[b] = dock[b] \/ dock'[b] \notin replied[b]
    BY <1>3, <2>1, SMTT(30) DEF Receive
  <2>3. UNCHANGED <<timeline, asked, replied, reopens>>
        /\ \A c \in Browsers : c # b => dock'[c] = dock[c]
    BY <1>3 DEF Receive
  <2>4. dock'[b] <= asked
    BY <2>1, <2>2
  <2>5. \A c \in Browsers : dock'[c] <= asked
    BY <2>3, <2>4
  <2>6. reopens = 0 => \A c \in Browsers : dock'[c] = None \/ dock'[c] \notin replied[c]
    BY <2>2, <2>3
  <2> QED BY <2>3, <2>5, <2>6
<1>4. ASSUME NEW b \in Browsers, ReplyPermission(b) PROVE Shown'
  BY <1>4 DEF ReplyPermission
<1>5. ASSUME NEW b \in Browsers, OpenSession(b) PROVE Shown'
  BY <1>5 DEF OpenSession
<1>6. ASSUME UNCHANGED <<timeline, asked, dock, replied, reopens>> PROVE Shown'
  BY <1>6
<1>7. CASE \/ TakeResponse \/ WaitCancelled \/ RunEnds \/ CloseChannels \/ Release
           \/ ClaudeExits \/ Interrupt \/ UNCHANGED vars
  BY <1>6, <1>7 DEF TakeResponse, WaitCancelled, RunEnds, CloseChannels, Release,
                    ClaudeExits, Interrupt, vars
<1>8. ASSUME NEW b \in Browsers,
             HandlePermissionReply(b) \/ SocketBreaks(b) \/ DeliveryFails(b)
      PROVE  Shown'
  BY <1>6, <1>8 DEF HandlePermissionReply, ReplyLookup, ReplySend, ReplyGivesUp,
                    ReplyPanics, SocketBreaks, DeliveryFails
<1>9. ASSUME NEW b \in Browsers, ReplyNotSent(b) PROVE Shown'
  BY <1>9 DEF ReplyNotSent
<1> QED BY <1>1, <1>2, <1>3, <1>4, <1>5, <1>7, <1>8, <1>9 DEF Next, RunLoop

\* The page that answers has answered whatever has been answered.
LEMMA LoneBefore == TypeOK /\ [Next]_vars /\ Lone' => Lone
<1> SUFFICES ASSUME TypeOK, [Next]_vars, Lone' PROVE Lone
  OBVIOUS
<1> USE DEF TypeOK, Lone, run, page, net
<1>1. ASSUME NEW b \in Browsers, ReplyPermission(b) PROVE Lone
  BY <1>1 DEF ReplyPermission
<1>2. ASSUME NEW b \in Browsers, OpenSession(b) PROVE Lone
  BY <1>2 DEF OpenSession
<1>3. ASSUME UNCHANGED <<replied, reopens>> PROVE Lone
  BY <1>3
<1>4. CASE ControlRequest \/ RunLoop \/ ClaudeExits \/ Interrupt \/ UNCHANGED vars
  BY <1>3, <1>4 DEF ControlRequest, RunLoop, TakeResponse, WaitCancelled, RunEnds,
                    CloseChannels, EmitIdle, Release, ClaudeExits, Interrupt, vars
<1>5. ASSUME NEW b \in Browsers,
             \/ Receive(b) \/ ReplyNotSent(b) \/ SocketBreaks(b) \/ DeliveryFails(b)
             \/ HandlePermissionReply(b)
      PROVE  Lone
  BY <1>3, <1>5 DEF Receive, ReplyNotSent, SocketBreaks, DeliveryFails,
                    HandlePermissionReply, ReplyLookup, ReplySend, ReplyGivesUp, ReplyPanics
<1> QED BY <1>1, <1>2, <1>4, <1>5 DEF Next

\* One reply: a page that answers for the first time answers the request claude
\* waits for, since the earlier ones have been answered, and by this page.
LEMMA LoneStep ==
    ASSUME TypeOK, InHand, Shown, Lone, Lone', Answered, OneReply, [Next]_vars
    PROVE  Answered' /\ OneReply'
<1>0. /\ asked \in Nat /\ asked <= MaxRequests /\ MaxRequests \in Nat
      /\ \A n \in Requests : n \in Nat /\ n # 0
      /\ \A n \in Nat : n # 0 /\ n <= MaxRequests => n \in Requests
      /\ None = 0
      /\ answer \in [Requests -> 0..MaxRequests]
      /\ bridge \in [Browsers -> Seq(Requests)]
      /\ replied \in [Browsers -> SUBSET Requests]
  <2>1. /\ asked \in 0..MaxRequests /\ MaxRequests \in Nat
        /\ answer \in [Requests -> 0..MaxRequests] /\ bridge \in [Browsers -> Seq(Requests)]
        /\ replied \in [Browsers -> SUBSET Requests]
    BY ConstantsAssumption DEF TypeOK
  <2>2. /\ \A n \in Requests : n \in Nat /\ n # 0
        /\ \A n \in Nat : n # 0 /\ n <= MaxRequests => n \in Requests
    BY <2>1 DEF Requests
  <2> QED BY <2>1, <2>2 DEF None
<1> USE <1>0 DEF Undecided, run, page, net
<1>1. CASE ControlRequest
  <2>0. claude = "working"
    BY <1>1 DEF ControlRequest
  <2>1. ~Undecided
    BY <2>0 DEF Answered
  <2>2. respCh = <<>> /\ \A b \in Browsers : bridge[b] = <<>>
    BY <2>1 DEF OneReply
  <2>3. asked' = asked + 1 /\ asked < MaxRequests /\ claude' = "asking" /\ claude = "working"
        /\ UNCHANGED <<answer, respCh, bridge, replied>>
    BY <1>1 DEF ControlRequest
  <2>4. OneReply'
    BY <2>2, <2>3 DEF OneReply
  <2>5. \A n \in Requests : n < asked' => answer[n] = n
    BY <2>3 DEF Answered
  <2>6. answer[asked + 1] = None
    BY <2>3 DEF Answered
  <2> QED BY <2>3, <2>4, <2>5, <2>6 DEF Answered
<1>2. CASE TakeResponse
  <2>1. respCh = <<asked>> /\ asked # 0 /\ answer[asked] = None /\ asked \in Requests
        /\ \A b \in Browsers : bridge[b] = <<>>
    BY <1>2 DEF TakeResponse, OneReply
  <2>2. PICK c \in Browsers : asked \in replied[c]
    BY <1>2 DEF TakeResponse, OneReply
  <2>3. respCh' = <<>> /\ Head(respCh) = asked /\ UNCHANGED <<asked, bridge, replied>>
    BY <1>2, <2>1 DEF TakeResponse
  <2>4. OneReply'
    BY <2>1, <2>3 DEF OneReply
  <2>5. CASE claude = "asking"
    <3>1. claude' = "working" /\ answer' = [answer EXCEPT ![asked] = asked]
      BY <1>2, <2>3, <2>5 DEF TakeResponse
    <3> QED BY <2>1, <2>2, <2>3, <2>4, <3>1 DEF Answered
  <2>6. CASE claude # "asking"
    <3>1. UNCHANGED <<claude, answer>>
      BY <1>2, <2>6 DEF TakeResponse
    <3> QED BY <2>3, <2>4, <3>1 DEF Answered
  <2> QED BY <2>5, <2>6
<1>3. ASSUME NEW b \in Browsers, ReplyPermission(b) PROVE Answered' /\ OneReply'
  <2> DEFINE x == dock[b]
  <2>1. /\ x \in Nat /\ x # 0 /\ x <= asked /\ x \in Requests /\ x \notin replied[b]
        /\ bridge' = [bridge EXCEPT ![b] = Append(bridge[b], x)]
        /\ replied' = [replied EXCEPT ![b] = replied[b] \cup {x}]
        /\ UNCHANGED <<claude, asked, answer, respCh>>
    BY <1>3 DEF ReplyPermission, Shown, TypeOK, Lone
  <2> HIDE DEF x
  <2>2. \A c \in Browsers : replied[c] # {} => c = b
    BY <2>1 DEF Lone
  <2>3. answer[x] # x
    BY <2>1, <2>2 DEF Answered
  <2>4. x = asked /\ Undecided
    BY <2>1, <2>3 DEF Answered
  <2>5. respCh = <<>> /\ \A c \in Browsers : bridge[c] = <<>>
    BY <2>1, <2>2, <2>4 DEF OneReply
  <2>6. bridge'[b] = <<asked>> /\ \A c \in Browsers : c # b => bridge'[c] = <<>>
    <3>1. Append(<<>>, asked) = <<asked>>
      BY <2>4
    <3> QED BY <2>1, <2>4, <2>5, <3>1
  <2>7. OneReply'
    BY <2>1, <2>4, <2>5, <2>6 DEF OneReply
  <2>8. \A c \in Browsers : replied[c] \subseteq replied'[c]
    BY <2>1
  <2> QED BY <2>1, <2>7, <2>8 DEF Answered
<1>4. ASSUME NEW b \in Browsers, ReplyLookup(b) PROVE Answered' /\ OneReply'
  <2>1. /\ UNCHANGED <<claude, asked, answer, respCh, replied>>
        /\ \A c \in Browsers :
              bridge'[c] = bridge[c] \/ (c = b /\ bridge'[c] = Tail(bridge[c]))
        /\ bridge[b] # <<>>
    BY <1>4 DEF ReplyLookup
  <2>2. bridge[b] = <<asked>>
    BY <2>1 DEF OneReply
  <2>3. \A c \in Browsers : bridge'[c] = bridge[c] \/ bridge'[c] = <<>>
    <3>1. Tail(<<asked>>) = <<>>
      OBVIOUS
    <3> QED BY <2>1, <2>2, <3>1
  <2> QED BY <2>1, <2>3 DEF OneReply, Answered
<1>5. ASSUME NEW b \in Browsers, ReplySend(b) \/ ReplyGivesUp(b)
      PROVE  Answered' /\ OneReply'
  <2>1. bridge[b] # <<>>
    BY <1>5 DEF ReplySend, ReplyGivesUp, InHand
  <2>2. bridge[b] = <<asked>> /\ Undecided /\ asked \in replied[b] /\ respCh = <<>>
    BY <2>1 DEF OneReply
  <2>3. bridge' = [bridge EXCEPT ![b] = <<>>]
        /\ UNCHANGED <<claude, asked, answer, replied>>
    BY <1>5, <2>2 DEF ReplySend, ReplyGivesUp, Replied
  <2>4. \A c \in Browsers : c # b => bridge[c] = <<>>
    BY <2>2 DEF OneReply, Lone
  <2>5. \A c \in Browsers : bridge'[c] = <<>>
    BY <2>3, <2>4
  <2>6. respCh' = <<>> \/ respCh' = <<asked>>
    BY <1>5, <2>2 DEF ReplySend, ReplyGivesUp
  <2> QED BY <2>2, <2>3, <2>5, <2>6 DEF OneReply, Answered
<1>6. ASSUME UNCHANGED <<claude, asked, answer, respCh, bridge, replied>>
      PROVE  Answered' /\ OneReply'
  BY <1>6 DEF Answered, OneReply
<1>7. CASE \/ WaitCancelled \/ RunEnds \/ CloseChannels \/ EmitIdle \/ Release
           \/ Interrupt \/ UNCHANGED vars
  BY <1>6, <1>7 DEF WaitCancelled, RunEnds, CloseChannels, EmitIdle, Release,
                    Interrupt, vars
<1>8. CASE ClaudeExits
  <2>1. claude' = "exited" /\ UNCHANGED <<asked, answer, respCh, bridge, replied>>
    BY <1>8 DEF ClaudeExits
  <2> QED BY <2>1 DEF Answered, OneReply
<1>9. ASSUME NEW b \in Browsers, Receive(b) \/ ReplyNotSent(b) \/ ReplyPanics(b)
      PROVE  Answered' /\ OneReply'
  BY <1>6, <1>9 DEF Receive, ReplyNotSent, ReplyPanics
<1>10. ASSUME NEW b \in Browsers, OpenSession(b) PROVE Answered' /\ OneReply'
  BY <1>10 DEF OpenSession, Lone, TypeOK
<1>11. ASSUME NEW b \in Browsers, SocketBreaks(b) \/ DeliveryFails(b)
       PROVE  Answered' /\ OneReply'
  <2>1. bridge[b] = <<>> \/ bridge[b] = <<asked>>
    BY DEF OneReply
  <2>2. Head(<<asked>>) = asked /\ Tail(<<asked>>) = <<>>
    OBVIOUS
  <2>3. bridge' = [bridge EXCEPT ![b] = <<>>]
    <3>1. CASE SocketBreaks(b)
      <4>1. bridge[b] = <<>> => handler[b] # "send"
        BY DEF InHand
      <4>2. handler[b] # "send"
        BY <2>1, <2>2, <3>1, <4>1 DEF SocketBreaks
      <4> QED BY <3>1, <4>2 DEF SocketBreaks
    <3>2. CASE DeliveryFails(b)
      BY <2>1, <2>2, <3>2 DEF DeliveryFails
    <3> QED BY <1>11, <3>1, <3>2
  <2>4. UNCHANGED <<claude, asked, answer, respCh, replied>>
    BY <1>11 DEF SocketBreaks, DeliveryFails
  <2>5. \A c \in Browsers : bridge'[c] = bridge[c] \/ bridge'[c] = <<>>
    BY <2>3
  <2> QED BY <2>4, <2>5 DEF OneReply, Answered
<1> QED
  BY <1>1, <1>2, <1>3, <1>4, <1>5, <1>7, <1>8, <1>9, <1>10, <1>11
     DEF Next, RunLoop, HandlePermissionReply

LEMMA InitReply == Init => ReplyInv
<1> SUFFICES ASSUME Init PROVE ReplyInv
  OBVIOUS
<1>1. TypeOK
  <2>1. /\ answer \in [Requests -> 0..MaxRequests] /\ dock \in [Browsers -> 0..MaxRequests]
        /\ pos \in [Browsers -> Nat] /\ replied \in [Browsers -> SUBSET Requests]
        /\ handler \in [Browsers -> {"idle", "send"}]
    BY ConstantsAssumption DEF Init, None
  <2>2. bridge \in [Browsers -> Seq(Requests)] /\ respCh \in Seq(Requests)
    BY DEF Init
  <2>3. timeline \in Seq(1..Idle)
    BY DEF Init
  <2>6. cancelled \in BOOLEAN /\ entry \in BOOLEAN
    BY DEF Init
  <2>4. asked \in 0..MaxRequests /\ reopens \in 0..MaxReopens /\ drops \in 0..MaxDrops
    BY ConstantsAssumption DEF Init
  <2>7. lost \subseteq Browsers \X Requests
    BY DEF Init
  <2>5. claude = "working" /\ host = "scan"
    BY DEF Init
  <2> QED BY <2>1, <2>2, <2>3, <2>4, <2>5, <2>6, <2>7 DEF TypeOK
<1>3. InHand /\ Shown
  BY ConstantsAssumption DEF Init, InHand, Shown, None
<1>2. Answered /\ OneReply
  BY ConstantsAssumption DEF Init, Answered, OneReply, Requests, None
<1> QED BY <1>1, <1>2, <1>3 DEF ReplyInv, LoneInv

-----------------------------------------------------------------------------
(* The theorems.                                                           *)

THEOREM ReplyInvariant == Spec => []ReplyInv
<1>1. ReplyInv /\ [Next]_vars => ReplyInv'
  <2> SUFFICES ASSUME ReplyInv, [Next]_vars PROVE ReplyInv'
    OBVIOUS
  <2>1. TypeOK' /\ InHand' /\ Shown'
    BY TypeStep, ShownStep DEF ReplyInv
  <2>2. ASSUME Lone' PROVE Answered' /\ OneReply'
    BY <2>2, LoneBefore, LoneStep DEF ReplyInv, LoneInv
  <2> QED BY <2>1, <2>2 DEF ReplyInv, LoneInv
<1> QED BY InitReply, <1>1, PTL DEF Spec

\* The types, for any number of pages, requests and reopenings.
THEOREM TypeCorrect == Spec => []TypeOK
<1>1. ReplyInv => TypeOK
  BY DEF ReplyInv
<1> QED BY <1>1, ReplyInvariant, PTL

\* While one page answers and is not opened anew, every decision is taken for the
\* request it was made for.
THEOREM DecisionsMatch == Spec => []LoneViewerMatches
<1>1. ReplyInv => LoneViewerMatches
  <2> SUFFICES ASSUME ReplyInv, Lone, NEW n \in Requests PROVE answer[n] \in {None, n}
    BY DEF LoneViewerMatches, Lone
  <2>1. n \in Nat /\ asked \in Nat
    BY ConstantsAssumption DEF ReplyInv, TypeOK, Requests
  <2>2. n < asked \/ n > asked \/ n = asked
    BY <2>1
  <2>3. n # 0
    BY DEF Requests
  <2> QED BY <2>2, <2>3 DEF ReplyInv, LoneInv, Answered
<1> QED BY <1>1, ReplyInvariant, PTL

-----------------------------------------------------------------------------
(* How a wait ends: InterruptEnds and AnswerUnblocks short of fairness.    *)

\* A CLI that waits has a runLoop that waits, unless the wait was cancelled; the
\* run ends after its CLI, and cancels itself; the entry goes last.
WaitInv ==
    /\ claude = "asking" => host = "wait" \/ (host = "scan" /\ cancelled)
    /\ host \notin {"scan", "wait"} => claude = "exited" /\ cancelled
    /\ entry <=> host \notin {"released", "dead"}

\* The steps of the pages and of the net, all but the panic.
PageOrNet(b) ==
    \/ Receive(b) \/ ReplyPermission(b) \/ ReplyNotSent(b) \/ OpenSession(b)
    \/ SocketBreaks(b) \/ DeliveryFails(b)
    \/ ReplyLookup(b) \/ ReplySend(b) \/ ReplyGivesUp(b)

\* They leave the CLI and runLoop as they are.
LEMMA PageOrNetStep ==
    ASSUME NEW b \in Browsers, PageOrNet(b) PROVE UNCHANGED <<claude, host, cancelled, entry>>
  BY DEF PageOrNet, Receive, ReplyPermission, ReplyNotSent, OpenSession, SocketBreaks,
         DeliveryFails, ReplyLookup, ReplySend, ReplyGivesUp, run

\* Every step keeps the two sides of the wait together.
LEMMA WaitStep == TypeOK /\ WaitInv /\ [Next]_vars => WaitInv'
<1> SUFFICES ASSUME TypeOK, WaitInv, [Next]_vars PROVE WaitInv'
  OBVIOUS
<1> USE DEF run, page, net
<1>1. ASSUME UNCHANGED <<claude, host, cancelled, entry>> PROVE WaitInv'
  BY <1>1 DEF WaitInv
<1>2. CASE ControlRequest \/ TakeResponse \/ WaitCancelled \/ RunEnds
  BY <1>2 DEF ControlRequest, TakeResponse, WaitCancelled, RunEnds, WaitInv, TypeOK
<1>3. CASE CloseChannels \/ EmitIdle \/ Release \/ ClaudeExits \/ Interrupt
  BY <1>3 DEF CloseChannels, EmitIdle, Release, ClaudeExits, Interrupt, WaitInv, TypeOK
<1>4. ASSUME NEW b \in Browsers, ReplyPanics(b) PROVE WaitInv'
  BY <1>4 DEF ReplyPanics, Closed, WaitInv
<1>5. ASSUME NEW b \in Browsers, PageOrNet(b) PROVE WaitInv'
  BY <1>1, <1>5, PageOrNetStep
<1>6. CASE UNCHANGED vars
  BY <1>1, <1>6 DEF vars
<1> QED BY <1>2, <1>3, <1>4, <1>5, <1>6 DEF Next, RunLoop, HandlePermissionReply, PageOrNet

\* The wait, for any number of pages and requests.
LEMMA WaitInvariant == Spec => [](ReplyInv /\ WaitInv)
<1>1. Init => WaitInv
  BY DEF Init, WaitInv
<1>2. ReplyInv /\ WaitInv /\ [Next]_vars => WaitInv'
  BY WaitStep DEF ReplyInv
<1> QED BY <1>1, <1>2, ReplyInvariant, PTL DEF Spec

\* What is owed to a run that has been interrupted: the kill, then the end of the
\* wait without a decision, and the stages of the end.
OwedToRun ==
    \/ claude # "exited"
    \/ host = "wait" /\ cancelled
    \/ host \in {"scan", "ended", "closed", "idle"}

\* What is owed to a CLI that asks when a page has answered: the reply in respCh
\* is taken, or the handler has an entry to find and room to send.
OwedToCLI(b) ==
    \/ host = "wait" /\ respCh # <<>>
    \/ handler[b] = "idle" /\ entry
    \/ handler[b] = "send" /\ ~Closed /\ Len(respCh) < RespCap

Over == host \in {"released", "dead"}
Asking == claude = "asking" /\ ~cancelled

\* Neither an interrupted run nor a CLI that has been answered is ever stuck
\* (handleControlRequest, RespondPermission).
NobodyWaitsInVain ==
    /\ cancelled /\ ~Over => OwedToRun
    /\ \A b \in Browsers : Asking /\ bridge[b] # <<>> => OwedToCLI(b)

\* How far an interrupted run is from its release.
ToRelease ==
    IF claude # "exited" THEN 6
    ELSE CASE host = "wait" -> 5 [] host = "scan" -> 4 [] host = "ended" -> 3
           [] host = "closed" -> 2 [] host = "idle" -> 1 [] OTHER -> 0

\* How far a CLI that asks is from a decision, by way of one page.
ToDecision(b) ==
    IF respCh # <<>> THEN 1 ELSE IF handler[b] = "send" THEN 2 ELSE 3

OnTheWay(b) == respCh # <<>> \/ bridge[b] # <<>>

\* Nothing brings an interrupted run further from its release, and the exit of the
\* CLI and, from then on, each step of runLoop brings it nearer.  While the CLI asks
\* and is not interrupted, an answer of a page is on its way until it arrives or its
\* delivery fails, and a failed delivery is recorded in lost: what the handler
\* does brings it nearer, nothing brings it further off, and to take what is in
\* respCh ends the wait.
WaitsDescend ==
    /\ cancelled /\ ~Over =>
          /\ cancelled'
          /\ ToRelease' <= ToRelease
          /\ ClaudeExits \/ (claude = "exited" /\ RunLoop) => ToRelease' < ToRelease
    /\ \A b \in Browsers : Asking /\ OnTheWay(b) /\ Asking' =>
          /\ ~TakeResponse
          /\ asked' = asked
          /\ OnTheWay(b)' \/ <<b, Head(bridge[b])>> \in lost'
          /\ ToDecision(b)' <= ToDecision(b)
          /\ respCh = <<>> /\ HandlePermissionReply(b) => ToDecision(b)' < ToDecision(b)

\* In every reachable state an interrupted run has a step owed to it until its entry
\* is released, and a CLI that asks has one as soon as a page has answered: the
\* handler never waits for a runLoop that waits for it (handleControlRequest,
\* RespondPermission).
THEOREM WaitsCanEnd == Spec => []NobodyWaitsInVain
<1>1. ReplyInv /\ WaitInv => NobodyWaitsInVain
  <2> SUFFICES ASSUME ReplyInv, WaitInv PROVE NobodyWaitsInVain
    OBVIOUS
  <2>0. TypeOK
    BY DEF ReplyInv
  <2>1. ASSUME cancelled, ~Over PROVE OwedToRun
    BY <2>0, <2>1 DEF TypeOK, Over, OwedToRun
  <2>2. ASSUME NEW b \in Browsers, Asking PROVE OwedToCLI(b)
    <3>1. host = "wait" /\ entry /\ ~Closed /\ handler[b] \in {"idle", "send"}
      BY <2>0, <2>2 DEF Asking, WaitInv, Closed, TypeOK
    <3>2. respCh = <<>> => Len(respCh) < RespCap
      BY ConstantsAssumption
    <3> QED BY <3>1, <3>2 DEF OwedToCLI
  <2> QED BY <2>1, <2>2 DEF NobodyWaitsInVain
<1> QED BY <1>1, WaitInvariant, PTL

\* A step of an interrupted run.
LEMMA RunDescends ==
    ASSUME TypeOK, WaitInv, Next, cancelled, ~Over
    PROVE  /\ cancelled' /\ ToRelease' <= ToRelease
           /\ ClaudeExits \/ (claude = "exited" /\ RunLoop) => ToRelease' < ToRelease
<1>0. ToRelease \in 1..6 /\ (claude = "exited" => ToRelease \in 1..5)
  BY DEF ToRelease, Over, TypeOK
<1> USE DEF run, page, net
<1>1. ASSUME UNCHANGED <<claude, host, cancelled>>, ~ClaudeExits, ~RunLoop
      PROVE  cancelled' /\ ToRelease' = ToRelease
  BY <1>1 DEF ToRelease
<1>2. CASE ClaudeExits
  BY <1>0, <1>2 DEF ClaudeExits, ToRelease, TypeOK
<1>3. CASE claude = "exited" /\ RunLoop
  <2>1. claude' = "exited" /\ cancelled'
    BY <1>3 DEF RunLoop, TakeResponse, WaitCancelled, RunEnds, CloseChannels, EmitIdle, Release
  <2>2. \/ host = "wait" /\ host' = "scan"
        \/ host = "scan" /\ host' = "ended"
        \/ host = "ended" /\ host' = "closed"
        \/ host = "closed" /\ host' = "idle"
        \/ host = "idle" /\ host' = "released"
    BY <1>3 DEF RunLoop, TakeResponse, WaitCancelled, RunEnds, CloseChannels, EmitIdle, Release
  <2> QED BY <1>3, <2>1, <2>2 DEF ToRelease
<1>4. CASE claude # "exited" /\ (RunLoop \/ ControlRequest)
  <2>1. claude' # "exited" /\ cancelled'
    BY <1>4 DEF RunLoop, TakeResponse, WaitCancelled, RunEnds, CloseChannels, EmitIdle, Release,
       ControlRequest, WaitInv
  <2>2. ~ClaudeExits
    BY <2>1 DEF ClaudeExits
  <2> QED BY <1>4, <2>1, <2>2 DEF ToRelease
<1>5. ASSUME NEW b \in Browsers, ReplyPanics(b) PROVE cancelled' /\ ToRelease' = 0
  BY <1>5 DEF ReplyPanics, Closed, WaitInv, ToRelease
<1>6. ASSUME NEW b \in Browsers, PageOrNet(b) PROVE UNCHANGED <<claude, host, cancelled>>
  BY <1>6, PageOrNetStep
<1>7. ~Interrupt
  BY DEF Interrupt
<1>8. CASE ControlRequest /\ claude = "exited"
  BY <1>8 DEF ControlRequest
<1>9. CASE ~ClaudeExits /\ ~RunLoop /\ ~ControlRequest
  <2>1. PICK b \in Browsers : PageOrNet(b) \/ ReplyPanics(b)
    BY <1>7, <1>9 DEF Next, PageOrNet, HandlePermissionReply
  <2>2. CASE ReplyPanics(b)
    <3>1. cancelled' /\ ToRelease' <= ToRelease
      BY <1>0, <1>5, <2>2
    <3> QED BY <1>9, <3>1
  <2>3. CASE ~ReplyPanics(b)
    <3>1. UNCHANGED <<claude, host, cancelled>>
      BY <1>6, <2>1, <2>3
    <3>2. cancelled' /\ ToRelease' = ToRelease
      BY <1>1, <1>9, <3>1
    <3>3. ToRelease' <= ToRelease
      BY <1>0, <3>2
    <3> QED BY <1>9, <3>2, <3>3
  <2> QED BY <2>2, <2>3
<1> QED BY <1>2, <1>3, <1>4, <1>8, <1>9, <1>0

\* A step while the CLI asks and an answer is on its way to it.
LEMMA AnswerDescends ==
    ASSUME TypeOK, InHand, WaitInv, Next, NEW b \in Browsers, Asking, OnTheWay(b), Asking'
    PROVE  /\ ~TakeResponse
           /\ asked' = asked
           /\ OnTheWay(b)' \/ <<b, Head(bridge[b])>> \in lost'
           /\ ToDecision(b)' <= ToDecision(b)
           /\ respCh = <<>> /\ HandlePermissionReply(b) => ToDecision(b)' < ToDecision(b)
<1>0. /\ host = "wait" /\ entry /\ ~Closed /\ handler \in [Browsers -> {"idle", "send"}]
      /\ bridge \in [Browsers -> Seq(Requests)] /\ respCh \in Seq(Requests)
  BY DEF Asking, WaitInv, TypeOK, Closed
<1> USE DEF run, page, net
<1>1. ~TakeResponse /\ ~WaitCancelled /\ ~ControlRequest
  BY DEF TakeResponse, WaitCancelled, ControlRequest, Asking
<1>2. ASSUME UNCHANGED <<respCh, asked>>, bridge'[b] = bridge[b], handler'[b] = handler[b]
      PROVE  /\ asked' = asked /\ OnTheWay(b)' /\ ToDecision(b)' = ToDecision(b)
             /\ ToDecision(b) \in 1..3
  BY <1>2 DEF OnTheWay, ToDecision
<1>3. CASE RunEnds \/ CloseChannels \/ EmitIdle \/ Release \/ ClaudeExits \/ Interrupt
  BY <1>0, <1>3 DEF RunEnds, CloseChannels, EmitIdle, Release, ClaudeExits, Interrupt, Asking
<1>4. ASSUME NEW c \in Browsers, Receive(c) \/ ReplyNotSent(c) \/ OpenSession(c)
      PROVE  UNCHANGED <<respCh, asked, bridge, handler>>
  BY <1>4 DEF Receive, ReplyNotSent, OpenSession
<1>5. ASSUME NEW c \in Browsers, ReplyPermission(c)
      PROVE  /\ UNCHANGED <<respCh, asked, handler>> /\ OnTheWay(b)'
             /\ ToDecision(b)' = ToDecision(b)
  <2>1. /\ UNCHANGED <<respCh, asked, handler>>
        /\ bridge'[b] = bridge[b] \/ bridge'[b] = Append(bridge[b], dock[c])
    BY <1>0, <1>5 DEF ReplyPermission
  <2>0. bridge[b] \in Seq(Requests)
    BY <1>0
  <2>3. Append(bridge[b], dock[c]) # <<>>
    BY <2>0
  <2>2. bridge'[b] = <<>> => bridge[b] = <<>>
    BY <2>1, <2>3
  <2> QED BY <2>1, <2>2 DEF OnTheWay, ToDecision
<1>6. ASSUME NEW c \in Browsers, c # b, ReplyLookup(c)
      PROVE  UNCHANGED <<respCh, asked>> /\ bridge'[b] = bridge[b] /\ handler'[b] = handler[b]
  BY <1>0, <1>6 DEF ReplyLookup
<1>7. ASSUME ReplyLookup(b)
      PROVE  /\ UNCHANGED <<respCh, asked, bridge>> /\ OnTheWay(b)'
             /\ ToDecision(b)' <= ToDecision(b)
             /\ respCh = <<>> => ToDecision(b)' < ToDecision(b)
  BY <1>0, <1>7 DEF ReplyLookup, OnTheWay, ToDecision
<1>8. ASSUME NEW c \in Browsers, ReplySend(c)
      PROVE  /\ asked' = asked /\ OnTheWay(b)' /\ ToDecision(b)' = 1
             /\ c = b /\ respCh = <<>> => ToDecision(b) = 2
  <2>1. respCh' # <<>> /\ asked' = asked
    <3>1. respCh' = Append(respCh, Head(bridge[c])) /\ asked' = asked
      BY <1>8 DEF ReplySend
    <3> QED BY <1>0, <3>1
  <2> QED BY <1>8, <2>1 DEF ReplySend, OnTheWay, ToDecision
<1>9. ASSUME NEW c \in Browsers, ReplyGivesUp(c) \/ ReplyPanics(c) PROVE FALSE
  BY <1>0, <1>9 DEF ReplyGivesUp, ReplyPanics, Asking
<1>10. ToDecision(b) \in 1..3
  BY DEF ToDecision
<1>11. ASSUME NEW c \in Browsers, SocketBreaks(c) \/ DeliveryFails(c)
       PROVE  /\ UNCHANGED <<respCh, asked, handler>>
              /\ OnTheWay(b)' \/ <<b, Head(bridge[b])>> \in lost'
              /\ ToDecision(b)' = ToDecision(b)
  <2>1. UNCHANGED <<respCh, asked, handler>> /\ (c # b => bridge'[b] = bridge[b])
    BY <1>0, <1>11 DEF SocketBreaks, DeliveryFails
  <2>2. ASSUME c = b, bridge[b] # <<>>, bridge'[b] = <<>>
        PROVE  <<b, Head(bridge[b])>> \in lost'
    <3>0. bridge[b] \in Seq(Requests) /\ 1 \in 1..Len(bridge[b]) /\ Head(bridge[b]) = bridge[b][1]
      BY <1>0, <2>2
    <3>1. CASE DeliveryFails(b)
      BY <3>1 DEF DeliveryFails
    <3>2. CASE SocketBreaks(b)
      <4>1. handler[b] # "send"
        BY <1>0, <2>2, <3>2 DEF SocketBreaks
      <4>2. lost' = lost \cup {<<b, bridge[b][i]>> : i \in Len(<<>>) + 1..Len(bridge[b])}
        BY <3>2, <4>1 DEF SocketBreaks
      <4>3. 1 \in Len(<<>>) + 1..Len(bridge[b])
        BY <3>0
      <4> QED BY <3>0, <4>2, <4>3
    <3> QED BY <1>11, <2>2, <3>1, <3>2
  <2> QED BY <2>1, <2>2 DEF OnTheWay, ToDecision
<1> QED
  BY <1>1, <1>2, <1>3, <1>4, <1>5, <1>6, <1>7, <1>8, <1>9, <1>10, <1>11
     DEF Next, RunLoop, HandlePermissionReply

\* What InterruptEnds and AnswerUnblocks say short of fairness, for any number of
\* pages and requests and any capacity of respCh: with WaitsCanEnd and the fairness
\* of FairSpec, ToRelease falls to 0, and a CLI whose answer is not lost stops asking.
THEOREM WaitsEnd == Spec => [][WaitsDescend]_vars
<1>1. ReplyInv /\ WaitInv /\ [Next]_vars => [WaitsDescend]_vars
  BY RunDescends, AnswerDescends DEF WaitsDescend, ReplyInv
<1> QED BY <1>1, WaitInvariant, PTL DEF Spec
=============================================================================
