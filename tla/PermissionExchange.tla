------------------------- MODULE PermissionExchange -------------------------
(***************************************************************************)
(* One run of the claude backend and its permission requests: the CLI asks *)
(* (control_request), runLoop shows the request to the browsers and blocks *)
(* (internal/agent/claude.go), a user answers in the dock of some browser  *)
(* (web/src/pages/project.tsx), the server carries the answer on a stream  *)
(* of its own (internal/server/web/session.go) and HandlePermissionReply   *)
(* puts it into the channel runLoop waits on                               *)
(* (internal/client/handlers/agent.go).                                    *)
(*                                                                         *)
(* The n-th control_request of the run has the request id n.  A decision   *)
(* is named by the request whose dock the user answered; whether it allows *)
(* or denies plays no part in where it goes.                               *)
(***************************************************************************)
EXTENDS Integers, Sequences, FiniteSets

CONSTANTS Browsers,     \* pages that show the session
          RespCap,      \* capacity of run.respCh (8 in the code)
          MaxRequests,  \* bound: control_requests of the run
          MaxReopens,   \* bound: times a page opens the session anew
          MaxDrops,     \* bound: permission events a full eventCh loses
          MaxLosses     \* bound: replies lost before another one is

ASSUME ConstantsAssumption ==
    /\ RespCap \in Nat \ {0}
    /\ MaxRequests \in Nat
    /\ MaxReopens \in Nat
    /\ MaxDrops \in Nat
    /\ MaxLosses \in Nat

Requests == 1..MaxRequests
None == 0
Idle == MaxRequests + 1   \* the session.idle event in the timeline

VARIABLES
    claude,    \* the CLI: working, asking (waits for a decision), exited
    asked,     \* control_requests it has made
    answer,    \* for each request, the request the decision it got was made for
    host,      \* runLoop, then the end of consumeEvents
    cancelled, \* run.ctx is cancelled
    respCh,    \* run.respCh
    entry,     \* the session map still names this run
    timeline,  \* permission and idle events stored and broadcast
    pos,       \* how many of them each page has handled
    dock,      \* pendingPerm of each page
    replied,   \* its replied set
    bridge,    \* replies of each page the server has not carried out yet
    handler,   \* HandlePermissionReply for the first of them: idle or send
    lost,      \* history: whose reply to which request failed on its way
    reopens, drops

run  == <<claude, asked, answer, host, cancelled, respCh, entry, timeline>>
page == <<pos, dock, replied, reopens>>
net  == <<bridge, handler, lost>>
vars == <<run, page, net, drops>>

Init ==
    /\ claude = "working"
    /\ asked = 0
    /\ answer = [n \in Requests |-> None]
    /\ host = "scan"
    /\ cancelled = FALSE
    /\ respCh = <<>>
    /\ entry = TRUE
    /\ timeline = <<>>
    /\ pos = [b \in Browsers |-> 0]
    /\ dock = [b \in Browsers |-> None]
    /\ replied = [b \in Browsers |-> {}]
    /\ bridge = [b \in Browsers |-> <<>>]
    /\ handler = [b \in Browsers |-> "idle"]
    /\ lost = {}
    /\ reopens = 0
    /\ drops = 0

-----------------------------------------------------------------------------
(* The CLI and runLoop.                                                    *)

\* handleControlRequest shows the request and waits.  trySend loses the event
\* when eventCh is full, and waits all the same.
ControlRequest ==
    /\ claude = "working"
    /\ host = "scan"
    /\ asked < MaxRequests
    /\ asked' = asked + 1
    /\ claude' = "asking"
    /\ host' = "wait"
    /\ \/ /\ timeline' = Append(timeline, asked + 1)
          /\ UNCHANGED drops
       \/ /\ drops < MaxDrops
          /\ drops' = drops + 1
          /\ UNCHANGED timeline
    /\ UNCHANGED <<answer, cancelled, respCh, entry, page, net>>

\* Mutant: a reply made for another request is thrown away, and the wait ends.
TakeMatching ==
    /\ host = "wait"
    /\ respCh # <<>>
    /\ host' = "scan"
    /\ respCh' = Tail(respCh)
    /\ IF claude = "asking" /\ Head(respCh) = asked
       THEN /\ claude' = "working"
            /\ answer' = [answer EXCEPT ![asked] = Head(respCh)]
       ELSE UNCHANGED <<claude, answer>>
    /\ UNCHANGED <<asked, cancelled, entry, timeline, page, net, drops>>

\* The first reply in the channel becomes the control_response, whichever
\* request it was made for; a CLI that has exited does not read it.
TakeResponse ==
    /\ host = "wait"
    /\ respCh # <<>>
    /\ host' = "scan"
    /\ respCh' = Tail(respCh)
    /\ IF claude = "asking"
       THEN /\ claude' = "working"
            /\ answer' = [answer EXCEPT ![asked] = Head(respCh)]
       ELSE UNCHANGED <<claude, answer>>
    /\ UNCHANGED <<asked, cancelled, entry, timeline, page, net, drops>>

\* Mutant: the wait does not listen to the context.
WaitForever ==
    /\ host = "wait"
    /\ cancelled
    /\ UNCHANGED vars

\* The context is cancelled: no response is written.
WaitCancelled ==
    /\ host = "wait"
    /\ cancelled
    /\ host' = "scan"
    /\ UNCHANGED <<claude, asked, answer, cancelled, respCh, entry, timeline,
                   page, net, drops>>

\* The CLI ends: its work is done, it gives up waiting, or it is killed.
ClaudeExits ==
    /\ claude # "exited"
    /\ claude' = "exited"
    /\ UNCHANGED <<asked, answer, host, cancelled, respCh, entry, timeline,
                   page, net, drops>>

\* The scanner sees the end of stdout and cmd.Wait returns; the deferred
\* calls start with run.cancel.
RunEnds ==
    /\ host = "scan"
    /\ claude = "exited"
    /\ host' = "ended"
    /\ cancelled' = TRUE
    /\ UNCHANGED <<claude, asked, answer, respCh, entry, timeline, page, net, drops>>

\* respCh, permCh, resultCh and eventCh are closed.
CloseChannels ==
    /\ host = "ended"
    /\ host' = "closed"
    /\ UNCHANGED <<claude, asked, answer, cancelled, respCh, entry, timeline,
                   page, net, drops>>

\* consumeEvents sees eventCh closed and emits session.idle ...
EmitIdle ==
    /\ host = "closed"
    /\ host' = "idle"
    /\ timeline' = Append(timeline, Idle)
    /\ UNCHANGED <<claude, asked, answer, cancelled, respCh, entry, page, net, drops>>

\* ... and releases the entry.
Release ==
    /\ host = "idle"
    /\ host' = "released"
    /\ entry' = FALSE
    /\ UNCHANGED <<claude, asked, answer, cancelled, respCh, timeline, page,
                   net, drops>>

\* HandleInterrupt, or a takeover of the session: run.cancel.
Interrupt ==
    /\ entry
    /\ ~cancelled
    /\ cancelled' = TRUE
    /\ UNCHANGED <<claude, asked, answer, host, respCh, entry, timeline, page,
                   net, drops>>

-----------------------------------------------------------------------------
(* A page.                                                                 *)

\* onmessage: a permission request goes to the dock unless it is in replied,
\* session.idle clears the dock.
Receive(b) ==
    LET ev == timeline[pos[b] + 1]
    IN /\ pos[b] < Len(timeline)
       /\ pos' = [pos EXCEPT ![b] = @ + 1]
       /\ dock' = [dock EXCEPT ![b] = CASE ev = Idle -> None
                                        [] ev \in replied[b] -> @
                                        [] OTHER -> ev]
       /\ UNCHANGED <<run, replied, reopens, net, drops>>

\* Mutant: the dock stays, and can be answered again.
ReplyKeepsDock(b) ==
    /\ dock[b] # None
    /\ Len(bridge[b]) < MaxRequests
    /\ bridge' = [bridge EXCEPT ![b] = Append(@, dock[b])]
    /\ UNCHANGED <<dock, replied, run, pos, reopens, handler, lost, drops>>

\* Mutant: the dock is cleared before its request id is read.
ReplyAfterClear(b) ==
    /\ dock[b] # None
    /\ dock' = [dock EXCEPT ![b] = None]
    /\ bridge' = [bridge EXCEPT ![b] = Append(@, dock'[b])]
    /\ UNCHANGED <<run, pos, replied, reopens, handler, lost, drops>>

\* replyPermission: the decision is sent, the dock cleared, the id remembered.
ReplyPermission(b) ==
    /\ dock[b] # None
    /\ bridge' = [bridge EXCEPT ![b] = Append(@, dock[b])]
    /\ replied' = [replied EXCEPT ![b] = @ \cup {dock[b]}]
    /\ dock' = [dock EXCEPT ![b] = None]
    /\ UNCHANGED <<run, pos, reopens, handler, lost, drops>>

\* ... unless the socket is not open or send throws: the dock is cleared and the
\* user told that nothing was sent.
ReplyNotSent(b) ==
    /\ dock[b] # None
    /\ dock' = [dock EXCEPT ![b] = None]
    /\ UNCHANGED <<run, pos, replied, reopens, net, drops>>

\* openSession, or a reload of the page: replied is emptied and the session is
\* replayed from the beginning.
OpenSession(b) ==
    /\ reopens < MaxReopens
    /\ reopens' = reopens + 1
    /\ pos' = [pos EXCEPT ![b] = 0]
    /\ replied' = [replied EXCEPT ![b] = {}]
    /\ dock' = [dock EXCEPT ![b] = None]
    /\ UNCHANGED <<run, net, drops>>

\* The WebSocket of the page breaks: what the server has not read of it is lost,
\* after the page has cleared its dock.
SocketBreaks(b) ==
    LET read == IF handler[b] = "send" THEN <<Head(bridge[b])>> ELSE <<>>
    IN /\ bridge[b] # read
       /\ Cardinality(lost) < MaxLosses
       /\ bridge' = [bridge EXCEPT ![b] = read]
       /\ lost' = lost \cup {<<b, bridge[b][i]>> : i \in Len(read) + 1..Len(bridge[b])}
       /\ UNCHANGED <<run, page, handler, drops>>

-----------------------------------------------------------------------------
(* bridgeWSToAgentControl carries out the replies of a page one at a time, *)
(* each on a stream of its own; HandlePermissionReply and                  *)
(* RespondPermission on the client.                                        *)

\* The session map is looked up; an unknown session is an error.
ReplyLookup(b) ==
    /\ bridge[b] # <<>>
    /\ handler[b] = "idle"
    /\ IF entry
       THEN /\ handler' = [handler EXCEPT ![b] = "send"]
            /\ UNCHANGED bridge
       ELSE /\ bridge' = [bridge EXCEPT ![b] = Tail(@)]
            /\ UNCHANGED handler
    /\ UNCHANGED <<run, page, lost, drops>>

\* OpenStream or a Write of sendAgentPermissionReply fails, which is logged and
\* told to nobody.
DeliveryFails(b) ==
    /\ bridge[b] # <<>>
    /\ handler[b] = "idle"
    /\ Cardinality(lost) < MaxLosses
    /\ bridge' = [bridge EXCEPT ![b] = Tail(@)]
    /\ lost' = lost \cup {<<b, Head(bridge[b])>>}
    /\ UNCHANGED <<run, page, handler, drops>>

Replied(b) ==
    /\ bridge' = [bridge EXCEPT ![b] = Tail(@)]
    /\ handler' = [handler EXCEPT ![b] = "idle"]
    /\ UNCHANGED lost

Closed == host \in {"closed", "idle", "released"}

\* The select of RespondPermission: the send ...
ReplySend(b) ==
    /\ handler[b] = "send"
    /\ ~Closed
    /\ Len(respCh) < RespCap
    /\ respCh' = Append(respCh, Head(bridge[b]))
    /\ Replied(b)
    /\ UNCHANGED <<claude, asked, answer, host, cancelled, entry, timeline,
                   page, drops>>

\* ... or the cancelled context ...
ReplyGivesUp(b) ==
    /\ handler[b] = "send"
    /\ cancelled
    /\ Replied(b)
    /\ UNCHANGED <<run, page, drops>>

\* ... or, when the channel is closed, a panic.  Nothing recovers it: the client
\* process is gone, with the entry and every handler in it.
ReplyPanics(b) ==
    /\ handler[b] = "send"
    /\ Closed
    /\ host' = "dead"
    /\ entry' = FALSE
    /\ handler' = [c \in Browsers |-> "idle"]
    /\ UNCHANGED <<claude, asked, answer, cancelled, respCh, timeline, page,
                   bridge, lost, drops>>

-----------------------------------------------------------------------------
RunLoop ==
    \/ TakeResponse \/ WaitCancelled \/ RunEnds \/ CloseChannels
    \/ EmitIdle \/ Release

HandlePermissionReply(b) ==
    ReplyLookup(b) \/ ReplySend(b) \/ ReplyGivesUp(b) \/ ReplyPanics(b)

Next ==
    \/ ControlRequest \/ RunLoop \/ ClaudeExits \/ Interrupt
    \/ \E b \in Browsers :
        \/ Receive(b) \/ ReplyPermission(b) \/ ReplyNotSent(b) \/ OpenSession(b)
        \/ SocketBreaks(b) \/ DeliveryFails(b) \/ HandlePermissionReply(b)

Spec == Init /\ [][Next]_vars

\* The goroutines run, and a killed CLI exits.  Nothing makes a user answer, a page handle
\* what arrives, a path break, or a CLI exit that has not been cancelled.
Fairness ==
    /\ WF_vars(RunLoop)
    /\ WF_vars(cancelled /\ ClaudeExits)
    /\ \A b \in Browsers : WF_vars(HandlePermissionReply(b))

FairSpec == Spec /\ Fairness

-----------------------------------------------------------------------------
(* Properties.                                                             *)

\* The type invariant.
TypeOK ==
    /\ claude \in {"working", "asking", "exited"}
    /\ asked \in 0..MaxRequests
    /\ answer \in [Requests -> 0..MaxRequests]
    /\ host \in {"scan", "wait", "ended", "closed", "idle", "released", "dead"}
    /\ cancelled \in BOOLEAN
    /\ respCh \in Seq(Requests)
    /\ entry \in BOOLEAN
    /\ timeline \in Seq(1..Idle)
    /\ pos \in [Browsers -> Nat]
    /\ dock \in [Browsers -> 0..MaxRequests]
    /\ replied \in [Browsers -> SUBSET Requests]
    /\ bridge \in [Browsers -> Seq(Requests)]
    /\ handler \in [Browsers -> {"idle", "send"}]
    /\ lost \subseteq Browsers \X Requests
    /\ reopens \in 0..MaxReopens
    /\ drops \in 0..MaxDrops

\* While a single page answers and never opens the session anew, every decision
\* the CLI gets is the one its user made for that very request
\* (handleControlRequest's respCh carries no check of its own; the dock and the
\* replied set of the page are what keeps one reply per request).
LoneViewerMatches ==
    reopens = 0 /\ (\A b, c \in Browsers : replied[b] # {} /\ replied[c] # {} => b = c)
    => \A n \in Requests : answer[n] \in {None, n}

\* An interrupt ends the run although it is blocked on a permission request
\* nobody answers (the ctx.Done branch of handleControlRequest).
InterruptEnds == cancelled ~> host \in {"released", "dead"}

\* A request whose answer a page has sent does not keep the CLI waiting, even
\* if replies left over from earlier requests are in the way and the channel is
\* full (ReplySend, TakeResponse) - unless this page's answer fails on its way,
\* of which the server keeps no more than a line in its log (session.go:192-194).
AnswerUnblocks ==
    \A b \in Browsers : \A n \in Requests :
        (asked = n /\ claude = "asking" /\ \E i \in DOMAIN bridge[b] : bridge[b][i] = n)
            ~> ~(asked = n /\ claude = "asking") \/ <<b, n>> \in lost

\* "RespondPermission injects the user's decision into the waiter of the
\* corresponding control_request ... the caller sees to it that reqID matches"
\* (claude.go:319-321): every decision the CLI gets was made for its request.
ReplyMatchesRequest ==
    \A n \in Requests : answer[n] \in {None, n}

\* "Claude quits by itself when no answer comes for about 30 s, the server goes
\* idle and closes normally" (project.tsx:345-346): the exit of the CLI ends
\* the run.
ExitEndsRun == claude = "exited" ~> host \in {"released", "dead"}
=============================================================================
