--------------------------- MODULE BrowserSession ---------------------------
(***************************************************************************)
(* One page showing agent sessions (web/src/pages/project.tsx), the server *)
(* handler behind each of its WebSockets (internal/server/web/session.go), *)
(* and what the client puts on the streams of agent.start and agent.resume.*)
(*                                                                         *)
(* AgentSession describes how the client numbers, stores and broadcasts.   *)
(* Here a session is only its log: events numbered by their place, an idle *)
(* event at the end of each turn, errors perhaps before it, and the entry  *)
(* of a turn that may be live.  What the moments of HandleResume and of    *)
(* emit can do to a stream (AgentSession has them step by step) is said of *)
(* the stream: numbers it never brings (SkipFrame) or brings twice         *)
(* (PumpTwice), and what it does after the replay (AttachResume).          *)
(*                                                                         *)
(* At most one socket is current.  Of the sockets the page has replaced    *)
(* the last one is kept, with what is still on its way; a start request    *)
(* the page has abandoned may still be carried out by the client.          *)
(***************************************************************************)
EXTENDS Integers, Sequences, FiniteSets

CONSTANTS Sessions,   \* session ids the client can give out
          None,       \* the empty string
          MaxResumes, \* resumeGuard.max (3 in the code)
          WireCap,    \* messages on the way to the page
          MaxTurns,   \* bound: turns of a session
          MaxLog,     \* bound: events of a session before its last ones
          MaxFaults,  \* bound: breaks of the tunnel or of a WebSocket, frames a
                      \* stream does not bring, failed transactions and starts,
                      \* errors in the middle of a turn
          MaxOps      \* bound: clicks of the user

ASSUME ConstantsAssumption ==
    /\ None \notin Sessions
    /\ MaxResumes \in Nat
    /\ WireCap \in Nat \ {0}
    /\ MaxTurns \in Nat /\ MaxLog \in Nat
    /\ MaxFaults \in Nat /\ MaxOps \in Nat

VARIABLES
    \* the page
    id,        \* sessionState.id, which currentSessionId() follows
    lastSeq,   \* sessionState.lastSeq
    done,      \* sessionState.done
    busy,
    offline,   \* the banner: none, retrying, or a reason
    attempts,  \* resumeGuard.attempts
    timers,    \* pending setTimeout(resumeSession, 800)
    shown,     \* the numbered events of the timeline
    \* its current socket, and what is under way to the page
    sock, wire, stale,
    \* the server's stream of that socket, and start requests of others
    stream, orphans,
    \* the client
    log, turns, live, online,
    \* history: numbers the page was not sent, by the stream it has or before a
    \* turn it continued; whether a turn was given numbers the page had already;
    \* whether an end that came over this socket was taken for a repetition;
    \* automatic resumes since an event was shown, without those whose timer
    \* was already pending then
    missed, reused, deaf, streak,
    faults, ops

pageState == <<id, lastSeq, done, busy, attempts, shown>>
sockets   == <<sock, wire, stale>>
client    == <<log, turns, live, online>>
history   == <<missed, reused, deaf>>
vars == <<pageState, offline, timers, sockets, stream, orphans, client,
          history, streak, faults, ops>>

\* st, the turn it follows, the last number read from it (pos), the highest number
\* there was when a resume looked (last), whether frames may come twice, what
\* follows the replay, sawTerminated, and whether the idle of its turn was read.
OpenStream(turn, pos, last, twice, then) ==
    [st |-> "open", turn |-> turn, pos |-> pos, last |-> last, twice |-> twice,
     then |-> then, saw |-> FALSE, idled |-> FALSE]

NoStream == [OpenStream(0, 0, 0, FALSE, "tail") EXCEPT !.st = "none"]

LogEvent(turn, type) == [turn |-> turn, type |-> type]

\* What ends a turn for the page and for the pump.
Terminal == {"idle", "error"}

Msg(type, s, n) == [type |-> type, sid |-> s, seq |-> n]
CloseWith(code) == Msg(code, None, 0)

Init ==
    /\ id = None /\ lastSeq = 0 /\ done = FALSE /\ busy = FALSE
    /\ offline = "none" /\ attempts = 0 /\ timers = 0 /\ shown = <<>>
    /\ sock = [kind |-> "start", sid |-> None, st |-> "none"]
    /\ wire = <<>> /\ stale = <<>>
    /\ stream = NoStream
    /\ orphans = {}
    /\ log = [s \in Sessions |-> <<>>]
    /\ turns = [s \in Sessions |-> 0]
    /\ live = [s \in Sessions |-> FALSE]
    /\ online = TRUE
    /\ missed = {} /\ reused = FALSE /\ deaf = FALSE /\ streak = 0
    /\ faults = 0 /\ ops = 0

-----------------------------------------------------------------------------
(* Sockets, as the page handles them.                                      *)

\* A step that takes n of the faults.
Costs(n) ==
    /\ faults + n <= MaxFaults
    /\ faults' = faults + n

\* Start requests the server may have although their socket is gone.
Abandoned ==
    IF sock.kind = "start" /\ sock.st = "connecting" THEN {sock.sid} ELSE {}

\* openWS: the handlers of the old socket are taken off, it is closed, and
\* the generation moves on.
OpenWS(kind, s) ==
    /\ sock' = [kind |-> kind, sid |-> s, st |-> "connecting"]
    /\ stale' = wire
    /\ wire' = <<>>
    /\ stream' = NoStream
    /\ orphans' = orphans \cup Abandoned
    /\ deaf' = FALSE

Click ==
    /\ ops < MaxOps
    /\ ops' = ops + 1
    /\ UNCHANGED <<client, timers, attempts, streak, faults>>

\* An empty timeline of session s.
Timeline(s) ==
    /\ id' = s /\ lastSeq' = 0 /\ shown' = <<>>
    /\ missed' = {} /\ reused' = FALSE

\* startSession, continuing the session of the page or not (no session yet, or
\* another backend).  The composer is off while busy, but the dock of a denied
\* permission submits again at any time.
StartSession(continuation) ==
    /\ Click
    /\ continuation => id # None
    /\ busy' = TRUE /\ done' = FALSE /\ offline' = "none"
    /\ IF continuation
       THEN /\ OpenWS("start", id)
            /\ UNCHANGED <<id, lastSeq, shown, missed, reused>>
       ELSE /\ OpenWS("start", None)
            /\ Timeline(None)

\* openSession: from the sidebar.
OpenSession(s) ==
    /\ Click
    /\ turns[s] > 0
    /\ ~(s = id /\ busy)
    /\ busy' = TRUE /\ done' = FALSE /\ offline' = "none"
    /\ Timeline(s)
    /\ OpenWS("resume", s)

\* newSession: the socket is closed with its handlers on.  A browser delivers
\* no message after close(), but it does fire onclose (code 1005).
NewSession ==
    /\ Click
    /\ busy' = FALSE /\ done' = TRUE /\ offline' = "none"
    /\ Timeline(None)
    /\ deaf' = FALSE
    /\ orphans' = orphans \cup Abandoned
    /\ stream' = NoStream
    /\ IF sock.st \in {"connecting", "open"}
       THEN sock' = [sock EXCEPT !.st = "open"] /\ wire' = <<CloseWith("abnormal")>>
       ELSE UNCHANGED <<sock, wire>>
    /\ UNCHANGED stale

\* The timer of onclose fires: resumeSession.  It is never cancelled.
ResumeSession ==
    /\ timers > 0
    /\ timers' = timers - 1
    /\ IF id = None \/ done
       THEN UNCHANGED <<sockets, stream, orphans, deaf, streak>>
       ELSE OpenWS("resume", id) /\ streak' = streak + 1
    /\ UNCHANGED <<pageState, offline, client, missed, reused, faults, ops>>

-----------------------------------------------------------------------------
(* wireSock: onmessage and onclose of a socket.                            *)

\* Mutant: nothing is taken for a repetition.
RepeatsNever(m) == FALSE

\* Events a resumed stream repeats.
Repeats(m) == sock.kind = "resume" /\ m.seq > 0 /\ m.seq <= lastSeq

\* append, and what onmessage adds for the end of a turn.
Show(m) ==
    /\ id' = IF sock.kind = "start" /\ id = None THEN m.sid ELSE id
    /\ lastSeq' = IF m.seq > lastSeq THEN m.seq ELSE lastSeq
    /\ shown' = IF m.seq > 0 THEN Append(shown, [sid |-> m.sid, seq |-> m.seq]) ELSE shown
    /\ attempts' = 0
    /\ streak' = 0 - timers
    /\ done' = (done \/ m.type \in Terminal)
    /\ busy' = (busy /\ m.type \notin Terminal)

IsClose(m) == m.type \in {"normal", "abnormal"}

OnMessage ==
    /\ wire # <<>>
    /\ ~IsClose(Head(wire))
    /\ wire' = Tail(wire)
    /\ IF Repeats(Head(wire)) THEN UNCHANGED <<pageState, streak>> ELSE Show(Head(wire))
    /\ deaf' = (deaf \/ (Repeats(Head(wire)) /\ Head(wire).type \in Terminal))
    /\ UNCHANGED <<offline, timers, sock, stale, stream, orphans, client, missed, reused,
                   faults, ops>>

OnCloseNormal ==
    /\ wire # <<>>
    /\ Head(wire).type = "normal"
    /\ wire' = <<>>
    /\ sock' = [sock EXCEPT !.st = "closed"]
    /\ busy' = FALSE
    /\ offline' = IF sock.kind = "resume" THEN "none" ELSE offline
    /\ UNCHANGED <<id, lastSeq, done, attempts, shown, timers, stale, stream, orphans,
                   client, history, streak, faults, ops>>

\* Mutant: one attempt more than max.
OnCloseOneMore ==
    /\ wire # <<>>
    /\ Head(wire).type = "abnormal"
    /\ wire' = <<>>
    /\ sock' = [sock EXCEPT !.st = "closed"]
    /\ busy' = FALSE
    /\ IF id # None /\ ~done /\ attempts <= MaxResumes
       THEN attempts' = attempts + 1 /\ timers' = timers + 1 /\ offline' = "retrying"
       ELSE offline' = "lost" /\ UNCHANGED <<attempts, timers>>
    /\ UNCHANGED <<id, lastSeq, done, shown, stale, stream, orphans, client, history,
                   streak, faults, ops>>

\* Mutant: busy is left as it is.
OnCloseKeepsBusy ==
    /\ wire # <<>>
    /\ Head(wire).type = "abnormal"
    /\ wire' = <<>>
    /\ sock' = [sock EXCEPT !.st = "closed"]
    /\ IF id # None /\ ~done /\ attempts < MaxResumes
       THEN attempts' = attempts + 1 /\ timers' = timers + 1 /\ offline' = "retrying"
       ELSE offline' = "lost" /\ UNCHANGED <<attempts, timers>>
    /\ UNCHANGED <<id, lastSeq, done, busy, shown, stale, stream, orphans, client,
                   history, streak, faults, ops>>

\* Mutant: the attempts are not counted.
OnCloseUncounted ==
    /\ wire # <<>>
    /\ Head(wire).type = "abnormal"
    /\ wire' = <<>>
    /\ sock' = [sock EXCEPT !.st = "closed"]
    /\ busy' = FALSE
    /\ IF id # None /\ ~done /\ attempts < MaxResumes
       THEN timers' = timers + 1 /\ offline' = "retrying"
       ELSE offline' = "lost" /\ UNCHANGED timers
    /\ UNCHANGED <<id, lastSeq, done, attempts, shown, stale, stream, orphans, client,
                   history, streak, faults, ops>>

OnCloseAbnormal ==
    /\ wire # <<>>
    /\ Head(wire).type = "abnormal"
    /\ wire' = <<>>
    /\ sock' = [sock EXCEPT !.st = "closed"]
    /\ busy' = FALSE
    /\ IF id # None /\ ~done /\ attempts < MaxResumes
       THEN attempts' = attempts + 1 /\ timers' = timers + 1 /\ offline' = "retrying"
       ELSE offline' = "lost" /\ UNCHANGED <<attempts, timers>>
    /\ UNCHANGED <<id, lastSeq, done, shown, stale, stream, orphans, client, history,
                   streak, faults, ops>>

\* Mutant: a socket that was replaced still has its handlers.
StaleShown ==
    /\ stale # <<>>
    /\ stale' = Tail(stale)
    /\ IF IsClose(Head(stale)) THEN UNCHANGED <<pageState, streak>> ELSE Show(Head(stale))
    /\ UNCHANGED <<offline, timers, sock, wire, stream, orphans, client, history,
                   faults, ops>>

\* What comes over a replaced socket is ignored (gen !== wsGen.current).
StaleIgnored ==
    /\ stale # <<>>
    /\ stale' = Tail(stale)
    /\ UNCHANGED <<pageState, streak, offline, timers, sock, wire, stream, orphans,
                   client, history, faults, ops>>

-----------------------------------------------------------------------------
(* The server's handler of the current socket, with the client behind it.  *)

Connecting(kind) == sock.st = "connecting" /\ sock.kind = kind

\* No client is on line, or agent.start fails (the backend cannot be started).
\* If the tunnel broke under a start request, the client may have it.
Refuse ==
    /\ sock.st = "connecting"
    /\ ~online \/ sock.kind = "start"
    /\ sock' = [sock EXCEPT !.st = "open"]
    /\ wire' = <<CloseWith("abnormal")>>
    /\ orphans' = IF online THEN orphans ELSE orphans \cup Abandoned
    /\ UNCHANGED <<pageState, offline, timers, stale, stream, client, history,
                   streak, faults, ops>>

\* What HandleStart finds in the rows of session s: a live predecessor is
\* cancelled, and its idle event is stored (late = 1) or the new turn takes its
\* number; the transactions of the last events may have failed (lost).
Found(s, late, lost) ==
    SubSeq(log[s], 1, Len(log[s]) - lost)
        \o [i \in 1..late |-> LogEvent(turns[s], "idle")]

BeginTurn(s, late, lost) ==
    /\ online
    /\ turns[s] < MaxTurns
    /\ late = 1 => live[s] /\ lost = 0
    /\ Costs(lost)
    /\ log' = [log EXCEPT ![s] = Append(Found(s, late, lost), LogEvent(turns[s] + 1, "event"))]
    /\ turns' = [turns EXCEPT ![s] = @ + 1]
    /\ live' = [live EXCEPT ![s] = TRUE]
    /\ reused' = (reused \/ (s = id /\ Len(Found(s, late, lost)) < lastSeq))
    /\ UNCHANGED online

\* The session of a start request: the one it continues, or a new one.
Target(s, asked) == IF asked = None THEN turns[s] = 0 ELSE s = asked

\* The stream follows the new turn, and brings nothing of what came before it.
AttachStart(s, late, lost) ==
    /\ Connecting("start")
    /\ Target(s, sock.sid)
    /\ BeginTurn(s, late, lost)
    /\ stream' = OpenStream(turns[s] + 1, Len(Found(s, late, lost)), 0, FALSE, "tail")
    /\ missed' = missed \cup (lastSeq + 1..Len(Found(s, late, lost)))
    /\ sock' = [sock EXCEPT !.st = "open", !.sid = s]
    /\ UNCHANGED <<pageState, offline, timers, wire, stale, orphans, deaf, streak, ops>>

Lesser(m, n) == IF m < n THEN m ELSE n

\* HandleResume: the rows after last_seq, then the tail of a live turn, or the
\* idle event made up for a row that has ended, or nothing (the row has not
\* ended and there is no entry, or its turn ends before the watcher is added).
\* Row, entry and rows are read one after the other, so that a turn that has just
\* begun may be taken for ended, or for one without an entry.
Resumed(then) ==
    /\ online
    /\ sock' = [sock EXCEPT !.st = "open"]
    /\ stream' = OpenStream(turns[sock.sid], Lesser(lastSeq, Len(log[sock.sid])),
                            Len(log[sock.sid]), then = "tail", then)
    /\ missed' = {n \in missed : n <= lastSeq}

AttachResume ==
    /\ Connecting("resume")
    /\ \E then \in {"tail", "idle", "nothing"} :
          /\ then = "tail" => live[sock.sid]
          /\ Resumed(then)
    /\ UNCHANGED <<pageState, offline, timers, wire, stale, orphans, client, reused, deaf,
                   streak, faults, ops>>

\* The stream has another frame: a row of its replay, or an event of its turn.
HasFrame ==
    /\ stream.st = "open"
    /\ stream.pos < Len(log[sock.sid])
    /\ log[sock.sid][stream.pos + 1].turn <= stream.turn
    /\ stream.then # "tail" => stream.pos < stream.last

Frame == log[sock.sid][stream.pos + 1]

\* The stream is past its next frame.
Advanced == [stream EXCEPT
    !.pos = @ + 1,
    !.idled = @ \/ Frame = LogEvent(stream.turn, "idle")]

\* pumpAgentEventsToWS: one frame; the end of a turn is remembered.
PumpFrame ==
    /\ HasFrame
    /\ Len(wire) < WireCap
    /\ stream' = [Advanced EXCEPT !.saw = @ \/ Frame.type \in Terminal]
    /\ wire' = Append(wire, Msg(Frame.type, sock.sid, stream.pos + 1))
    /\ UNCHANGED <<pageState, offline, timers, sock, stale, orphans, client, history,
                   streak, faults, ops>>

\* A frame that never comes: emitted between replay and addWatcher, dropped for
\* a slow watcher, or of a failed transaction and so not among the rows.  The
\* opening of a turn finds the channel of its watcher empty.
SkipFrame ==
    /\ HasFrame
    /\ sock.kind = "start" =>
          stream.pos > 0 /\ log[sock.sid][stream.pos].turn = stream.turn
    /\ Costs(1)
    /\ stream' = [Advanced EXCEPT !.twice = @ /\ stream.pos < stream.last]
    /\ missed' = missed \cup {stream.pos + 1}
    /\ UNCHANGED <<pageState, offline, timers, sockets, orphans, client, reused, deaf,
                   streak, ops>>

\* What was stored when the rows were replayed, but broadcast after the watcher was
\* added, comes twice: all that followed HandleResume's look at the row, and the
\* event before it (whose numbers a later turn has not taken meanwhile).
PumpTwice ==
    /\ stream.st = "open"
    /\ stream.twice
    /\ stream.pos \in DOMAIN log[sock.sid]
    /\ log[sock.sid][stream.pos].turn <= stream.turn
    /\ \E n \in {m \in 0..stream.pos - 1 : m + 1 >= stream.last} :
          stream' = [stream EXCEPT !.pos = n, !.twice = FALSE]
    /\ UNCHANGED <<pageState, offline, timers, sockets, orphans, client, history,
                   streak, faults, ops>>

\* closeAllWatchers, or HandleResume returns.  An entry released because the answer
\* to agent.start could not be written keeps its watchers ("wait").
Over ==
    /\ stream.st = "open" /\ ~HasFrame
    /\ stream.then # "wait"
    /\ stream.then = "tail" => ~live[sock.sid] \/ turns[sock.sid] > stream.turn

\* An idle event that is not among the rows: made up for an ended session, or
\* of a turn that was taken over (a slow watcher does not get that one).
LastFrames ==
    CASE stream.then = "idle" -> {<<Msg("idle", sock.sid, 0)>>}
      [] stream.then = "tail" /\ ~stream.idled ->
             {<<>>, <<Msg("idle", sock.sid, stream.pos + 1)>>}
      [] OTHER -> {<<>>}

\* Mutant: only the deferred Close of the handler is left.
CodeNormal(saw) == CloseWith("normal")

Code(saw) == CloseWith(IF saw THEN "normal" ELSE "abnormal")

StreamEnds ==
    /\ Over
    /\ \E last \in LastFrames :
          /\ Costs(IF last = <<>> /\ Cardinality(LastFrames) > 1 THEN 1 ELSE 0)
          /\ stream' = NoStream
          /\ wire' = wire \o last \o <<Code(stream.saw \/ last # <<>>)>>
    /\ UNCHANGED <<pageState, offline, timers, sock, stale, orphans, client, history,
                   streak, ops>>

-----------------------------------------------------------------------------
(* Start requests whose page has gone elsewhere.                           *)

\* The page's stream has read what it gets of a turn whose last events are lost.
StartOrphan(s, asked, late, lost) ==
    /\ Target(s, asked)
    /\ orphans' = orphans \ {asked}
    /\ BeginTurn(s, late, lost)
    /\ lost > 0 /\ s = sock.sid => ~HasFrame
    /\ UNCHANGED <<pageState, offline, timers, sockets, stream, missed, deaf, streak, ops>>

\* HandleStart has cancelled the predecessor and put its entry into the registry,
\* and cannot write its answer: the entry is released with the watchers it has.
\* A resume of the page may have found it.
FailedStart(s) ==
    /\ s \in orphans
    /\ Costs(1)
    /\ orphans' = orphans \ {s}
    /\ live' = [live EXCEPT ![s] = FALSE]
    /\ log' = IF live[s] THEN [log EXCEPT ![s] = Append(@, LogEvent(turns[s], "idle"))]
                          ELSE log
    /\ \/ Connecting("resume") /\ sock.sid = s /\ Resumed("wait")
       \/ UNCHANGED <<sock, stream, missed>>
    /\ UNCHANGED <<pageState, offline, timers, wire, stale, turns, online, reused, deaf,
                   streak, ops>>

-----------------------------------------------------------------------------
(* Turns, and what breaks.                                                 *)

\* An event; an error does not end the turn.
TurnEvent(s, type) ==
    /\ live[s]
    /\ Len(log[s]) < MaxLog
    /\ Costs(IF type = "error" THEN 1 ELSE 0)
    /\ log' = [log EXCEPT ![s] = Append(@, LogEvent(turns[s], type))]
    /\ UNCHANGED <<pageState, offline, timers, sockets, stream, orphans, turns, live,
                   online, history, streak, ops>>

TurnEnds(s) ==
    /\ live[s]
    /\ log' = [log EXCEPT ![s] = Append(@, LogEvent(turns[s], "idle"))]
    /\ live' = [live EXCEPT ![s] = FALSE]
    /\ UNCHANGED <<pageState, offline, timers, sockets, stream, orphans, turns,
                   online, history, streak, faults, ops>>

\* The tunnel breaks, perhaps because the client dies with its turns.  The
\* pump's read fails; the close code depends on what it has forwarded.
TunnelBreaks ==
    /\ online
    /\ Costs(1)
    /\ online' = FALSE
    /\ live' \in {live, [s \in Sessions |-> FALSE]}
    /\ IF stream.st = "open"
       THEN /\ stream' = [NoStream EXCEPT !.st = "lost", !.turn = stream.turn,
                                            !.saw = stream.saw]
            /\ wire' = Append(wire, Code(stream.saw))
       ELSE UNCHANGED <<stream, wire>>
    /\ UNCHANGED <<pageState, offline, timers, sock, stale, orphans, log, turns, history,
                   streak, ops>>

TunnelIsBack ==
    /\ ~online
    /\ online' = TRUE
    /\ UNCHANGED <<pageState, offline, timers, sockets, stream, orphans, log, turns, live,
                   history, streak, faults, ops>>

\* The WebSocket itself breaks: what is on its way is lost (code 1006).
SocketBreaks ==
    /\ sock.st = "open"
    /\ Costs(1)
    /\ wire' = <<CloseWith("abnormal")>>
    /\ stream' = NoStream
    /\ UNCHANGED <<pageState, offline, timers, sock, stale, orphans, client, history,
                   streak, ops>>

-----------------------------------------------------------------------------
User ==
    \/ \E c \in BOOLEAN : StartSession(c)
    \/ \E s \in Sessions : OpenSession(s)
    \/ NewSession

Handlers == ResumeSession \/ OnMessage \/ OnCloseNormal \/ OnCloseAbnormal \/ StaleIgnored

SessionWS ==
    \/ Refuse \/ AttachResume \/ PumpFrame \/ PumpTwice \/ StreamEnds
    \/ \E s \in Sessions, late \in 0..1 : \E lost \in 0..Len(log[s]) : AttachStart(s, late, lost)

Agent ==
    \E s \in Sessions :
        \/ \E type \in {"event", "error"} : TurnEvent(s, type)
        \/ TurnEnds(s)
        \/ FailedStart(s)
        \/ \E asked \in orphans, late \in 0..1 :
              \E lost \in 0..Len(log[s]) : StartOrphan(s, asked, late, lost)

Next ==
    \/ User \/ Handlers \/ SessionWS \/ Agent
    \/ SkipFrame \/ TunnelBreaks \/ TunnelIsBack \/ SocketBreaks

Spec == Init /\ [][Next]_vars

\* The browser runs its callbacks and timers, the server its goroutines, and
\* the dialer brings the tunnel back (Tunnel!DialerRecovers).  Neither the
\* user nor an agent has to do anything.
Fairness == WF_vars(Handlers) /\ WF_vars(SessionWS) /\ WF_vars(TunnelIsBack)

FairSpec == Spec /\ Fairness

-----------------------------------------------------------------------------
(* Properties.                                                             *)

Message == [type : {"event", "idle", "error", "normal", "abnormal"},
            sid : Sessions \cup {None}, seq : Nat]

SocketState == [kind : {"start", "resume"}, sid : Sessions \cup {None},
                st : {"none", "connecting", "open", "closed"}]

StreamState == [st : {"none", "open", "lost"}, turn : Nat, pos : Nat,
                last : Nat, twice : BOOLEAN, then : {"tail", "idle", "nothing", "wait"},
                saw : BOOLEAN, idled : BOOLEAN]

Event == [turn : Nat, type : {"event", "idle", "error"}]

PageType ==
    /\ id \in Sessions \cup {None}
    /\ lastSeq \in Nat /\ done \in BOOLEAN /\ busy \in BOOLEAN
    /\ offline \in {"none", "retrying", "lost"}
    /\ attempts \in 0..MaxResumes /\ timers \in Nat
    /\ shown \in Seq([sid : Sessions, seq : Nat \ {0}])

WireType ==
    /\ sock \in SocketState /\ stream \in StreamState
    /\ wire \in Seq(Message) /\ stale \in Seq(Message)
    /\ orphans \subseteq Sessions \cup {None}

ClientType ==
    /\ log \in [Sessions -> Seq(Event)]
    /\ turns \in [Sessions -> Nat] /\ live \in [Sessions -> BOOLEAN]
    /\ online \in BOOLEAN

HistoryType ==
    /\ missed \subseteq Nat /\ reused \in BOOLEAN /\ deaf \in BOOLEAN
    /\ streak \in Int /\ faults \in Nat /\ ops \in Nat

\* The type invariant.
TypeOK == PageType /\ WireType /\ ClientType /\ HistoryType

\* The timeline only holds events of the session the page is on: no socket the
\* page has left adds to it, whatever it still delivers (openWS, wsGen).
TimelineOfOneSession == \A i \in DOMAIN shown : shown[i].sid = id

\* Through any number of breaks and resumes every number up to lastSeq, from which
\* the next resume asks, is on the timeline, unless the page was not sent it:
\* because the user continued a session it had not all of, or because the
\* stream did not bring it (SkipFrame) and none asked for it again.  And the
\* timeline is in order and without repetitions, unless a turn was given
\* numbers it had already (resumeSession, onmessage).
TimelineFaithful ==
    /\ \A n \in 1..lastSeq : n \in missed \/ \E i \in DOMAIN shown : shown[i].seq = n
    /\ ~reused => \A i, j \in DOMAIN shown : i < j => shown[i].seq < shown[j].seq

\* A server that shows nothing new is asked MaxResumes times, no more, before
\* the page waits for its user; a timer that was pending when the last event
\* came may add a resume of its own ("stop after 3", project.tsx:87).  Clicks do
\* not give the attempts back (SwitchRestoresRetries).
RetriesBounded == streak <= MaxResumes

\* "Reset ... when the user switches the session by hand" (project.tsx:85-86):
\* the code resets only when an event is shown (append), so that a session that is
\* opened after others have failed gets what is left of their attempts.
SwitchRestoresRetries ==
    [][\A s \in Sessions \ {id} : OpenSession(s) => attempts' = 0]_vars

\* The stream is that of an entry that was released with its watchers.
Forgotten == stream.st = "open" /\ stream.then = "wait"

\* A busy page becomes idle, or its turn is running (onclose, onmessage), or its
\* stream is one that HandleStart has forgotten.
BusySettles == busy ~> (~busy \/ (id # None /\ live[id]) \/ Forgotten)

\* A page that follows a turn which is over gets to know: it is told the end (or
\* an error, which the page takes for the end), or that the connection is lost,
\* and does not wait in silence (the idle event HandleResume makes up, the close
\* codes, the automatic resume).  Not so the page whose stream is one that
\* HandleStart has forgotten, nor the one that has taken an end for a repetition,
\* which the server has not: then the stream is closed as one that has ended.
EndReachesPage ==
    (id # None /\ ~done /\ ~live[id])
        ~> (done \/ offline = "lost" \/ id = None \/ live[id] \/ Forgotten \/ deaf)

\* "session.idle or session.error seen means the agent has ended by itself and
\* the end of the stream is expected; not seen means the client was lost"
\* (session.go:135-136): a stream that is lost under a live turn is not closed
\* with NormalClosure.
NormalMeansEnded ==
    stream.st = "lost" /\ stream.saw
        => ~(live[sock.sid] /\ turns[sock.sid] = stream.turn)
=============================================================================
