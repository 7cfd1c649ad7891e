------------------------------- MODULE Tunnel -------------------------------
(***************************************************************************)
(* The reverse tunnel of ONE client id: the client's Dialer                *)
(* (internal/client/dial), the server's ServeHTTP handler and readRegister *)
(* goroutine (internal/server/tunnel/handler.go), the Registry of clients  *)
(* on line, and the requests a browser sends through it                    *)
(* (internal/server/web/fs.go, client/handlers/registry.go).  Registry     *)
(* entries of different ids do not interact.                               *)
(*                                                                         *)
(* A connection is one WebSocket with its yamux session; it is numbered by *)
(* the dial that made it.  The two ends of a session notice that the other *)
(* is gone independently: by a close frame, by a write error or by the     *)
(* yamux keepalive (tunnelmux/session.go), up to 40 seconds apart.         *)
(***************************************************************************)
EXTENDS Integers, FiniteSets

CONSTANTS Rpcs,            \* requests of browsers
          InitialBackoff,  \* 1 second in the code
          MaxBackoff,      \* 30 seconds in the code
          MaxFails,        \* bound: dials that are refused
          MaxCuts,         \* bound: connections the network breaks
          MaxRestarts      \* bound: restarts of the server

ASSUME ConstantsAssumption ==
    /\ InitialBackoff \in Nat \ {0}
    /\ MaxBackoff \in Nat
    /\ InitialBackoff <= MaxBackoff
    /\ MaxFails \in Nat
    /\ MaxCuts \in Nat
    /\ MaxRestarts \in Nat

\* Every connection but the last one is lost to a cut or a restart.
Conns == 1..(MaxCuts + MaxRestarts + 1)
None == 0

VARIABLES
    client,    \* where Dialer.Run is
    backoff,   \* its backoff variable
    attempt,   \* the connection runOnce made last
    link,      \* the path of each connection: none, up, down
    session,   \* the server's end of each yamux session: none, open, closed
    handler,   \* where ServeHTTP is, for each connection
    reader,    \* where the readRegister goroutine is
    regs,      \* connections on which the register stream has been written
    acks,      \* connections on which the ack has been written
    meta,      \* cc.Meta: the id alone, or what the client sent
    registry,  \* Registry.clients[id]: a connection or None
    rpc,       \* each request: where it is and the connection it found
    fails, cuts, restarts

dialer == <<client, backoff, attempt>>
server == <<session, handler, reader, meta, registry>>
wire   == <<link, regs, acks>>
env    == <<fails, cuts, restarts>>
vars   == <<dialer, server, wire, rpc, env>>

Init ==
    /\ client = "dial"
    /\ backoff = InitialBackoff
    /\ attempt = None
    /\ link = [c \in Conns |-> "none"]
    /\ session = [c \in Conns |-> "none"]
    /\ handler = [c \in Conns |-> "none"]
    /\ reader = [c \in Conns |-> "none"]
    /\ regs = {}
    /\ acks = {}
    /\ meta = [c \in Conns |-> "id"]
    /\ registry = None
    /\ rpc = [p \in Rpcs |-> [pc |-> "idle", conn |-> None]]
    /\ fails = 0
    /\ cuts = 0
    /\ restarts = 0

\* The client's end of the session of c is open.
Holds(c) == c = attempt /\ client \in {"register", "ack", "serving"}

-----------------------------------------------------------------------------
(* The client: Dialer.Run, runOnce, register.                              *)

\* websocket.Dial fails.
DialFails ==
    /\ client = "dial"
    /\ fails < MaxFails
    /\ fails' = fails + 1
    /\ client' = "backoff"
    /\ UNCHANGED <<backoff, attempt, server, wire, rpc, cuts, restarts>>

\* The dial succeeds; ServeHTTP has found the id of the token, built the
\* ClientConn and started readRegister.
Dial ==
    LET c == attempt + 1
    IN /\ client = "dial"
       /\ c \in Conns
       /\ attempt' = c
       /\ client' = "register"
       /\ link' = [link EXCEPT ![c] = "up"]
       /\ session' = [session EXCEPT ![c] = "open"]
       /\ handler' = [handler EXCEPT ![c] = "await"]
       /\ reader' = [reader EXCEPT ![c] = "accept"]
       /\ UNCHANGED <<backoff, regs, acks, meta, registry, rpc, env>>

\* register opens a stream and writes the header and the ClientMeta.
SendRegister ==
    /\ client = "register"
    /\ client' = "ack"
    /\ regs' = IF link[attempt] = "up" THEN regs \cup {attempt} ELSE regs
    /\ UNCHANGED <<backoff, attempt, server, link, acks, rpc, env>>

\* The ack is read (without a deadline); OnReady starts Registry.Serve.
RecvAck ==
    /\ client = "ack"
    /\ attempt \in acks
    /\ client' = "serving"
    /\ UNCHANGED <<backoff, attempt, server, wire, rpc, env>>

\* Mutant: a broken session is noticed only while serving, so that the read
\* of the ack hangs.
ClientNoticesServing ==
    /\ client = "serving"
    /\ link[attempt] = "down" \/ session[attempt] = "closed"
    /\ client' = "backoff"
    /\ UNCHANGED <<backoff, attempt, server, wire, rpc, env>>

\* The session is over, wherever runOnce is waiting: it returns and its
\* deferred calls close what is left of the connection.
ClientNotices ==
    /\ Holds(attempt)
    /\ link[attempt] = "down" \/ session[attempt] = "closed"
    /\ client' = "backoff"
    /\ UNCHANGED <<backoff, attempt, server, wire, rpc, env>>

\* Mutant: the backoff is doubled without a cap.
RetryUncapped ==
    /\ client = "backoff"
    /\ client' = "dial"
    /\ backoff' = 2 * backoff
    /\ UNCHANGED <<attempt, server, wire, rpc, env>>

\* time.After(backoff), and the next backoff.
Retry ==
    /\ client = "backoff"
    /\ client' = "dial"
    /\ backoff' = IF 2 * backoff > MaxBackoff THEN MaxBackoff ELSE 2 * backoff
    /\ UNCHANGED <<attempt, server, wire, rpc, env>>

\* The context of main is cancelled.
Shutdown ==
    /\ client # "stopped"
    /\ client' = "stopped"
    /\ UNCHANGED <<backoff, attempt, server, wire, rpc, env>>

-----------------------------------------------------------------------------
(* The server: ServeHTTP and readRegister.                                 *)

\* readRegister reads the ClientMeta and answers.  The ack is on its way
\* before the connection is in the registry.
ReadRegister(c) ==
    /\ reader[c] = "accept"
    /\ session[c] = "open"
    /\ c \in regs
    /\ reader' = [reader EXCEPT ![c] = "meta"]
    /\ acks' = IF link[c] = "up" THEN acks \cup {c} ELSE acks
    /\ UNCHANGED <<dialer, session, handler, meta, registry, link, regs, rpc, env>>

ReadRegisterFails(c) ==
    /\ reader[c] = "accept"
    /\ session[c] = "closed"
    /\ reader' = [reader EXCEPT ![c] = "failed"]
    /\ UNCHANGED <<dialer, session, handler, meta, registry, wire, rpc, env>>

\* The select: the metadata, an error or 15 seconds, whichever is first.  The
\* handler goes on in every case.
AwaitRegister(c) ==
    /\ handler[c] = "await"
    /\ handler' = [handler EXCEPT ![c] = "register"]
    /\ \/ reader[c] = "meta" /\ meta' = [meta EXCEPT ![c] = "full"]
       \/ reader[c] = "failed" /\ UNCHANGED meta
       \/ UNCHANGED meta
    /\ UNCHANGED <<dialer, session, reader, registry, wire, rpc, env>>

\* Registry.Register: the entry of the id is overwritten.
Register(c) ==
    /\ handler[c] = "register"
    /\ handler' = [handler EXCEPT ![c] = "serving"]
    /\ registry' = c
    /\ UNCHANGED <<dialer, session, reader, meta, wire, rpc, env>>

\* Mutant: no keepalive, the server only sees a close frame of the client.
ServerNoticesClose(c) ==
    /\ session[c] = "open"
    /\ link[c] = "up" /\ ~Holds(c)
    /\ session' = [session EXCEPT ![c] = "closed"]
    /\ UNCHANGED <<dialer, handler, reader, meta, registry, wire, rpc, env>>

\* Close frame, write error or keepalive: the server's end is closed.
ServerNotices(c) ==
    /\ session[c] = "open"
    /\ link[c] = "down" \/ ~Holds(c)
    /\ session' = [session EXCEPT ![c] = "closed"]
    /\ UNCHANGED <<dialer, handler, reader, meta, registry, wire, rpc, env>>

\* Mutant: an entry that is still the handler's own is left in the map.
UnregisterOthers(c) ==
    /\ handler[c] = "serving"
    /\ session[c] = "closed"
    /\ handler' = [handler EXCEPT ![c] = "gone"]
    /\ registry' = IF registry = c THEN registry ELSE None
    /\ UNCHANGED <<dialer, session, reader, meta, wire, rpc, env>>

\* The deferred Registry.Unregister deletes by id.
Unregister(c) ==
    /\ handler[c] = "serving"
    /\ session[c] = "closed"
    /\ handler' = [handler EXCEPT ![c] = "gone"]
    /\ registry' = None
    /\ UNCHANGED <<dialer, session, reader, meta, wire, rpc, env>>

-----------------------------------------------------------------------------
(* A request of a browser (fsRouter; the session and pty routes start the  *)
(* same way).                                                              *)

\* Registry.Lookup: 404 when the id is not there.
Lookup(p) ==
    /\ rpc[p].pc = "idle"
    /\ rpc' = [rpc EXCEPT ![p] = IF registry = None
                                 THEN [pc |-> "notfound", conn |-> None]
                                 ELSE [pc |-> "open", conn |-> registry]]
    /\ UNCHANGED <<dialer, server, wire, env>>

\* OpenStream and the request frames: a closed session refuses, a session
\* whose path is broken takes them and nothing arrives.
OpenStream(p) ==
    LET c == rpc[p].conn
    IN /\ rpc[p].pc = "open"
       /\ rpc' = [rpc EXCEPT ![p].pc =
                    CASE session[c] = "closed" -> "failed"
                      [] session[c] = "open" /\ link[c] = "up" -> "sent"
                      [] OTHER -> "vanished"]
       /\ UNCHANGED <<dialer, server, wire, env>>

\* Registry.Serve accepts the stream, handle runs the op and its response is
\* read by the server, unless the path is broken meanwhile.  Streams opened
\* before the client serves wait in the backlog of Accept.
Serve(p) ==
    LET c == rpc[p].conn
    IN /\ rpc[p].pc = "sent"
       /\ Holds(c)
       /\ client = "serving"
       /\ rpc' = [rpc EXCEPT ![p].pc =
                    IF link[c] = "up" /\ session[c] = "open" THEN "answered" ELSE "vanished"]
       /\ UNCHANGED <<dialer, server, wire, env>>

\* Mutant: a request lost on the way is not failed when the session ends.
RpcFailsOnSend(p) ==
    /\ rpc[p].pc = "sent"
    /\ session[rpc[p].conn] = "closed"
    /\ rpc' = [rpc EXCEPT ![p].pc = "failed"]
    /\ UNCHANGED <<dialer, server, wire, env>>

\* ReadFrame fails when the session ends: 502.
RpcFails(p) ==
    /\ rpc[p].pc \in {"sent", "vanished"}
    /\ session[rpc[p].conn] = "closed"
    /\ rpc' = [rpc EXCEPT ![p].pc = "failed"]
    /\ UNCHANGED <<dialer, server, wire, env>>

-----------------------------------------------------------------------------
(* The network, and the server process.                                    *)

\* (The path of a connection the server has closed no longer matters.)
Cut(c) ==
    /\ link[c] = "up"
    /\ session[c] = "open"
    /\ cuts < MaxCuts
    /\ cuts' = cuts + 1
    /\ link' = [link EXCEPT ![c] = "down"]
    /\ UNCHANGED <<dialer, server, regs, acks, rpc, fails, restarts>>

\* The registry lives in memory only; every handler dies with the process.
ServerRestart ==
    /\ restarts < MaxRestarts
    /\ restarts' = restarts + 1
    /\ registry' = None
    /\ session' = [c \in Conns |-> IF session[c] = "none" THEN "none" ELSE "closed"]
    /\ handler' = [c \in Conns |-> IF handler[c] = "none" THEN "none" ELSE "gone"]
    /\ reader' = [c \in Conns |-> IF reader[c] = "none" THEN "none" ELSE "failed"]
    /\ rpc' = [p \in Rpcs |-> IF rpc[p].pc \in {"open", "sent", "vanished"}
                              THEN [rpc[p] EXCEPT !.pc = "failed"] ELSE rpc[p]]
    /\ UNCHANGED <<dialer, meta, wire, fails, cuts>>

-----------------------------------------------------------------------------
Run == SendRegister \/ RecvAck \/ ClientNotices \/ Retry

ServeHTTP(c) ==
    \/ AwaitRegister(c) \/ Register(c) \/ Unregister(c)
    \/ ServerNotices(c)

ReadReg(c) == ReadRegister(c) \/ ReadRegisterFails(c)

Request(p) == OpenStream(p) \/ Serve(p) \/ RpcFails(p)

Next ==
    \/ Dial \/ DialFails \/ Run \/ Shutdown
    \/ \E c \in Conns : ServeHTTP(c) \/ ReadReg(c) \/ Cut(c)
    \/ \E p \in Rpcs : Lookup(p) \/ Request(p)
    \/ ServerRestart

Spec == Init /\ [][Next]_vars

\* Goroutines that can move do, timers fire, a broken path is noticed by the
\* keepalive of each end, and handlers of the ops return.  A dial that is
\* tried forever succeeds once the refusals (MaxFails) are over.
Fairness ==
    /\ WF_vars(Run)
    /\ WF_vars(Dial)
    /\ \A c \in Conns : WF_vars(ServeHTTP(c)) /\ WF_vars(ReadReg(c))
    /\ \A p \in Rpcs : WF_vars(Request(p))

FairSpec == Spec /\ Fairness

-----------------------------------------------------------------------------
(* Properties.                                                             *)

\* The type invariant.
TypeOK ==
    /\ client \in {"dial", "register", "ack", "serving", "backoff", "stopped"}
    /\ backoff \in InitialBackoff..MaxBackoff
    /\ attempt \in Conns \cup {None}
    /\ link \in [Conns -> {"none", "up", "down"}]
    /\ session \in [Conns -> {"none", "open", "closed"}]
    /\ handler \in [Conns -> {"none", "await", "register", "serving", "gone"}]
    /\ reader \in [Conns -> {"none", "accept", "meta", "failed"}]
    /\ regs \subseteq Conns
    /\ acks \subseteq Conns
    /\ meta \in [Conns -> {"id", "full"}]
    /\ registry \in Conns \cup {None}
    /\ rpc \in [Rpcs -> [pc : {"idle", "notfound", "open", "sent", "vanished",
                               "answered", "failed"},
                         conn : Conns \cup {None}]]
    /\ fails \in Nat
    /\ cuts \in Nat
    /\ restarts \in Nat

\* The registry never names a connection whose handler has returned: a request
\* that finds one has a handler watching its session (ServeHTTP's defer).
NoGhostEntry ==
    registry # None => handler[registry] = "serving"

\* Every request that was sent is settled: answered, or refused once the
\* session it was sent on is known to be dead, whatever is cut or restarted
\* meanwhile (fsRouter has no deadline of its own).
RpcSettles ==
    \A p \in Rpcs :
        rpc[p].pc \in {"open", "sent", "vanished"} ~> rpc[p].pc \in {"answered", "failed"}

\* The dialer comes back: once the cuts, refusals and restarts are over, the
\* client serves again and stays so, unless it is shut down (Dialer.Run).
DialerRecovers == <>[](client \in {"serving", "stopped"})

\* An entry of a dead connection goes away by itself (keepalive, CloseChan and
\* the deferred Unregister).
GhostsExpire ==
    \A c \in Conns : (registry = c /\ link[c] = "down") ~> registry # c

\* "Snapshot returns a copy of all clients now on line" (registry.go:36): a
\* client that serves a connection whose handler has registered it, and whose
\* path and session are whole, is in the registry.
OnlineIsListed ==
    \A c \in Conns :
        Holds(c) /\ client = "serving" /\ handler[c] = "serving"
        /\ link[c] = "up" /\ session[c] = "open"
        => registry # None
=============================================================================
