---------------------------- MODULE TunnelProofs ----------------------------
(***************************************************************************)
(* TypeOK and NoGhostEntry of Tunnel, for any number of cuts, restarts,    *)
(* refusals and requests; and that each request under way, each client     *)
(* that waits for its ack and each entry of a broken path is owed a step,  *)
(* the requests coming nearer to their end with every one.                 *)
(***************************************************************************)
EXTENDS Tunnel, TLAPS

\* A connection that has not been dialled has no handler.
Fresh == \A c \in Conns : c > attempt => handler[c] = "none"

\* A client that holds a session has dialled it.
Dialled == client \in {"register", "ack", "serving"} => attempt \in Conns

RegistryInv == TypeOK /\ Dialled /\ Fresh /\ NoGhostEntry

\* The initial state satisfies the invariant.
LEMMA InitRegistry == Init => RegistryInv
BY ConstantsAssumption
   DEF Init, RegistryInv, TypeOK, Dialled, Fresh, NoGhostEntry, Conns, None

\* Every step preserves the types.
LEMMA NextType == TypeOK /\ Dialled /\ [Next]_vars => (TypeOK /\ Dialled)'
<1> SUFFICES ASSUME TypeOK, Dialled, [Next]_vars PROVE TypeOK' /\ Dialled'
    OBVIOUS
<1> USE ConstantsAssumption DEF TypeOK, Dialled, dialer, server, wire, env
<1>1. CASE Dial
    BY <1>1 DEF Dial, Conns, None
<1>2. CASE DialFails
    BY <1>2 DEF DialFails
<1>3. CASE SendRegister
    BY <1>3 DEF SendRegister, Conns, None
<1>4. CASE RecvAck
    BY <1>4 DEF RecvAck
<1>5. CASE ClientNotices
    BY <1>5 DEF ClientNotices
<1>6. CASE Retry
    BY <1>6 DEF Retry
<1>7. CASE Shutdown
    BY <1>7 DEF Shutdown
<1>8. ASSUME NEW c \in Conns, ServeHTTP(c)
      PROVE  TypeOK' /\ Dialled'
    <2>1. CASE AwaitRegister(c)
        BY <2>1 DEF AwaitRegister
    <2>2. CASE Register(c)
        BY <2>2 DEF Register
    <2>3. CASE Unregister(c)
        BY <2>3 DEF Unregister
    <2>4. CASE ServerNotices(c)
        BY <2>4 DEF ServerNotices
    <2> QED BY <1>8, <2>1, <2>2, <2>3, <2>4 DEF ServeHTTP
<1>9. ASSUME NEW c \in Conns, ReadReg(c)
      PROVE  TypeOK' /\ Dialled'
    BY <1>9 DEF ReadReg, ReadRegister, ReadRegisterFails
<1>10. ASSUME NEW c \in Conns, Cut(c)
       PROVE  TypeOK' /\ Dialled'
    BY <1>10 DEF Cut
<1>11. ASSUME NEW p \in Rpcs, Lookup(p)
       PROVE  TypeOK' /\ Dialled'
    BY <1>11 DEF Lookup
<1>12. ASSUME NEW p \in Rpcs, Request(p)
       PROVE  TypeOK' /\ Dialled'
    <2>1. CASE OpenStream(p)
        BY <2>1 DEF OpenStream
    <2>2. CASE Serve(p)
        BY <2>2 DEF Serve
    <2>3. CASE RpcFails(p)
        BY <2>3 DEF RpcFails
    <2> QED BY <1>12, <2>1, <2>2, <2>3 DEF Request
<1>13. CASE ServerRestart
    BY <1>13 DEF ServerRestart
<1>14. CASE UNCHANGED vars
    BY <1>14 DEF vars
<1> QED
    BY <1>1, <1>2, <1>3, <1>4, <1>5, <1>6, <1>7, <1>8, <1>9, <1>10, <1>11,
       <1>12, <1>13, <1>14 DEF Next, Run

\* Every step preserves Fresh and NoGhostEntry: the dial gives a handler to a
\* number the registry cannot hold, Register names a handler that starts to
\* serve, and whoever stops serving empties the registry.
LEMMA NextRegistry == RegistryInv /\ [Next]_vars => (Fresh /\ NoGhostEntry)'
<1> SUFFICES ASSUME TypeOK, Fresh, NoGhostEntry, [Next]_vars
             PROVE  Fresh' /\ NoGhostEntry'
    BY DEF RegistryInv
<1> USE DEF Fresh, NoGhostEntry, TypeOK, dialer, server, wire, env
<1>1. CASE Dial
    <2>1. handler[attempt + 1] = "none" /\ attempt + 1 \in Conns
        BY <1>1, ConstantsAssumption DEF Dial, Conns, None
    <2> QED BY <1>1, <2>1, ConstantsAssumption DEF Dial, Conns, None
<1>2. ASSUME NEW c \in Conns, ServeHTTP(c)
      PROVE  Fresh' /\ NoGhostEntry'
    <2>1. CASE AwaitRegister(c)
        BY <2>1 DEF AwaitRegister, None
    <2>2. CASE Register(c)
        BY <2>2 DEF Register, None
    <2>3. CASE Unregister(c)
        BY <2>3 DEF Unregister, None
    <2>4. CASE ServerNotices(c)
        BY <2>4 DEF ServerNotices
    <2> QED BY <1>2, <2>1, <2>2, <2>3, <2>4 DEF ServeHTTP
<1>3. CASE ServerRestart
    BY <1>3 DEF ServerRestart, None
<1>4. ASSUME UNCHANGED <<attempt, handler, registry>>
      PROVE  Fresh' /\ NoGhostEntry'
    BY <1>4
<1>5. CASE DialFails \/ Run \/ Shutdown
    BY <1>4, <1>5 DEF DialFails, Run, SendRegister, RecvAck, ClientNotices, Retry, Shutdown
<1>6. ASSUME NEW c \in Conns, ReadReg(c) \/ Cut(c)
      PROVE  Fresh' /\ NoGhostEntry'
    BY <1>4, <1>6 DEF ReadReg, ReadRegister, ReadRegisterFails, Cut
<1>7. ASSUME NEW p \in Rpcs, Lookup(p) \/ Request(p)
      PROVE  Fresh' /\ NoGhostEntry'
    BY <1>4, <1>7 DEF Lookup, Request, OpenStream, Serve, RpcFails
<1>8. CASE UNCHANGED vars
    BY <1>4, <1>8 DEF vars
<1> QED
    BY <1>1, <1>2, <1>3, <1>5, <1>6, <1>7, <1>8 DEF Next

\* The invariant, and with it the types: the backoff never exceeds its cap, and a
\* request is on a stream of a connection that was dialled.
THEOREM RegistryInvariant == Spec => []RegistryInv
<1>1. RegistryInv /\ [Next]_vars => RegistryInv'
    BY NextType, NextRegistry DEF RegistryInv
<1> QED
    BY InitRegistry, <1>1, PTL DEF Spec

THEOREM TypeCorrect == Spec => []TypeOK
<1>1. RegistryInv => TypeOK
    BY DEF RegistryInv
<1> QED
    BY <1>1, RegistryInvariant, PTL

\* The registry never names a connection whose ServeHTTP has returned, however
\* often the tunnel is cut and however the handlers of old and new connections
\* overlap.
THEOREM RegistryNamesServing == Spec => []NoGhostEntry
<1>1. RegistryInv => NoGhostEntry
    BY DEF RegistryInv
<1> QED
    BY <1>1, RegistryInvariant, PTL

-----------------------------------------------------------------------------
(* Nobody waits in vain for the other end of the tunnel: RpcSettles and    *)
(* GhostsExpire short of fairness.                                         *)

Pending == {"open", "sent", "vanished"}
Whole(c) == link[c] = "up" /\ session[c] = "open"

\* What has been written on a connection, and by whom.
WireOf(c) ==
    /\ link[c] = "none" <=> c > attempt
    /\ session[c] = "none" <=> c > attempt
    /\ reader[c] = "none" <=> c > attempt
    /\ c \in regs => c <= attempt /\ ~(c = attempt /\ client = "register")
    /\ Holds(c) /\ client # "register" /\ link[c] = "up" => c \in regs
    /\ Holds(c) /\ client = "serving" => c \in acks
    /\ c \in acks => reader[c] \in {"meta", "failed"}
    /\ reader[c] = "meta" /\ link[c] = "up" => c \in acks
    /\ reader[c] = "failed" => session[c] = "closed"

\* Where a request has got to.
RequestOf(p) ==
    rpc[p].pc \in Pending => /\ rpc[p].conn \in Conns /\ rpc[p].conn <= attempt
                             /\ rpc[p].pc = "vanished" => ~Whole(rpc[p].conn)

WireInv == (\A c \in Conns : WireOf(c)) /\ (\A p \in Rpcs : RequestOf(p))

\* What is owed to a client that waits for its ack, without a deadline: the ack
\* itself, the server's answer to what it has registered, or the news that the
\* session is over.
AckOwed(c) ==
    \/ c \in acks
    \/ ~Whole(c)
    \/ reader[c] = "accept" /\ session[c] = "open" /\ c \in regs

\* What is owed to a request: to be written, to be served by a client that is
\* there, to be failed; or what its connection needs first.
RequestOwed(p) ==
    LET c == rpc[p].conn
    IN \/ rpc[p].pc = "open"
       \/ session[c] = "closed"
       \/ session[c] = "open" /\ (link[c] = "down" \/ ~Holds(c))
       \/ rpc[p].pc = "sent" /\ Holds(c) /\ client = "serving"
       \/ Holds(c) /\ (client = "register" \/ (client = "ack" /\ AckOwed(c)))

\* What is owed to a registry entry whose path is broken: its session ends, and
\* then its handler takes it out.
GhostOwed(c) ==
    \/ session[c] = "open"
    \/ session[c] = "closed" /\ handler[c] = "serving"

TunnelCanMove ==
    /\ client = "ack" => AckOwed(attempt)
    /\ \A p \in Rpcs : rpc[p].pc \in Pending => RequestOwed(p)
    /\ registry # None /\ link[registry] = "down" => GhostOwed(registry)

\* How far a connection is from answering, or from being known to be dead.
Left(c) ==
    CASE session[c] = "closed" -> 0
      [] session[c] # "closed" /\ (link[c] = "down" \/ ~Holds(c)) -> 1
      [] OTHER -> CASE client = "serving" -> 2
                    [] client = "ack" -> IF c \in acks THEN 3 ELSE 4
                    [] OTHER -> 5

\* How far a request is from being settled.
Distance(p) ==
    CASE rpc[p].pc = "open" -> 3 + Left(rpc[p].conn)
      [] rpc[p].pc = "sent" -> 2 + Left(rpc[p].conn)
      [] rpc[p].pc = "vanished" -> 1 + Left(rpc[p].conn)
      [] OTHER -> 0

\* The steps that bring connection c nearer to an answer or to its end.
Advances(c) ==
    \/ ServerNotices(c)
    \/ Whole(c) /\ Holds(c) /\ (SendRegister \/ RecvAck \/ ReadRegister(c))

\* Nothing brings a request that is under way further from its end, whatever is
\* cut, redialled or restarted, and its own steps and those of its connection
\* bring it nearer; it settles as answered only by having been served.
RequestsDescend ==
    \A p \in Rpcs : rpc[p].pc \in Pending =>
        /\ rpc'[p].pc \in Pending => rpc'[p].conn = rpc[p].conn
        /\ Distance(p)' <= Distance(p)
        /\ Request(p) \/ Advances(rpc[p].conn) => Distance(p)' < Distance(p)

\* Every step keeps the records of the wire true.
LEMMA WireStep ==
    ASSUME RegistryInv, WireInv, [Next]_vars
    PROVE  WireInv'
<1>0. /\ TypeOK /\ Dialled /\ None \notin Conns /\ Conns \subseteq Nat
      /\ attempt \in Nat
  BY ConstantsAssumption DEF RegistryInv, TypeOK, Conns, None
<1> USE DEF dialer, server, wire, env
<1>1. ASSUME UNCHANGED <<attempt, link, session, reader, regs, acks>>,
             client' # client => client' \notin {"register", "ack", "serving"}
      PROVE  \A c \in Conns : WireOf(c)'
  BY <1>1 DEF WireInv, WireOf, Holds
<1>2. ASSUME UNCHANGED <<attempt, rpc>>,
             \A c \in Conns : (link'[c] = "up" /\ session'[c] = "open") => Whole(c)
      PROVE  \A p \in Rpcs : RequestOf(p)'
  BY <1>2 DEF WireInv, RequestOf, Whole
<1>3. CASE Dial
  <2>1. /\ attempt' = attempt + 1 /\ attempt + 1 \in Conns /\ client' = "register"
        /\ link' = [link EXCEPT ![attempt + 1] = "up"]
        /\ session' = [session EXCEPT ![attempt + 1] = "open"]
        /\ reader' = [reader EXCEPT ![attempt + 1] = "accept"]
        /\ UNCHANGED <<regs, acks, rpc>> /\ client = "dial"
    BY <1>3 DEF Dial
  <2>2. ASSUME NEW c \in Conns PROVE WireOf(c)'
    <3>1. CASE c = attempt + 1
      <4>1. c > attempt /\ ~(c <= attempt) /\ ~(c > attempt') /\ c = attempt'
        BY <1>0, <2>1, <3>1
      <4>2. c \notin regs /\ c \notin acks
        BY <4>1 DEF WireInv, WireOf
      <4>3. link'[c] = "up" /\ session'[c] = "open" /\ reader'[c] = "accept"
        BY <1>0, <2>1, <3>1 DEF TypeOK
      <4> QED BY <2>1, <4>1, <4>2, <4>3 DEF WireOf, Holds
    <3>2. CASE c # attempt + 1
      <4>1. (c > attempt' <=> c > attempt) /\ (c <= attempt => c <= attempt' /\ c # attempt')
            /\ (c = attempt' <=> FALSE)
        BY <1>0, <2>1, <3>2
      <4>2. link'[c] = link[c] /\ session'[c] = session[c] /\ reader'[c] = reader[c]
        BY <1>0, <2>1, <3>2 DEF TypeOK
      <4> QED BY <2>1, <4>1, <4>2 DEF WireInv, WireOf, Holds
    <3> QED BY <3>1, <3>2
  <2>3. ASSUME NEW p \in Rpcs PROVE RequestOf(p)'
    <3>1. CASE rpc[p].pc \in Pending
      <4> DEFINE c == rpc[p].conn
      <4>1. c \in Conns /\ c <= attempt
        BY <3>1 DEF WireInv, RequestOf
      <4> HIDE DEF c
      <4>5. c \in Nat
        BY <1>0, <4>1
      <4>2. c <= attempt + 1 /\ c # attempt + 1
        BY <1>0, <4>1, <4>5
      <4>3. link'[c] = link[c] /\ session'[c] = session[c]
        BY <1>0, <2>1, <4>1, <4>2 DEF TypeOK
      <4> USE DEF c
      <4> QED BY <2>1, <4>1, <4>2, <4>3 DEF WireInv, RequestOf, Whole
    <3>2. CASE rpc[p].pc \notin Pending
      BY <2>1, <3>2 DEF RequestOf
    <3> QED BY <3>1, <3>2
  <2> QED BY <2>2, <2>3 DEF WireInv
<1>4. CASE DialFails \/ ClientNotices \/ Retry \/ Shutdown
  <2>1. UNCHANGED <<attempt, link, session, reader, regs, acks, rpc>>
        /\ client' \notin {"register", "ack", "serving"}
    BY <1>4 DEF DialFails, ClientNotices, Retry, Shutdown
  <2> QED BY <1>1, <1>2, <2>1 DEF WireInv, Whole
<1>5. CASE SendRegister
  <2>1. /\ client = "register" /\ client' = "ack"
        /\ regs' = IF link[attempt] = "up" THEN regs \cup {attempt} ELSE regs
        /\ UNCHANGED <<attempt, link, session, reader, acks, rpc>>
    BY <1>5 DEF SendRegister
  <2>2. ASSUME NEW c \in Conns PROVE WireOf(c)'
    BY <1>0, <2>1 DEF WireInv, WireOf, Holds
  <2> QED BY <1>2, <2>1, <2>2 DEF WireInv, Whole
<1>6. CASE RecvAck
  <2>1. /\ client = "ack" /\ client' = "serving"
        /\ UNCHANGED <<attempt, link, session, reader, regs, acks, rpc>>
    BY <1>6 DEF RecvAck
  <2>3. attempt \in acks
    BY <1>6 DEF RecvAck
  <2>2. ASSUME NEW c \in Conns PROVE WireOf(c)'
    BY <2>1, <2>3 DEF WireInv, WireOf, Holds
  <2> QED BY <1>2, <2>1, <2>2 DEF WireInv, Whole
<1>7. ASSUME NEW d \in Conns, AwaitRegister(d) \/ Register(d) \/ Unregister(d) PROVE WireInv'
  <2>1. UNCHANGED <<attempt, client, link, session, reader, regs, acks, rpc>>
    BY <1>7 DEF AwaitRegister, Register, Unregister
  <2> QED BY <1>1, <1>2, <2>1 DEF WireInv, Whole
<1>8. ASSUME NEW d \in Conns, ServerNotices(d) PROVE WireInv'
  <2>1. /\ session[d] = "open" /\ session' = [session EXCEPT ![d] = "closed"]
        /\ UNCHANGED <<attempt, client, link, reader, regs, acks, rpc>>
    BY <1>8 DEF ServerNotices
  <2>2. ASSUME NEW c \in Conns PROVE WireOf(c)' /\ (session'[c] = "open" => session[c] = "open")
    BY <1>0, <2>1 DEF WireInv, WireOf, Holds, TypeOK
  <2> QED BY <1>2, <2>1, <2>2 DEF WireInv, Whole
<1>9. ASSUME NEW d \in Conns, ReadRegister(d) PROVE WireInv'
  <2>1. /\ reader[d] = "accept" /\ session[d] = "open" /\ d \in regs
        /\ reader' = [reader EXCEPT ![d] = "meta"]
        /\ acks' = IF link[d] = "up" THEN acks \cup {d} ELSE acks
        /\ UNCHANGED <<attempt, client, link, session, regs, rpc>>
    BY <1>9 DEF ReadRegister
  <2>2. ASSUME NEW c \in Conns PROVE WireOf(c)'
    BY <1>0, <2>1 DEF WireInv, WireOf, Holds, TypeOK
  <2> QED BY <1>2, <2>1, <2>2 DEF WireInv, Whole
<1>10. ASSUME NEW d \in Conns, ReadRegisterFails(d) PROVE WireInv'
  <2>1. /\ reader[d] = "accept" /\ session[d] = "closed"
        /\ reader' = [reader EXCEPT ![d] = "failed"]
        /\ UNCHANGED <<attempt, client, link, session, regs, acks, rpc>>
    BY <1>10 DEF ReadRegisterFails
  <2>2. ASSUME NEW c \in Conns PROVE WireOf(c)'
    BY <1>0, <2>1 DEF WireInv, WireOf, Holds, TypeOK
  <2> QED BY <1>2, <2>1, <2>2 DEF WireInv, Whole
<1>11. ASSUME NEW d \in Conns, Cut(d) PROVE WireInv'
  <2>1. /\ link[d] = "up" /\ link' = [link EXCEPT ![d] = "down"]
        /\ UNCHANGED <<attempt, client, session, reader, regs, acks, rpc>>
    BY <1>11 DEF Cut
  <2>2. ASSUME NEW c \in Conns PROVE WireOf(c)' /\ (link'[c] = "up" => link[c] = "up")
    BY <1>0, <2>1 DEF WireInv, WireOf, Holds, TypeOK
  <2> QED BY <1>2, <2>1, <2>2 DEF WireInv, Whole
<1>12. CASE ServerRestart
  <2>1. /\ session' = [c \in Conns |-> IF session[c] = "none" THEN "none" ELSE "closed"]
        /\ reader' = [c \in Conns |-> IF reader[c] = "none" THEN "none" ELSE "failed"]
        /\ UNCHANGED <<attempt, client, link, regs, acks>>
        /\ \A p \in Rpcs : rpc'[p].pc \notin Pending
    BY <1>0, <1>12 DEF ServerRestart, TypeOK, Pending
  <2>2. ASSUME NEW c \in Conns PROVE WireOf(c)'
    BY <1>0, <2>1 DEF WireInv, WireOf, Holds, TypeOK
  <2> QED BY <2>1, <2>2 DEF WireInv, RequestOf
<1>13. ASSUME NEW q \in Rpcs, Lookup(q) \/ Request(q) PROVE WireInv'
  <2>1. UNCHANGED <<attempt, client, link, session, reader, regs, acks>>
    BY <1>13 DEF Lookup, Request, OpenStream, Serve, RpcFails
  <2>2. ASSUME NEW p \in Rpcs PROVE RequestOf(p)'
    <3>1. CASE p # q
      <4>1. rpc'[p] = rpc[p]
        BY <1>0, <1>13, <3>1 DEF Lookup, Request, OpenStream, Serve, RpcFails, TypeOK
      <4> QED BY <2>1, <4>1 DEF WireInv, RequestOf, Whole
    <3>2. CASE p = q /\ Lookup(q)
      <4>1. rpc'[p] = IF registry = None THEN [pc |-> "notfound", conn |-> None]
                      ELSE [pc |-> "open", conn |-> registry]
        BY <1>0, <3>2 DEF Lookup, TypeOK
      <4>2. registry # None =>
              registry \in Conns /\ handler[registry] # "none" /\ registry <= attempt
        BY <1>0 DEF RegistryInv, TypeOK, NoGhostEntry, Fresh
      <4> QED BY <2>1, <4>1, <4>2 DEF RequestOf, Pending
    <3>3. CASE p = q /\ Request(q)
      <4>1. /\ rpc[p].pc \in Pending /\ rpc'[p].conn = rpc[p].conn
            /\ rpc'[p].pc = "vanished" => ~Whole(rpc[p].conn)
        BY <1>0, <3>3 DEF Request, OpenStream, Serve, RpcFails, TypeOK, Pending, Whole
      <4> QED BY <2>1, <4>1 DEF WireInv, RequestOf, Whole
    <3> QED BY <1>13, <3>1, <3>2, <3>3
  <2> QED BY <1>1, <2>1, <2>2 DEF WireInv
<1>14. CASE UNCHANGED vars
  <2>1. UNCHANGED <<attempt, client, link, session, reader, regs, acks, rpc>>
    BY <1>14 DEF vars
  <2> QED BY <1>1, <1>2, <2>1 DEF WireInv, Whole
<1> QED BY <1>3, <1>4, <1>5, <1>6, <1>7, <1>8, <1>9, <1>10, <1>11, <1>12, <1>13, <1>14
        DEF Next, Run, ServeHTTP, ReadReg

\* What is on the wire, for any number of cuts, restarts and requests.
LEMMA WireInvariant == Spec => [](RegistryInv /\ WireInv)
<1>1. Init => WireInv
  BY ConstantsAssumption DEF Init, WireInv, WireOf, RequestOf, Pending, Holds, Conns, None
<1>2. RegistryInv /\ WireInv /\ [Next]_vars => WireInv'
  BY WireStep
<1> QED BY <1>1, <1>2, RegistryInvariant, PTL DEF Spec

\* In every reachable state the ack a client waits for without a deadline has been
\* written, is owed by readRegister or will not come because the session is over;
\* no request and no entry of a broken path waits for something that nobody owes it
\* (register, readRegister, fsRouter, Registry.Unregister).
THEOREM TunnelIsNeverStuck == Spec => []TunnelCanMove
<1>1. RegistryInv /\ WireInv => TunnelCanMove
  <2> SUFFICES ASSUME RegistryInv, WireInv PROVE TunnelCanMove
    OBVIOUS
  <2>0. TypeOK /\ Dialled /\ None \notin Conns /\ Conns \subseteq Nat
    BY ConstantsAssumption DEF RegistryInv, Conns, None
  <2>1. ASSUME NEW c \in Conns, c <= attempt
        PROVE  /\ link[c] \in {"up", "down"} /\ session[c] \in {"open", "closed"}
               /\ reader[c] \in {"accept", "meta", "failed"}
    <3>1. c \in Nat /\ attempt \in Nat
      BY <2>0, ConstantsAssumption DEF TypeOK, None
    <3>2. ~(c > attempt)
      BY <2>1, <3>1
    <3> QED BY <2>0, <3>2 DEF WireInv, WireOf, TypeOK
  <2>2. ASSUME client = "ack" PROVE AckOwed(attempt)
    <3>1. attempt \in Conns /\ attempt <= attempt /\ Holds(attempt)
      <4>1. attempt \in Conns
        BY <2>0, <2>2 DEF Dialled
      <4>2. attempt \in Nat
        BY <2>0, <4>1
      <4>3. attempt <= attempt
        BY <4>2
      <4> QED BY <2>2, <4>1, <4>3 DEF Holds
    <3>2. Whole(attempt) => attempt \in regs
      <4>1. Holds(attempt) /\ client # "register" /\ link[attempt] = "up" => attempt \in regs
        BY <3>1 DEF WireInv, WireOf
      <4> QED BY <2>2, <3>1, <4>1 DEF Whole
    <3>3. Whole(attempt) => reader[attempt] \in {"accept", "meta"}
      <4>1. reader[attempt] \in {"accept", "meta", "failed"}
        BY <2>1, <3>1
      <4>2. reader[attempt] = "failed" => session[attempt] = "closed"
        BY <3>1 DEF WireInv, WireOf
      <4> QED BY <4>1, <4>2 DEF Whole
    <3>4. reader[attempt] = "meta" /\ link[attempt] = "up" => attempt \in acks
      BY <3>1 DEF WireInv, WireOf
    <3> QED BY <3>2, <3>3, <3>4 DEF AckOwed, Whole
  <2>3. ASSUME NEW p \in Rpcs, rpc[p].pc \in Pending PROVE RequestOwed(p)
    <3> DEFINE c == rpc[p].conn
    <3>1. /\ c \in Conns /\ link[c] \in {"up", "down"} /\ session[c] \in {"open", "closed"}
          /\ rpc[p].pc = "vanished" => ~Whole(c)
      BY <2>1, <2>3 DEF WireInv, RequestOf
    <3>2. CASE ~Whole(c) \/ ~Holds(c)
      BY <3>1, <3>2 DEF RequestOwed, Whole
    <3>3. CASE Whole(c) /\ Holds(c)
      <4>1. c = attempt /\ client \in {"register", "ack", "serving"}
        BY <3>3 DEF Holds
      <4>2. rpc[p].pc \in {"open", "sent"}
        BY <2>3, <3>1, <3>3 DEF Pending
      <4> QED BY <2>2, <3>3, <4>1, <4>2 DEF RequestOwed
    <3> QED BY <3>2, <3>3
  <2>4. ASSUME registry # None PROVE GhostOwed(registry)
    <3>1. registry \in Conns /\ handler[registry] = "serving" /\ ~(registry > attempt)
      BY <2>0, <2>4 DEF RegistryInv, NoGhostEntry, Fresh, TypeOK
    <3>2. session[registry] \in {"open", "closed"}
      BY <2>0, <3>1 DEF WireInv, WireOf, TypeOK
    <3> QED BY <3>1, <3>2 DEF GhostOwed
  <2> QED BY <2>2, <2>3, <2>4 DEF TunnelCanMove
<1> QED BY <1>1, WireInvariant, PTL

\* A connection that has been dialled comes nearer to an answer or to its end, and
\* never gets further from it.
LEMMA LeftDescends ==
    ASSUME RegistryInv, WireInv, Next, NEW c \in Conns, c <= attempt
    PROVE  /\ Left(c) \in 0..5 /\ Left(c)' \in 0..5 /\ Left(c)' <= Left(c)
           /\ Advances(c) => Left(c)' < Left(c)
<1>0. /\ TypeOK /\ Dialled /\ None \notin Conns /\ c \in Nat /\ attempt \in Nat
      /\ c # attempt + 1
      /\ link[c] \in {"up", "down"} /\ session[c] \in {"open", "closed"} /\ reader[c] # "none"
  <2>1. c \in Nat /\ attempt \in Nat /\ TypeOK /\ Dialled /\ None \notin Conns
    BY ConstantsAssumption DEF RegistryInv, TypeOK, Conns, None
  <2>2. ~(c > attempt) /\ c # attempt + 1
    BY <2>1
  <2> QED BY <2>1, <2>2 DEF WireInv, WireOf, TypeOK
<1>1. Left(c) \in 0..5
  BY DEF Left
<1>2. Left(c)' \in 0..5
  BY DEF Left
<1> USE DEF dialer, server, wire, env
<1>3. /\ session'[c] = session[c] \/ session'[c] = "closed"
      /\ link'[c] = link[c] \/ link'[c] = "down"
  <2>1. CASE Dial
    BY <1>0, <2>1 DEF Dial, TypeOK
  <2>2. CASE DialFails \/ Run \/ Shutdown
    BY <2>2 DEF DialFails, Run, SendRegister, RecvAck, ClientNotices, Retry, Shutdown
  <2>3. ASSUME NEW d \in Conns, ServeHTTP(d) \/ ReadReg(d) \/ Cut(d)
        PROVE  /\ session'[c] = session[c] \/ session'[c] = "closed"
               /\ link'[c] = link[c] \/ link'[c] = "down"
    BY <1>0, <2>3 DEF ServeHTTP, AwaitRegister, Register, Unregister, ServerNotices, ReadReg,
       ReadRegister, ReadRegisterFails, Cut, TypeOK
  <2>4. ASSUME NEW q \in Rpcs, Lookup(q) \/ Request(q) PROVE UNCHANGED <<session, link>>
    BY <2>4 DEF Lookup, Request, OpenStream, Serve, RpcFails
  <2>5. CASE ServerRestart
    BY <1>0, <2>5 DEF ServerRestart
  <2> QED BY <2>1, <2>2, <2>3, <2>4, <2>5 DEF Next
<1>4. \/ UNCHANGED <<client, attempt>> /\ acks \subseteq acks'
      \/ Dial
      \/ SendRegister \/ RecvAck
      \/ UNCHANGED attempt /\ client' \in {"dial", "backoff", "stopped"}
  <2>1. CASE DialFails \/ ClientNotices \/ Retry \/ Shutdown
    BY <2>1 DEF DialFails, ClientNotices, Retry, Shutdown
  <2>2. ASSUME NEW d \in Conns, ServeHTTP(d) \/ ReadReg(d) \/ Cut(d)
        PROVE  UNCHANGED <<client, attempt>> /\ acks \subseteq acks'
    BY <2>2 DEF ServeHTTP, AwaitRegister, Register, Unregister, ServerNotices, ReadReg,
       ReadRegister, ReadRegisterFails, Cut
  <2>3. ASSUME NEW q \in Rpcs, Lookup(q) \/ Request(q) PROVE UNCHANGED <<client, attempt, acks>>
    BY <2>3 DEF Lookup, Request, OpenStream, Serve, RpcFails
  <2>4. CASE ServerRestart
    BY <2>4 DEF ServerRestart
  <2> QED BY <2>1, <2>2, <2>3, <2>4 DEF Next, Run
<1>5. CASE session[c] = "closed"
  <2>1. Left(c)' = 0 /\ Left(c) = 0 /\ ~Advances(c)
    BY <1>0, <1>3, <1>5 DEF Left, Advances, ServerNotices, Whole
  <2> QED BY <1>1, <1>2, <2>1
<1>6. CASE session[c] = "open" /\ ~(link[c] = "up" /\ Holds(c))
  <2>1. Left(c) = 1
    BY <1>0, <1>6 DEF Left
  <2>2. ~Holds(c) => ~Holds(c)'
    <3>1. CASE Dial
      BY <1>0, <3>1 DEF Dial, Holds
    <3>2. CASE SendRegister \/ RecvAck
      BY <3>2 DEF SendRegister, RecvAck, Holds
    <3> QED BY <1>4, <3>1, <3>2 DEF Holds
  <2>3. Left(c)' \in {0, 1}
    BY <1>0, <1>3, <1>6, <2>2 DEF Left
  <2>4. Advances(c) => Left(c)' = 0
    BY <1>0, <1>6 DEF Advances, ServerNotices, Whole, Left, TypeOK
  <2> QED BY <2>1, <2>3, <2>4
<1>7. CASE session[c] = "open" /\ link[c] = "up" /\ Holds(c)
  <2>1. c = attempt /\ client \in {"register", "ack", "serving"} /\ Whole(c)
    BY <1>7 DEF Holds, Whole
  <2>2. Left(c) = CASE client = "serving" -> 2
                    [] client = "ack" -> IF c \in acks THEN 3 ELSE 4
                    [] OTHER -> 5
    BY <1>7 DEF Left
  <2>3. CASE session'[c] = "closed" \/ link'[c] = "down" \/ ~Holds(c)'
    <3>1. Left(c)' \in {0, 1}
      BY <2>3 DEF Left
    <3>2. Left(c) \in 2..5
      BY <2>1, <2>2
    <3> QED BY <3>1, <3>2
  <2>4. CASE session'[c] = "open" /\ link'[c] = "up" /\ Holds(c)'
    <3>1. Left(c)' = CASE client' = "serving" -> 2
                    [] client' = "ack" -> IF c \in acks' THEN 3 ELSE 4
                    [] OTHER -> 5
      BY <2>4 DEF Left
    <3>2. CASE SendRegister
      <4>1. client = "register" /\ client' = "ack"
        BY <3>2 DEF SendRegister
      <4>2. Left(c) = 5 /\ Left(c)' \in {3, 4}
        BY <2>2, <3>1, <4>1
      <4> QED BY <4>2
    <3>3. CASE RecvAck
      <4>1. client = "ack" /\ client' = "serving"
        BY <3>3 DEF RecvAck
      <4>2. Left(c) \in {3, 4} /\ Left(c)' = 2
        BY <2>2, <3>1, <4>1
      <4> QED BY <4>2
    <3>4. CASE ReadRegister(c)
      <4>1. client \in {"ack"} /\ c \notin acks /\ client' = client /\ c \in acks'
        BY <1>7, <2>1, <3>4 DEF ReadRegister, WireInv, WireOf
      <4>2. Left(c) = 4 /\ Left(c)' = 3
        BY <2>2, <3>1, <4>1
      <4> QED BY <4>2
    <3>5. CASE ~SendRegister /\ ~RecvAck /\ ~ReadRegister(c)
      <4>1. UNCHANGED <<client, attempt>> /\ acks \subseteq acks'
        BY <1>4, <2>1, <2>4, <3>5 DEF Dial, Holds
      <4>2. ~Advances(c)
        BY <1>0, <2>4, <3>5 DEF Advances, ServerNotices, TypeOK
      <4>3. Left(c)' <= Left(c)
        BY <2>1, <2>2, <3>1, <4>1
      <4> QED BY <1>1, <1>2, <4>2, <4>3
    <3> QED BY <1>1, <1>2, <3>2, <3>3, <3>4, <3>5
  <2>5. session'[c] \in {"open", "closed"} /\ link'[c] \in {"up", "down"}
    BY <1>3, <1>7
  <2> QED BY <2>3, <2>4, <2>5
<1> QED BY <1>0, <1>1, <1>2, <1>5, <1>6, <1>7

\* What a step does to one request: it looks up, its own step takes it one stage
\* further (a request is answered only by Serve), the restart fails it, or it is
\* left alone.
LEMMA RequestMoves ==
    ASSUME TypeOK, Next, NEW p \in Rpcs, rpc[p].pc \in Pending
    PROVE  \/ rpc'[p] = rpc[p] /\ ~Request(p)
           \/ /\ rpc'[p].conn = rpc[p].conn
              /\ \/ rpc[p].pc = "open" /\ rpc'[p].pc \in {"sent", "vanished", "failed"}
                 \/ rpc[p].pc = "sent" /\ rpc'[p].pc \in {"answered", "vanished", "failed"}
                 \/ rpc[p].pc = "vanished" /\ rpc'[p].pc = "failed"
<1>1. rpc \in [Rpcs -> [pc : {"idle", "notfound", "open", "sent", "vanished", "answered", "failed"},
                        conn : Conns \cup {None}]]
  BY DEF TypeOK
<1>2. Request(p) => \/ rpc[p].pc = "open" /\ rpc'[p].pc \in {"sent", "vanished", "failed"}
                    \/ rpc[p].pc = "sent" /\ rpc'[p].pc \in {"answered", "vanished", "failed"}
                    \/ rpc[p].pc = "vanished" /\ rpc'[p].pc = "failed"
  BY <1>1 DEF Request, OpenStream, Serve, RpcFails
<1>3. Request(p) => rpc'[p].conn = rpc[p].conn
  BY <1>1 DEF Request, OpenStream, Serve, RpcFails
<1>4. ASSUME NEW q \in Rpcs, q # p, Lookup(q) \/ Request(q) PROVE rpc'[p] = rpc[p]
  BY <1>1, <1>4 DEF Lookup, Request, OpenStream, Serve, RpcFails
<1>5. ~Lookup(p)
  BY DEF Lookup, Pending
<1>6. CASE ServerRestart
  <2>1. rpc'[p] = [rpc[p] EXCEPT !.pc = "failed"]
    BY <1>6 DEF ServerRestart, Pending
  <2> QED BY <1>1, <2>1 DEF Pending
<1>7. ASSUME UNCHANGED rpc PROVE rpc'[p] = rpc[p]
  BY <1>7
<1>8. ASSUME Dial \/ DialFails \/ Run \/ Shutdown PROVE rpc'[p] = rpc[p]
  BY <1>7, <1>8 DEF Dial, DialFails, Run, SendRegister, RecvAck, ClientNotices, Retry, Shutdown
<1>9. ASSUME NEW c \in Conns, ServeHTTP(c) \/ ReadReg(c) \/ Cut(c) PROVE rpc'[p] = rpc[p]
  BY <1>7, <1>9 DEF ServeHTTP, AwaitRegister, Register, Unregister, ServerNotices, ReadReg,
     ReadRegister, ReadRegisterFails, Cut
<1>10. rpc'[p] = rpc[p] \/ Request(p) \/ ServerRestart
  BY <1>4, <1>5, <1>8, <1>9 DEF Next
<1> QED BY <1>2, <1>3, <1>6, <1>10

\* What RpcSettles says short of fairness, for any number of connections and
\* requests: with TunnelIsNeverStuck and the fairness of FairSpec, Distance falls to
\* 0, and the request has been answered or refused.
THEOREM RequestsEnd == Spec => [][RequestsDescend]_vars
<1>1. RegistryInv /\ WireInv /\ [Next]_vars => [RequestsDescend]_vars
  <2> SUFFICES ASSUME RegistryInv, WireInv, Next, NEW p \in Rpcs, rpc[p].pc \in Pending
               PROVE  /\ rpc'[p].pc \in Pending => rpc'[p].conn = rpc[p].conn
                      /\ Distance(p)' <= Distance(p)
                      /\ Request(p) \/ Advances(rpc[p].conn) => Distance(p)' < Distance(p)
    BY DEF RequestsDescend
  <2> DEFINE c == rpc[p].conn
             L == Left(c)
             M == Left(rpc[p].conn)'
  <2>1. c \in Conns /\ c <= attempt
    BY DEF WireInv, RequestOf
  <2>2. \/ rpc'[p] = rpc[p] /\ ~Request(p)
        \/ /\ rpc'[p].conn = rpc[p].conn
           /\ \/ rpc[p].pc = "open" /\ rpc'[p].pc \in {"sent", "vanished", "failed"}
              \/ rpc[p].pc = "sent" /\ rpc'[p].pc \in {"answered", "vanished", "failed"}
              \/ rpc[p].pc = "vanished" /\ rpc'[p].pc = "failed"
    BY RequestMoves DEF RegistryInv
  <2>3. rpc'[p].conn = rpc[p].conn
    BY <2>2
  <2>4. L \in 0..5 /\ M \in 0..5 /\ M <= L /\ (Advances(c) => M < L)
    <3>1. ASSUME NEW d \in Conns, d <= attempt, d = rpc[p].conn, d = rpc'[p].conn
          PROVE  /\ Left(d) \in 0..5 /\ Left(d)' \in 0..5 /\ Left(d)' <= Left(d)
                 /\ Advances(d) => Left(d)' < Left(d)
      BY <3>1, LeftDescends
    <3> QED BY <2>1, <2>3, <3>1
  <2>5. Distance(p) = CASE rpc[p].pc = "open" -> 3 + L
                        [] rpc[p].pc = "sent" -> 2 + L
                        [] rpc[p].pc = "vanished" -> 1 + L
                        [] OTHER -> 0
    BY DEF Distance
  <2>6. Distance(p)' = CASE rpc'[p].pc = "open" -> 3 + M
                         [] rpc'[p].pc = "sent" -> 2 + M
                         [] rpc'[p].pc = "vanished" -> 1 + M
                         [] OTHER -> 0
    BY DEF Distance
  <2> HIDE DEF L, M
  <2>7. CASE rpc'[p] = rpc[p] /\ ~Request(p)
    <3>1. \/ Distance(p) = 3 + L /\ Distance(p)' = 3 + M
          \/ Distance(p) = 2 + L /\ Distance(p)' = 2 + M
          \/ Distance(p) = 1 + L /\ Distance(p)' = 1 + M
      BY <2>5, <2>6, <2>7 DEF Pending
    <3>2. Distance(p)' <= Distance(p) /\ (M < L => Distance(p)' < Distance(p))
      BY <2>4, <3>1
    <3> QED BY <2>3, <2>4, <2>7, <3>2
  <2>8. CASE \/ rpc[p].pc = "open" /\ rpc'[p].pc \in {"sent", "vanished", "failed"}
             \/ rpc[p].pc = "sent" /\ rpc'[p].pc \in {"answered", "vanished", "failed"}
             \/ rpc[p].pc = "vanished" /\ rpc'[p].pc = "failed"
    <3>1. \/ Distance(p) = 3 + L /\ Distance(p)' \in {2 + M, 1 + M, 0}
          \/ Distance(p) = 2 + L /\ Distance(p)' \in {1 + M, 0}
          \/ Distance(p) = 1 + L /\ Distance(p)' = 0
      BY <2>5, <2>6, <2>8
    <3>2. Distance(p)' < Distance(p) /\ Distance(p)' <= Distance(p)
      BY <2>4, <3>1
    <3> QED BY <2>3, <3>2
  <2> QED BY <2>2, <2>7, <2>8
<1> QED BY <1>1, WireInvariant, PTL DEF Spec
=============================================================================
