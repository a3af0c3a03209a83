-------------------------------- MODULE Login --------------------------------
(***************************************************************************)
(* Login handling: process_login (src/src/network/send.c) and the login    *)
(* case of process_proxypacket (src/src/network/proxy-send.c), run by the  *)
(* worker pool for several connections at once.                            *)
(*                                                                         *)
(* A handler is the sequence of its side effects, in the order of the C    *)
(* code: each evbuffer_add is one step, because libevent locks an evbuffer *)
(* for each call and not for a packet, and so are each allocation, each    *)
(* free and the critical section under the player's write lock.  The       *)
(* branch on the client's version is decided by the handler's inputs, so   *)
(* a handler's script is a pure function of them, and a step of the worker *)
(* runs its next effect.  The proxy build calls send_kick(bstring),        *)
(* send_syschat and send_directchat of a send.c that is not in this tree:  *)
(* its send_kick is taken to write the same kick packet and to leave the   *)
(* message to its caller, which frees it as it frees the join message      *)
(* after send_syschat; what the chat calls write is not modelled.          *)
(* The worker pool runs the jobs of one connection in submission order and *)
(* those of different connections in parallel (spec.md 5).                 *)
(***************************************************************************)
EXTENDS Integers, Sequences, SequencesExt

CONSTANTS
  Players,          \* the connected players
  Versions,         \* protocol versions a client may send in its login
  ProtocolVersion,  \* PROTOCOL_VERSION
  Handler,          \* "login" (send.c) or "proxy" (proxy-send.c)
  MaxLogins         \* bound on the login packets of one connection

ASSUME /\ ProtocolVersion \in Versions
       /\ Handler \in {"login", "proxy"}
       /\ MaxLogins \in Nat \ {0}

VARIABLES
  logins,       \* player -> the versions of its login packets, in order
  started,      \* player -> how many of them a worker has taken
  script,       \* player -> the effects of the running login still to do
  out,          \* player -> the evbuffer_add calls made on its output
  live,         \* heap objects allocated and not freed
  doubleFree,   \* a free of an object that is not live has happened
  username,     \* player -> the object player->username points to
  loginpacket   \* player -> the object player->loginpacket points to

vars == <<logins, started, script, out, live, doubleFree, username, loginpacket>>

\* A heap object: what it is, and the player and login that allocated it.
Obj(p, n, what) == [by |-> p, n |-> n, what |-> what]

\* NULL.
None == Obj("nobody", 0, "null")

\* The effects a handler has.
Add(to, from, n, kind, i, len) ==
  [op |-> "add", to |-> to, pkt |-> [from |-> from, n |-> n, kind |-> kind], i |-> i, len |-> len]
Alloc(o) == [op |-> "alloc", obj |-> o]
Free(o) == [op |-> "free", obj |-> o]
Populate(p, n) == [op |-> "populate", p |-> p, n |-> n]

\* A packet of len fields written to player `to` one evbuffer_add per field.
Packet(to, from, n, kind, len) == [i \in 1..len |-> Add(to, from, n, kind, i, len)]

\* send_loginresp (pid, entity id, two shorts, map seed, dimension),
\* send_prechunk (pid, x, z, mode), send_spawnpos (pid, x, y, z),
\* send_movelook (pid, x, y, stance, z, yaw, pitch, flying) and send_kick
\* (pid, length, bytes).
LoginResp(p, n) == Packet(p, p, n, "loginresp", 6)
PreChunk(p, n) == Packet(p, p, n, "prechunk", 4)
SpawnPos(p, n) == Packet(p, p, n, "spawnpos", 4)
MoveLook(p, n) == Packet(p, p, n, "movelook", 8)
Kick(p, n) == Packet(p, p, n, "kick", 3)

\* Mutation of ProcessLogin: no return after the kick.
ProcessLoginNoReturn(p, v, n) ==
  (IF v # ProtocolVersion
   THEN <<Alloc(Obj(p, n, "dconmsg"))>> \o Kick(p, n) \o <<Free(Obj(p, n, "dconmsg"))>>
   ELSE <<>>)
  \o <<Populate(p, n)>> \o LoginResp(p, n) \o PreChunk(p, n) \o SpawnPos(p, n) \o MoveLook(p, n)

\* Mutation of ProcessLogin: the caller frees the message send_kick freed.
ProcessLoginCallerFrees(p, v, n) ==
  IF v # ProtocolVersion
  THEN <<Alloc(Obj(p, n, "dconmsg"))>> \o Kick(p, n)
         \o <<Free(Obj(p, n, "dconmsg")), Free(Obj(p, n, "dconmsg"))>>
  ELSE <<Populate(p, n)>> \o LoginResp(p, n) \o PreChunk(p, n) \o SpawnPos(p, n)
         \o MoveLook(p, n)

\* process_login(player, username, ver).
ProcessLogin(p, v, n) ==
  IF v # ProtocolVersion
  THEN <<Alloc(Obj(p, n, "dconmsg"))>> \o Kick(p, n) \o <<Free(Obj(p, n, "dconmsg"))>>
  ELSE <<Populate(p, n)>> \o LoginResp(p, n) \o PreChunk(p, n) \o SpawnPos(p, n)
         \o MoveLook(p, n)

\* The PID_LOGIN case of process_proxypacket(player, PID_LOGIN, packet):
\* bfromcstr, send_kick and bstrFree of the kick message; or the critical
\* section, send_loginresp, and the join message made by bformat and freed
\* by bstrFree after send_syschat.
ProxyLogin(p, v, n) ==
  IF v # ProtocolVersion
  THEN <<Alloc(Obj(p, n, "dconmsg"))>> \o Kick(p, n) \o <<Free(Obj(p, n, "dconmsg"))>>
  ELSE <<Populate(p, n)>> \o LoginResp(p, n)
         \o <<Alloc(Obj(p, n, "loginmsg")), Free(Obj(p, n, "loginmsg"))>>

Script(p, v, n) ==
  IF Handler = "login" THEN ProcessLogin(p, v, n) ELSE ProxyLogin(p, v, n)

-----------------------------------------------------------------------------

Init ==
  /\ logins \in [Players -> UNION {[1..k -> Versions] : k \in 1..MaxLogins}]
  /\ started = [p \in Players |-> 0]
  /\ script = [p \in Players |-> <<>>]
  /\ out = [p \in Players |-> <<>>]
  /\ live = {}
  /\ doubleFree = FALSE
  /\ username = [p \in Players |-> None]
  /\ loginpacket = [p \in Players |-> None]

\* A worker takes the next login packet of player p once the previous one
\* has been handled.
Dispatch(p) ==
  /\ script[p] = <<>>
  /\ started[p] < Len(logins[p])
  /\ started' = [started EXCEPT ![p] = @ + 1]
  /\ script' = [script EXCEPT ![p] = Script(p, logins[p][started[p] + 1], started[p] + 1)]
  /\ UNCHANGED <<logins, out, live, doubleFree, username, loginpacket>>

\* The critical section under pthread_rwlock_wrlock(&player->rwlock).  In
\* process_login it copies the username into the player entry; in the
\* proxy it stores a new bstrcpy of the username and a new Malloc'd copy of
\* the login packet, overwriting the previous pointers.
DoPopulate(e) ==
  /\ IF Handler = "login"
     THEN /\ username' = [username EXCEPT ![e.p] = Obj(e.p, e.n, "username")]
          /\ UNCHANGED <<live, loginpacket>>
     ELSE /\ username' = [username EXCEPT ![e.p] = Obj(e.p, e.n, "username")]
          /\ loginpacket' = [loginpacket EXCEPT ![e.p] = Obj(e.p, e.n, "loginpacket")]
          /\ live' = live \cup {Obj(e.p, e.n, "username"), Obj(e.p, e.n, "loginpacket")}
  /\ UNCHANGED <<out, doubleFree>>

DoAdd(e) ==
  /\ out' = [out EXCEPT ![e.to] = Append(@, [pkt |-> e.pkt, i |-> e.i, len |-> e.len])]
  /\ UNCHANGED <<live, doubleFree, username, loginpacket>>

DoAlloc(e) ==
  /\ live' = live \cup {e.obj}
  /\ UNCHANGED <<out, doubleFree, username, loginpacket>>

\* free of an object that is no longer live is a double free.
DoFree(e) ==
  /\ live' = live \ {e.obj}
  /\ doubleFree' = (doubleFree \/ e.obj \notin live)
  /\ UNCHANGED <<out, username, loginpacket>>

\* The worker running player p's login performs its next effect.
Step(p) ==
  /\ script[p] # <<>>
  /\ LET e == Head(script[p])
     IN  CASE e.op = "add"      -> DoAdd(e)
           [] e.op = "alloc"    -> DoAlloc(e)
           [] e.op = "free"     -> DoFree(e)
           [] e.op = "populate" -> DoPopulate(e)
  /\ script' = [script EXCEPT ![p] = Tail(@)]
  /\ UNCHANGED <<logins, started>>

Next == \E p \in Players : Dispatch(p) \/ Step(p)

\* A worker that has a job runs it to completion (spec.md 5: no cancellation).
Spec == Init /\ [][Next]_vars /\ \A p \in Players : WF_vars(Dispatch(p) \/ Step(p))

-----------------------------------------------------------------------------

\* The packets a client is sent in answer to a login packet of version v,
\* with their field counts: a kick, or the login response and the spawn
\* sequence (Handler "login").
Response(v) ==
  IF v # ProtocolVersion THEN << <<"kick", 3>> >>
  ELSE << <<"loginresp", 6>>, <<"prechunk", 4>>, <<"spawnpos", 4>>, <<"movelook", 8>> >>

\* The packets started on player q's output: login number, kind, fields.
Started(q) ==
  LET s == SelectSeq(out[q], LAMBDA a : a.i = 1)
  IN  [k \in DOMAIN s |-> <<s[k].pkt.n, s[k].pkt.kind, s[k].len>>]

Expected(q) ==
  FlattenSeq([k \in 1..started[q] |->
                [j \in DOMAIN Response(logins[q][k]) |-> <<k>> \o Response(logins[q][k])[j]]])

\* Every player's output is a sequence of whole packets, the last possibly
\* still being written: no evbuffer_add of one packet lands between the
\* fields of another.
PacketsWhole ==
  \A q \in Players : \A k \in 1..Len(out[q]) :
    /\ (k = 1 \/ out[q][k - 1].i = out[q][k - 1].len) => out[q][k].i = 1
    /\ (k > 1 /\ out[q][k - 1].i < out[q][k - 1].len) =>
         out[q][k] = [out[q][k - 1] EXCEPT !.i = @ + 1]

\* process_login answers each login packet, in order, with a kick when the
\* version is not PROTOCOL_VERSION and with the login response and spawn
\* packets otherwise, each packet whole, and a finished login has sent its
\* whole answer.
LoginResponses ==
  /\ PacketsWhole
  /\ \A q \in Players :
       /\ IsPrefix(Started(q), Expected(q))
       /\ script[q] = <<>> => Started(q) = Expected(q)

\* Objects still to be freed by a running handler.
ToBeFreed ==
  UNION {{e.obj : e \in {x \in Range(script[p]) : x.op = "free"}} : p \in Players}

\* Every heap object the proxy's login handler allocates stays reachable:
\* the kick and join messages are freed by it, and the username and login
\* packet copies are kept in the player entry; a second login packet on a
\* connection must not drop the copies of the first (proxy-send.c:70, 84).
NoLeak == live \subseteq Range(username) \cup Range(loginpacket) \cup ToBeFreed

\* No object is freed twice: the kick message freed by send_kick is not
\* freed again by its caller.
NoDoubleFree == ~doubleFree

=============================================================================
