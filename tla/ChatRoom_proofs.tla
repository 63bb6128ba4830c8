--------------------------- MODULE ChatRoom_proofs ---------------------------
(***************************************************************************)
(* Proofs that the server is a chat room, for every number of clients,     *)
(* slots, descriptors, lines and sizes of the send buffer, and every       *)
(* interleaving of the three threads and the terminals, once on() goes     *)
(* through and no client connects before the server's own connection.      *)
(***************************************************************************)
EXTENDS ChatServer_proofs

USE DEF mainVars, acceptVars, receiveVars, kernelVars, outVars, inVars, historyVars

\* No call of on() fails, its three descriptors fit in the table of the process,
\* and clients come after the local connection.
Quiet == Faults = {} /\ EarlyClients = FALSE /\ MaxFd >= 5

\* The descriptors of the server's own connections, in the order on() opens them.
MasterFd == 3
LocalFd  == 4
PeerFd   == 5

LEMMA OwnFds == Quiet => MasterFd \in FDs /\ LocalFd \in FDs /\ PeerFd \in FDs
BY SizeAssumption DEF Quiet, FDs, MasterFd, LocalFd, PeerFd

LEMMA PeerFacts == Peer \notin Clients /\ Peer \in Conns /\ Conns = Clients \cup {Peer}
BY PeerAssumption DEF Conns

LEMMA AppendFacts ==
  ASSUME NEW S, NEW s \in Seq(S), NEW e \in S
  PROVE  /\ \A k \in DOMAIN Append(s, e) :
              Append(s, e)[k] = e \/ (k \in DOMAIN s /\ Append(s, e)[k] = s[k])
         /\ \A k \in DOMAIN s : k \in DOMAIN Append(s, e) /\ Append(s, e)[k] = s[k]
         /\ Len(s) + 1 \in DOMAIN Append(s, e) /\ Append(s, e)[Len(s) + 1] = e
<1>1. Len(s) \in Nat /\ DOMAIN s = 1 .. Len(s) /\ DOMAIN Append(s, e) = 1 .. Len(s) + 1
  OBVIOUS
<1>2. \A k \in 1 .. Len(s) + 1 : Append(s, e)[k] = IF k = Len(s) + 1 THEN e ELSE s[k]
  OBVIOUS
<1>3. QED
  BY <1>1, <1>2

-----------------------------------------------------------------------------
(* The start of the server.                                                *)

\* Until the local connection is accepted nobody else is there.
Calm == mpc # "join" \/ backlog = <<Peer>>

\* on() goes through: the server's descriptors are the first three, so the slot
\* that holds local_sock + 1 is the local connection's.
StartInv ==
  /\ is_on <=> mpc # "listen"
  /\ owner[MasterFd] = IF mpc = "listen" THEN "free" ELSE "master"
  /\ IF mpc \in {"connect", "join"} THEN local_sock = LocalFd /\ owner[LocalFd] = "local"
                                    ELSE local_sock = 0 /\ owner[LocalFd] = "free"
  /\ mpc # "join" => backlog = << >>
  /\ Calm => /\ joined = {}
             /\ \A f \in FDs : f >= PeerFd => owner[f] = "free"
             /\ \A i \in Slots : clientes[i] = 0
  /\ ~Calm => owner[PeerFd] = Peer /\ \A k \in DOMAIN backlog : backlog[k] # Peer

LEMMA StartInit == Quiet /\ Init => StartInv
BY OwnFds DEF Init, StartInv, Calm

\* In the calm no descriptor names a connection.
LEMMA NobodyInCalm ==
  ASSUME Quiet, IInv, StartInv, Calm, NEW f \in FDs
  PROVE  owner[f] \notin Conns
<1>1. f = MasterFd \/ f = LocalFd \/ f >= PeerFd
  BY DEF FDs, MasterFd, LocalFd, PeerFd
<1>2. owner[f] \in {"free", "master", "local"}
  BY <1>1 DEF StartInv
<1>3. QED
  BY <1>2, OwnerFacts

LEMMA StartFrame ==
  ASSUME StartInv, UNCHANGED <<mpc, is_on, local_sock, owner, backlog, joined, clientes>>
  PROVE  StartInv'
BY DEF StartInv, Calm

LEMMA StartStep ==
  ASSUME Quiet, IInv, StartInv, [Next]_vars
  PROVE  StartInv'
<1> USE OwnFds DEF Quiet
<1>1. ASSUME Listen PROVE StartInv'
  <2>1. PICK f \in FDs : IsLowestFree(f) /\ owner' = [owner EXCEPT ![f] = "master"]
                         /\ is_on' = TRUE /\ mpc' = "spawn_accept"
    BY <1>1 DEF Listen
  <2>2. f = MasterFd
    BY <1>1, <2>1 DEF Listen, IsLowestFree, StartInv, FDs, MasterFd
  <2>3. owner' = [owner EXCEPT ![MasterFd] = "master"] /\ owner \in [FDs -> Conns \cup {"free", "master", "local"}]
    BY <2>1, <2>2 DEF IInv, TypeOK, KernelTypeOK
  <2>4. UNCHANGED <<clientes, local_sock, backlog, joined>> /\ mpc = "listen"
    BY <1>1 DEF Listen
  <2>5. Calm
    BY <2>4 DEF Calm
  <2>6. QED
    BY <2>1, <2>3, <2>4, <2>5 DEF StartInv, Calm, MasterFd, LocalFd, PeerFd
<1>2. ASSUME SpawnAccept \/ SpawnReceive PROVE StartInv'
  <2>1. /\ mpc \in {"spawn_accept", "spawn_receive"} /\ mpc' \in {"spawn_receive", "socket"}
        /\ UNCHANGED <<is_on, local_sock, owner, backlog, joined, clientes>>
    BY <1>2 DEF SpawnAccept, SpawnReceive
  <2>2. QED
    BY <2>1 DEF StartInv, Calm
<1>3. ASSUME LocalSocket PROVE StartInv'
  <2>1. mpc = "socket" /\ Calm /\ owner[LocalFd] = "free" /\ owner[MasterFd] = "master"
    BY <1>3 DEF LocalSocket, StartInv, Calm
  <2>2. PICK f \in FDs : IsLowestFree(f) /\ owner' = [owner EXCEPT ![f] = "local"]
                         /\ local_sock' = f /\ is_on' = is_on /\ mpc' = "connect"
    BY <1>3, <2>1 DEF LocalSocket, FdsExhausted
  <2>3. f = LocalFd
    BY <2>1, <2>2 DEF IsLowestFree, FDs, LocalFd, MasterFd
  <2>4. owner' = [owner EXCEPT ![LocalFd] = "local"] /\ owner \in [FDs -> Conns \cup {"free", "master", "local"}]
    BY <2>2, <2>3 DEF IInv, TypeOK, KernelTypeOK
  <2>5. UNCHANGED <<clientes, backlog, joined>>
    BY <1>3 DEF LocalSocket
  <2>6. QED
    BY <2>1, <2>2, <2>3, <2>4, <2>5 DEF StartInv, Calm, MasterFd, LocalFd, PeerFd
<1>4. ASSUME Connect PROVE StartInv'
  <2>1. /\ mpc = "connect" /\ mpc' = "join" /\ backlog' = Append(backlog, Peer)
        /\ UNCHANGED <<is_on, local_sock, owner, joined, clientes>>
    BY <1>4 DEF Connect
  <2>2. backlog' = <<Peer>>
    BY <2>1 DEF StartInv
  <2>3. QED
    BY <2>1, <2>2 DEF StartInv, Calm
<1>5. ASSUME Accept PROVE StartInv'
  <2>1. CASE UNCHANGED kernelVars
    <3>1. UNCHANGED <<mpc, is_on, local_sock, owner, backlog, joined, clientes>>
      BY <1>5, <2>1 DEF Accept
    <3>2. QED
      BY <3>1, StartFrame
  <2>2. ASSUME NEW f \in FDs, backlog # << >>, IsLowestFree(f),
               owner' = [owner EXCEPT ![f] = Head(backlog)], backlog' = Tail(backlog)
        PROVE  StartInv'
    <3>1. /\ UNCHANGED <<mpc, is_on, local_sock, joined, clientes>> /\ mpc = "join"
          /\ backlog \in Seq(Conns) /\ owner[f] = "free"
          /\ owner \in [FDs -> Conns \cup {"free", "master", "local"}]
      BY <1>5, <2>2 DEF Accept, StartInv, IInv, TypeOK, KernelTypeOK, IsLowestFree
    <3>2. owner[MasterFd] = "master" /\ owner[LocalFd] = "local" /\ local_sock = LocalFd
      BY <3>1 DEF StartInv
    <3>3. f # MasterFd /\ f # LocalFd
      BY <3>1, <3>2
    <3>4. owner'[MasterFd] = "master" /\ owner'[LocalFd] = "local"
      BY <2>2, <3>1, <3>2, <3>3
    <3>5. owner'[PeerFd] = Peer /\ \A k \in DOMAIN backlog' : backlog'[k] # Peer
      <4>1. CASE Calm
        <5>1. backlog = <<Peer>>
          BY <3>1, <4>1 DEF Calm
        <5>2. f = PeerFd
          BY <2>2, <3>3, <4>1 DEF StartInv, IsLowestFree, FDs, MasterFd, LocalFd, PeerFd
        <5>3. Head(backlog) = Peer /\ Tail(backlog) = << >>
          BY <5>1
        <5>4. QED
          BY <2>2, <3>1, <5>2, <5>3
      <4>2. CASE ~Calm
        <5>1. owner[PeerFd] = Peer /\ \A k \in DOMAIN backlog : backlog[k] # Peer
          BY <4>2 DEF StartInv
        <5>2. f # PeerFd
          BY <3>1, <5>1, OwnerFacts
        <5>3. \A k \in DOMAIN Tail(backlog) : k + 1 \in DOMAIN backlog /\ Tail(backlog)[k] = backlog[k + 1]
          BY <2>2, <3>1
        <5>4. QED
          BY <2>2, <3>1, <5>1, <5>2, <5>3
      <4>3. QED
        BY <4>1, <4>2
    <3>6. ~Calm'
      <4>1. SUFFICES ASSUME backlog' = <<Peer>> PROVE FALSE
        BY <3>1 DEF Calm
      <4>2. 1 \in DOMAIN backlog' /\ backlog'[1] = Peer
        BY <4>1
      <4>3. QED
        BY <3>5, <4>2
    <3>7. QED
      BY <3>1, <3>2, <3>4, <3>5, <3>6 DEF StartInv
  <2>3. QED
    BY <1>5, <2>1, <2>2 DEF Accept
<1>6. ASSUME Insert PROVE StartInv'
  <2>1. ~Calm
    BY <1>6, NobodyInCalm DEF Insert, IInv, SlotInv, FreshInsert
  <2>2. UNCHANGED <<mpc, is_on, local_sock, owner, backlog, joined>>
    BY <1>6 DEF Insert
  <2>3. QED
    BY <2>1, <2>2 DEF StartInv, Calm
<1>7. ASSUME RecvClosed PROVE StartInv'
  <2>1. /\ UNCHANGED <<mpc, is_on, local_sock, backlog, joined, clientes>>
        /\ owner' = [owner EXCEPT ![clientes[ridx]] = "free"] /\ rpc = "recv"
        /\ owner[clientes[ridx]] \in gone
    BY <1>7 DEF RecvClosed
  <2>2. clientes[ridx] # 0 /\ ridx \in Slots /\ clientes[ridx] \in FDs
        /\ owner[clientes[ridx]] \in Clients
        /\ owner \in [FDs -> Conns \cup {"free", "master", "local"}]
    BY <2>1 DEF IInv, SlotInv, SlotInUse, TypeOK, ServerTypeOK, ReceiveTypeOK, TrafficTypeOK, KernelTypeOK
  <2>3. ~Calm
    BY <2>2 DEF StartInv
  <2>4. owner[MasterFd] = "master" /\ owner[LocalFd] = "local" /\ owner[PeerFd] = Peer
    BY <2>3 DEF StartInv, Calm
  <2>5. clientes[ridx] \notin {MasterFd, LocalFd, PeerFd}
    BY <2>2, <2>4, PeerFacts, OwnerFacts
  <2>6. owner'[MasterFd] = "master" /\ owner'[LocalFd] = "local" /\ owner'[PeerFd] = Peer
    BY <2>1, <2>2, <2>4, <2>5
  <2>7. QED
    BY <2>1, <2>3, <2>6 DEF StartInv, Calm
<1>8. ASSUME ClearSlot PROVE StartInv'
  <2>1. /\ UNCHANGED <<mpc, is_on, local_sock, owner, backlog, joined>>
        /\ clientes' = [clientes EXCEPT ![ridx] = 0]
        /\ clientes \in [Slots -> FDs \cup {0}]
    BY <1>8 DEF ClearSlot, IInv, TypeOK, ServerTypeOK
  <2>2. QED
    BY <2>1 DEF StartInv, Calm
<1>9. ASSUME NEW c \in Clients, Join(c) PROVE StartInv'
  <2>1. /\ mpc = "join" /\ Peer \notin {backlog[k] : k \in DOMAIN backlog}
        /\ backlog' = Append(backlog, c) /\ backlog \in Seq(Conns)
        /\ UNCHANGED <<mpc, is_on, local_sock, owner, clientes>>
    BY <1>9 DEF Join, IInv, TypeOK, KernelTypeOK
  <2>2. ~Calm
    <3>1. SUFFICES ASSUME backlog = <<Peer>> PROVE FALSE
      BY <2>1 DEF Calm
    <3>2. 1 \in DOMAIN backlog /\ backlog[1] = Peer
      BY <3>1
    <3>3. QED
      BY <2>1, <3>2
  <2>3. \A k \in DOMAIN backlog' : backlog'[k] # Peer
    BY <1>9, <2>1, <2>2, PeerFacts DEF StartInv
  <2>4. ~Calm'
    <3>1. SUFFICES ASSUME backlog' = <<Peer>> PROVE FALSE
      BY <2>1 DEF Calm
    <3>2. 1 \in DOMAIN backlog' /\ backlog'[1] = Peer
      BY <3>1
    <3>3. QED
      BY <2>3, <3>2
  <2>5. QED
    BY <2>1, <2>2, <2>3, <2>4 DEF StartInv
<1>10. ASSUME UNCHANGED <<mpc, is_on, local_sock, owner, backlog, joined, clientes>>
       PROVE  StartInv'
  BY <1>10, StartFrame
<1>11. QED
  BY <1>1, <1>2, <1>3, <1>4, <1>5, <1>6, <1>7, <1>8, <1>9, <1>10
     DEF Next, Main, AcceptThread, ReceiveThread, Terminal, Wait, AcceptLoop, Notify,
         WakeUp, ReceiveLoop, Build, Select, Scan, Recv, Forward, Say, Leave, Drain, vars

-----------------------------------------------------------------------------
(* The connections.                                                        *)

\* A connection is in the backlog or under a descriptor, and once.
ConnInv ==
  /\ \A f, g \in FDs : owner[f] \in Conns /\ owner[f] = owner[g] => f = g
  /\ \A k \in DOMAIN backlog : \A f \in FDs : owner[f] # backlog[k]
  /\ \A k, l \in DOMAIN backlog : backlog[k] = backlog[l] => k = l
  /\ \A f \in FDs : owner[f] \in Clients => owner[f] \in joined
  /\ \A k \in DOMAIN backlog : backlog[k] \in Clients => backlog[k] \in joined

LEMMA ConnInit == Init => ConnInv
BY OwnerFacts DEF Init, ConnInv

LEMMA ConnFrame ==
  ASSUME ConnInv, UNCHANGED <<owner, backlog, joined>>
  PROVE  ConnInv'
BY DEF ConnInv

\* A descriptor that stops naming a connection, or never did.
LEMMA ConnOther ==
  ASSUME TypeOK, ConnInv, NEW f \in FDs, NEW who, who \notin Conns,
         owner' = [owner EXCEPT ![f] = who], UNCHANGED <<backlog, joined>>
  PROVE  ConnInv'
BY OwnerFacts DEF TypeOK, KernelTypeOK, ConnInv

\* A newcomer at the end of the backlog.
LEMMA ConnAppend ==
  ASSUME TypeOK, ConnInv, NEW c \in Conns, \A f \in FDs : owner[f] # c,
         \A k \in DOMAIN backlog : backlog[k] # c,
         backlog' = Append(backlog, c), UNCHANGED owner,
         joined \subseteq joined', c \in Clients => c \in joined'
  PROVE  ConnInv'
<1>1. backlog \in Seq(Conns)
  BY DEF TypeOK, KernelTypeOK
<1>2. \A k \in DOMAIN backlog' : \/ k \in DOMAIN backlog /\ backlog'[k] = backlog[k]
                                 \/ k = Len(backlog) + 1 /\ backlog'[k] = c
  BY <1>1
<1>3. QED
  BY <1>2 DEF ConnInv

LEMMA ConnStep ==
  ASSUME Quiet, IInv, StartInv, ConnInv, [Next]_vars
  PROVE  ConnInv'
<1>0. TypeOK
  BY DEF IInv
<1>1. ASSUME Listen \/ LocalSocket PROVE ConnInv'
  <2>1. CASE UNCHANGED owner
    BY <1>1, <2>1, ConnFrame DEF Listen, LocalSocket
  <2>2. CASE ~UNCHANGED owner
    BY <1>0, <1>1, <2>2, ConnOther, OwnerFacts DEF Listen, LocalSocket
  <2>3. QED
    BY <2>1, <2>2
<1>2. ASSUME Connect PROVE ConnInv'
  <2>1. backlog' = Append(backlog, Peer) /\ UNCHANGED <<owner, joined>> /\ Calm /\ backlog = << >>
    BY <1>2 DEF Connect, Quiet, Calm, StartInv
  <2>2. \A f \in FDs : owner[f] # Peer
    BY <2>1, NobodyInCalm, OwnerFacts
  <2>3. QED
    BY <1>0, <2>1, <2>2, ConnAppend, PeerFacts
<1>3. ASSUME Accept PROVE ConnInv'
  <2>1. CASE UNCHANGED kernelVars
    BY <1>3, <2>1, ConnFrame DEF Accept
  <2>2. ASSUME NEW f \in FDs, backlog # << >>, IsLowestFree(f),
               owner' = [owner EXCEPT ![f] = Head(backlog)], backlog' = Tail(backlog)
        PROVE  ConnInv'
    <3>1. backlog \in Seq(Conns) /\ owner \in [FDs -> Conns \cup {"free", "master", "local"}]
          /\ joined' = joined
      BY <1>0, <1>3 DEF TypeOK, KernelTypeOK, Accept
    <3>2. 1 \in DOMAIN backlog /\ Head(backlog) = backlog[1]
      BY <2>2, <3>1
    <3>3. \A k \in DOMAIN backlog' : k + 1 \in DOMAIN backlog /\ backlog'[k] = backlog[k + 1] /\ k + 1 # 1
      BY <2>2, <3>1
    <3>4. \A g \in FDs : \/ g = f /\ owner'[g] = backlog[1]
                         \/ g # f /\ owner'[g] = owner[g]
      BY <2>2, <3>1, <3>2
    <3>5. /\ \A g, h \in FDs : owner'[g] \in Conns /\ owner'[g] = owner'[h] => g = h
          /\ \A g \in FDs : owner'[g] \in Clients => owner'[g] \in joined
      BY <3>2, <3>4 DEF ConnInv
    <3>6. \A k \in DOMAIN backlog' : \A g \in FDs : owner'[g] # backlog'[k]
      BY <3>2, <3>3, <3>4 DEF ConnInv
    <3>7. \A k, l \in DOMAIN backlog' : backlog'[k] = backlog'[l] => k = l
      <4>1. SUFFICES ASSUME NEW k \in DOMAIN backlog', NEW l \in DOMAIN backlog', backlog'[k] = backlog'[l]
                     PROVE  k = l
        OBVIOUS
      <4>2. k + 1 = l + 1
        BY <3>3, <4>1 DEF ConnInv
      <4>3. k \in Nat /\ l \in Nat
        BY <2>2, <3>1
      <4>4. QED
        BY <4>2, <4>3
    <3>8. \A k \in DOMAIN backlog' : backlog'[k] \in Clients => backlog'[k] \in joined
      BY <3>3 DEF ConnInv
    <3>9. QED
      BY <3>1, <3>5, <3>6, <3>7, <3>8 DEF ConnInv
  <2>3. QED
    BY <1>3, <2>1, <2>2 DEF Accept
<1>4. ASSUME RecvClosed PROVE ConnInv'
  <2>1. /\ UNCHANGED <<backlog, joined>>
        /\ owner' = [owner EXCEPT ![clientes[ridx]] = "free"] /\ rpc = "recv"
    BY <1>4 DEF RecvClosed
  <2>2. clientes[ridx] \in FDs
    BY <2>1 DEF IInv, SlotInv, SlotInUse, TypeOK, ServerTypeOK, ReceiveTypeOK
  <2>3. QED
    BY <1>0, <2>1, <2>2, ConnOther, OwnerFacts
<1>5. ASSUME NEW c \in Clients, Join(c) PROVE ConnInv'
  <2>1. c \notin joined /\ joined' = joined \cup {c} /\ backlog' = Append(backlog, c) /\ UNCHANGED owner
    BY <1>5 DEF Join
  <2>2. (\A f \in FDs : owner[f] # c) /\ (\A k \in DOMAIN backlog : backlog[k] # c)
    BY <2>1 DEF ConnInv
  <2>3. QED
    BY <1>0, <2>1, <2>2, ConnAppend, PeerFacts
<1>6. ASSUME UNCHANGED <<owner, backlog, joined>> PROVE ConnInv'
  BY <1>6, ConnFrame
<1>7. QED
  BY <1>1, <1>2, <1>3, <1>4, <1>5, <1>6
     DEF Next, Main, AcceptThread, ReceiveThread, Terminal, SpawnAccept, SpawnReceive, Wait,
         AcceptLoop, Insert, Notify, WakeUp, ReceiveLoop, Build, Select, Scan, Recv, ClearSlot,
         Forward, Say, Leave, Drain, vars

\* A slot in use: on() is through, and the slot of the local connection is the
\* one Recv and Forward take for it.
LEMMA UsedSlot ==
  ASSUME Quiet, IInv, StartInv, ConnInv, NEW i \in Slots, clientes[i] # 0, rpc # "closed"
  PROVE  /\ ~Calm /\ mpc = "join" /\ local_sock + 1 = PeerFd
         /\ clientes[i] \in FDs /\ owner[clientes[i]] \in Conns
         /\ owner[PeerFd] = Peer
         /\ clientes[i] = PeerFd <=> owner[clientes[i]] = Peer
         /\ clientes[i] # PeerFd => owner[clientes[i]] \in Clients
<1>1. clientes[i] \in FDs /\ owner[clientes[i]] \in Conns
  BY DEF IInv, TypeOK, ServerTypeOK, SlotInv, NoStaleSlot
<1>2. ~Calm
  BY <1>1 DEF StartInv
<1>3. owner[PeerFd] = Peer /\ mpc = "join" /\ local_sock + 1 = PeerFd
  BY <1>2 DEF StartInv, Calm, LocalFd, PeerFd
<1>4. QED
  BY <1>1, <1>2, <1>3, PeerFacts, OwnFds DEF ConnInv

\* Slots in use name different connections.
LEMMA OtherOwner ==
  ASSUME Quiet, IInv, StartInv, ConnInv, NEW i \in Slots, NEW j \in Slots, i # j,
         clientes[i] # 0, clientes[j] # 0, rpc # "closed"
  PROVE  owner[clientes[i]] # owner[clientes[j]]
<1>1. clientes[i] # clientes[j]
  BY DEF IInv, SlotInv, OneSlotEach
<1>2. QED
  BY <1>1, UsedSlot DEF ConnInv

\* A step that gives a free descriptor to somebody leaves the owners of the
\* slots in use alone.
LEMMA OwnersStay ==
  ASSUME Quiet, [Next]_vars, ~RecvClosed, NEW f \in FDs, owner[f] \in Conns
  PROVE  owner'[f] = owner[f]
<1>1. CASE UNCHANGED owner
  BY <1>1
<1>2. CASE \E g \in FDs : \E who : IsLowestFree(g) /\ owner' = [owner EXCEPT ![g] = who]
  BY <1>2, OwnerFacts DEF IsLowestFree
<1>3. QED
  BY <1>1, <1>2 DEF Next, Main, AcceptThread, ReceiveThread, Terminal, Listen, SpawnAccept,
     SpawnReceive, LocalSocket, Connect, Wait, AcceptLoop, Accept, Insert, Notify, WakeUp,
     ReceiveLoop, Build, Select, Scan, Recv, ClearSlot, Forward, Join, Say, Leave, Drain, vars, Quiet

\* Nobody but get_msg() empties or changes a slot in use.
LEMMA SlotsStay ==
  ASSUME IInv, [Next]_vars, ~ClearSlot, NEW i \in Slots, clientes[i] # 0
  PROVE  clientes'[i] = clientes[i]
<1>1. CASE Insert
  BY <1>1 DEF Insert, IInv, TypeOK, ServerTypeOK, AcceptTypeOK
<1>2. CASE UNCHANGED clientes
  BY <1>2
<1>3. QED
  BY <1>1, <1>2 DEF Next, Main, AcceptThread, ReceiveThread, Terminal, Listen, SpawnAccept,
     SpawnReceive, LocalSocket, Connect, Wait, AcceptLoop, Accept, Notify, WakeUp,
     ReceiveLoop, Build, Select, Scan, Recv, RecvClosed, Forward, Join, Say, Leave, Drain, vars

-----------------------------------------------------------------------------
(* A turn of get_msg().                                                    *)

\* Loop variables start at 0, and msg is what get_msg() has received this turn.
TurnInv ==
  /\ rpc # "forward" => fidx = 0
  /\ rpc \in {"off", "sleep", "head", "select"} => ridx = 0
  /\ rpc \notin {"head", "forward", "exit"} => msg = NoEntry
  /\ rpc = "forward" => /\ msg.from \in Clients /\ msg.from = owner[clientes[ridx]]
                        /\ msg.upto = taken[msg.from]
                        /\ log # << >> /\ msg = log[Len(log)]

LEMMA TurnInit == Init => TurnInv
BY DEF Init, TurnInv

\* What get_msg() receives: a notice, or lines of a client that it will forward.
LEMMA Received ==
  ASSUME Quiet, IInv, StartInv, ConnInv, Recv
  PROVE  LET c == owner[clientes[ridx]] IN
         /\ ridx \in Slots /\ clientes[ridx] # 0 /\ clientes[ridx] \in FDs /\ c \in Conns
         /\ \E n \in taken[c] + 1 .. said[c] :
              taken' = [taken EXCEPT ![c] = n] /\ msg' = [from |-> c, upto |-> n]
         /\ \/ c = Peer /\ rpc' = "head" /\ ridx' = 0 /\ UNCHANGED log
            \/ c \in Clients /\ rpc' = "forward" /\ UNCHANGED ridx /\ log' = Append(log, msg')
<1>1. ridx \in Slots /\ clientes[ridx] # 0 /\ rpc = "recv"
  BY DEF Recv, IInv, TypeOK, ReceiveTypeOK, SlotInv, SlotInUse
<1>2. /\ clientes[ridx] \in FDs /\ owner[clientes[ridx]] \in Conns /\ local_sock + 1 = PeerFd
      /\ clientes[ridx] = PeerFd <=> owner[clientes[ridx]] = Peer
      /\ clientes[ridx] # PeerFd => owner[clientes[ridx]] \in Clients
  BY <1>1, UsedSlot
<1>3. QED
  BY <1>1, <1>2 DEF Recv

LEMMA TurnStep ==
  ASSUME Quiet, IInv, StartInv, ConnInv, TurnInv, [Next]_vars
  PROVE  TurnInv'
<1>1. ASSUME Recv PROVE TurnInv'
  <2>1. PICK n : /\ n \in taken[owner[clientes[ridx]]] + 1 .. said[owner[clientes[ridx]]]
                 /\ taken' = [taken EXCEPT ![owner[clientes[ridx]]] = n]
                 /\ msg' = [from |-> owner[clientes[ridx]], upto |-> n]
    BY <1>1, Received
  <2>2. rpc = "recv" /\ UNCHANGED <<fidx, clientes, owner>> /\ fidx = 0
    BY <1>1 DEF Recv, TurnInv
  <2>3. CASE rpc' = "head" /\ ridx' = 0
    BY <2>2, <2>3 DEF TurnInv
  <2>4. CASE owner[clientes[ridx]] \in Clients /\ rpc' = "forward" /\ UNCHANGED ridx /\ log' = Append(log, msg')
    <3>1. log \in Seq(Entry) /\ taken \in [Conns -> Nat]
      BY DEF IInv, TypeOK, HistoryTypeOK, TrafficTypeOK
    <3>2. log' # << >> /\ log'[Len(log')] = msg'
      BY <2>4, <3>1
    <3>3. taken'[owner[clientes[ridx]]] = n
      BY <2>1, <2>4, <3>1, OwnerFacts
    <3>4. QED
      BY <2>1, <2>2, <2>4, <3>2, <3>3 DEF TurnInv
  <2>5. QED
    BY <1>1, <2>3, <2>4, Received
<1>2. ASSUME Forward PROVE TurnInv'
  BY <1>2 DEF Forward, TurnInv, Turn
<1>3. ASSUME Build \/ Scan PROVE TurnInv'
  BY <1>3 DEF Build, Scan, TurnInv, Turn
<1>4. ASSUME WakeUp \/ ReceiveLoop \/ Select \/ RecvClosed \/ ClearSlot \/ SpawnReceive PROVE TurnInv'
  BY <1>4 DEF WakeUp, ReceiveLoop, Select, RecvClosed, ClearSlot, SpawnReceive, TurnInv,
     Quiet, IInv, SlotInv, StartOrder
<1>5. ASSUME UNCHANGED <<receiveVars, taken, log>>, ~RecvClosed, ~ClearSlot PROVE TurnInv'
  <2>1. CASE rpc # "forward"
    BY <1>5, <2>1 DEF TurnInv
  <2>2. CASE rpc = "forward"
    <3>1. ridx \in Slots /\ clientes[ridx] # 0
      BY <2>2 DEF IInv, TypeOK, ReceiveTypeOK, SlotInv, SlotInUse
    <3>2. clientes[ridx] \in FDs /\ owner[clientes[ridx]] \in Conns
      BY <2>2, <3>1, UsedSlot
    <3>3. clientes'[ridx] = clientes[ridx]
      BY <1>5, <3>1, SlotsStay
    <3>4. owner'[clientes[ridx]] = owner[clientes[ridx]]
      BY <1>5, <2>2, <3>2, OwnersStay
    <3>5. QED
      BY <1>5, <2>2, <3>3, <3>4 DEF TurnInv
  <2>3. QED
    BY <2>1, <2>2
<1>6. \/ UNCHANGED <<receiveVars, taken, log>> /\ ~RecvClosed /\ ~ClearSlot
      \/ ReceiveThread \/ SpawnReceive
  <2>1. CASE Next
    BY <2>1 DEF Next, Main, AcceptThread, Terminal, Listen, SpawnAccept, LocalSocket, Connect, Wait,
       AcceptLoop, Accept, Insert, Notify, Join, Say, Leave, Drain, RecvClosed, ClearSlot
  <2>2. CASE UNCHANGED vars
    BY <2>2 DEF vars, RecvClosed, ClearSlot
  <2>3. QED
    BY <2>1, <2>2
<1>7. QED
  BY <1>1, <1>2, <1>3, <1>4, <1>5, <1>6 DEF ReceiveThread

-----------------------------------------------------------------------------
(* What has been sent to whom.                                             *)

Has(c, entry) == \E k \in DOMAIN got[c] : got[c][k] = entry

\* A connection in the backlog or on its way to a slot has been sent nothing;
\* nobody is sent lines not received yet, and nobody has msg before its turn.
HeardInv ==
  /\ \A k \in DOMAIN backlog : got[backlog[k]] = << >>
  /\ apc = "insert" => got[owner[client_sock]] = << >>
  /\ \A c \in Conns : c \notin joined => got[c] = << >>
  /\ \A c \in Conns : \A k \in DOMAIN got[c] : got[c][k].upto <= taken[got[c][k].from]
  /\ rpc = "forward" =>
       \A i \in Slots : i >= fidx /\ clientes[i] # 0 => ~Has(owner[clientes[i]], msg)

LEMMA HeardInit == Init => HeardInv
BY DEF Init, HeardInv

\* The local end of the server's own connection names no connection.
LEMMA NoticesGoHome == Quiet /\ IInv /\ StartInv => LocalOwner \notin Conns
BY OwnFds, OwnerFacts, FdFacts DEF StartInv, LocalOwner

\* get_msg() alone sends to clients.
LEMMA GotStays ==
  ASSUME Quiet, IInv, StartInv, [Next]_vars, ~Forward
  PROVE  got' = got
BY NoticesGoHome DEF Next, Main, AcceptThread, ReceiveThread, Terminal, Listen, SpawnAccept,
   SpawnReceive, LocalSocket, Connect, Wait, AcceptLoop, Accept, Insert, Notify, WakeUp,
   ReceiveLoop, Build, Select, Scan, Recv, RecvClosed, ClearSlot, Join, Say, Leave, Drain, vars

\* One turn of the forwarding loop: msg goes to the client of the slot, or the
\* slot is empty, the sender's, the local connection's or a departed client's.
LEMMA Forwarded ==
  ASSUME Quiet, IInv, StartInv, ConnInv, TurnInv, Forward
  PROVE  /\ fidx \in Slots /\ rpc = "forward"
         /\ \/ /\ UNCHANGED got
               /\ \/ clientes[fidx] = 0
                  \/ owner[clientes[fidx]] \in {msg.from, Peer} \cup gone
            \/ /\ clientes[fidx] # 0
               /\ owner[clientes[fidx]] \in Clients \ {msg.from}
               /\ got' = [got EXCEPT ![owner[clientes[fidx]]] = Append(@, msg)]
<1>1. /\ fidx \in Slots /\ ridx \in Slots /\ rpc = "forward" /\ clientes[ridx] # 0
      /\ msg.from = owner[clientes[ridx]]
  BY DEF Forward, IInv, TypeOK, ReceiveTypeOK, SlotInv, SlotInUse, TurnInv
<1>2. CASE Skipped(clientes[fidx]) /\ UNCHANGED <<alive, outVars>>
  <2>1. local_sock + 1 = PeerFd /\ owner[PeerFd] = Peer
    BY <1>1, UsedSlot
  <2>2. QED
    BY <1>1, <1>2, <2>1 DEF Skipped
<1>3. CASE ~Skipped(clientes[fidx]) /\ SendTo(owner[clientes[fidx]], msg)
  <2>1. clientes[fidx] # 0 /\ clientes[fidx] # local_sock + 1 /\ clientes[fidx] # clientes[ridx]
    BY <1>3 DEF Skipped
  <2>2. owner[clientes[fidx]] \in Clients
    BY <1>1, <2>1, UsedSlot
  <2>3. owner[clientes[fidx]] # msg.from
    BY <1>1, <2>1, OtherOwner
  <2>4. QED
    BY <1>1, <1>3, <2>1, <2>2, <2>3 DEF SendTo
<1>4. QED
  BY <1>2, <1>3 DEF Forward

LEMMA HeardForward ==
  ASSUME Quiet, IInv, StartInv, ConnInv, TurnInv, HeardInv, Forward
  PROVE  HeardInv'
<1>1. /\ fidx \in Slots /\ rpc = "forward" /\ msg \in Entry
      /\ got \in [Conns -> Seq(Entry)] /\ taken \in [Conns -> Nat]
      /\ backlog \in Seq(Conns)
  BY DEF Forward, IInv, TypeOK, ReceiveTypeOK, TrafficTypeOK, KernelTypeOK
<1>2. UNCHANGED <<backlog, apc, owner, client_sock, joined, taken, clientes, msg>>
  BY DEF Forward
<1>3. rpc' = "forward" => fidx' = fidx + 1
  BY <1>1 DEF Forward, Turn
<1>4. fidx \in Nat
  BY <1>1, FdFacts
<1>5. CASE UNCHANGED got
  <2>1. rpc' = "forward" =>
          \A i \in Slots : i >= fidx' /\ clientes'[i] # 0 => ~Has(owner[clientes[i]], msg)
    BY <1>1, <1>2, <1>3, <1>4, FdFacts DEF HeardInv
  <2>2. QED
    BY <1>2, <1>5, <2>1 DEF HeardInv, Has
<1>6. ASSUME clientes[fidx] # 0, owner[clientes[fidx]] \in Clients \ {msg.from},
             got' = [got EXCEPT ![owner[clientes[fidx]]] = Append(@, msg)]
      PROVE  HeardInv'
  <2> DEFINE d == owner[clientes[fidx]]
  <2>1. clientes[fidx] \in FDs /\ d \in Conns /\ d \in joined
    BY <1>1, <1>6, UsedSlot DEF ConnInv
  <2>2. \A c \in Conns : c # d => got'[c] = got[c]
    BY <1>1, <1>6, <2>1
  <2>3. \A k \in DOMAIN backlog : backlog[k] # d /\ backlog[k] \in Conns
    BY <1>1, <2>1 DEF ConnInv
  <2>4. apc = "insert" => /\ owner[client_sock] \in Conns /\ owner[client_sock] # d
    <3>1. ASSUME apc = "insert" PROVE client_sock \in FDs /\ owner[client_sock] \in Conns /\ clientes[fidx] # client_sock
      BY <1>1, <3>1 DEF IInv, SlotInv, FreshInsert
    <3>2. QED
      BY <2>1, <3>1 DEF ConnInv
  <2>5. \A k \in DOMAIN got'[d] : got'[d][k] = msg \/ (k \in DOMAIN got[d] /\ got'[d][k] = got[d][k])
    <3>1. got'[d] = Append(got[d], msg) /\ got[d] \in Seq(Entry)
      BY <1>1, <1>6, <2>1
    <3>2. QED
      BY <1>1, <3>1, AppendFacts
  <2>6. msg.upto <= taken[msg.from]
    <3>1. msg.upto = taken[msg.from] /\ msg.upto \in Nat
      BY <1>1 DEF TurnInv, Entry
    <3>2. QED
      BY <3>1
  <2>7. \A c \in Conns : \A k \in DOMAIN got'[c] : got'[c][k].upto <= taken'[got'[c][k].from]
    BY <1>2, <2>2, <2>5, <2>6 DEF HeardInv
  <2>8. ASSUME rpc' = "forward", NEW i \in Slots, i >= fidx', clientes[i] # 0
        PROVE  ~Has(owner[clientes[i]], msg)'
    <3>1. i # fidx /\ i >= fidx
      BY <1>3, <1>4, <2>8, FdFacts
    <3>2. owner[clientes[i]] # d /\ owner[clientes[i]] \in Conns
      BY <1>1, <1>6, <2>8, <3>1, OtherOwner, UsedSlot
    <3>3. ~Has(owner[clientes[i]], msg)
      BY <1>1, <2>8, <3>1 DEF HeardInv
    <3>4. QED
      BY <1>2, <2>2, <3>2, <3>3 DEF Has
  <2>9. /\ \A k \in DOMAIN backlog : got'[backlog[k]] = << >>
        /\ apc = "insert" => got'[owner[client_sock]] = << >>
        /\ \A c \in Conns : c \notin joined => got'[c] = << >>
    BY <2>1, <2>2, <2>3, <2>4 DEF HeardInv
  <2>10. QED
    BY <1>2, <2>7, <2>8, <2>9 DEF HeardInv
<1>7. QED
  BY <1>5, <1>6, Forwarded

\* accept_conn() keeps the connection it has accepted until it is stored.
LEMMA InsertStays ==
  ASSUME Quiet, IInv, [Next]_vars, ~Accept, apc' = "insert"
  PROVE  apc = "insert" /\ client_sock' = client_sock /\ owner'[client_sock] = owner[client_sock]
<1>1. apc = "insert" /\ client_sock' = client_sock
  BY DEF Next, Main, AcceptThread, ReceiveThread, Terminal, Listen, SpawnAccept,
     SpawnReceive, LocalSocket, Connect, Wait, AcceptLoop, Insert, Turn, Notify, WakeUp,
     ReceiveLoop, Build, Select, Scan, Recv, RecvClosed, ClearSlot, Forward, Join, Say, Leave,
     Drain, vars, Quiet
<1>2. /\ client_sock \in FDs /\ owner[client_sock] \in Conns
      /\ \A s \in Slots : clientes[s] = client_sock => rpc = "closed" /\ s = ridx
  BY <1>1 DEF IInv, SlotInv, FreshInsert
<1>3. CASE RecvClosed
  BY <1>2, <1>3 DEF RecvClosed, IInv, TypeOK, KernelTypeOK, ReceiveTypeOK
<1>4. CASE ~RecvClosed
  BY <1>1, <1>2, <1>4, OwnersStay
<1>5. QED
  BY <1>1, <1>3, <1>4

\* get_msg() alone reads, and forwards what it has just read.
LEMMA OnlyRecvReads ==
  ASSUME [Next]_vars, ~Recv, ~Forward
  PROVE  /\ taken' = taken
         /\ rpc' = "forward" => UNCHANGED <<rpc, ridx, fidx, msg, audience>> /\ ~RecvClosed /\ ~ClearSlot
BY DEF Next, Main, AcceptThread, ReceiveThread, Terminal, Listen, SpawnAccept,
   SpawnReceive, LocalSocket, Connect, Wait, AcceptLoop, Accept, Insert, Notify, WakeUp,
   ReceiveLoop, Build, Turn, Select, Scan, RecvClosed, ClearSlot, Join, Say, Leave, Drain, vars

\* Who is in the backlog after a step.
LEMMA BacklogStep ==
  ASSUME Quiet, IInv, StartInv, [Next]_vars, NEW k \in DOMAIN backlog'
  PROVE  \/ \E l \in DOMAIN backlog : backlog'[k] = backlog[l]
         \/ backlog'[k] \in Conns \ joined
<1>1. backlog \in Seq(Conns) /\ joined \subseteq Clients
  BY DEF IInv, TypeOK, KernelTypeOK, TrafficTypeOK
<1>2. CASE \E c \in Conns \ joined : backlog' = Append(backlog, c)
  BY <1>1, <1>2, AppendFacts
<1>3. CASE backlog # << >> /\ backlog' = Tail(backlog)
  <2>1. k + 1 \in DOMAIN backlog /\ backlog'[k] = backlog[k + 1]
    BY <1>1, <1>3
  <2>2. QED
    BY <2>1
<1>4. CASE UNCHANGED backlog
  BY <1>4
<1>5. QED
  BY <1>1, <1>2, <1>3, <1>4, PeerFacts DEF Next, Main, AcceptThread, ReceiveThread, Terminal, Listen,
     SpawnAccept, SpawnReceive, LocalSocket, Connect, Wait, AcceptLoop, Accept, Insert, Notify, WakeUp,
     ReceiveLoop, Build, Select, Scan, Recv, RecvClosed, ClearSlot, Forward, Join, Say, Leave, Drain,
     vars, Quiet

LEMMA HeardStep ==
  ASSUME Quiet, IInv, StartInv, ConnInv, TurnInv, HeardInv, [Next]_vars
  PROVE  HeardInv'
<1>0. SUFFICES ASSUME ~Forward PROVE HeardInv'
  BY HeardForward
<1>1. got' = got
  BY <1>0, GotStays
<1>2. /\ taken \in [Conns -> Nat] /\ got \in [Conns -> Seq(Entry)] /\ said \in [Conns -> Nat]
      /\ owner \in [FDs -> Conns \cup {"free", "master", "local"}] /\ backlog \in Seq(Conns)
  BY DEF IInv, TypeOK, TrafficTypeOK, KernelTypeOK
<1>3. \A c \in Conns : taken'[c] >= taken[c]
  <2>1. CASE Recv
    <3>1. PICK n : /\ n \in taken[owner[clientes[ridx]]] + 1 .. said[owner[clientes[ridx]]]
                   /\ taken' = [taken EXCEPT ![owner[clientes[ridx]]] = n]
      BY <2>1, Received
    <3>2. QED
      BY <1>2, <3>1
  <2>2. CASE ~Recv
    BY <1>0, <1>2, <2>2, OnlyRecvReads
  <2>3. QED
    BY <2>1, <2>2
<1>4. \A k \in DOMAIN backlog' : got'[backlog'[k]] = << >>
  BY <1>1, BacklogStep DEF HeardInv
<1>5. ASSUME apc' = "insert" PROVE got'[owner'[client_sock']] = << >>
  <2>1. CASE Accept
    <3>1. CASE apc # "insert" /\ UNCHANGED client_sock /\ apc' = "notify"
      BY <1>5, <3>1
    <3>2. CASE \E f \in FDs : /\ backlog # << >> /\ owner' = [owner EXCEPT ![f] = Head(backlog)]
                              /\ client_sock' = f
      <4>1. 1 \in DOMAIN backlog /\ owner'[client_sock'] = backlog[1]
        BY <1>2, <3>2
      <4>2. QED
        BY <1>1, <4>1 DEF HeardInv
    <3>3. QED
      BY <2>1, <3>1, <3>2 DEF Accept
  <2>2. CASE ~Accept
    BY <1>1, <1>5, <2>2, InsertStays DEF HeardInv
  <2>3. QED
    BY <2>1, <2>2
<1>6. \A c \in Conns : c \notin joined' => got'[c] = << >>
  <2>1. joined \subseteq joined'
    BY DEF Next, Main, AcceptThread, ReceiveThread, Terminal, Listen,
     SpawnAccept, SpawnReceive, LocalSocket, Connect, Wait, AcceptLoop, Accept, Insert, Notify, WakeUp,
     ReceiveLoop, Build, Select, Scan, Recv, RecvClosed, ClearSlot, Forward, Join, Say, Leave, Drain, vars
  <2>2. QED
    BY <1>1, <2>1 DEF HeardInv
<1>7. \A c \in Conns : \A k \in DOMAIN got'[c] : got'[c][k].upto <= taken'[got'[c][k].from]
  <2>1. ASSUME NEW c \in Conns, NEW k \in DOMAIN got[c]
        PROVE  got[c][k].from \in Conns /\ got[c][k].upto \in Nat
    <3>1. got[c] \in Seq(Entry)
      BY <1>2
    <3>2. got[c][k] \in Entry
      BY <3>1
    <3>3. QED
      BY <3>2 DEF Entry
  <2>2. taken' \in [Conns -> Nat]
    BY StepInv DEF IInv, TypeOK, TrafficTypeOK
  <2>3. QED
    BY <1>1, <1>2, <1>3, <2>1, <2>2 DEF HeardInv
<1>8. ASSUME rpc' = "forward", NEW i \in Slots, i >= fidx', clientes'[i] # 0
      PROVE  ~Has(owner[clientes[i]], msg)'
  <2>1. CASE Recv
    <3>1. /\ clientes' = clientes /\ owner' = owner /\ rpc # "closed"
      BY <2>1 DEF Recv
    <3>2. owner[clientes[i]] \in Conns
      BY <1>8, <3>1, UsedSlot
    <3>3. owner[clientes[ridx]] \in Conns /\ msg' = [from |-> owner[clientes[ridx]], upto |-> msg'.upto]
          /\ msg'.upto \in Nat /\ msg'.upto > taken[owner[clientes[ridx]]]
      BY <1>2, <2>1, Received
    <3>4. SUFFICES ASSUME NEW k \in DOMAIN got[owner[clientes[i]]], got[owner[clientes[i]]][k] = msg'
                   PROVE  FALSE
      BY <1>1, <3>1 DEF Has
    <3>5. msg'.upto <= taken[msg'.from]
      BY <3>2, <3>4 DEF HeardInv
    <3>6. QED
      BY <1>2, <3>3, <3>5
  <2>2. CASE ~Recv
    <3>1. UNCHANGED <<rpc, fidx, msg>> /\ ~RecvClosed /\ ~ClearSlot /\ rpc = "forward"
      BY <1>0, <1>8, <2>2, OnlyRecvReads
    <3>2. CASE clientes[i] # 0
      <4>1. clientes'[i] = clientes[i]
        BY <3>1, <3>2, SlotsStay
      <4>2. owner'[clientes[i]] = owner[clientes[i]]
        BY <3>1, <3>2, UsedSlot, OwnersStay
      <4>3. ~Has(owner[clientes[i]], msg)
        BY <1>8, <3>1, <3>2 DEF HeardInv
      <4>4. QED
        BY <1>1, <3>1, <4>1, <4>2, <4>3 DEF Has
    <3>3. CASE clientes[i] = 0
      <4>1. Insert
        BY <1>8, <3>3 , <3>1 DEF Next, Main, AcceptThread, ReceiveThread, Terminal, Listen,
          SpawnAccept, SpawnReceive, LocalSocket, Connect, Wait, AcceptLoop, Accept, Notify, WakeUp,
          ReceiveLoop, Build, Select, Scan, Recv, RecvClosed, Forward, Join, Say, Leave, Drain, vars
      <4>2. clientes'[i] = client_sock /\ apc = "insert" /\ owner' = owner
        BY <1>8, <3>3, <4>1 DEF Insert, IInv, TypeOK, ServerTypeOK, AcceptTypeOK
      <4>3. got[owner[client_sock]] = << >>
        BY <4>2 DEF HeardInv
      <4>4. QED
        BY <1>1, <4>2, <4>3 DEF Has
    <3>4. QED
      BY <3>2, <3>3
  <2>3. QED
    BY <2>1, <2>2
<1>9. QED
  BY <1>4, <1>5, <1>6, <1>7, <1>8 DEF HeardInv

-----------------------------------------------------------------------------
(* Who still has to be sent msg.                                           *)

\* Nobody types more than MaxSay lines, nothing is received before it is typed.
SaidInv ==
  /\ \A c \in Clients : said[c] <= MaxSay
  /\ \A c \in Conns : taken[c] <= said[c]

LEMMA SaidInit == Init => SaidInv
BY SizeAssumption, PeerFacts DEF Init, SaidInv

LEMMA SaidStep ==
  ASSUME Quiet, IInv, StartInv, ConnInv, SaidInv, [Next]_vars
  PROVE  SaidInv'
<1>1. taken \in [Conns -> Nat] /\ said \in [Conns -> Nat]
  BY DEF IInv, TypeOK, TrafficTypeOK
<1>2. CASE Recv
  <2>1. PICK n : /\ n \in taken[owner[clientes[ridx]]] + 1 .. said[owner[clientes[ridx]]]
                 /\ taken' = [taken EXCEPT ![owner[clientes[ridx]]] = n]
    BY <1>2, Received
  <2>2. said' = said
    BY <1>2 DEF Recv
  <2>3. QED
    BY <1>1, <2>1, <2>2 DEF SaidInv
<1>3. CASE Notify
  BY <1>1, <1>3, PeerFacts DEF Notify, SaidInv
<1>4. CASE \E c \in Clients : Say(c)
  BY <1>1, <1>4, PeerFacts, SizeAssumption DEF Say, SaidInv
<1>5. CASE UNCHANGED <<said, taken>>
  BY <1>5 DEF SaidInv
<1>6. QED
  BY <1>2, <1>3, <1>4, <1>5 DEF Next, Main, AcceptThread, ReceiveThread, Terminal, Listen,
     SpawnAccept, SpawnReceive, LocalSocket, Connect, Wait, AcceptLoop, Accept, Insert, WakeUp,
     ReceiveLoop, Build, Select, Scan, RecvClosed, ClearSlot, Forward, Join, Leave, Drain, vars

\* The slots to come that hold client c.
ToCome(c) == \E i \in Slots : i >= fidx /\ clientes[i] # 0 /\ owner[clientes[i]] = c

\* The clients that still have to be sent msg are in the slots to come.
AudienceInv ==
  /\ rpc = "forward" => \A c \in audience \ (gone \cup {msg.from}) : Has(c, msg) \/ ToCome(c)
  /\ EveryoneHears

LEMMA AudienceInit == Init => AudienceInv
BY PeerAssumption DEF Init, AudienceInv, EveryoneHears, NoEntry

LEMMA AudienceForward ==
  ASSUME Quiet, IInv, StartInv, ConnInv, TurnInv, AudienceInv, Forward
  PROVE  AudienceInv'
<1>1. /\ fidx \in Slots /\ fidx \in Nat /\ rpc = "forward" /\ msg \in Entry
      /\ got \in [Conns -> Seq(Entry)] /\ audience \subseteq Clients
  BY FdFacts DEF Forward, IInv, TypeOK, ReceiveTypeOK, TrafficTypeOK, HistoryTypeOK
<1>2. UNCHANGED <<audience, gone, msg, clientes, owner>>
  BY DEF Forward
<1>3. \/ rpc' = "forward" /\ fidx' = fidx + 1
      \/ rpc' = "head" /\ fidx + 1 = MAX_CLIENTS
  BY DEF Forward, Turn
<1>4. ASSUME NEW c \in audience \ (gone \cup {msg.from})
      PROVE  Has(c, msg)' \/ \E i \in Slots : i > fidx /\ clientes[i] # 0 /\ owner[clientes[i]] = c
  <2>1. Has(c, msg) \/ ToCome(c)
    BY <1>1, <1>4 DEF AudienceInv
  <2>2. c \in Conns /\ c # Peer
    BY <1>1, <1>4, PeerFacts
  <2>3. CASE Has(c, msg)
    <3>1. got' = got \/ \E d \in Conns : got' = [got EXCEPT ![d] = Append(@, msg)]
      BY Forwarded, PeerFacts
    <3>2. \A k \in DOMAIN got[c] : k \in DOMAIN got'[c] /\ got'[c][k] = got[c][k]
      BY <1>1, <2>2, <3>1, AppendFacts
    <3>3. QED
      BY <1>2, <2>3, <3>2 DEF Has
  <2>4. CASE clientes[fidx] # 0 /\ owner[clientes[fidx]] = c
    <3>1. got' = [got EXCEPT ![c] = Append(@, msg)]
      BY <1>4, <2>2, <2>4, Forwarded
    <3>2. got'[c] = Append(got[c], msg) /\ got[c] \in Seq(Entry)
      BY <1>1, <2>2, <3>1
    <3>3. QED
      BY <1>1, <1>2, <3>2, AppendFacts DEF Has
  <2>5. CASE \E i \in Slots : i > fidx /\ clientes[i] # 0 /\ owner[clientes[i]] = c
    BY <2>5
  <2>6. \A i \in Slots : i >= fidx => i = fidx \/ i > fidx
    BY <1>1, FdFacts
  <2>7. QED
    BY <2>1, <2>3, <2>4, <2>5, <2>6 DEF ToCome
<1>5. CASE rpc' = "forward" /\ fidx' = fidx + 1
  <2>1. \A i \in Slots : i > fidx => i >= fidx'
    BY <1>1, <1>5, FdFacts
  <2>2. \A c \in audience \ (gone \cup {msg.from}) : Has(c, msg)' \/ ToCome(c)'
    BY <1>2, <1>4, <2>1 DEF ToCome
  <2>3. QED
    BY <1>2, <1>5, <2>2 DEF AudienceInv, EveryoneHears
<1>6. CASE rpc' = "head" /\ fidx + 1 = MAX_CLIENTS
  <2>1. \A i \in Slots : ~(i > fidx)
    BY <1>1, <1>6, SizeAssumption DEF Slots
  <2>2. \A c \in audience \ (gone \cup {msg.from}) : Has(c, msg)'
    BY <1>4, <2>1
  <2>3. QED
    BY <1>2, <1>6, <2>2 DEF AudienceInv, EveryoneHears, Has
<1>7. QED
  BY <1>3, <1>5, <1>6

LEMMA AudienceRecv ==
  ASSUME Quiet, IInv, StartInv, ConnInv, TurnInv, Recv
  PROVE  AudienceInv'
<1>1. fidx' = 0 /\ UNCHANGED <<clientes, owner>>
      /\ audience' = {d \in Clients : \E i \in Slots : clientes[i] \in FDs /\ owner[clientes[i]] = d}
  BY DEF Recv, TurnInv
<1>2. \A c \in audience' : ToCome(c)'
  BY <1>1, FdFacts DEF ToCome
<1>3. rpc' = "head" => msg'.from \notin Clients
  BY Received, PeerFacts
<1>4. rpc' # "head" => rpc' = "forward"
  BY Received
<1>5. QED
  BY <1>2, <1>3, <1>4 DEF AudienceInv, EveryoneHears

LEMMA AudienceStep ==
  ASSUME Quiet, IInv, StartInv, ConnInv, TurnInv, AudienceInv, [Next]_vars
  PROVE  AudienceInv'
<1>1. SUFFICES ASSUME ~Forward, ~Recv PROVE AudienceInv'
  BY AudienceForward, AudienceRecv
<1>2. got' = got
  BY <1>1, GotStays
<1>3. gone \subseteq gone'
  BY DEF Next, Main, AcceptThread, ReceiveThread, Terminal, Listen,
     SpawnAccept, SpawnReceive, LocalSocket, Connect, Wait, AcceptLoop, Accept, Insert, Notify, WakeUp,
     ReceiveLoop, Build, Select, Scan, Recv, RecvClosed, ClearSlot, Forward, Join, Say, Leave, Drain, vars
<1>4. ASSUME rpc' = "forward"
      PROVE  \A c \in audience' \ (gone' \cup {msg'.from}) : Has(c, msg)' \/ ToCome(c)'
  <2>1. UNCHANGED <<rpc, fidx, msg, audience>> /\ rpc = "forward" /\ ~RecvClosed /\ ~ClearSlot
    BY <1>1, <1>4, OnlyRecvReads
  <2>2. ASSUME NEW i \in Slots, clientes[i] # 0
        PROVE  clientes'[i] = clientes[i] /\ owner'[clientes[i]] = owner[clientes[i]]
    <3>1. clientes'[i] = clientes[i]
      BY <2>1, <2>2, SlotsStay
    <3>2. clientes[i] \in FDs /\ owner[clientes[i]] \in Conns
      BY <2>1, <2>2, UsedSlot
    <3>3. QED
      BY <2>1, <3>1, <3>2, OwnersStay
  <2>3. \A c \in audience : ToCome(c) => ToCome(c)'
    BY <2>1, <2>2 DEF ToCome
  <2>4. \A c \in audience : Has(c, msg) => Has(c, msg)'
    BY <1>2, <2>1 DEF Has
  <2>5. QED
    BY <1>3, <2>1, <2>3, <2>4 DEF AudienceInv
<1>5. EveryoneHears'
  <2>1. SUFFICES ASSUME rpc' = "head", msg'.from \in Clients PROVE EveryoneHears'
    BY DEF EveryoneHears
  <2>2. msg' # NoEntry
    BY <2>1, PeerFacts DEF NoEntry
  <2>3. rpc = "head" /\ UNCHANGED <<msg, audience>>
    BY <1>1, <2>1, <2>2 DEF Next, Main, AcceptThread, ReceiveThread, Terminal, Listen,
     SpawnAccept, SpawnReceive, LocalSocket, Connect, Wait, AcceptLoop, Accept, Insert, Notify, WakeUp,
     ReceiveLoop, Build, Turn, Select, Scan, RecvClosed, ClearSlot, Join, Say, Leave, Drain, vars, TurnInv
  <2>4. QED
    BY <1>2, <1>3, <2>1, <2>3 DEF AudienceInv, EveryoneHears
<1>6. QED
  BY <1>4, <1>5 DEF AudienceInv

-----------------------------------------------------------------------------
(* The notices that wake get_msg().                                        *)

\* A notice is coming or there.
Pending == apc = "notify" \/ taken[Peer] < said[Peer]

\* The slots the set for select() was built from: one that holds a newcomer the
\* set misses was filled since, so its notice has not been received.
Covered(i) == clientes[i] # 0 /\ ~Watched(i) => Pending /\ clientes[i] # PeerFd

\* The local connection is the first to be stored and stays in its slot.
PeerSlot == \E i \in Slots : clientes[i] = PeerFd

WakeInv ==
  /\ apc # "insert" => aidx = 0
  /\ apc \in {"insert", "notify"} => ~Calm
  /\ apc = "insert" /\ client_sock = PeerFd => aidx = 0 /\ \A i \in Slots : clientes[i] = 0
  /\ ~Calm => (apc = "insert" /\ client_sock = PeerFd) \/ PeerSlot
  /\ rpc \notin {"off", "sleep"} => PeerSlot
  /\ rpc = "closed" => clientes[ridx] # PeerFd
  /\ rpc = "build" => \A i \in Slots : i < ridx => Covered(i)
  /\ rpc = "select" => \A i \in Slots : Covered(i)

LEMMA WakeInit == Init => WakeInv
BY DEF Init, WakeInv, Calm

\* The calm does not come back.
LEMMA CalmEnds ==
  ASSUME Quiet, IInv, StartInv, ~Calm, [Next]_vars
  PROVE  ~Calm'
<1>1. mpc = "join" /\ backlog \in Seq(Conns) /\ \A k \in DOMAIN backlog : backlog[k] # Peer
  BY DEF Calm, StartInv, IInv, TypeOK, KernelTypeOK
<1>2. mpc' = "join"
  BY <1>1 DEF Next, Main, AcceptThread, ReceiveThread, Terminal, Listen,
     SpawnAccept, SpawnReceive, LocalSocket, Connect, Wait, AcceptLoop, Accept, Insert, Notify, WakeUp,
     ReceiveLoop, Build, Select, Scan, Recv, RecvClosed, ClearSlot, Forward, Join, Say, Leave, Drain, vars
<1>3. \/ UNCHANGED backlog
      \/ \E c \in Clients : backlog' = Append(backlog, c)
      \/ backlog # << >> /\ backlog' = Tail(backlog)
  BY <1>1 DEF Next, Main, AcceptThread, ReceiveThread, Terminal, Listen,
     SpawnAccept, SpawnReceive, LocalSocket, Connect, Wait, AcceptLoop, Accept, Insert, Notify, WakeUp,
     ReceiveLoop, Build, Select, Scan, Recv, RecvClosed, ClearSlot, Forward, Join, Say, Leave, Drain, vars
<1>4. \A k \in DOMAIN backlog' : backlog'[k] # Peer
  <2>1. CASE \E c \in Clients : backlog' = Append(backlog, c)
    BY <1>1, <2>1, AppendFacts, PeerFacts
  <2>2. CASE backlog # << >> /\ backlog' = Tail(backlog)
    <3>1. \A k \in DOMAIN backlog' : k + 1 \in DOMAIN backlog /\ backlog'[k] = backlog[k + 1]
      BY <1>1, <2>2
    <3>2. QED
      BY <1>1, <3>1
  <2>3. QED
    BY <1>1, <1>3, <2>1, <2>2
<1>5. SUFFICES ASSUME backlog' = <<Peer>> PROVE FALSE
  BY <1>2 DEF Calm
<1>6. 1 \in DOMAIN backlog' /\ backlog'[1] = Peer
  BY <1>5
<1>7. QED
  BY <1>4, <1>6

\* What accept() gives accept_conn(): the local connection when nobody else is
\* there, and afterwards never its descriptor.
LEMMA Accepted ==
  ASSUME Quiet, IInv, StartInv, Accept, [Next]_vars
  PROVE  /\ ~Calm'
         /\ \/ apc' = "notify" /\ ~Calm /\ UNCHANGED client_sock
            \/ apc' = "insert" /\ (client_sock' = PeerFd <=> Calm)
<1>1. backlog \in Seq(Conns) /\ owner \in [FDs -> Conns \cup {"free", "master", "local"}]
  BY DEF IInv, TypeOK, KernelTypeOK
<1>2. CASE backlog # << >> /\ FdsExhausted /\ apc' = "notify" /\ UNCHANGED <<client_sock, kernelVars>>
  <2>1. ~Calm
    BY <1>2, OwnFds DEF FdsExhausted, StartInv, PeerFd
  <2>2. mpc' = mpc
    BY DEF Accept
  <2>3. QED
    BY <1>2, <2>1, <2>2 DEF Calm
<1>3. ASSUME NEW f \in FDs, backlog # << >>, IsLowestFree(f), apc' = "insert", client_sock' = f,
             backlog' = Tail(backlog)
      PROVE  ~Calm' /\ (f = PeerFd <=> Calm)
  <2>1. mpc = "join" /\ mpc' = mpc /\ owner[LocalFd] = "local" /\ owner[MasterFd] = "master"
    BY <1>3 DEF Accept, StartInv
  <2>2. CASE Calm
    <3>1. f = PeerFd
      BY <1>3, <2>1, <2>2, OwnFds DEF StartInv, IsLowestFree, FDs, MasterFd, LocalFd, PeerFd
    <3>2. backlog = <<Peer>>
      BY <2>1, <2>2 DEF Calm
    <3>3. backlog' = << >>
      BY <1>3, <3>2
    <3>4. QED
      BY <2>1, <2>2, <3>1, <3>3 DEF Calm
  <2>3. CASE ~Calm
    <3>1. owner[PeerFd] = Peer
      BY <2>3 DEF StartInv
    <3>2. f # PeerFd
      BY <1>3, <3>1, OwnerFacts DEF IsLowestFree
    <3>3. QED
      BY <2>3, <3>2, CalmEnds
  <2>4. QED
    BY <2>2, <2>3
<1>4. QED
  BY <1>2, <1>3 DEF Accept, Quiet

\* Pending notices stay pending while get_msg() builds its set and waits.
LEMMA PendingStays ==
  ASSUME Quiet, IInv, StartInv, SaidInv, WakeInv, Pending, [Next]_vars, ~Recv
  PROVE  Pending'
<1>1. taken[Peer] \in Nat /\ said[Peer] \in Nat /\ taken[Peer] <= said[Peer] /\ said \in [Conns -> Nat]
  BY PeerFacts DEF IInv, TypeOK, TrafficTypeOK, SaidInv
<1>2. taken' = taken
  BY DEF Next, Main, AcceptThread, ReceiveThread, Terminal, Listen,
     SpawnAccept, SpawnReceive, LocalSocket, Connect, Wait, AcceptLoop, Accept, Insert, Notify, WakeUp,
     ReceiveLoop, Build, Select, Scan, RecvClosed, ClearSlot, Forward, Join, Say, Leave, Drain, vars
<1>3. CASE Notify
  <2>1. mpc = "join" /\ LocalOwner = "local"
    BY <1>3, OwnFds DEF Notify, WakeInv, Calm, StartInv, LocalOwner
  <2>2. said'[Peer] = said[Peer] + 1
    BY <1>1, <1>3, <2>1, PeerFacts, OwnerFacts DEF Notify
  <2>3. QED
    BY <1>1, <1>2, <2>2 DEF Pending
<1>4. CASE ~Notify
  <2>1. said'[Peer] = said[Peer]
    <3>1. CASE UNCHANGED said
      BY <3>1
    <3>2. CASE \E c \in Clients : Say(c)
      BY <1>1, <3>2, PeerFacts DEF Say
    <3>3. QED
      BY <1>4, <3>1, <3>2 DEF Next, Main, AcceptThread, ReceiveThread, Terminal, Listen,
        SpawnAccept, SpawnReceive, LocalSocket, Connect, Wait, AcceptLoop, Accept, Insert, WakeUp,
        ReceiveLoop, Build, Select, Scan, Recv, RecvClosed, ClearSlot, Forward, Join, Leave, Drain, vars
  <2>2. apc = "notify" => apc' = "notify"
    BY <1>4 DEF Next, Main, AcceptThread, ReceiveThread, Terminal, Listen,
        SpawnAccept, SpawnReceive, LocalSocket, Connect, Wait, AcceptLoop, Accept, Insert, WakeUp,
        ReceiveLoop, Build, Select, Scan, Recv, RecvClosed, ClearSlot, Forward, Join, Say, Leave, Drain,
        vars, WakeInv, Calm
  <2>3. QED
    BY <1>2, <2>1, <2>2 DEF Pending
<1>5. QED
  BY <1>3, <1>4

\* Only accept() ends the calm.
LEMMA CalmStays ==
  ASSUME Quiet, IInv, StartInv, Calm, [Next]_vars, ~Accept
  PROVE  Calm'
<1>1. CASE LocalSocket
  BY <1>1, OwnFds DEF LocalSocket, FdsExhausted, StartInv, Calm, PeerFd, Quiet
<1>2. CASE Connect
  BY <1>2 DEF Connect, StartInv, Calm, Quiet
<1>3. CASE \E c \in Clients : Join(c)
  <2>1. mpc = "join" /\ Peer \notin {backlog[k] : k \in DOMAIN backlog}
    BY <1>3 DEF Join, Quiet
  <2>2. backlog = <<Peer>>
    BY <2>1 DEF Calm
  <2>3. 1 \in DOMAIN backlog /\ backlog[1] = Peer
    BY <2>2
  <2>4. QED
    BY <2>1, <2>3
<1>4. CASE (mpc' = mpc \/ mpc' # "join") /\ UNCHANGED backlog
  BY <1>4 DEF Calm
<1>5. QED
  BY <1>1, <1>2, <1>3, <1>4 DEF Next, Main, AcceptThread, ReceiveThread, Terminal, Listen, OnFails, Quiet,
     SpawnAccept, SpawnReceive, Wait, AcceptLoop, Insert, Notify, WakeUp, ReceiveLoop, Build, Select,
     Scan, Recv, RecvClosed, ClearSlot, Forward, Say, Leave, Drain, vars

LEMMA PeerSlotStays ==
  ASSUME Quiet, IInv, WakeInv, PeerSlot, [Next]_vars
  PROVE  PeerSlot'
<1>1. PICK i \in Slots : clientes[i] = PeerFd
  BY DEF PeerSlot
<1>2. clientes[i] # 0
  BY <1>1 DEF PeerFd
<1>3. CASE ClearSlot
  <2>1. rpc = "closed" /\ clientes' = [clientes EXCEPT ![ridx] = 0] /\ i # ridx
    BY <1>1, <1>3 DEF ClearSlot, WakeInv
  <2>2. QED
    BY <1>1, <2>1 DEF IInv, TypeOK, ServerTypeOK, PeerSlot
<1>4. CASE ~ClearSlot
  BY <1>1, <1>2, <1>4, SlotsStay DEF PeerSlot
<1>5. QED
  BY <1>3, <1>4

LEMMA CoveredStays ==
  ASSUME Quiet, IInv, StartInv, SaidInv, WakeInv, rpc \in {"build", "select"}, [Next]_vars,
         readfds \subseteq readfds', NEW i \in Slots, Covered(i)
  PROVE  Covered(i)'
<1>1. ~ClearSlot /\ ~Recv
  BY DEF ClearSlot, Recv
<1>2. CASE clientes[i] # 0
  BY <1>1, <1>2, SlotsStay, PendingStays DEF Covered, Watched
<1>3. CASE clientes[i] = 0 /\ clientes'[i] # 0
  <2>1. Insert
    BY <1>1, <1>3 DEF Next, Main, AcceptThread, ReceiveThread, Terminal, Listen,
      SpawnAccept, SpawnReceive, LocalSocket, Connect, Wait, AcceptLoop, Accept, Notify, WakeUp,
      ReceiveLoop, Build, Select, Scan, Recv, RecvClosed, Forward, Join, Say, Leave, Drain, vars
  <2>2. clientes'[i] = client_sock /\ apc = "insert" /\ apc' = "notify"
    BY <1>3, <2>1 DEF Insert, IInv, TypeOK, ServerTypeOK, AcceptTypeOK
  <2>3. client_sock # PeerFd
    <3>1. PICK j \in Slots : clientes[j] = PeerFd
      BY DEF WakeInv, PeerSlot
    <3>2. clientes[j] # 0
      BY <3>1 DEF PeerFd
    <3>3. QED
      BY <2>2, <3>2 DEF WakeInv
  <2>4. QED
    BY <2>2, <2>3 DEF Covered, Pending
<1>4. QED
  BY <1>2, <1>3 DEF Covered

LEMMA WakeStep ==
  ASSUME Quiet, SleepSuffices, IInv, StartInv, ConnInv, TurnInv, SaidInv, WakeInv, [Next]_vars
  PROVE  WakeInv'
<1>1. apc' # "insert" => aidx' = 0
  BY DEF Next, Main, AcceptThread, ReceiveThread, Terminal, Listen, SpawnAccept, SpawnReceive,
     LocalSocket, Connect, Wait, AcceptLoop, Accept, Insert, Turn, Notify, WakeUp, ReceiveLoop, Build,
     Select, Scan, Recv, RecvClosed, ClearSlot, Forward, Join, Say, Leave, Drain, vars, WakeInv, Calm
<1>2. ASSUME apc' \in {"insert", "notify"} PROVE ~Calm'
  <2>1. CASE Accept
    BY <2>1, Accepted
  <2>2. CASE ~Accept
    <3>1. apc \in {"insert", "notify"}
      BY <1>2, <2>2 DEF Next, Main, AcceptThread, ReceiveThread, Terminal, Listen, SpawnAccept, SpawnReceive,
        LocalSocket, Connect, Wait, AcceptLoop, Insert, Turn, Notify, WakeUp, ReceiveLoop, Build,
        Select, Scan, Recv, RecvClosed, ClearSlot, Forward, Join, Say, Leave, Drain, vars
    <3>2. QED
      BY <3>1, CalmEnds DEF WakeInv
  <2>3. QED
    BY <2>1, <2>2
<1>3. ASSUME apc' = "insert", client_sock' = PeerFd
      PROVE  aidx' = 0 /\ \A i \in Slots : clientes'[i] = 0
  <2>1. CASE Accept
    <3>1. Calm
      BY <1>3, <2>1, Accepted
    <3>2. UNCHANGED <<aidx, clientes>> /\ apc = "accept"
      BY <2>1 DEF Accept
    <3>3. QED
      BY <3>1, <3>2 DEF WakeInv, StartInv
  <2>2. CASE ~Accept
    <3>1. apc = "insert" /\ client_sock = PeerFd
      BY <1>3, <2>2, InsertStays
    <3>2. aidx = 0 /\ (\A i \in Slots : clientes[i] = 0) /\ aidx \in Slots
      BY <3>1 DEF WakeInv, IInv, TypeOK, AcceptTypeOK
    <3>3. ~Insert
      BY <1>3, <3>2 DEF Insert
    <3>4. aidx' = aidx /\ (clientes' = clientes \/ clientes' = [clientes EXCEPT ![ridx] = 0])
      BY <2>2, <3>1, <3>3 DEF Next, Main, AcceptThread, ReceiveThread, Terminal, Listen, SpawnAccept, SpawnReceive,
        LocalSocket, Connect, Wait, AcceptLoop, Notify, WakeUp, ReceiveLoop, Build,
        Select, Scan, Recv, RecvClosed, ClearSlot, Forward, Join, Say, Leave, Drain, vars
    <3>5. QED
      BY <3>2, <3>4 DEF IInv, TypeOK, ServerTypeOK
  <2>3. QED
    BY <2>1, <2>2
<1>4. ASSUME ~Calm' PROVE (apc' = "insert" /\ client_sock' = PeerFd) \/ PeerSlot'
  <2>1. CASE Calm
    <3>1. Accept
      BY <1>4, <2>1, CalmStays
    <3>2. QED
      BY <2>1, <3>1, Accepted
  <2>2. CASE PeerSlot
    BY <2>2, PeerSlotStays
  <2>3. CASE apc = "insert" /\ client_sock = PeerFd
    <3>1. aidx = 0 /\ (\A i \in Slots : clientes[i] = 0) /\ aidx \in Slots
      BY <2>3 DEF WakeInv, IInv, TypeOK, AcceptTypeOK
    <3>2. CASE Insert
      <4>1. clientes' = [clientes EXCEPT ![aidx] = PeerFd]
        BY <2>3, <3>1, <3>2 DEF Insert
      <4>2. QED
        BY <3>1, <4>1 DEF IInv, TypeOK, ServerTypeOK, PeerSlot
    <3>3. CASE ~Insert
      BY <2>3, <3>3 DEF Next, Main, AcceptThread, ReceiveThread, Terminal, Listen, SpawnAccept, SpawnReceive,
        LocalSocket, Connect, Wait, AcceptLoop, Accept, Notify, WakeUp, ReceiveLoop, Build,
        Select, Scan, Recv, RecvClosed, ClearSlot, Forward, Join, Say, Leave, Drain, vars, WakeInv, Calm
    <3>4. QED
      BY <3>2, <3>3
  <2>4. QED
    BY <2>1, <2>2, <2>3 DEF WakeInv
<1>5. ASSUME rpc' \notin {"off", "sleep"} PROVE PeerSlot'
  <2>1. CASE rpc \notin {"off", "sleep"}
    BY <2>1, PeerSlotStays DEF WakeInv
  <2>2. CASE rpc \in {"off", "sleep"}
    <3>1. WakeUp
      BY <1>5, <2>2 DEF Next, Main, AcceptThread, ReceiveThread, Terminal, Listen, SpawnAccept, SpawnReceive,
        LocalSocket, Connect, Wait, AcceptLoop, Accept, Insert, Notify, ReceiveLoop, Build,
        Select, Scan, Recv, RecvClosed, ClearSlot, Forward, Join, Say, Leave, Drain, vars
    <3>2. mpc = "join" /\ is_on /\ StartedUp
      BY <3>1 DEF WakeUp, StartedUp, StartInv
    <3>3. ~Calm
      <4>1. SUFFICES ASSUME backlog = <<Peer>> PROVE FALSE
        BY <3>2 DEF Calm
      <4>2. 1 \in DOMAIN backlog /\ backlog[1] = Peer
        BY <4>1
      <4>3. QED
        BY <3>2, <4>2 DEF StartedUp
    <3>4. owner[PeerFd] = Peer
      BY <3>3 DEF StartInv
    <3>5. PeerSlot
      BY <3>2, <3>3, <3>4 DEF WakeInv, StartedUp
    <3>6. QED
      BY <3>5, PeerSlotStays
  <2>3. QED
    BY <2>1, <2>2
<1>6. ASSUME rpc' = "closed" PROVE clientes'[ridx'] # PeerFd
  <2>1. CASE RecvClosed
    <3>1. /\ ridx \in Slots /\ clientes[ridx] # 0 /\ rpc = "recv" /\ UNCHANGED <<ridx, clientes>>
          /\ owner[clientes[ridx]] \in Clients
      BY <2>1 DEF RecvClosed, IInv, TypeOK, ReceiveTypeOK, TrafficTypeOK, SlotInv, SlotInUse
    <3>2. QED
      BY <3>1, UsedSlot, PeerFacts
  <2>2. CASE ~RecvClosed
    <3>1. rpc = "closed" /\ ridx' = ridx /\ ~ClearSlot
      BY <1>6, <2>2 DEF Next, Main, AcceptThread, ReceiveThread, Terminal, Listen, SpawnAccept, SpawnReceive,
        LocalSocket, Connect, Wait, AcceptLoop, Accept, Insert, Notify, WakeUp, ReceiveLoop, Build, Turn,
        Select, Scan, Recv, ClearSlot, Forward, Join, Say, Leave, Drain, vars
    <3>2. ridx \in Slots /\ clientes[ridx] # 0
      BY <3>1 DEF IInv, TypeOK, ReceiveTypeOK, SlotInv, SlotInUse
    <3>3. QED
      BY <3>1, <3>2, SlotsStay DEF WakeInv
  <2>3. QED
    BY <2>1, <2>2
<1>7. CASE Build
  <2>1. /\ rpc = "build" /\ clientes' = clientes /\ ridx \in Slots /\ ridx \in Nat
        /\ readfds' = readfds \cup ({clientes[ridx]} \cap FDs)
        /\ \/ ridx' = ridx + 1 /\ rpc' = "build"
           \/ ridx + 1 = MAX_CLIENTS /\ rpc' = "select"
    BY <1>7, FdFacts DEF Build, Turn, IInv, TypeOK, ReceiveTypeOK
  <2>2. \A i \in Slots : i < ridx => Covered(i)'
    BY <2>1, CoveredStays DEF WakeInv
  <2>3. clientes'[ridx] # 0 => clientes'[ridx] \in readfds'
    BY <2>1 DEF IInv, TypeOK, ServerTypeOK
  <2>4. \A i \in Slots : i < ridx + 1 => Covered(i)'
    <3>1. \A i \in Slots : i < ridx + 1 => i < ridx \/ i = ridx
      BY <2>1, FdFacts
    <3>2. ASSUME NEW i \in Slots, i = ridx PROVE Covered(i)'
      BY <2>3, <3>2 DEF Covered, Watched
    <3>3. QED
      BY <2>2, <3>1, <3>2
  <2>5. \A i \in Slots : i < MAX_CLIENTS
    BY SizeAssumption DEF Slots
  <2>6. QED
    BY <1>1, <1>2, <1>3, <1>4, <1>5, <1>6, <2>1, <2>4, <2>5 DEF WakeInv
<1>8. CASE ~Build
  <2>1. ASSUME rpc' \in {"build", "select"}
        PROVE  \/ rpc' = "build" /\ ridx' = 0
               \/ UNCHANGED <<rpc, ridx, readfds>>
    BY <1>8, <2>1 DEF Next, Main, AcceptThread, ReceiveThread, Terminal, Listen, SpawnAccept, SpawnReceive,
      LocalSocket, Connect, Wait, AcceptLoop, Accept, Insert, Notify, WakeUp, ReceiveLoop, Turn,
      Select, Scan, Recv, RecvClosed, ClearSlot, Forward, Join, Say, Leave, Drain, vars, TurnInv
  <2>2. \A i \in Slots : ~(i < 0)
    BY FdFacts
  <2>3. /\ rpc' = "build" => \A i \in Slots : i < ridx' => Covered(i)'
        /\ rpc' = "select" => \A i \in Slots : Covered(i)'
    BY <2>1, <2>2, CoveredStays DEF WakeInv
  <2>4. QED
    BY <1>1, <1>2, <1>3, <1>4, <1>5, <1>6, <2>3 DEF WakeInv
<1>9. QED
  BY <1>7, <1>8

-----------------------------------------------------------------------------
RoomInv == IInv /\ StartInv /\ ConnInv /\ TurnInv /\ HeardInv /\ SaidInv /\ AudienceInv

LEMMA RoomInvariance == ASSUME Quiet PROVE Spec => []RoomInv
<1>1. Init => RoomInv
  BY InitInv, StartInit, ConnInit, TurnInit, HeardInit, SaidInit, AudienceInit DEF RoomInv
<1>2. RoomInv /\ [Next]_vars => RoomInv'
  BY StepInv, StartStep, ConnStep, TurnStep, HeardStep, SaidStep, AudienceStep DEF RoomInv
<1>3. QED
  BY <1>1, <1>2, PTL DEF Spec

LEMMA WakeInvariance == ASSUME Quiet, SleepSuffices PROVE Spec => []WakeInv
<1>1. Init => WakeInv
  BY WakeInit
<1>2. RoomInv /\ WakeInv /\ [Next]_vars => WakeInv'
  BY WakeStep DEF RoomInv
<1>3. QED
  BY <1>1, <1>2, RoomInvariance, PTL DEF Spec

\* When get_msg() is through with a client's message, every other client that
\* was in a slot when it was received and has not left has been sent it: the
\* slots it has still to come to hold them, whatever accept_conn() stores
\* behind or before it.
THEOREM HearsAll == ASSUME Quiet PROVE Spec => []EveryoneHears
<1>1. RoomInv => EveryoneHears
  BY DEF RoomInv, AudienceInv
<1>2. QED
  BY <1>1, RoomInvariance, PTL

\* get_msg() is never left in select() with a set that misses a connection: the
\* notice is on its way to the local connection, which the set always has.  This
\* needs a sleep(2) that outlasts on(), and a local connection whose descriptor
\* select() looks at.
THEOREM NoWakeupLost ==
  ASSUME Quiet, SleepSuffices, NFDS > 5 PROVE Spec => []NoLostWakeup
<1>1. RoomInv /\ WakeInv => NoLostWakeup
  <2>1. SUFFICES ASSUME RoomInv, WakeInv, rpc = "select", NEW i \in Slots, clientes[i] # 0, ~Watched(i)
                 PROVE  \E f \in readfds : /\ owner[f] = Peer /\ f < NFDS
                                           /\ apc = "notify" \/ Readable(f)
    BY DEF NoLostWakeup
  <2>2. Pending
    BY <2>1 DEF WakeInv, Covered
  <2>3. PICK j \in Slots : clientes[j] = PeerFd
    BY <2>1 DEF WakeInv, PeerSlot
  <2>4. PeerFd \in readfds
    BY <2>1, <2>3 DEF WakeInv, Covered, Watched, PeerFd
  <2>5. owner[PeerFd] = Peer
    BY <2>1, <2>3, UsedSlot DEF RoomInv, PeerFd
  <2>6. PeerFd < NFDS
    BY SizeAssumption DEF PeerFd
  <2>7. apc = "notify" \/ Readable(PeerFd)
    BY <2>2, <2>5, PeerFacts DEF Pending, Readable
  <2>8. QED
    BY <2>4, <2>5, <2>6, <2>7
<1>2. QED
  BY <1>1, RoomInvariance, WakeInvariance, PTL

\* get_msg() and accept_conn() never wait for each other: the local connection is
\* in every set that get_msg() waits for, and readable while a notice is unread.
THEOREM ThreadsNeverWaitForEachOther ==
  ASSUME Quiet, SleepSuffices, NFDS > 5 PROVE Spec => []NoMutualWait
<1>1. RoomInv /\ WakeInv => NoMutualWait
  <2>1. SUFFICES ASSUME RoomInv, WakeInv, rpc = "select", taken[Peer] < said[Peer]
                 PROVE  PeerFd \in Ready
    BY DEF NoMutualWait
  <2>2. PICK j \in Slots : clientes[j] = PeerFd
    BY <2>1 DEF WakeInv, PeerSlot
  <2>3. PeerFd \in readfds
    BY <2>1, <2>2 DEF WakeInv, Covered, Watched, PeerFd
  <2>4. owner[PeerFd] = Peer
    BY <2>1, <2>2, UsedSlot DEF RoomInv, PeerFd
  <2>5. PeerFd < NFDS
    BY SizeAssumption DEF PeerFd
  <2>6. QED
    BY <2>1, <2>3, <2>4, <2>5, PeerFacts DEF Ready, Readable
<1>2. QED
  BY <1>1, RoomInvariance, WakeInvariance, PTL

-----------------------------------------------------------------------------
(* The server implements the chat room.                                    *)

LEMMA RoomTypes ==
  ASSUME IInv
  PROVE  /\ got \in [Conns -> Seq(Entry)] /\ taken \in [Conns -> Nat] /\ said \in [Conns -> Nat]
         /\ log \in Seq(Entry) /\ Clients \subseteq Conns
BY OwnerFacts DEF IInv, TypeOK, TrafficTypeOK, HistoryTypeOK

\* What a client said enters the conversation; a notice does not.
LEMMA RecvPosts ==
  ASSUME Quiet, RoomInv, Recv
  PROVE  [Room!Next]_Room!roomVars
<1> DEFINE c == owner[clientes[ridx]]
<1>1. PICK n : /\ n \in taken[c] + 1 .. said[c]
               /\ taken' = [taken EXCEPT ![c] = n] /\ msg' = [from |-> c, upto |-> n]
  BY Received DEF RoomInv
<1>2. got' = got /\ c \in Conns
  BY Received DEF RoomInv, Recv
<1>3. CASE c = Peer /\ log' = log
  <2>1. \A d \in Clients : taken'[d] = taken[d]
    BY <1>1, <1>3, RoomTypes, PeerFacts DEF RoomInv
  <2>2. QED
    BY <1>2, <1>3, <2>1 DEF Room!roomVars
<1>4. CASE c \in Clients /\ log' = Append(log, msg')
  <2>1. n \in Nat /\ n > taken[c] /\ n <= said[c] /\ said[c] <= MaxSay
        /\ taken[c] \in Nat /\ said[c] \in Nat
    BY <1>1, <1>4, RoomTypes DEF RoomInv, SaidInv
  <2>2. n \in 1 .. MaxSay
    BY <2>1, SizeAssumption
  <2>3. [d \in Clients |-> taken'[d]] = [[d \in Clients |-> taken[d]] EXCEPT ![c] = n]
    BY <1>1, <1>4, RoomTypes DEF RoomInv
  <2>4. Room!Post(c, n)
    BY <1>1, <1>2, <1>4, <2>1, <2>3 DEF Room!Post
  <2>5. QED
    BY <1>4, <2>2, <2>4 DEF Room!Next
<1>5. QED
  BY <1>3, <1>4, Received DEF RoomInv

\* A message that goes to a client is the newest, and new to it.
LEMMA ForwardHears ==
  ASSUME Quiet, RoomInv, Forward
  PROVE  [Room!Next]_Room!roomVars
<1> DEFINE c == owner[clientes[fidx]]
<1>1. UNCHANGED <<log, taken>> /\ fidx \in Slots /\ rpc = "forward"
  BY Forwarded DEF RoomInv, Forward
<1>2. CASE UNCHANGED got
  BY <1>1, <1>2 DEF Room!roomVars
<1>3. CASE /\ clientes[fidx] # 0 /\ c \in Clients \ {msg.from}
           /\ got' = [got EXCEPT ![c] = Append(@, msg)]
  <2>1. log # << >> /\ msg = log[Len(log)]
    BY <1>1 DEF RoomInv, TurnInv
  <2>2. ~Has(c, msg)
    BY <1>1, <1>3, FdFacts DEF RoomInv, HeardInv
  <2>3. got[c] \in Seq(Entry) /\ DOMAIN got[c] = 1 .. Len(got[c])
    BY <1>3, RoomTypes DEF RoomInv
  <2>4. [d \in Clients |-> got'[d]] = [[d \in Clients |-> got[d]] EXCEPT ![c] = Append(@, msg)]
    BY <1>3, RoomTypes DEF RoomInv
  <2>5. PICK m \in Clients : m = c
    BY <1>3
  <2>6. Room!Hear(m)
    BY <1>1, <1>3, <2>1, <2>2, <2>3, <2>4, <2>5 DEF Room!Hear, Has
  <2>7. QED
    BY <2>6 DEF Room!Next
<1>4. QED
  BY <1>2, <1>3, Forwarded DEF RoomInv

\* Each step of the server is a step of the room, or none.
LEMMA RoomStep ==
  ASSUME Quiet, RoomInv, [Next]_vars
  PROVE  [Room!Next]_Room!roomVars
<1>1. CASE Recv
  BY <1>1, RecvPosts
<1>2. CASE Forward
  BY <1>2, ForwardHears
<1>3. CASE ~Recv /\ ~Forward
  <2>1. got' = got /\ taken' = taken
    BY <1>3, GotStays, OnlyRecvReads DEF RoomInv
  <2>2. log' = log
    BY <1>3 DEF Next, Main, AcceptThread, ReceiveThread, Terminal, Listen, SpawnAccept, SpawnReceive,
      LocalSocket, Connect, Wait, AcceptLoop, Accept, Insert, Notify, WakeUp, ReceiveLoop, Build,
      Select, Scan, RecvClosed, ClearSlot, Join, Say, Leave, Drain, vars
  <2>3. QED
    BY <2>1, <2>2 DEF Room!roomVars
<1>4. QED
  BY <1>1, <1>2, <1>3

\* What the terminals are sent is one conversation: lines of other clients in
\* the order they were received, nothing twice, nothing older after something
\* newer, and no notice of the local connection, for every number of clients.
THEOREM RoomImplemented == ASSUME Quiet PROVE Spec => IsChatRoom
<1>1. Init => Room!Init
  BY PeerFacts DEF Init, Room!Init
<1>2. RoomInv /\ [Next]_vars => [Room!Next]_Room!roomVars
  BY RoomStep
<1>3. QED
  BY <1>1, <1>2, RoomInvariance, PTL DEF Spec, IsChatRoom, Room!Spec
=============================================================================
