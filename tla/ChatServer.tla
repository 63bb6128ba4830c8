----------------------------- MODULE ChatServer -----------------------------
(***************************************************************************)
(* The chat server of src/port-forwarder: class Server, its three threads  *)
(* and the part of the sockets' behaviour it depends on.                   *)
(*                                                                         *)
(*   main     Server::on() then Server::wait()                             *)
(*   accept   Server::accept_conn(): puts each connection in a slot        *)
(*   receive  Server::get_msg(): select, recv, forward                     *)
(*                                                                         *)
(* The threads share clientes[], local_sock and is_on with no lock, so     *)
(* there is one action per access to clientes[].  on() also connects the   *)
(* server to itself: accept_conn() writes a notice to that local           *)
(* connection after every accept, which is what takes get_msg() out of a   *)
(* select() that does not watch the new descriptor yet.                    *)
(***************************************************************************)
EXTENDS Integers, Sequences

CONSTANTS
  Clients,        \* the connections the environment opens, each once
  Peer,           \* the server's end of its own local connection
  MAX_CLIENTS,    \* slots of clientes[]
  NFDS,           \* first argument of select(), MAX_CLIENTS + 1 in the code
  MaxFd,          \* the largest descriptor the process may own
  MaxSay,         \* bound: lines a client types
  MaxNotices,     \* bound: notices after which accept() stops failing
  SendBuf,        \* messages a client may leave unread before send() blocks
  NoticeBuf,      \* the same for notices on the local connection
  Faults,         \* the calls that may fail
  EarlyClients,   \* may clients connect before the local connection is accepted
  SleepSuffices   \* does sleep(2) of get_msg() outlast on()

Conns == Clients \cup {Peer}
FDs   == 3 .. MaxFd          \* 0, 1, 2 are the standard streams
Slots == 0 .. MAX_CLIENTS - 1

ASSUME PeerAssumption == Peer \notin Clients
ASSUME OwnerAssumption == Conns \cap {"free", "master", "local"} = {}
ASSUME SizeAssumption ==
  /\ MAX_CLIENTS \in Nat \ {0}
  /\ NFDS \in Nat
  /\ MaxFd \in Nat
  /\ MaxSay \in Nat /\ MaxNotices \in Nat
  /\ SendBuf \in Nat /\ NoticeBuf \in Nat
ASSUME SwitchAssumption ==
  /\ EarlyClients \in BOOLEAN
  /\ SleepSuffices \in BOOLEAN
  /\ Faults \subseteq {"listen", "thread", "socket", "connect", "accept"}

VARIABLES
  \* the members of Server the threads share
  clientes,     \* [Slots -> descriptor], 0 marks a free slot
  local_sock,   \* the client end of the local connection
  is_on,
  \* main
  mpc,
  \* accept_conn()
  apc, aidx, client_sock,
  \* get_msg(): ridx and fidx are the loop variables i and j
  rpc, ridx, fidx, readfds, msg,
  \* the kernel
  owner,        \* [FDs -> what the descriptor names]
  backlog,      \* connections not accepted yet
  alive,        \* FALSE once the process has ended
  \* the connections
  joined, gone, \* clients that have connected, and those that have closed
  broken,       \* closed ones whose end has answered with a reset
  said, taken,  \* lines written to the server, and lines it has received
  got,          \* what the server has sent to each, oldest first
  unread,       \* how much of it still fills the send buffer
  \* history
  log,          \* the messages get_msg() forwarded
  audience      \* the clients in a slot when msg was received

mainVars    == <<mpc>>
acceptVars  == <<apc, aidx, client_sock>>
receiveVars == <<rpc, ridx, fidx, readfds, msg>>
kernelVars  == <<owner, backlog>>
outVars     == <<broken, got, unread>>      \* what a send() may change
inVars      == <<joined, gone, said>>       \* what the environment changes
historyVars == <<log, audience>>
vars == <<clientes, local_sock, is_on, mpc, apc, aidx, client_sock, rpc, ridx,
          fidx, readfds, msg, owner, backlog, alive, joined, gone, broken, said,
          taken, got, unread, log, audience>>

Entry   == [from : Conns, upto : Nat]
NoEntry == [from |-> Peer, upto |-> 0]

Init ==
  /\ clientes = [i \in Slots |-> 0]
  /\ local_sock = 0
  /\ is_on = FALSE
  /\ mpc = "listen"
  /\ apc = "off" /\ aidx = 0 /\ client_sock = 0
  /\ rpc = "off" /\ ridx = 0 /\ fidx = 0 /\ readfds = {} /\ msg = NoEntry
  /\ owner = [f \in FDs |-> "free"]
  /\ backlog = << >>
  /\ alive = TRUE
  /\ joined = {} /\ gone = {} /\ broken = {}
  /\ said = [c \in Conns |-> 0]
  /\ taken = [c \in Conns |-> 0]
  /\ got = [c \in Conns |-> << >>]
  /\ unread = [c \in Conns |-> 0]
  /\ log = << >> /\ audience = {}

-----------------------------------------------------------------------------
(* The kernel's part. *)

\* The descriptor that socket() or accept() returns.
IsLowestFree(f) ==
  /\ owner[f] = "free"
  /\ \A g \in FDs : owner[g] = "free" => f <= g

FdsExhausted == \A f \in FDs : owner[f] # "free"

\* recv() on f would not block: lines are pending, or the other end closed.
Readable(f) ==
  /\ owner[f] \in Conns
  /\ taken[owner[f]] < said[owner[f]] \/ owner[f] \in gone

\* send() of one message to the other end of connection c.  It blocks while the
\* buffer is full.  The first send to a closed end is answered with a reset; one
\* that finds the reset raises SIGPIPE, which nobody ignores.
SendTo(c, entry) ==
  \/ /\ c \notin gone
     /\ unread[c] < SendBuf
     /\ got' = [got EXCEPT ![c] = Append(@, entry)]
     /\ unread' = [unread EXCEPT ![c] = @ + 1]
     /\ UNCHANGED <<broken, alive>>
  \/ /\ c \in gone
     /\ broken' = broken \cup {c}
     /\ alive' \in IF c \in broken THEN BOOLEAN ELSE {TRUE}
     /\ UNCHANGED <<got, unread>>

-----------------------------------------------------------------------------
(* One turn of a loop over the slots: i goes on, or out of scope at the end. *)
Turn(i, nexti, nextpc, again, done) ==
  \/ i + 1 < MAX_CLIENTS /\ nexti = i + 1 /\ nextpc = again
  \/ i + 1 = MAX_CLIENTS /\ nexti = 0     /\ nextpc = done

-----------------------------------------------------------------------------
(* main: Server::on(), one action per call that can fail. *)

OnFails ==
  /\ is_on' = FALSE
  /\ mpc' = "join"

\* socket(), bind(), listen().  A descriptor that a failed bind() leaves open is
\* never used.
Listen ==
  /\ mpc = "listen"
  /\ \/ /\ is_on' = TRUE
        /\ mpc' = "spawn_accept"
        /\ \E f \in FDs : IsLowestFree(f) /\ owner' = [owner EXCEPT ![f] = "master"]
     \/ "listen" \in Faults /\ OnFails /\ UNCHANGED owner
  /\ UNCHANGED <<clientes, local_sock, acceptVars, receiveVars, backlog, alive,
                 inVars, outVars, taken, historyVars>>

SpawnAccept ==
  /\ mpc = "spawn_accept"
  /\ \/ apc' = "head" /\ mpc' = "spawn_receive" /\ UNCHANGED is_on
     \/ "thread" \in Faults /\ OnFails /\ UNCHANGED apc
  /\ UNCHANGED <<clientes, local_sock, aidx, client_sock, receiveVars,
                 kernelVars, alive, inVars, outVars, taken, historyVars>>

SpawnReceive ==
  /\ mpc = "spawn_receive"
  /\ \/ rpc' = "sleep" /\ mpc' = "socket" /\ UNCHANGED is_on
     \/ "thread" \in Faults /\ OnFails /\ UNCHANGED rpc
  /\ UNCHANGED <<clientes, local_sock, acceptVars, ridx, fidx, readfds, msg,
                 kernelVars, alive, inVars, outVars, taken, historyVars>>

LocalSocket ==
  /\ mpc = "socket"
  /\ \/ \E f \in FDs :
          /\ IsLowestFree(f)
          /\ local_sock' = f
          /\ owner' = [owner EXCEPT ![f] = "local"]
          /\ mpc' = "connect"
          /\ UNCHANGED is_on
     \/ /\ "socket" \in Faults \/ FdsExhausted
        /\ local_sock' = -1
        /\ OnFails
        /\ UNCHANGED owner
  /\ UNCHANGED <<clientes, acceptVars, receiveVars, backlog, alive, inVars,
                 outVars, taken, historyVars>>

\* connect() waits while the backlog is full.
Connect ==
  /\ mpc = "connect"
  /\ \/ /\ Len(backlog) <= MAX_CLIENTS
        /\ backlog' = Append(backlog, Peer)
        /\ mpc' = "join"
        /\ UNCHANGED <<is_on, owner>>
     \/ /\ "connect" \in Faults
        /\ OnFails
        /\ owner' = [owner EXCEPT ![local_sock] = "free"]
        /\ UNCHANGED backlog
  /\ UNCHANGED <<clientes, local_sock, acceptVars, receiveVars, alive, inVars,
                 outVars, taken, historyVars>>

\* Server::wait() joins both threads, then main returns; joining a thread that
\* was never created ends the process as well.
Wait ==
  /\ mpc = "join"
  /\ apc = "off" \/ (apc = "exit" /\ rpc \in {"off", "exit"})
  /\ alive' = FALSE
  /\ UNCHANGED <<clientes, local_sock, is_on, mainVars, acceptVars, receiveVars,
                 kernelVars, inVars, outVars, taken, historyVars>>

Main == Listen \/ SpawnAccept \/ SpawnReceive \/ LocalSocket \/ Connect \/ Wait

-----------------------------------------------------------------------------
(* accept: Server::accept_conn(). *)

AcceptLoop ==
  /\ apc = "head"
  /\ apc' = IF is_on THEN "accept" ELSE "exit"
  /\ UNCHANGED <<clientes, local_sock, is_on, mainVars, aidx, client_sock,
                 receiveVars, kernelVars, alive, inVars, outVars, taken,
                 historyVars>>

\* accept() returns the oldest connection, or an error.
Accept ==
  /\ apc = "accept"
  /\ \/ \E f \in FDs :
          /\ backlog # << >>
          /\ IsLowestFree(f)
          /\ owner' = [owner EXCEPT ![f] = Head(backlog)]
          /\ backlog' = Tail(backlog)
          /\ client_sock' = f
          /\ apc' = "insert"
     \/ /\ "accept" \in Faults \/ (backlog # << >> /\ FdsExhausted)
        /\ said[Peer] < MaxNotices
        /\ apc' = "notify"
        /\ UNCHANGED <<client_sock, kernelVars>>
  /\ UNCHANGED <<aidx, clientes, local_sock, is_on, mainVars, receiveVars, alive,
                 inVars, outVars, taken, historyVars>>

\* (mutant) No notice after a connection is stored.
InsertSilent ==
  /\ apc = "insert"
  /\ \/ /\ clientes[aidx] = 0
        /\ clientes' = [clientes EXCEPT ![aidx] = client_sock]
        /\ apc' = "head"
        /\ aidx' = 0
     \/ /\ clientes[aidx] # 0
        /\ Turn(aidx, aidx', apc', "insert", "head")
        /\ UNCHANGED clientes
  /\ UNCHANGED <<local_sock, is_on, mainVars, client_sock, receiveVars,
                 kernelVars, alive, inVars, outVars, taken, historyVars>>

\* (mutant) The break after the assignment is missing.
InsertNoBreak ==
  /\ apc = "insert"
  /\ clientes' = IF clientes[aidx] = 0 THEN [clientes EXCEPT ![aidx] = client_sock]
                                       ELSE clientes
  /\ Turn(aidx, aidx', apc', "insert", "notify")
  /\ UNCHANGED <<local_sock, is_on, mainVars, client_sock, receiveVars,
                 kernelVars, alive, inVars, outVars, taken, historyVars>>

\* One turn of the loop that looks for a free slot.  A connection that finds
\* none keeps its descriptor and is in no slot.
Insert ==
  /\ apc = "insert"
  /\ \/ /\ clientes[aidx] = 0
        /\ clientes' = [clientes EXCEPT ![aidx] = client_sock]
        /\ apc' = "notify"
        /\ aidx' = 0
     \/ /\ clientes[aidx] # 0
        /\ Turn(aidx, aidx', apc', "insert", "notify")
        /\ UNCHANGED clientes
  /\ UNCHANGED <<local_sock, is_on, mainVars, client_sock, receiveVars,
                 kernelVars, alive, inVars, outVars, taken, historyVars>>

\* send_local_msg(): what the send does depends on what local_sock names by
\* now.  An unconnected socket raises SIGPIPE, and after a failed connect() the
\* number may already belong to a client.  It blocks while the local connection
\* is full of notices that get_msg() has not read.
LocalOwner == IF local_sock \in FDs THEN owner[local_sock] ELSE "free"

Notify ==
  /\ apc = "notify"
  /\ apc' = "head"
  /\ \/ /\ LocalOwner = "local" /\ mpc = "join"
        /\ said[Peer] - taken[Peer] < NoticeBuf
        /\ said' = [said EXCEPT ![Peer] = @ + 1]
        /\ UNCHANGED <<alive, outVars>>
     \/ /\ LocalOwner = "local" /\ mpc # "join"
        /\ alive' = FALSE
        /\ UNCHANGED <<said, outVars>>
     \/ LocalOwner \in Conns /\ SendTo(LocalOwner, NoEntry) /\ UNCHANGED said
     \/ LocalOwner \in {"free", "master"} /\ UNCHANGED <<said, alive, outVars>>
  /\ UNCHANGED <<clientes, local_sock, is_on, mainVars, aidx, client_sock,
                 receiveVars, kernelVars, joined, gone, taken, historyVars>>

AcceptThread == AcceptLoop \/ Accept \/ Insert \/ Notify

-----------------------------------------------------------------------------
(* receive: Server::get_msg(). *)

\* The local connection has gone through accept_conn(), or never will.
StartedUp ==
  /\ mpc = "join"
  /\ is_on => /\ \A k \in DOMAIN backlog : backlog[k] # Peer
              /\ ~(apc = "insert" /\ owner[client_sock] = Peer)

WakeUp ==
  /\ rpc = "sleep"
  /\ SleepSuffices => StartedUp
  /\ rpc' = "head"
  /\ UNCHANGED <<clientes, local_sock, is_on, mainVars, acceptVars, ridx, fidx,
                 readfds, msg, kernelVars, alive, inVars, outVars, taken,
                 historyVars>>

ReceiveLoop ==
  /\ rpc = "head"
  /\ \/ /\ is_on
        /\ rpc' = "build"
        /\ readfds' = {}
        /\ msg' = NoEntry
        /\ audience' = {}
     \/ ~is_on /\ rpc' = "exit" /\ UNCHANGED <<readfds, msg, audience>>
  /\ UNCHANGED <<clientes, local_sock, is_on, mainVars, acceptVars, ridx, fidx,
                 kernelVars, alive, inVars, outVars, taken, log>>

\* One turn of the loop that fills the set for select().
Build ==
  /\ rpc = "build"
  /\ readfds' = readfds \cup ({clientes[ridx]} \cap FDs)
  /\ Turn(ridx, ridx', rpc', "build", "select")
  /\ UNCHANGED <<clientes, local_sock, is_on, mainVars, acceptVars, fidx, msg,
                 kernelVars, alive, inVars, outVars, taken, historyVars>>

\* select() looks at the descriptors below NFDS only and waits for one of them.
ReadyDeaf == {f \in readfds \ {local_sock + 1} : f < NFDS /\ Readable(f)}  \* (mutant)
Ready == {f \in readfds : f < NFDS /\ Readable(f)}

Select ==
  /\ rpc = "select"
  /\ Ready # {}
  /\ readfds' = Ready
  /\ rpc' = "scan"
  /\ UNCHANGED <<clientes, local_sock, is_on, mainVars, acceptVars, ridx, fidx, msg,
                 kernelVars, alive, inVars, outVars, taken, historyVars>>

\* One turn of the loop that looks for a descriptor select() reported.
Scan ==
  /\ rpc = "scan"
  /\ \/ clientes[ridx] \in readfds /\ rpc' = "recv" /\ UNCHANGED ridx
     \/ clientes[ridx] \notin readfds /\ Turn(ridx, ridx', rpc', "scan", "head")
  /\ UNCHANGED <<clientes, local_sock, is_on, mainVars, acceptVars, fidx,
                 readfds, msg, kernelVars, alive, inVars, outVars, taken,
                 historyVars>>

\* recv() finds lines: one notice of the local connection (each fills the 256
\* bytes asked for), or any number of the lines a client has typed.  The slot
\* that holds local_sock + 1 is taken for the local connection: what it says is
\* printed, what any other slot says is to be forwarded.
Recv ==
  LET c == owner[clientes[ridx]] IN
  /\ rpc = "recv"
  /\ \E n \in taken[c] + 1 .. said[c] :
       /\ c = Peer => n = taken[c] + 1
       /\ taken' = [taken EXCEPT ![c] = n]
       /\ msg' = [from |-> c, upto |-> n]
       /\ \/ /\ clientes[ridx] = local_sock + 1
             /\ rpc' = "head"
             /\ ridx' = 0
             /\ UNCHANGED log
          \/ /\ clientes[ridx] # local_sock + 1
             /\ rpc' = "forward"
             /\ UNCHANGED ridx
             /\ log' = Append(log, msg')
  /\ audience' = {d \in Clients : \E i \in Slots : clientes[i] \in FDs /\ owner[clientes[i]] = d}
  /\ UNCHANGED <<clientes, local_sock, is_on, mainVars, acceptVars, fidx,
                 readfds, kernelVars, alive, inVars, outVars>>

\* (mutant) buffer_len = 0 is not taken for an end.
RecvClosedIgnored ==
  /\ rpc = "recv"
  /\ taken[owner[clientes[ridx]]] = said[owner[clientes[ridx]]]
  /\ rpc' = "head"
  /\ ridx' = 0
  /\ UNCHANGED <<clientes, local_sock, is_on, mainVars, acceptVars, fidx, readfds,
                 msg, kernelVars, alive, inVars, outVars, taken, historyVars>>

\* recv() finds the other end closed: the descriptor goes first,
RecvClosed ==
  LET f == clientes[ridx] IN
  /\ rpc = "recv"
  /\ owner[f] \in gone /\ taken[owner[f]] = said[owner[f]]
  /\ owner' = [owner EXCEPT ![f] = "free"]
  /\ rpc' = "closed"
  /\ UNCHANGED <<clientes, local_sock, is_on, mainVars, acceptVars, ridx, fidx,
                 readfds, msg, backlog, alive, inVars, outVars, taken,
                 historyVars>>

\* (mutant) The slot is marked -1.
ClearSlotMinusOne ==
  /\ rpc = "closed"
  /\ clientes' = [clientes EXCEPT ![ridx] = -1]
  /\ rpc' = "head"
  /\ ridx' = 0
  /\ UNCHANGED <<local_sock, is_on, mainVars, acceptVars, fidx, readfds, msg,
                 kernelVars, alive, inVars, outVars, taken, historyVars>>

\* (mutant) The slot is not cleared.
ClearSlotForgotten ==
  /\ rpc = "closed"
  /\ rpc' = "head"
  /\ ridx' = 0
  /\ UNCHANGED <<clientes, local_sock, is_on, mainVars, acceptVars, fidx, readfds,
                 msg, kernelVars, alive, inVars, outVars, taken, historyVars>>

\* (mutant) The break is missing: the scan of the old set goes on.
ClearSlotNoBreak ==
  /\ rpc = "closed"
  /\ clientes' = [clientes EXCEPT ![ridx] = 0]
  /\ Turn(ridx, ridx', rpc', "scan", "head")
  /\ UNCHANGED <<local_sock, is_on, mainVars, acceptVars, fidx, readfds, msg,
                 kernelVars, alive, inVars, outVars, taken, historyVars>>

\* and the slot after it.
ClearSlot ==
  /\ rpc = "closed"
  /\ clientes' = [clientes EXCEPT ![ridx] = 0]
  /\ rpc' = "head"
  /\ ridx' = 0
  /\ UNCHANGED <<local_sock, is_on, mainVars, acceptVars, fidx, readfds, msg,
                 kernelVars, alive, inVars, outVars, taken, historyVars>>

\* One turn of the loop that forwards msg to the other slots.
SkippedOffByOne(f) == f = clientes[ridx] \/ f = 0 \/ f = local_sock + 2    \* (mutant)
SkippedEcho(f) == f = 0 \/ f = local_sock + 1                              \* (mutant)
Skipped(f) == f = clientes[ridx] \/ f = 0 \/ f = local_sock + 1

Forward ==
  /\ rpc = "forward"
  /\ \/ Skipped(clientes[fidx]) /\ UNCHANGED <<alive, outVars>>
     \/ ~Skipped(clientes[fidx]) /\ SendTo(owner[clientes[fidx]], msg)
  /\ Turn(fidx, fidx', rpc', "forward", "head")
  /\ ridx' = IF rpc' = "head" THEN 0 ELSE ridx
  /\ UNCHANGED <<clientes, local_sock, is_on, mainVars, acceptVars, readfds,
                 msg, kernelVars, inVars, taken, historyVars>>

ReceiveThread ==
  \/ WakeUp \/ ReceiveLoop \/ Build \/ Select \/ Scan
  \/ Recv \/ RecvClosed \/ ClearSlot \/ Forward

-----------------------------------------------------------------------------
(* The terminals (outside the repository: telnet). *)

\* The kernel completes the handshake as soon as the server listens.
Join(c) ==
  /\ c \notin joined
  /\ mpc \notin {"listen", "spawn_accept"}
  /\ EarlyClients \/ (mpc = "join" /\ Peer \notin {backlog[k] : k \in DOMAIN backlog})
  /\ Len(backlog) <= MAX_CLIENTS
  /\ joined' = joined \cup {c}
  /\ backlog' = Append(backlog, c)
  /\ UNCHANGED <<clientes, local_sock, is_on, mainVars, acceptVars, receiveVars,
                 owner, alive, gone, said, outVars, taken, historyVars>>

Say(c) ==
  /\ c \in joined \ gone
  /\ said[c] < MaxSay
  /\ said' = [said EXCEPT ![c] = @ + 1]
  /\ UNCHANGED <<clientes, local_sock, is_on, mainVars, acceptVars, receiveVars,
                 kernelVars, alive, joined, gone, outVars, taken, historyVars>>

\* The client closes, or resets the connection.
Leave(c) ==
  /\ c \in joined \ gone
  /\ gone' = gone \cup {c}
  /\ broken' \in {broken, broken \cup {c}}
  /\ UNCHANGED <<clientes, local_sock, is_on, mainVars, acceptVars, receiveVars,
                 kernelVars, alive, joined, said, got, unread, taken,
                 historyVars>>

\* The client reads what it was sent.  Reading sooner makes a difference to
\* nobody, so it waits until the buffer is full.
Drain(c) ==
  /\ c \notin gone
  /\ unread[c] = SendBuf
  /\ unread' = [unread EXCEPT ![c] = 0]
  /\ UNCHANGED <<clientes, local_sock, is_on, mainVars, acceptVars, receiveVars,
                 kernelVars, alive, inVars, broken, got, taken, historyVars>>

Terminal(c) == Join(c) \/ Say(c) \/ Leave(c) \/ Drain(c)

Next ==
  /\ alive
  /\ Main \/ AcceptThread \/ ReceiveThread \/ \E c \in Clients : Terminal(c)

Spec == Init /\ [][Next]_vars

\* The scheduler runs every thread that can run, and terminals read what they
\* are sent.  Nobody has to connect, type or leave.
Fairness ==
  /\ WF_vars(alive /\ Main)
  /\ WF_vars(alive /\ AcceptThread)
  /\ WF_vars(alive /\ ReceiveThread)
  /\ \A c \in Clients : WF_vars(alive /\ Drain(c))

FairSpec == Spec /\ Fairness

\* A terminal that never stops typing.  When c has used its MaxSay line numbers
\* and they have all been received, the lines are numbered anew, with the
\* history of what has been sent: no guard of the server depends on either.
SayAgain(c) ==
  /\ c \in joined \ gone
  /\ said[c] = MaxSay /\ taken[c] = MaxSay
  /\ said' = [said EXCEPT ![c] = 1]
  /\ taken' = [taken EXCEPT ![c] = 0]
  /\ got' = [d \in Conns |-> << >>]
  /\ log' = << >>
  /\ UNCHANGED <<clientes, local_sock, is_on, mainVars, acceptVars, receiveVars,
                 kernelVars, alive, joined, gone, broken, unread, audience>>

EndlessNext == Next \/ (alive /\ \E c \in Clients : SayAgain(c))
EndlessSpec == Init /\ [][EndlessNext]_vars /\ Fairness

-----------------------------------------------------------------------------
ServerTypeOK ==
  /\ clientes \in [Slots -> FDs \cup {0}]
  /\ local_sock \in FDs \cup {-1, 0}
  /\ is_on \in BOOLEAN
  /\ mpc \in {"listen", "spawn_accept", "spawn_receive", "socket", "connect", "join"}

AcceptTypeOK ==
  /\ apc \in {"off", "head", "accept", "insert", "notify", "exit"}
  /\ aidx \in Slots
  /\ client_sock \in FDs \cup {0}

ReceiveTypeOK ==
  /\ rpc \in {"off", "sleep", "head", "build", "select", "scan", "recv", "closed",
              "forward", "exit"}
  /\ ridx \in Slots
  /\ fidx \in Slots
  /\ readfds \subseteq FDs
  /\ msg \in Entry

KernelTypeOK ==
  /\ owner \in [FDs -> Conns \cup {"free", "master", "local"}]
  /\ backlog \in Seq(Conns)
  /\ alive \in BOOLEAN

TrafficTypeOK ==
  /\ joined \subseteq Clients
  /\ gone \subseteq joined
  /\ broken \subseteq gone
  /\ said \in [Conns -> Nat]
  /\ taken \in [Conns -> Nat]
  /\ got \in [Conns -> Seq(Entry)]
  /\ unread \in [Conns -> Nat]

HistoryTypeOK ==
  /\ log \in Seq(Entry)
  /\ audience \subseteq Clients

TypeOK ==
  /\ ServerTypeOK /\ AcceptTypeOK /\ ReceiveTypeOK
  /\ KernelTypeOK /\ TrafficTypeOK /\ HistoryTypeOK

(* Safety. *)

\* get_msg() hands clientes[i] to select(), recv() and send() without asking
\* whether the descriptor is still open.  Every used slot names an open
\* connection, whatever the two threads do, except the slot get_msg() has just
\* closed and not cleared yet.
NoStaleSlot ==
  \A i \in Slots :
    clientes[i] # 0 /\ ~(rpc = "closed" /\ i = ridx) => owner[clientes[i]] \in Conns

\* close() comes before the slot is cleared, so accept_conn() may get the same
\* number again and store it in another slot.  Two slots never hold the same
\* descriptor except in that window: no message is forwarded twice.
OneSlotEach ==
  \A i, j \in Slots :
    i # j /\ clientes[i] = clientes[j] /\ clientes[i] # 0 => rpc = "closed" /\ ridx \in {i, j}

\* get_msg() reads blocking sockets, and compares with a set that select() filled
\* some steps ago while accept_conn() kept storing descriptors.  A recv() it
\* makes always has something to return, so one idle client cannot stop the room.
RecvNeverBlocks == rpc = "recv" => Readable(clientes[ridx])

\* While get_msg() waits in select() for a set that misses a connection stored
\* after the set was built, a notice is on its way to a local connection that
\* the set has: the wait ends and the next set has the newcomer.
Watched(i) == clientes[i] \in readfds

NoLostWakeup ==
  rpc = "select" /\ is_on /\ (\E i \in Slots : clientes[i] # 0 /\ ~Watched(i)) =>
    \E f \in readfds :
      /\ owner[f] = Peer /\ f < NFDS
      /\ apc = "notify" \/ Readable(f)

\* send() of a notice holds accept_conn() when get_msg() has not read the ones
\* before it, and select() holds get_msg() when it finds nothing to read.  The two
\* threads never wait for each other: an unread notice ends the select().
NoMutualWait == rpc = "select" /\ taken[Peer] < said[Peer] => Ready # {}

\* "forward the msg received to all the rest except by internal server and
\* sender" (server.cpp:182): when get_msg() is through with a client's message,
\* every other client that was in a slot when it was received and has not left
\* has been sent it.
EveryoneHears ==
  rpc = "head" /\ msg.from \in Clients =>
    \A c \in audience \ (gone \cup {msg.from}) : \E k \in DOMAIN got[c] : got[c][k] = msg

\* The server is a chat room: what clients are sent are lines of other clients,
\* nothing twice, nothing older than what they were sent before, and no notice
\* of the local connection.
Room == INSTANCE ChatRoom
          WITH Members <- Clients, MaxLine <- MaxSay,
               posted <- [c \in Clients |-> taken[c]],
               heard <- [c \in Clients |-> got[c]]

IsChatRoom == Room!Spec

(* Liveness.  Clients may type for ever (EndlessSpec). *)

InSlot(c, i) == clientes[i] \in FDs /\ owner[clientes[i]] = c

\* c is in a slot, under a number that select() looks at.
InRoom(c) == \E i \in Slots : InSlot(c, i) /\ clientes[i] < NFDS

\* get_msg() scans from slot 0 and reads one descriptor for each select(), the
\* first that is ready: it is about to read one in a slot before c's.
Overtaken(c) == rpc = "recv" /\ \E i \in Slots : ridx < i /\ InSlot(c, i)

\* A client in the room starves only behind slots before its own: either they
\* are read again and again for ever, as when a client there never stops typing,
\* or every line it types is received, unless the process has died.
LinesAreTaken ==
  \A c \in Clients :
    \/ []<>Overtaken(c)
    \/ \A n \in 1 .. MaxSay :
         (InRoom(c) /\ taken[c] < n /\ n <= said[c]) ~> (n <= taken[c] \/ ~alive)

\* The same of its end: a client that leaves gives its slot back, unless slots
\* before its own are read for ever.
SlotsComeBack ==
  \A c \in Clients :
    \/ []<>Overtaken(c)
    \/ (InRoom(c) /\ c \in gone) ~> (~InRoom(c) \/ ~alive)

\* accept_conn() is not held for ever in the send() of a notice: the local
\* connection is in the first slot, so get_msg() comes back to it and makes room
\* however much clients type.  (It is held for ever when accept() fails until the
\* buffer is full and has not yet accepted the local connection, and it may be
\* when a client got the first slot: nobody reads the local connection then.)
NoticesGoOut == apc = "notify" ~> (apc # "notify" \/ ~alive)

\* "You should be able to interect between different terminals as a chat room"
\* (README.txt:14): what a connected terminal types is received while it stays.
EveryTerminalIsHeard ==
  \A c \in Clients :
    taken[c] < said[c] ~> (taken[c] = said[c] \/ c \in gone \/ ~alive)
=============================================================================
