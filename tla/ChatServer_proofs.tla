------------------------- MODULE ChatServer_proofs -------------------------
(***************************************************************************)
(* Proofs about ChatServer for every number of clients, slots, descriptors *)
(* and messages, with any call of on() and accept() failing, with clients  *)
(* that connect at any time, and whether or not sleep(2) is long enough.   *)
(***************************************************************************)
EXTENDS ChatServer, TLAPS

USE DEF mainVars, acceptVars, receiveVars, kernelVars, outVars, inVars, historyVars

\* A slot that get_msg() is about to use is in use.
SlotInUse == rpc \in {"recv", "forward", "closed"} => clientes[ridx] # 0

\* The connection that accept_conn() is about to store is open and in no slot,
\* but perhaps in the one get_msg() is about to clear.
FreshInsert ==
  apc = "insert" =>
    /\ client_sock \in FDs
    /\ owner[client_sock] \in Conns
    /\ \A s \in Slots : clientes[s] = client_sock => rpc = "closed" /\ s = ridx

\* The socket that connect() may give back is the local one.
LocalOpen == mpc = "connect" => local_sock \in FDs /\ owner[local_sock] = "local"

\* get_msg() starts once on() has come to the thread.
StartOrder == mpc \in {"listen", "spawn_accept", "spawn_receive"} => rpc = "off"

\* What select() reported is still readable when it is read: nobody else reads,
\* and a descriptor is only given to a newcomer when it is free.
ReadyInv ==
  /\ rpc \in {"scan", "recv"} => \A f \in readfds : Readable(f)
  /\ rpc = "recv" => clientes[ridx] \in readfds

\* NoStaleSlot is not inductive alone: close() must not hit a descriptor that a
\* second slot or accept_conn() still holds.
SlotInv ==
  /\ NoStaleSlot /\ OneSlotEach /\ SlotInUse /\ FreshInsert
  /\ LocalOpen /\ StartOrder /\ ReadyInv

IInv == TypeOK /\ SlotInv

-----------------------------------------------------------------------------
(* Facts about the constants and the helpers. *)

\* Descriptors are positive and are not the marker of a free slot.
LEMMA FdFacts ==
  /\ FDs \subseteq Nat /\ 0 \notin FDs /\ -1 \notin FDs
  /\ 0 \in Slots /\ Slots \subseteq Nat
BY SizeAssumption DEF FDs, Slots

\* A loop over the slots stays in range.
LEMMA NextSlot == \A k \in Slots : k + 1 < MAX_CLIENTS => k + 1 \in Slots
BY SizeAssumption DEF Slots

\* What a descriptor names is told apart from the connections.
LEMMA OwnerFacts ==
  /\ Peer \in Conns /\ Clients \subseteq Conns
  /\ "free" \notin Conns /\ "master" \notin Conns /\ "local" \notin Conns
BY OwnerAssumption DEF Conns

LEMMA NoEntryType == NoEntry \in Entry
BY OwnerFacts DEF NoEntry, Entry

\* Reusing a descriptor that names no connection disturbs no slot.
LEMMA OwnerStep ==
  ASSUME TypeOK, NoStaleSlot, UNCHANGED <<clientes, rpc, ridx>>,
         NEW f \in FDs, owner[f] \notin Conns,
         NEW who, owner' = [owner EXCEPT ![f] = who]
  PROVE  NoStaleSlot'
BY FdFacts DEF TypeOK, ServerTypeOK, KernelTypeOK, NoStaleSlot

\* Nothing that leaves the slots, the descriptors and the two scans alone, and
\* only adds lines and departures, disturbs the slots.
LEMMA SlotFrame ==
  ASSUME SlotInv, TrafficTypeOK,
         UNCHANGED <<clientes, local_sock, mpc, client_sock, rpc, ridx, readfds,
                     owner, taken>>,
         apc' = "insert" => apc = "insert",
         gone \subseteq gone',
         \A c \in Conns : said'[c] \in Nat /\ said'[c] >= said[c]
  PROVE  SlotInv'
<1>1. NoStaleSlot' /\ OneSlotEach' /\ SlotInUse' /\ FreshInsert' /\ LocalOpen' /\ StartOrder'
  BY DEF SlotInv, NoStaleSlot, OneSlotEach, SlotInUse, FreshInsert, LocalOpen,
         StartOrder
<1>2. ASSUME NEW f, Readable(f) PROVE Readable(f)'
  BY <1>2 DEF Readable, TrafficTypeOK
<1>3. ReadyInv'
  BY <1>2 DEF SlotInv, ReadyInv
<1>4. QED
  BY <1>1, <1>3 DEF SlotInv

\* A send() keeps the types of what it changes.
LEMMA SendToType ==
  ASSUME TypeOK, NEW c \in Conns, NEW entry \in Entry, SendTo(c, entry),
         UNCHANGED <<joined, gone, said, taken>>
  PROVE  TrafficTypeOK' /\ alive' \in BOOLEAN
<1> USE DEF TypeOK, TrafficTypeOK, KernelTypeOK
<1>1. CASE UNCHANGED <<got, unread>> /\ c \in gone
  BY <1>1 DEF SendTo
<1>2. CASE c \notin gone
  <2>1. Append(got[c], entry) \in Seq(Entry) /\ unread[c] + 1 \in Nat
    OBVIOUS
  <2>2. /\ got' = [got EXCEPT ![c] = Append(@, entry)]
        /\ unread' = [unread EXCEPT ![c] = @ + 1]
        /\ UNCHANGED <<broken, alive>>
    BY <1>2 DEF SendTo
  <2>3. QED
    BY <2>1, <2>2
<1>3. QED
  BY <1>1, <1>2 DEF SendTo

-----------------------------------------------------------------------------
LEMMA InitInv == Init => IInv
<1> SUFFICES ASSUME Init PROVE IInv
  OBVIOUS
<1>1. TypeOK
  <2>1. ServerTypeOK /\ AcceptTypeOK
    BY FdFacts DEF Init, ServerTypeOK, AcceptTypeOK
  <2>2. ReceiveTypeOK
    BY NoEntryType, FdFacts DEF Init, ReceiveTypeOK
  <2>3. KernelTypeOK
    BY DEF Init, KernelTypeOK
  <2>4. TrafficTypeOK
    <3>1. << >> \in Seq(Entry)
      OBVIOUS
    <3>2. QED
      BY <3>1 DEF Init, TrafficTypeOK
  <2>5. HistoryTypeOK
    BY DEF Init, HistoryTypeOK
  <2>6. QED
    BY <2>1, <2>2, <2>3, <2>4, <2>5 DEF TypeOK
<1>2. SlotInv
  BY DEF Init, SlotInv, NoStaleSlot, OneSlotEach, SlotInUse, FreshInsert,
         LocalOpen, StartOrder, ReadyInv
<1>3. QED
  BY <1>1, <1>2 DEF IInv

-----------------------------------------------------------------------------
(* Steps: one lemma per action. *)

LEMMA ListenInv == IInv /\ Listen => IInv'
<1> SUFFICES ASSUME IInv, Listen PROVE IInv'
  OBVIOUS
<1> USE DEF IInv, TypeOK, Listen
<1>1. AcceptTypeOK' /\ ReceiveTypeOK' /\ TrafficTypeOK' /\ HistoryTypeOK'
  BY DEF AcceptTypeOK, ReceiveTypeOK, TrafficTypeOK, HistoryTypeOK
<1>2. ServerTypeOK'
  BY DEF OnFails, IsLowestFree, ServerTypeOK
<1>3. KernelTypeOK'
  BY DEF OnFails, IsLowestFree, KernelTypeOK
<1>4. SlotInv'
  <2>1. NoStaleSlot'
    <3>1. CASE UNCHANGED owner
      BY <3>1 DEF SlotInv, NoStaleSlot
    <3>2. CASE \E f \in FDs : IsLowestFree(f) /\ owner' = [owner EXCEPT ![f] = "master"]
      BY <3>2, OwnerStep, OwnerFacts DEF IsLowestFree, SlotInv
    <3>3. QED
      BY <3>1, <3>2 DEF OnFails, IsLowestFree
  <2>2. OneSlotEach' /\ SlotInUse' /\ FreshInsert' /\ LocalOpen' /\ StartOrder'
    BY FdFacts, OwnerFacts DEF ServerTypeOK, AcceptTypeOK, KernelTypeOK,
           SlotInv, NoStaleSlot, OneSlotEach, SlotInUse, FreshInsert,
           LocalOpen, StartOrder, OnFails, IsLowestFree
  <2>3. ReadyInv'
    BY FdFacts, OwnerFacts DEF ServerTypeOK, ReceiveTypeOK, KernelTypeOK,
           SlotInv, ReadyInv, Readable, StartOrder, LocalOpen, OnFails,
           IsLowestFree
  <2>4. QED
    BY <2>1, <2>2, <2>3 DEF SlotInv
<1>5. QED
  BY <1>1, <1>2, <1>3, <1>4

LEMMA SpawnAcceptInv == IInv /\ SpawnAccept => IInv'
<1> SUFFICES ASSUME IInv, SpawnAccept PROVE IInv'
  OBVIOUS
<1> USE DEF IInv, TypeOK, SpawnAccept
<1>1. ReceiveTypeOK' /\ KernelTypeOK' /\ TrafficTypeOK' /\ HistoryTypeOK'
  BY DEF ReceiveTypeOK, KernelTypeOK, TrafficTypeOK, HistoryTypeOK
<1>2. ServerTypeOK'
  BY DEF OnFails, ServerTypeOK
<1>3. AcceptTypeOK'
  BY DEF OnFails, AcceptTypeOK
<1>4. SlotInv'
  BY FdFacts, OwnerFacts DEF ServerTypeOK, AcceptTypeOK, ReceiveTypeOK,
         KernelTypeOK, SlotInv, NoStaleSlot, OneSlotEach, SlotInUse,
         FreshInsert, LocalOpen, StartOrder, ReadyInv, Readable, OnFails
<1>5. QED
  BY <1>1, <1>2, <1>3, <1>4

LEMMA SpawnReceiveInv == IInv /\ SpawnReceive => IInv'
<1> SUFFICES ASSUME IInv, SpawnReceive PROVE IInv'
  OBVIOUS
<1> USE DEF IInv, TypeOK, SpawnReceive
<1>1. AcceptTypeOK' /\ KernelTypeOK' /\ TrafficTypeOK' /\ HistoryTypeOK'
  BY DEF AcceptTypeOK, KernelTypeOK, TrafficTypeOK, HistoryTypeOK
<1>2. ServerTypeOK'
  BY DEF OnFails, ServerTypeOK
<1>3. ReceiveTypeOK'
  BY DEF OnFails, ReceiveTypeOK
<1>4. SlotInv'
  BY FdFacts, OwnerFacts DEF ServerTypeOK, AcceptTypeOK, ReceiveTypeOK,
         KernelTypeOK, SlotInv, NoStaleSlot, OneSlotEach, SlotInUse,
         FreshInsert, LocalOpen, StartOrder, ReadyInv, Readable, OnFails
<1>5. QED
  BY <1>1, <1>2, <1>3, <1>4

LEMMA LocalSocketInv == IInv /\ LocalSocket => IInv'
<1> SUFFICES ASSUME IInv, LocalSocket PROVE IInv'
  OBVIOUS
<1> USE DEF IInv, TypeOK, LocalSocket
<1>1. AcceptTypeOK' /\ ReceiveTypeOK' /\ TrafficTypeOK' /\ HistoryTypeOK'
  BY DEF AcceptTypeOK, ReceiveTypeOK, TrafficTypeOK, HistoryTypeOK
<1>2. ServerTypeOK'
  BY DEF OnFails, IsLowestFree, ServerTypeOK
<1>3. KernelTypeOK'
  BY DEF OnFails, IsLowestFree, KernelTypeOK
<1>4. SlotInv'
  <2>1. NoStaleSlot'
    <3>1. CASE UNCHANGED owner
      BY <3>1 DEF SlotInv, NoStaleSlot
    <3>2. CASE \E f \in FDs : IsLowestFree(f) /\ owner' = [owner EXCEPT ![f] = "local"]
      BY <3>2, OwnerStep, OwnerFacts DEF IsLowestFree, SlotInv
    <3>3. QED
      BY <3>1, <3>2 DEF OnFails, IsLowestFree
  <2>2. OneSlotEach' /\ SlotInUse' /\ FreshInsert' /\ LocalOpen' /\ StartOrder'
    BY FdFacts, OwnerFacts DEF ServerTypeOK, AcceptTypeOK, KernelTypeOK,
           SlotInv, NoStaleSlot, OneSlotEach, SlotInUse, FreshInsert,
           LocalOpen, StartOrder, OnFails, IsLowestFree
  <2>3. ReadyInv'
    BY FdFacts, OwnerFacts DEF ServerTypeOK, ReceiveTypeOK, KernelTypeOK,
           SlotInv, ReadyInv, Readable, StartOrder, LocalOpen, OnFails,
           IsLowestFree
  <2>4. QED
    BY <2>1, <2>2, <2>3 DEF SlotInv
<1>5. QED
  BY <1>1, <1>2, <1>3, <1>4

LEMMA ConnectInv == IInv /\ Connect => IInv'
<1> SUFFICES ASSUME IInv, Connect PROVE IInv'
  OBVIOUS
<1> USE DEF IInv, TypeOK, Connect
<1>1. AcceptTypeOK' /\ ReceiveTypeOK' /\ TrafficTypeOK' /\ HistoryTypeOK'
  BY DEF AcceptTypeOK, ReceiveTypeOK, TrafficTypeOK, HistoryTypeOK
<1>2. ServerTypeOK'
  BY DEF OnFails, ServerTypeOK
<1>3. KernelTypeOK'
  BY OwnerFacts DEF OnFails, KernelTypeOK
<1>4. SlotInv'
  <2>1. NoStaleSlot'
    <3>1. CASE UNCHANGED owner
      BY <3>1 DEF SlotInv, NoStaleSlot
    <3>2. CASE mpc = "connect" /\ owner' = [owner EXCEPT ![local_sock] = "free"]
      BY <3>2, OwnerStep, OwnerFacts DEF SlotInv, LocalOpen
    <3>3. QED
      BY <3>1, <3>2 DEF OnFails
  <2>2. OneSlotEach' /\ SlotInUse' /\ FreshInsert' /\ LocalOpen' /\ StartOrder'
    BY FdFacts, OwnerFacts DEF ServerTypeOK, AcceptTypeOK, KernelTypeOK,
           SlotInv, NoStaleSlot, OneSlotEach, SlotInUse, FreshInsert,
           LocalOpen, StartOrder, OnFails
  <2>3. ReadyInv'
    BY FdFacts, OwnerFacts DEF ServerTypeOK, ReceiveTypeOK, KernelTypeOK,
           SlotInv, ReadyInv, Readable, StartOrder, LocalOpen, OnFails
  <2>4. QED
    BY <2>1, <2>2, <2>3 DEF SlotInv
<1>5. QED
  BY <1>1, <1>2, <1>3, <1>4

LEMMA WaitInv == IInv /\ Wait => IInv'
<1> SUFFICES ASSUME IInv, Wait PROVE IInv'
  OBVIOUS
<1> USE DEF IInv, TypeOK, Wait
<1>1. ServerTypeOK' /\ AcceptTypeOK' /\ ReceiveTypeOK' /\ TrafficTypeOK'
      /\ HistoryTypeOK'
  BY DEF ServerTypeOK, AcceptTypeOK, ReceiveTypeOK, TrafficTypeOK,
         HistoryTypeOK
<1>2. KernelTypeOK'
  BY DEF KernelTypeOK
<1>3. SlotInv'
  BY FdFacts, OwnerFacts DEF ServerTypeOK, AcceptTypeOK, ReceiveTypeOK,
         KernelTypeOK, SlotInv, NoStaleSlot, OneSlotEach, SlotInUse,
         FreshInsert, LocalOpen, StartOrder, ReadyInv, Readable
<1>4. QED
  BY <1>1, <1>2, <1>3

LEMMA AcceptLoopInv == IInv /\ AcceptLoop => IInv'
<1> SUFFICES ASSUME IInv, AcceptLoop PROVE IInv'
  OBVIOUS
<1> USE DEF IInv, TypeOK, AcceptLoop
<1>1. ServerTypeOK' /\ ReceiveTypeOK' /\ KernelTypeOK' /\ TrafficTypeOK'
      /\ HistoryTypeOK'
  BY DEF ServerTypeOK, ReceiveTypeOK, KernelTypeOK, TrafficTypeOK,
         HistoryTypeOK
<1>2. AcceptTypeOK'
  BY DEF AcceptTypeOK
<1>3. SlotInv'
  BY FdFacts, OwnerFacts DEF ServerTypeOK, AcceptTypeOK, ReceiveTypeOK,
         KernelTypeOK, SlotInv, NoStaleSlot, OneSlotEach, SlotInUse,
         FreshInsert, LocalOpen, StartOrder, ReadyInv, Readable
<1>4. QED
  BY <1>1, <1>2, <1>3

LEMMA AcceptInv == IInv /\ Accept => IInv'
<1> SUFFICES ASSUME IInv, Accept PROVE IInv'
  OBVIOUS
<1> USE DEF IInv, TypeOK, Accept
<1>1. ServerTypeOK' /\ ReceiveTypeOK' /\ TrafficTypeOK' /\ HistoryTypeOK'
  BY DEF ServerTypeOK, ReceiveTypeOK, TrafficTypeOK, HistoryTypeOK
<1>2. AcceptTypeOK'
  BY DEF IsLowestFree, AcceptTypeOK
<1>3. KernelTypeOK'
  BY DEF IsLowestFree, KernelTypeOK
<1>4. SlotInv'
  <2>1. NoStaleSlot'
    <3>1. CASE UNCHANGED owner
      BY <3>1 DEF SlotInv, NoStaleSlot
    <3>2. CASE \E f \in FDs : IsLowestFree(f) /\ owner' = [owner EXCEPT ![f] = Head(backlog)]
      BY <3>2, OwnerStep, OwnerFacts DEF IsLowestFree, SlotInv
    <3>3. QED
      BY <3>1, <3>2 DEF IsLowestFree
  <2>2. OneSlotEach' /\ SlotInUse' /\ FreshInsert' /\ LocalOpen' /\ StartOrder'
    BY FdFacts, OwnerFacts DEF ServerTypeOK, AcceptTypeOK, KernelTypeOK,
           SlotInv, NoStaleSlot, OneSlotEach, SlotInUse, FreshInsert,
           LocalOpen, StartOrder, IsLowestFree
  <2>3. ReadyInv'
    BY FdFacts, OwnerFacts DEF ServerTypeOK, ReceiveTypeOK, KernelTypeOK,
           SlotInv, ReadyInv, Readable, StartOrder, LocalOpen, IsLowestFree
  <2>4. QED
    BY <2>1, <2>2, <2>3 DEF SlotInv
<1>5. QED
  BY <1>1, <1>2, <1>3, <1>4

LEMMA InsertInv == IInv /\ Insert => IInv'
<1> SUFFICES ASSUME IInv, Insert PROVE IInv'
  OBVIOUS
<1> USE DEF IInv, TypeOK, Insert
<1>1. ReceiveTypeOK' /\ KernelTypeOK' /\ TrafficTypeOK' /\ HistoryTypeOK'
  BY DEF ReceiveTypeOK, KernelTypeOK, TrafficTypeOK, HistoryTypeOK
<1>2. ServerTypeOK'
  BY DEF SlotInv, FreshInsert, ServerTypeOK
<1>3. AcceptTypeOK'
  BY NextSlot, FdFacts DEF Turn, AcceptTypeOK
<1>4. SlotInv'
  BY FdFacts, OwnerFacts DEF ServerTypeOK, AcceptTypeOK, ReceiveTypeOK,
         KernelTypeOK, SlotInv, NoStaleSlot, OneSlotEach, SlotInUse,
         FreshInsert, LocalOpen, StartOrder, ReadyInv, Readable, Turn
<1>5. QED
  BY <1>1, <1>2, <1>3, <1>4

LEMMA NotifyInv == IInv /\ Notify => IInv'
<1> SUFFICES ASSUME IInv, Notify PROVE IInv'
  OBVIOUS
<1> USE DEF IInv, TypeOK, Notify
<1>1. ServerTypeOK' /\ ReceiveTypeOK' /\ HistoryTypeOK'
  BY DEF ServerTypeOK, ReceiveTypeOK, HistoryTypeOK
<1>2. AcceptTypeOK'
  BY DEF SendTo, LocalOwner, AcceptTypeOK
<1>3. KernelTypeOK'
  BY DEF SendTo, LocalOwner, KernelTypeOK
<1>4. TrafficTypeOK'
  <2>1. CASE LocalOwner \in Conns /\ SendTo(LocalOwner, NoEntry) /\ UNCHANGED said
    BY <2>1, SendToType, NoEntryType
  <2>2. CASE UNCHANGED outVars /\ UNCHANGED said
    BY <2>2 DEF TrafficTypeOK
  <2>3. CASE UNCHANGED outVars /\ said' = [said EXCEPT ![Peer] = @ + 1]
    BY <2>3, OwnerFacts DEF TrafficTypeOK
  <2>4. QED
    BY <2>1, <2>2, <2>3
<1>5. SlotInv'
  <2>1. \A c \in Conns : said'[c] \in Nat /\ said'[c] >= said[c]
    BY OwnerFacts DEF TrafficTypeOK
  <2>2. apc' # "insert" /\ UNCHANGED <<clientes, local_sock, mpc, client_sock, rpc,
                                       ridx, readfds, owner, taken, gone>>
    OBVIOUS
  <2>3. QED
    BY <2>1, <2>2, SlotFrame
<1>6. QED
  BY <1>1, <1>2, <1>3, <1>4, <1>5

LEMMA WakeUpInv == IInv /\ WakeUp => IInv'
<1> SUFFICES ASSUME IInv, WakeUp PROVE IInv'
  OBVIOUS
<1> USE DEF IInv, TypeOK, WakeUp
<1>1. ServerTypeOK' /\ AcceptTypeOK' /\ KernelTypeOK' /\ TrafficTypeOK'
      /\ HistoryTypeOK'
  BY DEF ServerTypeOK, AcceptTypeOK, KernelTypeOK, TrafficTypeOK,
         HistoryTypeOK
<1>2. ReceiveTypeOK'
  BY DEF ReceiveTypeOK
<1>3. SlotInv'
  BY FdFacts, OwnerFacts DEF ServerTypeOK, AcceptTypeOK, ReceiveTypeOK,
         KernelTypeOK, SlotInv, NoStaleSlot, OneSlotEach, SlotInUse,
         FreshInsert, LocalOpen, StartOrder, ReadyInv, Readable
<1>4. QED
  BY <1>1, <1>2, <1>3

LEMMA ReceiveLoopInv == IInv /\ ReceiveLoop => IInv'
<1> SUFFICES ASSUME IInv, ReceiveLoop PROVE IInv'
  OBVIOUS
<1> USE DEF IInv, TypeOK, ReceiveLoop
<1>1. ServerTypeOK' /\ AcceptTypeOK' /\ KernelTypeOK' /\ TrafficTypeOK'
  BY DEF ServerTypeOK, AcceptTypeOK, KernelTypeOK, TrafficTypeOK
<1>2. ReceiveTypeOK'
  BY NoEntryType DEF ReceiveTypeOK
<1>3. HistoryTypeOK'
  BY DEF HistoryTypeOK
<1>4. SlotInv'
  BY FdFacts, OwnerFacts DEF ServerTypeOK, AcceptTypeOK, ReceiveTypeOK,
         KernelTypeOK, SlotInv, NoStaleSlot, OneSlotEach, SlotInUse,
         FreshInsert, LocalOpen, StartOrder, ReadyInv, Readable
<1>5. QED
  BY <1>1, <1>2, <1>3, <1>4

LEMMA BuildInv == IInv /\ Build => IInv'
<1> SUFFICES ASSUME IInv, Build PROVE IInv'
  OBVIOUS
<1> USE DEF IInv, TypeOK, Build
<1>1. ServerTypeOK' /\ AcceptTypeOK' /\ KernelTypeOK' /\ TrafficTypeOK'
      /\ HistoryTypeOK'
  BY DEF ServerTypeOK, AcceptTypeOK, KernelTypeOK, TrafficTypeOK,
         HistoryTypeOK
<1>2. ReceiveTypeOK'
  BY NextSlot, FdFacts DEF Turn, ReceiveTypeOK
<1>3. SlotInv'
  BY FdFacts, OwnerFacts DEF ServerTypeOK, AcceptTypeOK, ReceiveTypeOK,
         KernelTypeOK, SlotInv, NoStaleSlot, OneSlotEach, SlotInUse,
         FreshInsert, LocalOpen, StartOrder, ReadyInv, Readable, Turn
<1>4. QED
  BY <1>1, <1>2, <1>3

LEMMA SelectInv == IInv /\ Select => IInv'
<1> SUFFICES ASSUME IInv, Select PROVE IInv'
  OBVIOUS
<1> USE DEF IInv, TypeOK, Select
<1>1. ServerTypeOK' /\ AcceptTypeOK' /\ KernelTypeOK' /\ TrafficTypeOK'
      /\ HistoryTypeOK'
  BY DEF ServerTypeOK, AcceptTypeOK, KernelTypeOK, TrafficTypeOK,
         HistoryTypeOK
<1>2. ReceiveTypeOK'
  BY DEF Ready, ReceiveTypeOK
<1>3. SlotInv'
  BY FdFacts, OwnerFacts DEF ServerTypeOK, AcceptTypeOK, ReceiveTypeOK,
         KernelTypeOK, SlotInv, NoStaleSlot, OneSlotEach, SlotInUse,
         FreshInsert, LocalOpen, StartOrder, ReadyInv, Readable, Ready
<1>4. QED
  BY <1>1, <1>2, <1>3

LEMMA ScanInv == IInv /\ Scan => IInv'
<1> SUFFICES ASSUME IInv, Scan PROVE IInv'
  OBVIOUS
<1> USE DEF IInv, TypeOK, Scan
<1>1. ServerTypeOK' /\ AcceptTypeOK' /\ KernelTypeOK' /\ TrafficTypeOK'
      /\ HistoryTypeOK'
  BY DEF ServerTypeOK, AcceptTypeOK, KernelTypeOK, TrafficTypeOK,
         HistoryTypeOK
<1>2. ReceiveTypeOK'
  BY NextSlot, FdFacts DEF Turn, ReceiveTypeOK
<1>3. SlotInv'
  BY FdFacts, OwnerFacts DEF ServerTypeOK, AcceptTypeOK, ReceiveTypeOK,
         KernelTypeOK, SlotInv, NoStaleSlot, OneSlotEach, SlotInUse,
         FreshInsert, LocalOpen, StartOrder, ReadyInv, Readable, Turn
<1>4. QED
  BY <1>1, <1>2, <1>3

LEMMA RecvInv == IInv /\ Recv => IInv'
<1> SUFFICES ASSUME IInv, Recv PROVE IInv'
  OBVIOUS
<1> USE DEF IInv, TypeOK, Recv
<1>1. owner[clientes[ridx]] \in Conns /\ clientes[ridx] \in FDs
  BY DEF SlotInv, NoStaleSlot, SlotInUse, ServerTypeOK, ReceiveTypeOK
<1>2. PICK n \in taken[owner[clientes[ridx]]] + 1 .. said[owner[clientes[ridx]]] :
        /\ taken' = [taken EXCEPT ![owner[clientes[ridx]]] = n]
        /\ msg' = [from |-> owner[clientes[ridx]], upto |-> n]
        /\ \/ rpc' = "head" /\ ridx' = 0 /\ UNCHANGED log
           \/ rpc' = "forward" /\ UNCHANGED ridx /\ log' = Append(log, msg')
  OBVIOUS
<1>3. n \in Nat /\ msg' \in Entry
  BY <1>1, <1>2 DEF TrafficTypeOK, Entry
<1>4. ServerTypeOK' /\ AcceptTypeOK' /\ KernelTypeOK'
  BY DEF ServerTypeOK, AcceptTypeOK, KernelTypeOK
<1>5. ReceiveTypeOK'
  BY <1>1, <1>2, <1>3, FdFacts DEF ReceiveTypeOK
<1>6. TrafficTypeOK'
  BY <1>1, <1>2, <1>3, FdFacts DEF TrafficTypeOK
<1>7. HistoryTypeOK'
  BY <1>1, <1>2, <1>3, FdFacts DEF HistoryTypeOK
<1>8. SlotInv'
  BY <1>1, <1>2, FdFacts, OwnerFacts DEF ServerTypeOK, AcceptTypeOK,
         ReceiveTypeOK, KernelTypeOK, SlotInv, NoStaleSlot, OneSlotEach,
         SlotInUse, FreshInsert, LocalOpen, StartOrder, ReadyInv, Readable
<1>9. QED
  BY <1>4, <1>5, <1>6, <1>7, <1>8

LEMMA RecvClosedInv == IInv /\ RecvClosed => IInv'
<1> SUFFICES ASSUME IInv, RecvClosed PROVE IInv'
  OBVIOUS
<1> USE DEF IInv, TypeOK, RecvClosed
<1>1. ServerTypeOK' /\ AcceptTypeOK' /\ TrafficTypeOK' /\ HistoryTypeOK'
  BY DEF ServerTypeOK, AcceptTypeOK, TrafficTypeOK, HistoryTypeOK
<1>2. ReceiveTypeOK'
  BY DEF ReceiveTypeOK
<1>3. KernelTypeOK'
  BY DEF KernelTypeOK
<1>4. SlotInv'
  BY FdFacts, OwnerFacts DEF ServerTypeOK, AcceptTypeOK, ReceiveTypeOK,
         KernelTypeOK, SlotInv, NoStaleSlot, OneSlotEach, SlotInUse,
         FreshInsert, LocalOpen, StartOrder, ReadyInv, Readable
<1>5. QED
  BY <1>1, <1>2, <1>3, <1>4

LEMMA ClearSlotInv == IInv /\ ClearSlot => IInv'
<1> SUFFICES ASSUME IInv, ClearSlot PROVE IInv'
  OBVIOUS
<1> USE DEF IInv, TypeOK, ClearSlot
<1>1. AcceptTypeOK' /\ KernelTypeOK' /\ TrafficTypeOK' /\ HistoryTypeOK'
  BY DEF AcceptTypeOK, KernelTypeOK, TrafficTypeOK, HistoryTypeOK
<1>2. ServerTypeOK'
  BY DEF ServerTypeOK
<1>3. ReceiveTypeOK'
  BY FdFacts DEF ReceiveTypeOK
<1>4. SlotInv'
  BY FdFacts, OwnerFacts DEF ServerTypeOK, AcceptTypeOK, ReceiveTypeOK,
         KernelTypeOK, SlotInv, NoStaleSlot, OneSlotEach, SlotInUse,
         FreshInsert, LocalOpen, StartOrder, ReadyInv, Readable
<1>5. QED
  BY <1>1, <1>2, <1>3, <1>4

LEMMA ForwardInv == IInv /\ Forward => IInv'
<1> SUFFICES ASSUME IInv, Forward PROVE IInv'
  OBVIOUS
<1> USE DEF IInv, TypeOK, Forward
<1>1. ServerTypeOK' /\ AcceptTypeOK' /\ HistoryTypeOK'
  BY DEF ServerTypeOK, AcceptTypeOK, HistoryTypeOK
<1>2. ReceiveTypeOK'
  BY NextSlot, FdFacts DEF Turn, ReceiveTypeOK
<1>3. KernelTypeOK'
  BY DEF Turn, SendTo, Skipped, KernelTypeOK
<1>4. TrafficTypeOK'
  <2>1. CASE Skipped(clientes[fidx])
    BY <2>1 DEF TrafficTypeOK
  <2>2. CASE ~Skipped(clientes[fidx])
    <3>1. owner[clientes[fidx]] \in Conns
      BY <2>2 DEF Skipped, SlotInv, NoStaleSlot, ReceiveTypeOK
    <3>2. SendTo(owner[clientes[fidx]], msg) /\ msg \in Entry
      BY <2>2 DEF ReceiveTypeOK
    <3>3. QED
      BY <3>1, <3>2, SendToType
  <2>3. QED
    BY <2>1, <2>2
<1>5. SlotInv'
  BY FdFacts, OwnerFacts DEF ServerTypeOK, AcceptTypeOK, ReceiveTypeOK,
         KernelTypeOK, SlotInv, NoStaleSlot, OneSlotEach, SlotInUse,
         FreshInsert, LocalOpen, StartOrder, ReadyInv, Readable, Turn, SendTo,
         Skipped
<1>6. QED
  BY <1>1, <1>2, <1>3, <1>4, <1>5

LEMMA JoinInv == \A c \in Clients : IInv /\ Join(c) => IInv'
<1> SUFFICES ASSUME NEW c \in Clients, IInv, Join(c) PROVE IInv'
  OBVIOUS
<1> USE DEF IInv, TypeOK, Join
<1>1. ServerTypeOK' /\ AcceptTypeOK' /\ ReceiveTypeOK' /\ HistoryTypeOK'
  BY DEF ServerTypeOK, AcceptTypeOK, ReceiveTypeOK, HistoryTypeOK
<1>2. KernelTypeOK'
  BY OwnerFacts DEF KernelTypeOK
<1>3. TrafficTypeOK'
  BY DEF TrafficTypeOK
<1>4. SlotInv'
  BY FdFacts, OwnerFacts DEF ServerTypeOK, AcceptTypeOK, ReceiveTypeOK,
         KernelTypeOK, TrafficTypeOK, SlotInv, NoStaleSlot, OneSlotEach,
         SlotInUse, FreshInsert, LocalOpen, StartOrder, ReadyInv, Readable
<1>5. QED
  BY <1>1, <1>2, <1>3, <1>4

LEMMA SayInv == \A c \in Clients : IInv /\ Say(c) => IInv'
<1> SUFFICES ASSUME NEW c \in Clients, IInv, Say(c) PROVE IInv'
  OBVIOUS
<1> USE DEF IInv, TypeOK, Say
<1>1. ServerTypeOK' /\ AcceptTypeOK' /\ ReceiveTypeOK' /\ KernelTypeOK'
      /\ HistoryTypeOK'
  BY DEF ServerTypeOK, AcceptTypeOK, ReceiveTypeOK, KernelTypeOK,
         HistoryTypeOK
<1>2. TrafficTypeOK'
  BY OwnerFacts DEF TrafficTypeOK
<1>3. SlotInv'
  <2>1. \A d \in Conns : said'[d] \in Nat /\ said'[d] >= said[d]
    BY OwnerFacts DEF TrafficTypeOK
  <2>2. gone \subseteq gone'
    OBVIOUS
  <2>3. QED
    BY <2>1, <2>2, SlotFrame
<1>4. QED
  BY <1>1, <1>2, <1>3

LEMMA LeaveInv == \A c \in Clients : IInv /\ Leave(c) => IInv'
<1> SUFFICES ASSUME NEW c \in Clients, IInv, Leave(c) PROVE IInv'
  OBVIOUS
<1> USE DEF IInv, TypeOK, Leave
<1>1. ServerTypeOK' /\ AcceptTypeOK' /\ ReceiveTypeOK' /\ KernelTypeOK'
      /\ HistoryTypeOK'
  BY DEF ServerTypeOK, AcceptTypeOK, ReceiveTypeOK, KernelTypeOK,
         HistoryTypeOK
<1>2. TrafficTypeOK'
  BY DEF TrafficTypeOK
<1>3. SlotInv'
  <2>1. \A d \in Conns : said'[d] \in Nat /\ said'[d] >= said[d]
    BY OwnerFacts DEF TrafficTypeOK
  <2>2. gone \subseteq gone'
    OBVIOUS
  <2>3. QED
    BY <2>1, <2>2, SlotFrame
<1>4. QED
  BY <1>1, <1>2, <1>3

LEMMA DrainInv == \A c \in Clients : IInv /\ Drain(c) => IInv'
<1> SUFFICES ASSUME NEW c \in Clients, IInv, Drain(c) PROVE IInv'
  OBVIOUS
<1> USE DEF IInv, TypeOK, Drain
<1>1. ServerTypeOK' /\ AcceptTypeOK' /\ ReceiveTypeOK' /\ KernelTypeOK'
      /\ HistoryTypeOK'
  BY DEF ServerTypeOK, AcceptTypeOK, ReceiveTypeOK, KernelTypeOK,
         HistoryTypeOK
<1>2. TrafficTypeOK'
  BY OwnerFacts DEF TrafficTypeOK
<1>3. SlotInv'
  <2>1. \A d \in Conns : said'[d] \in Nat /\ said'[d] >= said[d]
    BY OwnerFacts DEF TrafficTypeOK
  <2>2. gone \subseteq gone'
    OBVIOUS
  <2>3. QED
    BY <2>1, <2>2, SlotFrame
<1>4. QED
  BY <1>1, <1>2, <1>3

-----------------------------------------------------------------------------
LEMMA StepInv == IInv /\ [Next]_vars => IInv'
<1> SUFFICES ASSUME IInv, [Next]_vars PROVE IInv'
  OBVIOUS
<1>1. CASE Main
  BY <1>1, ListenInv, SpawnAcceptInv, SpawnReceiveInv, LocalSocketInv, ConnectInv,
     WaitInv DEF Main
<1>2. CASE AcceptThread
  BY <1>2, AcceptLoopInv, AcceptInv, InsertInv, NotifyInv DEF AcceptThread
<1>3. CASE ReceiveThread
  BY <1>3, WakeUpInv, ReceiveLoopInv, BuildInv, SelectInv, ScanInv, RecvInv,
     RecvClosedInv, ClearSlotInv, ForwardInv DEF ReceiveThread
<1>4. CASE \E c \in Clients : Terminal(c)
  BY <1>4, JoinInv, SayInv, LeaveInv, DrainInv DEF Terminal
<1>5. CASE UNCHANGED vars
  BY <1>5 DEF vars, IInv, TypeOK, ServerTypeOK, AcceptTypeOK, ReceiveTypeOK,
     KernelTypeOK, TrafficTypeOK, HistoryTypeOK, SlotInv, NoStaleSlot, OneSlotEach,
     SlotInUse, FreshInsert, LocalOpen, StartOrder, ReadyInv, Readable
<1>6. QED
  BY <1>1, <1>2, <1>3, <1>4, <1>5 DEF Next

LEMMA Invariance == Spec => []IInv
BY InitInv, StepInv, PTL DEF Spec

\* Every variable keeps its type: descriptors are never invented, the loop
\* variables of accept_conn() and get_msg() stay inside clientes[].
THEOREM TypeCorrect == Spec => []TypeOK
<1>1. IInv => TypeOK
  BY DEF IInv
<1>2. QED
  BY <1>1, Invariance, PTL

\* get_msg() never hands select(), recv() or send() a closed descriptor, however
\* its steps fall among those of accept_conn() and on(), for any table size.
THEOREM SlotsAreOpen == Spec => []NoStaleSlot
<1>1. IInv => NoStaleSlot
  BY DEF IInv, SlotInv
<1>2. QED
  BY <1>1, Invariance, PTL

\* No descriptor is in two slots, although accept_conn() may be given the number
\* of a connection get_msg() has closed before that slot is cleared.
THEOREM SlotsAreDistinct == Spec => []OneSlotEach
<1>1. IInv => OneSlotEach
  BY DEF IInv, SlotInv
<1>2. QED
  BY <1>1, Invariance, PTL

\* get_msg() never waits in recv(): between select() and recv() no step of
\* accept_conn() or of a terminal can put an idle connection in the slot.
THEOREM RecvIsPrompt == Spec => []RecvNeverBlocks
<1>1. IInv => RecvNeverBlocks
  BY DEF IInv, SlotInv, ReadyInv, RecvNeverBlocks
<1>2. QED
  BY <1>1, Invariance, PTL
=============================================================================
