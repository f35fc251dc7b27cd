-------------------------- MODULE RaftClientProofs --------------------------
(***************************************************************************)
(* What clients hear agrees, for every cluster, any number of clients and  *)
(* any number of operations.  Who claims to lead has led, and that is what *)
(* OneRaftLeaderEver is about.  And log_lock_ is held by the Ops that are  *)
(* inside it and by no other.                                              *)
(***************************************************************************)
EXTENDS RaftClient, RaftElectionProofs

\* Every peer that has told a client it leads, or is about to, has led.
ClaimantsLed ==
  /\ claims \subseteq EverLed
  /\ \A c \in Clients : handler[c].at # "idle" => handler[c].peer \in EverLed

HandlersTyped == handler \in [Clients -> Handlers]

\* The clients' handlers only look at a peer: they leave a Raft behaviour behind.
LEMMA ClientsOnlyLook == [ClientNext]_allvars => [Next]_vars
<1>1. UNCHANGED allvars => UNCHANGED vars
  BY DEF allvars, vars
<1>2. ASSUME NEW i \in Peers, GetStatus(i) PROVE UNCHANGED vars
  BY <1>2 DEF GetStatus
<1>3. ASSUME NEW i \in Peers, NEW c \in Clients, NEW o \in EntryOps, Op(c, i, o) PROVE UNCHANGED vars
  BY <1>3 DEF Op
<1>4. ASSUME NEW c \in Clients, Handler(c) PROVE UNCHANGED vars
  BY <1>4 DEF Handler, OpLock, OpReply
<1> QED  BY <1>1, <1>2, <1>3, <1>4 DEF ClientNext

\* A leader has led, and a peer that has led has done so for good.
LEMMA ClaimStep == IInv /\ HandlersTyped /\ ClaimantsLed /\ [ClientNext]_allvars => ClaimantsLed'
<1> SUFFICES ASSUME IInv, handler \in [Clients -> Handlers], ClaimantsLed, [ClientNext]_allvars
             PROVE  ClaimantsLed'
  BY DEF HandlersTyped
<1>1. EverLed \subseteq EverLed'
  BY LedGrows, ClientsOnlyLook
<1>2. \A i \in Peers : status[i] = "LEADER" => i \in EverLed
  BY DEF IInv, LeadConsistent, EverLed
<1>3. CASE UNCHANGED client
  BY <1>1, <1>3 DEF client, ClaimantsLed
<1>4. ASSUME NEW i \in Peers, GetStatus(i) PROVE ClaimantsLed'
  <2>1. i \in EverLed
    BY <1>2, <1>4 DEF GetStatus, StatusMapping
  <2> QED  BY <1>1, <1>4, <2>1 DEF GetStatus, ClaimantsLed
<1>5. ASSUME NEW i \in Peers, NEW c \in Clients, NEW o \in EntryOps, Op(c, i, o) PROVE ClaimantsLed'
  <2>1. i \in EverLed
    BY <1>2, <1>5 DEF Op, MayOp
  <2>2. \A d \in Clients : handler'[d] = handler[d] \/ handler'[d].peer = i
    BY <1>5 DEF Op, Handlers
  <2> QED  BY <1>1, <1>5, <2>1, <2>2 DEF Op, ClaimantsLed
<1>6. ASSUME NEW c \in Clients, OpLock(c) PROVE ClaimantsLed'
  <2>1. \A d \in Clients : handler'[d].peer = handler[d].peer /\ (handler[d].at = "idle" => handler'[d].at = "idle")
    BY <1>6 DEF OpLock, Handlers
  <2> QED  BY <1>1, <1>6, <2>1 DEF OpLock, ClaimantsLed
<1>7. ASSUME NEW c \in Clients, OpReply(c) PROVE ClaimantsLed'
  <2>1. handler[c].at # "idle"
    BY <1>7 DEF OpReply
  <2>2. \A d \in Clients : handler'[d] = handler[d] \/ handler'[d].at = "idle"
    BY <1>7 DEF OpReply, NoHandler, Handlers
  <2> QED  BY <1>1, <1>7, <2>1, <2>2 DEF OpReply, ClaimantsLed
<1>8. CASE UNCHANGED allvars
  BY <1>3, <1>8 DEF allvars, client
<1> QED  BY <1>3, <1>4, <1>5, <1>6, <1>7, <1>8 DEF ClientNext, Handler

\* Every step keeps the places of the handlers.
LEMMA HandlerStep == HandlersTyped /\ [ClientNext]_allvars => HandlersTyped'
<1> SUFFICES ASSUME handler \in [Clients -> Handlers], [ClientNext]_allvars
             PROVE  handler' \in [Clients -> Handlers]
  BY DEF HandlersTyped
<1>1. CASE UNCHANGED handler
  BY <1>1
<1>2. ASSUME NEW i \in Peers, GetStatus(i) PROVE UNCHANGED handler
  BY <1>2 DEF GetStatus
<1>3. ASSUME NEW i \in Peers, NEW c \in Clients, NEW o \in EntryOps, Op(c, i, o)
      PROVE  handler' \in [Clients -> Handlers]
  BY <1>3 DEF Op, Handlers
<1>4. ASSUME NEW c \in Clients, Handler(c) PROVE handler' \in [Clients -> Handlers]
  BY <1>4 DEF Handler, OpLock, OpReply, NoHandler, Handlers, EntryOps
<1> QED  BY <1>1, <1>2, <1>3, <1>4 DEF ClientNext, client, allvars

\* Whatever clients hear from GetStatus and Op, and however late, names one leader as
\* long as no peer has expelled another.
THEOREM ClientsAgree == ClientSpec => []ClaimsAgree
<1>1. ClientSpec => Spec
  <2>1. ClientInit => Init
    BY DEF ClientInit
  <2> QED  BY <2>1, ClientsOnlyLook, PTL DEF ClientSpec, Spec
<1>2. ClientInit => HandlersTyped /\ ClaimantsLed
  BY DEF ClientInit, HandlersTyped, Handlers, ClaimantsLed, NoHandler, EntryOps
<1>3. ClaimantsLed /\ OneRaftLeads => ClaimsAgree
  BY DEF ClaimantsLed, OneRaftLeads, E!OneEverLeads, ClaimsAgree
<1>4. ClientSpec => [](HandlersTyped /\ ClaimantsLed)
  BY <1>1, <1>2, HandlerStep, ClaimStep, Inductive, PTL DEF ClientSpec
<1> QED  BY <1>1, <1>3, <1>4, OneRaftLeaderEver, PTL

(***************************************************************************)
(* log_lock_.                                                              *)
(***************************************************************************)

LocksTyped == log_lock \in [Peers -> [writers : SUBSET Clients, readers : SUBSET Clients]]

\* A handler past its test of status_ is at a peer, and inside only for an operation that
\* takes the lock.
HandlersPlaced ==
  \A c \in Clients :
    /\ handler[c].at # "idle" => handler[c].peer \in Peers
    /\ handler[c].at = "locked" => handler[c].op \in {"INSERT", "DELETE", "QUERY"}

LockInv == HandlersTyped /\ LocksTyped /\ HandlersPlaced /\ LogLockHeld

\* LogLockHeld, one handler at a time.
Holds ==
  \A i \in Peers, c \in Clients :
    /\ c \in log_lock[i].writers
         <=> handler[c].at = "locked" /\ handler[c].peer = i /\ handler[c].op \in {"INSERT", "DELETE"}
    /\ c \in log_lock[i].readers
         <=> handler[c].at = "locked" /\ handler[c].peer = i /\ handler[c].op = "QUERY"
    /\ c \in log_lock[i].writers
         => \A d \in Clients : handler[d].at = "locked" /\ handler[d].peer = i => d = c

\* The two ways to say who holds a log_lock_ agree.
LEMMA HeldIsHolds == HandlersTyped /\ LocksTyped => (LogLockHeld <=> Holds)
<1> SUFFICES ASSUME HandlersTyped, LocksTyped PROVE LogLockHeld <=> Holds
  OBVIOUS
<1> USE DEF HandlersTyped, LocksTyped, Handlers, EntryOps, Inside
<1>1. ASSUME LogLockHeld PROVE Holds
  BY <1>1 DEF LogLockHeld, Holds
<1>2. ASSUME Holds PROVE LogLockHeld
  BY <1>2 DEF LogLockHeld, Holds
<1> QED  BY <1>1, <1>2

\* A step of a handler takes and releases a log_lock_ for itself alone.
LEMMA LockStep == LockInv /\ [ClientNext]_allvars => LockInv'
<1> SUFFICES ASSUME LockInv, [ClientNext]_allvars PROVE LockInv'
  OBVIOUS
<1> USE DEF Handlers, EntryOps
<1>0. HandlersTyped /\ LocksTyped /\ HandlersPlaced /\ Holds /\ HandlersTyped'
  BY HeldIsHolds, HandlerStep DEF LockInv
<1>h. (HandlersTyped /\ LocksTyped => (LogLockHeld <=> Holds))'
  BY HeldIsHolds, PTL
<1> SUFFICES (LocksTyped /\ HandlersPlaced /\ Holds)'
  BY <1>0, <1>h DEF LockInv
<1>1. CASE UNCHANGED <<handler, log_lock>>
  BY <1>0, <1>1 DEF LocksTyped, HandlersPlaced, Holds
<1>2. ASSUME NEW i \in Peers, GetStatus(i) PROVE UNCHANGED <<handler, log_lock>>
  BY <1>2 DEF GetStatus
<1>3. ASSUME NEW i \in Peers, NEW c \in Clients, NEW o \in EntryOps, Op(c, i, o)
      PROVE  (LocksTyped /\ HandlersPlaced /\ Holds)'
  <2>1. /\ handler[c].at = "idle" /\ log_lock' = log_lock
        /\ handler'[c].at = "tested" /\ handler'[c].peer = i
        /\ \A d \in Clients \ {c} : handler'[d] = handler[d]
    BY <1>0, <1>3 DEF Op, HandlersTyped
  <2> QED  BY <1>0, <2>1 DEF LocksTyped, HandlersPlaced, Holds
<1>4. ASSUME NEW c \in Clients, OpLock(c) PROVE (LocksTyped /\ HandlersPlaced /\ Holds)'
  <2> DEFINE i == handler[c].peer
  <2>1. /\ handler[c].at = "tested" /\ i \in Peers /\ log_lock[i].writers = {}
        /\ handler'[c].at = "locked" /\ handler'[c].peer = i /\ handler'[c].op = handler[c].op
        /\ \A d \in Clients \ {c} : handler'[d] = handler[d]
    BY <1>0, <1>4 DEF OpLock, HandlersTyped, HandlersPlaced
  <2>2. CASE /\ handler[c].op \in {"INSERT", "DELETE"} /\ log_lock[i].readers = {}
             /\ log_lock' = [log_lock EXCEPT ![i].writers = {c}]
    <3>1. /\ LocksTyped' /\ log_lock'[i].writers = {c} /\ log_lock'[i].readers = {}
          /\ \A k \in Peers \ {i} : log_lock'[k] = log_lock[k]
      BY <1>0, <2>1, <2>2 DEF LocksTyped
    <3>2. \A d \in Clients : ~(handler[d].at = "locked" /\ handler[d].peer = i)
      BY <1>0, <2>1, <2>2 DEF HandlersPlaced, Holds
    <3> HIDE DEF i
    <3> QED  BY <1>0, <2>1, <2>2, <3>1, <3>2 DEF HandlersPlaced, Holds
  <2>3. CASE handler[c].op = "QUERY" /\ log_lock' = [log_lock EXCEPT ![i].readers = @ \cup {c}]
    <3>1. /\ LocksTyped' /\ log_lock'[i].writers = {}
          /\ log_lock'[i].readers = log_lock[i].readers \cup {c}
          /\ \A k \in Peers \ {i} : log_lock'[k] = log_lock[k]
      BY <1>0, <2>1, <2>3 DEF LocksTyped
    <3> HIDE DEF i
    <3> QED  BY <1>0, <2>1, <2>3, <3>1 DEF HandlersPlaced, Holds
  <2> QED  BY <1>4, <2>2, <2>3 DEF OpLock
<1>5. ASSUME NEW c \in Clients, OpReply(c) PROVE (LocksTyped /\ HandlersPlaced /\ Holds)'
  <2> DEFINE i == handler[c].peer
  <2>1. /\ i \in Peers /\ handler'[c].at = "idle"
        /\ \A d \in Clients \ {c} : handler'[d] = handler[d]
    BY <1>0, <1>5 DEF OpReply, NoHandler, HandlersTyped, HandlersPlaced
  <2>2. /\ LocksTyped'
        /\ log_lock'[i].writers = log_lock[i].writers \ {c}
        /\ log_lock'[i].readers = log_lock[i].readers \ {c}
        /\ \A k \in Peers \ {i} : log_lock'[k] = log_lock[k]
    BY <1>0, <1>5, <2>1 DEF OpReply, Unlocked, LocksTyped
  <2>3. \A k \in Peers \ {i} : c \notin log_lock[k].writers /\ c \notin log_lock[k].readers
    BY <1>0 DEF Holds
  <2> HIDE DEF i
  <2> QED  BY <1>0, <2>1, <2>2, <2>3 DEF HandlersPlaced, Holds
<1> QED  BY <1>1, <1>2, <1>3, <1>4, <1>5 DEF ClientNext, Handler, client, allvars

\* log_lock_ of every peer is held by exactly the Ops between their lock and their
\* Unlock(), and by a writer alone, for any number of clients and operations.
THEOREM LogLockIsHeld == ClientSpec => []LogLockHeld
<1>1. ClientInit => LockInv
  BY DEF ClientInit, LockInv, HandlersTyped, Handlers, EntryOps, NoHandler, LocksTyped,
         HandlersPlaced, LogLockHeld, Inside
<1>2. LockInv => LogLockHeld
  BY DEF LockInv
<1> QED  BY <1>1, <1>2, LockStep, PTL DEF ClientSpec
=============================================================================
