--------------------------- MODULE DMServerProofs ---------------------------
(***************************************************************************)
(* Proofs about DMServer, for any clients and scripts: that one client is  *)
(* served at a time, that an answer reaches the client that asked, before  *)
(* any notice of the result, that a notice goes astray only when its       *)
(* client has left, and that the buffer of SendData is not overwritten     *)
(* while it is in use.                                                     *)
(***************************************************************************)
EXTENDS DMServer, SequenceTheorems, TLAPS

(* A client's handler exists only after its connection was accepted and    *)
(* admitted; until then nothing has run in its name.                       *)
NotStarted ==
    /\ \A c \in Clients : conn[c] \in {"new", "pending"} => pc[c] = "none"
    /\ acc \in {"check", "start"} =>
          fd \in Clients /\ pc[fd] = "none" /\ conn[fd] \notin {"new", "pending"}

(* Who is past a lock holds it.                                            *)
LockInv ==
    \A t \in Threads :
        /\ pc[t] \in {"sockMutex", "send"} => m_SendMutex = t
        /\ pc[t] = "send" => m_Sockmutx = t

(* SndMSGThread has a notice in hand when it sends, and only notices are   *)
(* queued for it.                                                          *)
NoticeInv ==
    /\ pc[Snd] \in {"recv", "sendMutex", "sockMutex", "send"}
    /\ pc[Snd] # "recv" => notice \in Message /\ notice.kind = "notice"
    /\ \A i \in 1..Len(m_qSMSG) : m_qSMSG[i].kind = "notice"

-----------------------------------------------------------------------------
(* The types.                                                              *)

LEMMA Constants ==
    /\ Snd \notin Clients /\ None \notin Clients /\ None # Snd
    /\ Window \in Nat /\ MaxFds \in Nat
  BY ServerAssumption DEF ServerAssumption

USE DEF Threads

LEMMA InitTypes == Init => TypeOK
  <1> SUFFICES ASSUME Init PROVE TypeOK
    OBVIOUS
  <1>1. StreamTypes
    <2>1. \A c \in Clients : Len(Script[c]) \in Nat
      BY ServerAssumption, LenProperties DEF ServerAssumption
    <2> QED
      BY <2>1 DEF Init, StreamTypes
  <1> QED
    BY <1>1, Constants, EmptySeq
    DEF Init, TypeOK, setup, SetupTypes, AcceptTypes, LockTypes, ThreadTypes, QueueTypes,
        NetTypes

(* The messages SendData is given have the type of messages.               *)
LEMMA MessageType ==
    ASSUME TypeOK, NEW t \in Threads, t = Snd => notice \in Message
    PROVE  MessageOf(t) \in Message
  <1>1. CASE t = Snd
    BY <1>1 DEF TypeOK, QueueTypes, MessageOf
  <1>2. CASE t # Snd
    <2>1. Current(t) \in Request
      BY <1>2 DEF TypeOK, StreamTypes, Current, Request
    <2> QED
      BY <1>2, <2>1 DEF MessageOf, Message
  <1> QED
    BY <1>1, <1>2

USE DEF vars, setup, accept, locks, net, queues, server, MainGoes, AccGoes, Goes

(* What a step leaves alone keeps its type.                                *)
LEMMA Frame ==
    ASSUME TypeOK
    PROVE  /\ UNCHANGED <<setup, alive>> => SetupTypes'
           /\ UNCHANGED accept => AcceptTypes'
           /\ UNCHANGED locks => LockTypes'
           /\ UNCHANGED <<m_ClientSockets, pc>> => ThreadTypes'
           /\ UNCHANGED <<notice, queues>> => QueueTypes'
           /\ UNCHANGED <<put, got>> => StreamTypes'
           /\ UNCHANGED <<conn, closed, unread>> => NetTypes'
           /\ UNCHANGED attempts => attempts' \in Seq(Attempt)
  <1>1. UNCHANGED <<setup, alive>> => SetupTypes'
    BY DEF TypeOK, SetupTypes
  <1>2. UNCHANGED accept => AcceptTypes'
    BY DEF TypeOK, AcceptTypes
  <1>3. UNCHANGED locks => LockTypes'
    BY DEF TypeOK, LockTypes
  <1>4. UNCHANGED <<m_ClientSockets, pc>> => ThreadTypes'
    BY DEF TypeOK, ThreadTypes
  <1>5. UNCHANGED <<notice, queues>> => QueueTypes'
    BY DEF TypeOK, QueueTypes
  <1>6. UNCHANGED <<put, got>> => StreamTypes'
    BY DEF TypeOK, StreamTypes
  <1>7. UNCHANGED <<conn, closed, unread>> => NetTypes'
    BY DEF TypeOK, NetTypes
  <1>8. UNCHANGED attempts => attempts' \in Seq(Attempt)
    BY DEF TypeOK
  <1> QED
    BY <1>1, <1>2, <1>3, <1>4, <1>5, <1>6, <1>7, <1>8

LEMMA StutterTypes == TypeOK /\ UNCHANGED vars => TypeOK'
  BY Frame DEF TypeOK

LEMMA MainTypes == TypeOK /\ DaemonMgr => TypeOK'
  <1> SUFFICES ASSUME TypeOK, DaemonMgr PROVE TypeOK'
    OBVIOUS
  <1>1. SetupTypes'
    BY DEF TypeOK, SetupTypes, DaemonMgr, BeginSocket, setHandler, SetDMServer
  <1> QED
    BY <1>1, Frame DEF TypeOK, DaemonMgr, BeginSocket, setHandler, SetDMServer

LEMMA ClientTypes == ASSUME TypeOK, NEW c \in Clients, Client(c) PROVE TypeOK'
  <1>1. CASE Connect(c)
    <2>1. NetTypes'
      BY <1>1 DEF TypeOK, NetTypes, Connect
    <2> QED
      BY <1>1, <2>1, Frame DEF TypeOK, Connect
  <1>2. CASE Put(c)
    <2>1. Len(Script[c]) \in Nat
      BY ServerAssumption, LenProperties DEF ServerAssumption
    <2>2. StreamTypes'
      BY <1>2, <2>1 DEF TypeOK, StreamTypes, Put
    <2> QED
      BY <1>2, <2>2, Frame DEF TypeOK, Put
  <1>3. CASE Close(c)
    <2>1. NetTypes'
      BY <1>3 DEF TypeOK, NetTypes, Close
    <2> QED
      BY <1>3, <2>1, Frame DEF TypeOK, Close
  <1>4. CASE Read(c)
    <2>1. unread[c] - 1 \in 0..Window
      BY <1>4, Constants DEF TypeOK, NetTypes, Read
    <2>2. NetTypes'
      BY <1>4, <2>1 DEF TypeOK, NetTypes, Read
    <2> QED
      BY <1>4, <2>2, Frame DEF TypeOK, Read
  <1> QED
    BY <1>1, <1>2, <1>3, <1>4 DEF Client

(* StartHandler needs OneClient: the value it reads again is a socket.     *)
LEMMA AcceptThreadTypes ==
    ASSUME TypeOK, OneClient, NotStarted, RunSocket
    PROVE  TypeOK'
  <1>1. CASE Listen
    <2>1. AcceptTypes'
      BY <1>1 DEF TypeOK, AcceptTypes, Listen
    <2> QED
      BY <1>1, <2>1, Frame DEF TypeOK, Listen
  <1>2. ASSUME NEW c \in Clients, Accept(c) PROVE TypeOK'
    <2>1. AcceptTypes'
      BY <1>2, Constants DEF TypeOK, AcceptTypes, Accept
    <2>2. NetTypes'
      BY <1>2 DEF TypeOK, NetTypes, Accept
    <2> QED
      BY <1>2, <2>1, <2>2, Frame DEF TypeOK, Accept
  <1>3. CASE Refuse
    <2>1. AcceptTypes'
      BY <1>3 DEF TypeOK, AcceptTypes, Refuse, RefuseAs
    <2>2. NetTypes'
      BY <1>3 DEF TypeOK, NetTypes, Refuse, RefuseAs
    <2> QED
      BY <1>3, <2>1, <2>2, Frame DEF TypeOK, Refuse, RefuseAs
  <1>4. CASE Admit
    <2>1. AcceptTypes' /\ ThreadTypes'
      BY <1>4 DEF TypeOK, AcceptTypes, ThreadTypes, Admit, AdmitIf
    <2> QED
      BY <1>4, <2>1, Frame DEF TypeOK, Admit, AdmitIf
  <1>5. CASE StartHandler
    <2>1. AcceptTypes'
      BY <1>5 DEF TypeOK, AcceptTypes, StartHandler
    <2>2. ThreadTypes'
      BY <1>5 DEF TypeOK, ThreadTypes, StartHandler
    <2> QED
      BY <1>5, <2>1, <2>2, Frame DEF TypeOK, StartHandler
  <1> QED
    BY <1>1, <1>2, <1>3, <1>4, <1>5 DEF RunSocket

LEMMA SendTypes ==
    ASSUME TypeOK, BufferIntact, NoticeInv, NEW t \in Threads, SendData(t)
    PROVE  TypeOK'
  <1>1. CASE Fill(t)
    <2>1. MessageOf(t) \in Message
      BY <1>1, MessageType DEF Fill, FillIf, NoticeInv
    <2>2. LockTypes'
      BY <1>1, <2>1 DEF TypeOK, LockTypes, Fill, FillIf
    <2>3. ThreadTypes'
      BY <1>1 DEF TypeOK, ThreadTypes, Fill, FillIf
    <2> QED
      BY <1>1, <2>2, <2>3, Frame DEF TypeOK, Fill, FillIf
  <1>2. CASE LockSocket(t)
    <2>1. LockTypes' /\ ThreadTypes'
      BY <1>2 DEF TypeOK, LockTypes, ThreadTypes, LockSocket
    <2> QED
      BY <1>2, <2>1, Frame DEF TypeOK, LockSocket
  <1>3. CASE Send(t)
    <2>1. AfterSend(t) \in {"recv", "queue"}
      BY DEF AfterSend, AfterAnswer
    <2>2. m_pSendBuffer \in Message
      BY <1>3, MessageType DEF Send, BufferIntact, NoticeInv
    <2>3. PICK to \in Clients \cup {None} :
              attempts' = Append(attempts, [msg |-> m_pSendBuffer, to |-> to])
      BY <1>3 DEF Send, Reachable
    <2>4. [msg |-> m_pSendBuffer, to |-> to] \in Attempt
      BY <2>2 DEF Attempt
    <2>5. attempts' \in Seq(Attempt)
      BY <2>3, <2>4, AppendProperties DEF TypeOK
    <2>6. NetTypes'
      <3>1. CASE m_ClientSockets \in Reachable
        <4>1. m_ClientSockets \in Clients /\ unread[m_ClientSockets] < Window
          BY <1>3, <3>1 DEF Reachable, Send
        <4>2. unread[m_ClientSockets] + 1 \in 0..Window
          BY <4>1, Constants DEF TypeOK, NetTypes
        <4> QED
          BY <1>3, <3>1, <4>1, <4>2 DEF TypeOK, NetTypes, Send
      <3>2. CASE m_ClientSockets \notin Reachable
        BY <1>3, <3>2 DEF TypeOK, NetTypes, Send
      <3> QED
        BY <3>1, <3>2
    <2>7. LockTypes' /\ ThreadTypes'
      BY <1>3, <2>1 DEF TypeOK, LockTypes, ThreadTypes, Send
    <2> QED
      BY <1>3, <2>5, <2>6, <2>7, Frame DEF TypeOK, Send
  <1> QED
    BY <1>1, <1>2, <1>3 DEF SendData

LEMMA HandlerTypes ==
    ASSUME TypeOK, BufferIntact, NoticeInv, NEW c \in Clients, handle_clnt(c)
    PROVE  TypeOK'
  <1>1. CASE Recv(c)
    <2>1. StreamTypes'
      BY <1>1 DEF TypeOK, StreamTypes, Recv, RecvIf
    <2>2. ThreadTypes'
      BY <1>1 DEF TypeOK, ThreadTypes, Recv, RecvIf
    <2> QED
      BY <1>1, <2>1, <2>2, Frame DEF TypeOK, Recv, RecvIf
  <1>2. CASE RecvEnd(c)
    <2>1. ThreadTypes'
      BY <1>2 DEF TypeOK, ThreadTypes, RecvEnd
    <2> QED
      BY <1>2, <2>1, Frame DEF TypeOK, RecvEnd
  <1>3. CASE Classify(c)
    <2>1. ClassifiedAs(c) \in {"recv", "queue", "sendMutex"}
      BY DEF ClassifiedAs, AfterAnswer
    <2>2. ThreadTypes'
      BY <1>3, <2>1 DEF TypeOK, ThreadTypes, Classify
    <2> QED
      BY <1>3, <2>2, Frame DEF TypeOK, Classify
  <1>4. CASE ClassifyAborts(c)
    <2>1. SetupTypes'
      BY <1>4 DEF TypeOK, SetupTypes, ClassifyAborts
    <2> QED
      BY <1>4, <2>1, Frame DEF TypeOK, ClassifyAborts
  <1>5. CASE SendData(c)
    BY <1>5, SendTypes
  <1>6. CASE OnRcvMessage(c)
    <2>1. Current(c) \in Request
      BY DEF TypeOK, StreamTypes, Current, Request
    <2>2. QueueTypes'
      BY <1>6, <2>1, AppendProperties DEF TypeOK, QueueTypes, OnRcvMessage
    <2>3. ThreadTypes'
      BY <1>6 DEF TypeOK, ThreadTypes, OnRcvMessage
    <2> QED
      BY <1>6, <2>2, <2>3, Frame DEF TypeOK, OnRcvMessage
  <1>7. CASE Exit(c)
    <2>1. ThreadTypes'
      BY <1>7 DEF TypeOK, ThreadTypes, Exit, ExitAs
    <2> QED
      BY <1>7, <2>1, Frame DEF TypeOK, Exit, ExitAs
  <1>8. CASE CloseSocket(c)
    <2>1. ThreadTypes' /\ NetTypes'
      BY <1>8 DEF TypeOK, ThreadTypes, NetTypes, CloseSocket
    <2> QED
      BY <1>8, <2>1, Frame DEF TypeOK, CloseSocket
  <1> QED
    BY <1>1, <1>2, <1>3, <1>4, <1>5, <1>6, <1>7, <1>8 DEF handle_clnt

LEMMA SndTypes ==
    ASSUME TypeOK, BufferIntact, NoticeInv, SndMSGThread
    PROVE  TypeOK'
  <1>1. CASE DequeueNotice
    <2>1. Head(m_qSMSG) \in Message /\ Tail(m_qSMSG) \in Seq(Message)
      BY <1>1, HeadTailProperties DEF TypeOK, QueueTypes, DequeueNotice
    <2>2. QueueTypes'
      BY <1>1, <2>1 DEF TypeOK, QueueTypes, DequeueNotice
    <2>3. ThreadTypes'
      BY <1>1 DEF TypeOK, ThreadTypes, DequeueNotice
    <2> QED
      BY <1>1, <2>2, <2>3, Frame DEF TypeOK, DequeueNotice
  <1>2. CASE UseUnsetServer
    <2>1. SetupTypes'
      BY <1>2 DEF TypeOK, SetupTypes, UseUnsetServer
    <2> QED
      BY <1>2, <2>1, Frame DEF TypeOK, UseUnsetServer
  <1>3. CASE SendData(Snd)
    BY <1>3, SendTypes
  <1> QED
    BY <1>1, <1>2, <1>3 DEF SndMSGThread

LEMMA JobTypes == ASSUME TypeOK, JobEnds PROVE TypeOK'
  <1>1. Head(jobs) \in Request /\ Tail(jobs) \in Seq(Request)
    BY HeadTailProperties DEF TypeOK, QueueTypes, JobEnds
  <1>2. [kind |-> "notice", of |-> Head(jobs)] \in Message
    BY <1>1 DEF Message
  <1>3. QueueTypes'
    BY <1>1, <1>2, AppendProperties DEF TypeOK, QueueTypes, JobEnds
  <1> QED
    BY <1>3, Frame DEF TypeOK, JobEnds

-----------------------------------------------------------------------------
(* The inductive invariant.  That one client is served at a time needs to  *)
(* know that RunSocket never starts a second handler for a connection, and *)
(* that an answer finds its asker needs in turn the buffer, the locks that *)
(* protect it, and the place.                                              *)
IInv ==
    /\ TypeOK /\ OneClient /\ NotStarted
    /\ LockInv /\ BufferIntact /\ NoticeInv /\ AnswersToAsker

LEMMA InitInv == Init => IInv
  <1> SUFFICES ASSUME Init PROVE IInv
    OBVIOUS
  <1>1. OneClient /\ NotStarted
    BY Constants DEF Init, OneClient, NotStarted, Serving
  <1>2. LockInv /\ BufferIntact /\ NoticeInv
    BY Constants DEF Init, LockInv, BufferIntact, NoticeInv
  <1>3. AnswersToAsker
    BY DEF Init, AnswersToAsker
  <1> QED
    BY <1>1, <1>2, <1>3, InitTypes DEF IInv

LEMMA TypeStep == IInv /\ [Next]_vars => TypeOK'
  BY StutterTypes, MainTypes, AcceptThreadTypes, HandlerTypes, SndTypes, JobTypes, ClientTypes
  DEF IInv, Next, Wait

-----------------------------------------------------------------------------
(* One client at a time.                                                   *)

(* A thread that stays in its loop disturbs nobody's place.                *)
LEMMA LoopKeepsPlace ==
    ASSUME TypeOK, OneClient, NotStarted, NEW t \in Threads, NEW from, NEW to,
           Goes(t, from, to), from \notin {"none", "shutdown", "gone"},
           UNCHANGED <<m_ClientSockets, conn>>
    PROVE  OneClient' /\ NotStarted'
  <1>1. pc[t] = from /\ \A x \in Threads \ {t} : pc'[x] = pc[x]
    BY DEF TypeOK, ThreadTypes
  <1>2. OneClient'
    BY <1>1 DEF OneClient, Serving
  <1>3. NotStarted'
    BY <1>1 DEF NotStarted
  <1> QED
    BY <1>2, <1>3

LEMMA SendKeepsPlace ==
    ASSUME TypeOK, OneClient, NotStarted, NEW t \in Threads, SendData(t)
    PROVE  OneClient' /\ NotStarted'
  <1>1. CASE Fill(t)
    BY <1>1, LoopKeepsPlace DEF Fill, FillIf
  <1>2. CASE LockSocket(t)
    BY <1>2, LoopKeepsPlace DEF LockSocket
  <1>3. CASE Send(t)
    BY <1>3, LoopKeepsPlace DEF Send
  <1> QED
    BY <1>1, <1>2, <1>3 DEF SendData

LEMMA HandlerKeepsPlace ==
    ASSUME TypeOK, OneClient, NotStarted, NEW c \in Clients, handle_clnt(c)
    PROVE  OneClient' /\ NotStarted'
  <1>1. CASE Recv(c)
    BY <1>1, LoopKeepsPlace DEF Recv, RecvIf
  <1>2. CASE RecvEnd(c)
    BY <1>2, LoopKeepsPlace DEF RecvEnd
  <1>3. CASE Classify(c)
    BY <1>3, LoopKeepsPlace DEF Classify
  <1>4. CASE ClassifyAborts(c)
    BY <1>4 DEF ClassifyAborts, OneClient, NotStarted, Serving
  <1>5. CASE SendData(c)
    BY <1>5, SendKeepsPlace
  <1>6. CASE OnRcvMessage(c)
    BY <1>6, LoopKeepsPlace DEF OnRcvMessage
  <1>7. CASE Exit(c)
    <2>1. m_ClientSockets = c /\ acc # "start"
      BY <1>7 DEF Exit, ExitAs, OneClient, NotStarted, Serving
    <2>2. \A x \in Clients \ {c} : ~Serving(x)
      BY <2>1 DEF OneClient
    <2>3. pc' = [pc EXCEPT ![c] = "shutdown"] /\ UNCHANGED <<conn, acc, fd>>
      BY <1>7 DEF Exit, ExitAs
    <2>4. OneClient'
      BY <2>1, <2>2, <2>3 DEF OneClient, Serving, TypeOK, ThreadTypes
    <2>5. NotStarted'
      BY <1>7, <2>3 DEF NotStarted, Exit, ExitAs, TypeOK, ThreadTypes
    <2> QED
      BY <2>4, <2>5
  <1>8. CASE CloseSocket(c)
    <2>1. OneClient'
      BY <1>8 DEF CloseSocket, OneClient, Serving, TypeOK, ThreadTypes
    <2>2. NotStarted'
      BY <1>8 DEF CloseSocket, NotStarted, TypeOK, ThreadTypes, NetTypes
    <2> QED
      BY <2>1, <2>2
  <1> QED
    BY <1>1, <1>2, <1>3, <1>4, <1>5, <1>6, <1>7, <1>8 DEF handle_clnt

LEMMA AcceptKeepsPlace ==
    ASSUME TypeOK, OneClient, NotStarted, RunSocket
    PROVE  OneClient' /\ NotStarted'
  <1>1. CASE Listen
    BY <1>1 DEF Listen, OneClient, NotStarted, Serving
  <1>2. ASSUME NEW c \in Clients, Accept(c) PROVE OneClient' /\ NotStarted'
    BY <1>2 DEF Accept, OneClient, NotStarted, Serving, TypeOK, NetTypes
  <1>3. CASE Refuse
    BY <1>3 DEF Refuse, RefuseAs, OneClient, NotStarted, Serving, TypeOK, NetTypes
  <1>4. CASE Admit
    <2>1. \A x \in Clients : ~Serving(x)
      BY <1>4, Constants DEF Admit, AdmitIf, OneClient
    <2> QED
      BY <1>4, <2>1 DEF Admit, AdmitIf, OneClient, NotStarted, Serving
  <1>5. CASE StartHandler
    <2>1. m_ClientSockets = fd /\ fd \in Clients
      BY <1>5 DEF StartHandler, OneClient, NotStarted
    <2>2. OneClient'
      BY <1>5, <2>1 DEF StartHandler, OneClient, Serving, TypeOK, ThreadTypes
    <2>3. NotStarted'
      BY <1>5, <2>1 DEF StartHandler, NotStarted, TypeOK, ThreadTypes
    <2> QED
      BY <2>2, <2>3
  <1> QED
    BY <1>1, <1>2, <1>3, <1>4, <1>5 DEF RunSocket

LEMMA PlaceStep == IInv /\ [Next]_vars => OneClient' /\ NotStarted'
  <1> SUFFICES ASSUME IInv, [Next]_vars PROVE OneClient' /\ NotStarted'
    OBVIOUS
  <1>1. CASE DaemonMgr
    BY <1>1 DEF DaemonMgr, BeginSocket, setHandler, SetDMServer, IInv, OneClient, NotStarted,
                Serving
  <1>2. CASE RunSocket
    BY <1>2, AcceptKeepsPlace DEF IInv
  <1>3. ASSUME NEW c \in Clients, handle_clnt(c) PROVE OneClient' /\ NotStarted'
    BY <1>3, HandlerKeepsPlace DEF IInv
  <1>4. CASE SndMSGThread
    <2>1. CASE DequeueNotice
      BY <2>1, LoopKeepsPlace DEF DequeueNotice, IInv
    <2>2. CASE UseUnsetServer
      BY <2>2 DEF UseUnsetServer, IInv, OneClient, NotStarted, Serving
    <2>3. CASE SendData(Snd)
      BY <2>3, SendKeepsPlace DEF IInv
    <2> QED
      BY <1>4, <2>1, <2>2, <2>3 DEF SndMSGThread
  <1>5. CASE JobEnds
    BY <1>5 DEF JobEnds, IInv, OneClient, NotStarted, Serving
  <1>6. ASSUME NEW c \in Clients, Client(c) PROVE OneClient' /\ NotStarted'
    <2>1. OneClient'
      BY <1>6 DEF Client, Connect, Put, Close, Read, IInv, OneClient, Serving
    <2>2. NotStarted'
      BY <1>6 DEF Client, Connect, Put, Close, Read, IInv, NotStarted, TypeOK, NetTypes
    <2> QED
      BY <2>1, <2>2
  <1>7. CASE UNCHANGED vars
    BY <1>7 DEF IInv, OneClient, NotStarted, Serving
  <1> QED
    BY <1>1, <1>2, <1>3, <1>4, <1>5, <1>6, <1>7 DEF Next, Wait

-----------------------------------------------------------------------------
(* The locks and the buffer they protect.                                  *)

Sending == {"sockMutex", "send"}

(* A step outside SendData, by a thread that does not hold its locks,      *)
(* leaves the message of every thread that does hold them.                 *)
LEMMA OutsideKeepsLocks ==
    ASSUME TypeOK, LockInv, BufferIntact, NEW t \in Threads, NEW from, NEW to,
           Goes(t, from, to), from \notin Sending, to \notin Sending,
           UNCHANGED locks,
           \A x \in Threads \ {t} : MessageOf(x)' = MessageOf(x)
    PROVE  LockInv' /\ BufferIntact'
  <1>1. \A x \in Threads : pc'[x] \in Sending => x # t /\ pc'[x] = pc[x]
    BY DEF TypeOK, ThreadTypes
  <1>2. LockInv'
    BY <1>1 DEF LockInv, Sending
  <1>3. BufferIntact'
    BY <1>1 DEF BufferIntact, Sending
  <1> QED
    BY <1>2, <1>3

LEMMA SendKeepsLocks ==
    ASSUME TypeOK, LockInv, BufferIntact, NEW t \in Threads, SendData(t)
    PROVE  LockInv' /\ BufferIntact'
  <1>1. \A x \in Threads : MessageOf(x)' = MessageOf(x)
    BY DEF SendData, Fill, FillIf, LockSocket, Send, MessageOf, Current
  <1>2. CASE Fill(t)
    <2>1. \A x \in Threads : pc[x] \notin Sending
      BY <1>2, Constants DEF Fill, FillIf, LockInv, Sending
    <2>2. LockInv'
      BY <1>2, <2>1 DEF Fill, FillIf, LockInv, Sending, TypeOK, ThreadTypes
    <2>3. BufferIntact'
      BY <1>1, <1>2, <2>1 DEF Fill, FillIf, BufferIntact, Sending, TypeOK, ThreadTypes
    <2> QED
      BY <2>2, <2>3
  <1>3. CASE LockSocket(t)
    <2>1. \A x \in Threads : pc[x] # "send"
      BY <1>3, Constants DEF LockSocket, LockInv
    <2>2. LockInv'
      BY <1>3, <2>1 DEF LockSocket, LockInv, TypeOK, ThreadTypes
    <2>3. BufferIntact'
      BY <1>1, <1>3 DEF LockSocket, BufferIntact, TypeOK, ThreadTypes
    <2> QED
      BY <2>2, <2>3
  <1>4. CASE Send(t)
    <2>1. \A x \in Threads \ {t} : pc[x] \notin Sending
      BY <1>4 DEF Send, LockInv, Sending
    <2>2. AfterSend(t) \notin Sending
      BY DEF AfterSend, AfterAnswer, Sending
    <2>3. \A x \in Threads : pc'[x] \notin Sending
      BY <1>4, <2>1, <2>2 DEF Send, TypeOK, ThreadTypes
    <2> QED
      BY <2>3 DEF LockInv, BufferIntact, Sending
  <1> QED
    BY <1>2, <1>3, <1>4 DEF SendData

LEMMA HandlerKeepsLocks ==
    ASSUME TypeOK, LockInv, BufferIntact, NEW c \in Clients, handle_clnt(c)
    PROVE  LockInv' /\ BufferIntact'
  <1>1. CASE Recv(c)
    <2>1. \A x \in Threads \ {c} : MessageOf(x)' = MessageOf(x)
      <3>1. \A x \in Threads \ {c, Snd} : got'[x] = got[x]
        BY <1>1 DEF Recv, RecvIf, TypeOK, StreamTypes
      <3> QED
        BY <1>1, <3>1 DEF Recv, RecvIf, MessageOf, Current
    <2> QED
      BY <1>1, <2>1, OutsideKeepsLocks DEF Recv, RecvIf, Sending
  <1>2. CASE RecvEnd(c)
    BY <1>2, OutsideKeepsLocks DEF RecvEnd, Sending, MessageOf, Current
  <1>3. CASE Classify(c)
    <2>1. ClassifiedAs(c) \notin Sending
      BY DEF ClassifiedAs, AfterAnswer, Sending
    <2> QED
      BY <1>3, <2>1, OutsideKeepsLocks DEF Classify, Sending, MessageOf, Current
  <1>4. CASE ClassifyAborts(c)
    BY <1>4 DEF ClassifyAborts, LockInv, BufferIntact, MessageOf, Current
  <1>5. CASE SendData(c)
    BY <1>5, SendKeepsLocks
  <1>6. CASE OnRcvMessage(c)
    <2>1. Goes(c, "queue", "recv") /\ UNCHANGED locks /\ UNCHANGED <<notice, got>>
      BY <1>6 DEF OnRcvMessage
    <2>2. \A x \in Threads : MessageOf(x)' = MessageOf(x)
      BY <2>1 DEF MessageOf, Current
    <2>3. "queue" \notin Sending /\ "recv" \notin Sending
      BY DEF Sending
    <2> QED
      BY <2>1, <2>2, <2>3, OutsideKeepsLocks DEF Threads
  <1>7. CASE Exit(c)
    <2>1. Goes(c, "exit", "shutdown") /\ UNCHANGED locks /\ UNCHANGED <<notice, got>>
      BY <1>7 DEF Exit, ExitAs
    <2>2. \A x \in Threads : MessageOf(x)' = MessageOf(x)
      BY <2>1 DEF MessageOf, Current
    <2>3. "exit" \notin Sending /\ "shutdown" \notin Sending
      BY DEF Sending
    <2> QED
      BY <2>1, <2>2, <2>3, OutsideKeepsLocks DEF Threads
  <1>8. CASE CloseSocket(c)
    <2>1. Goes(c, "shutdown", "gone") /\ UNCHANGED locks /\ UNCHANGED <<notice, got>>
      BY <1>8 DEF CloseSocket
    <2>2. \A x \in Threads : MessageOf(x)' = MessageOf(x)
      BY <2>1 DEF MessageOf, Current
    <2>3. "shutdown" \notin Sending /\ "gone" \notin Sending
      BY DEF Sending
    <2> QED
      BY <2>1, <2>2, <2>3, OutsideKeepsLocks DEF Threads
  <1> QED
    BY <1>1, <1>2, <1>3, <1>4, <1>5, <1>6, <1>7, <1>8 DEF handle_clnt

LEMMA LockStep == IInv /\ [Next]_vars => LockInv' /\ BufferIntact'
  <1> SUFFICES ASSUME IInv, [Next]_vars PROVE LockInv' /\ BufferIntact'
    OBVIOUS
  <1>1. TypeOK /\ LockInv /\ BufferIntact
    BY DEF IInv
  <1>2. ASSUME UNCHANGED <<pc, locks, got, notice>> PROVE LockInv' /\ BufferIntact'
    BY <1>1, <1>2 DEF LockInv, BufferIntact, MessageOf, Current
  <1>3. CASE DaemonMgr \/ JobEnds \/ UNCHANGED vars
    BY <1>2, <1>3 DEF DaemonMgr, BeginSocket, setHandler, SetDMServer, JobEnds
  <1>4. CASE RunSocket
    <2>1. CASE StartHandler
      <3>1. \A x \in Threads : pc'[x] \in Sending => pc'[x] = pc[x]
        BY <1>1, <2>1 DEF StartHandler, Sending, TypeOK, ThreadTypes
      <3>2. UNCHANGED <<locks, got, notice>>
        BY <2>1 DEF StartHandler
      <3> QED
        BY <1>1, <3>1, <3>2 DEF LockInv, BufferIntact, MessageOf, Current, Sending
    <2>2. CASE Listen \/ (\E c \in Clients : Accept(c)) \/ Refuse \/ Admit
      BY <1>2, <2>2 DEF Listen, Accept, Refuse, RefuseAs, Admit, AdmitIf
    <2> QED
      BY <1>4, <2>1, <2>2 DEF RunSocket
  <1>5. ASSUME NEW c \in Clients, handle_clnt(c) PROVE LockInv' /\ BufferIntact'
    BY <1>1, <1>5, HandlerKeepsLocks
  <1>6. CASE SndMSGThread
    <2>1. CASE DequeueNotice
      <3>1. \A x \in Threads \ {Snd} : MessageOf(x)' = MessageOf(x)
        BY <2>1 DEF DequeueNotice, MessageOf, Current
      <3> QED
        BY <1>1, <2>1, <3>1, OutsideKeepsLocks DEF DequeueNotice, Sending
    <2>2. CASE UseUnsetServer
      BY <1>2, <2>2 DEF UseUnsetServer
    <2>3. CASE SendData(Snd)
      BY <1>1, <2>3, SendKeepsLocks
    <2> QED
      BY <1>6, <2>1, <2>2, <2>3 DEF SndMSGThread
  <1>7. ASSUME NEW c \in Clients, Client(c) PROVE LockInv' /\ BufferIntact'
    BY <1>2, <1>7 DEF Client, Connect, Put, Close, Read
  <1> QED
    BY <1>3, <1>4, <1>5, <1>6, <1>7 DEF Next, Wait

-----------------------------------------------------------------------------
(* What SndMSGThread sends, and where answers go.                          *)

LEMMA NoticeStep == IInv /\ [Next]_vars => NoticeInv'
  <1> SUFFICES ASSUME IInv, [Next]_vars PROVE NoticeInv'
    OBVIOUS
  <1>1. TypeOK /\ NoticeInv
    BY DEF IInv
  <1>2. ASSUME pc'[Snd] = pc[Snd], UNCHANGED <<notice, m_qSMSG>> PROVE NoticeInv'
    BY <1>1, <1>2 DEF NoticeInv
  <1>3. CASE DaemonMgr \/ UNCHANGED vars
    BY <1>2, <1>3 DEF DaemonMgr, BeginSocket, setHandler, SetDMServer
  <1>4. CASE RunSocket
    <2>1. m_ClientSockets # Snd
      BY <1>1, Constants DEF TypeOK, ThreadTypes
    <2> QED
      BY <1>2, <1>4, <2>1, <1>1
      DEF RunSocket, Listen, Accept, Refuse, RefuseAs, Admit, AdmitIf, StartHandler, TypeOK,
          ThreadTypes
  <1>5. ASSUME NEW c \in Clients, handle_clnt(c) PROVE NoticeInv'
    <2>1. c # Snd
      BY Constants
    <2>2. UNCHANGED <<notice, m_qSMSG>>
      BY <1>5 DEF handle_clnt, Recv, RecvIf, RecvEnd, Classify, ClassifyAborts, SendData,
                  Fill, FillIf, LockSocket, Send, OnRcvMessage, Exit, ExitAs,
                  CloseSocket
    <2>3. pc'[Snd] = pc[Snd]
      BY <1>1, <1>5, <2>1
      DEF handle_clnt, Recv, RecvIf, RecvEnd, Classify, ClassifyAborts, SendData,
          Fill, FillIf, LockSocket, Send, OnRcvMessage, Exit, ExitAs,
          CloseSocket, TypeOK, ThreadTypes
    <2> QED
      BY <1>2, <2>2, <2>3
  <1>6. CASE SndMSGThread
    <2>1. CASE DequeueNotice
      <3>1. /\ m_qSMSG # <<>> /\ m_qSMSG \in Seq(Message)
            /\ notice' = Head(m_qSMSG) /\ m_qSMSG' = Tail(m_qSMSG)
        BY <1>1, <2>1 DEF DequeueNotice, TypeOK, QueueTypes
      <3>2. Len(m_qSMSG) \in Nat /\ 1 \in 1..Len(m_qSMSG) /\ Head(m_qSMSG) = m_qSMSG[1]
        BY <3>1, EmptySeq, LenProperties, HeadTailProperties
      <3>3. notice' \in Message /\ notice'.kind = "notice"
        BY <1>1, <3>1, <3>2, HeadTailProperties DEF NoticeInv
      <3>5. \A i \in 1..Len(m_qSMSG') : m_qSMSG'[i].kind = "notice"
        <4>1. \A i \in 1..Len(m_qSMSG') : i + 1 \in 1..Len(m_qSMSG)
                                          /\ m_qSMSG'[i] = m_qSMSG[i + 1]
          BY <3>1, <3>2, HeadTailProperties
        <4> QED
          BY <1>1, <4>1 DEF NoticeInv
      <3>6. pc'[Snd] = "sendMutex"
        BY <1>1, <2>1 DEF DequeueNotice, TypeOK, ThreadTypes
      <3> QED
        BY <3>3, <3>5, <3>6 DEF NoticeInv
    <2>2. CASE UseUnsetServer
      BY <1>2, <2>2 DEF UseUnsetServer
    <2>3. CASE SendData(Snd)
      <3>1. pc'[Snd] \in {"recv", "sockMutex", "send"} /\ pc[Snd] # "recv"
        BY <1>1, <2>3 DEF SendData, Fill, FillIf, LockSocket, Send, AfterSend,
                          TypeOK, ThreadTypes
      <3>2. UNCHANGED <<notice, m_qSMSG>>
        BY <2>3 DEF SendData, Fill, FillIf, LockSocket, Send
      <3> QED
        BY <1>1, <3>1, <3>2 DEF NoticeInv
    <2> QED
      BY <1>6, <2>1, <2>2, <2>3 DEF SndMSGThread
  <1>7. CASE JobEnds
    <2>1. CASE UNCHANGED m_qSMSG
      BY <1>2, <1>7, <2>1 DEF JobEnds
    <2>2. CASE m_qSMSG' = Append(m_qSMSG, [kind |-> "notice", of |-> Head(jobs)])
      <3>1. Head(jobs) \in Request
        BY <1>1, <1>7, HeadTailProperties DEF JobEnds, TypeOK, QueueTypes
      <3>2. [kind |-> "notice", of |-> Head(jobs)] \in Message
        BY <3>1 DEF Message
      <3>3. \A i \in 1..Len(m_qSMSG') :
               \/ i \in 1..Len(m_qSMSG) /\ m_qSMSG'[i] = m_qSMSG[i]
               \/ m_qSMSG'[i] = [kind |-> "notice", of |-> Head(jobs)]
        BY <1>1, <2>2, <3>2, AppendProperties, LenProperties DEF TypeOK, QueueTypes
      <3>4. \A i \in 1..Len(m_qSMSG') : m_qSMSG'[i].kind = "notice"
        BY <1>1, <3>3 DEF NoticeInv
      <3> QED
        BY <1>1, <1>7, <3>4 DEF JobEnds, NoticeInv
    <2> QED
      BY <1>7, <2>1, <2>2 DEF JobEnds
  <1>8. ASSUME NEW c \in Clients, Client(c) PROVE NoticeInv'
    BY <1>2, <1>8 DEF Client, Connect, Put, Close, Read
  <1> QED
    BY <1>3, <1>4, <1>5, <1>6, <1>7, <1>8 DEF Next, Wait

LEMMA SendToAsker ==
    ASSUME IInv, NEW t \in Threads, Send(t)
    PROVE  AnswersToAsker'
  <1>1. PICK to \in Clients \cup {None} :
            /\ attempts' = Append(attempts, [msg |-> m_pSendBuffer, to |-> to])
            /\ to \in {m_ClientSockets, None}
    BY DEF Send, Reachable
  <1>2. m_pSendBuffer = MessageOf(t)
    BY DEF IInv, BufferIntact, Send
  <1>3. m_pSendBuffer.kind = "answer" => to \in {m_pSendBuffer.of.client, None}
    <2>1. CASE t = Snd
      BY <1>2, <2>1 DEF MessageOf, IInv, NoticeInv, Send
    <2>2. CASE t # Snd
      <3>1. m_ClientSockets = t
        BY <2>2 DEF IInv, OneClient, Serving, Send
      <3> QED
        BY <1>1, <1>2, <2>2, <3>1 DEF MessageOf, Current
    <2> QED
      BY <2>1, <2>2
  <1>4. m_pSendBuffer \in Message
    BY <1>2, MessageType DEF IInv, NoticeInv, Send
  <1>5. [msg |-> m_pSendBuffer, to |-> to] \in Attempt
    BY <1>4 DEF Attempt
  <1>6. \A i \in 1..Len(attempts') :
           \/ i \in 1..Len(attempts) /\ attempts'[i] = attempts[i]
           \/ attempts'[i] = [msg |-> m_pSendBuffer, to |-> to]
    BY <1>1, <1>5, AppendProperties, LenProperties DEF IInv, TypeOK
  <1> QED
    BY <1>3, <1>6 DEF IInv, AnswersToAsker

LEMMA AskerStep == IInv /\ [Next]_vars => AnswersToAsker'
  <1> SUFFICES ASSUME IInv, [Next]_vars PROVE AnswersToAsker'
    OBVIOUS
  <1>1. ASSUME UNCHANGED attempts PROVE AnswersToAsker'
    BY <1>1 DEF IInv, AnswersToAsker
  <1>2. ASSUME NEW t \in Threads, SendData(t) PROVE AnswersToAsker'
    BY <1>1, <1>2, SendToAsker DEF SendData, Fill, FillIf, LockSocket
  <1>3. CASE DaemonMgr \/ RunSocket \/ JobEnds \/ UNCHANGED vars
    BY <1>1, <1>3 DEF DaemonMgr, BeginSocket, setHandler, SetDMServer, RunSocket, Listen,
                      Accept, Refuse, RefuseAs, Admit, AdmitIf, StartHandler, JobEnds
  <1>4. ASSUME NEW c \in Clients, handle_clnt(c) PROVE AnswersToAsker'
    BY <1>1, <1>2, <1>4 DEF handle_clnt, Recv, RecvIf, RecvEnd, Classify, ClassifyAborts,
                            OnRcvMessage, Exit, ExitAs, CloseSocket
  <1>5. CASE SndMSGThread
    BY <1>1, <1>2, <1>5 DEF SndMSGThread, DequeueNotice, UseUnsetServer
  <1>6. ASSUME NEW c \in Clients, Client(c) PROVE AnswersToAsker'
    BY <1>1, <1>6 DEF Client, Connect, Put, Close, Read
  <1> QED
    BY <1>3, <1>4, <1>5, <1>6 DEF Next, Wait

-----------------------------------------------------------------------------
(* A request that was handed over was answered before, and its client's    *)
(* handler was started: from there on both stay true.                      *)

Answered(r) ==
    \E j \in 1..Len(attempts) : attempts[j].msg = [kind |-> "answer", of |-> r]

TakenOnes == {r \in Request : pc[r.client] # "none" /\ (~m_bThreadStop => Answered(r))}
Notices == [kind : {"notice"}, of : TakenOnes]

(* Every request on the way to its notice was taken.                       *)
TakenInv ==
    /\ jobs \in Seq(TakenOnes) /\ m_qSMSG \in Seq(Notices)
    /\ pc[Snd] # "recv" => notice \in Notices
    /\ \A c \in Clients : pc[c] = "queue" => Current(c) \in TakenOnes

(* Send is the only step that attempts anything, and it sends the message  *)
(* of its thread.                                                          *)
LEMMA SendAppends ==
    ASSUME IInv, NEW t \in Threads, Send(t)
    PROVE  \E to \in Clients \cup {None} :
              /\ [msg |-> MessageOf(t), to |-> to] \in Attempt
              /\ to \in {m_ClientSockets, None}
              /\ attempts' = Append(attempts, [msg |-> MessageOf(t), to |-> to])
              /\ Len(attempts') = Len(attempts) + 1
              /\ attempts'[Len(attempts) + 1] = [msg |-> MessageOf(t), to |-> to]
              /\ \A i \in 1..Len(attempts) : attempts'[i] = attempts[i]
  <1>1. m_pSendBuffer = MessageOf(t)
    BY DEF IInv, BufferIntact, Send
  <1>2. PICK to \in Clients \cup {None} :
            /\ attempts' = Append(attempts, [msg |-> MessageOf(t), to |-> to])
            /\ to \in {m_ClientSockets, None}
    BY <1>1 DEF Send, Reachable
  <1>3. MessageOf(t) \in Message
    BY MessageType DEF IInv, NoticeInv, Send
  <1>4. [msg |-> MessageOf(t), to |-> to] \in Attempt
    BY <1>3 DEF Attempt
  <1>5. attempts \in Seq(Attempt)
    BY DEF IInv, TypeOK
  <1>6. ASSUME NEW a \in Attempt, attempts' = Append(attempts, a)
        PROVE  /\ Len(attempts') = Len(attempts) + 1
               /\ attempts'[Len(attempts) + 1] = a
               /\ \A i \in 1..Len(attempts) : attempts'[i] = attempts[i]
    BY <1>5, <1>6, AppendProperties
  <1> QED
    BY <1>2, <1>4, <1>6

LEMMA OnlySendAttempts ==
    IInv /\ [Next]_vars => UNCHANGED attempts \/ \E t \in Threads : Send(t)
  BY DEF Next, DaemonMgr, BeginSocket, setHandler, SetDMServer, RunSocket, Listen, Accept,
         Refuse, RefuseAs, Admit, AdmitIf, StartHandler, JobEnds, handle_clnt, Recv, RecvIf, RecvEnd, Classify,
         ClassifyAborts, OnRcvMessage, Exit, ExitAs, CloseSocket, SendData, Fill, FillIf,
         LockSocket, SndMSGThread, DequeueNotice, UseUnsetServer, Client, Connect, Put, Close, Read, Wait

LEMMA AnsweredStays ==
    ASSUME IInv, [Next]_vars, NEW r, Answered(r)
    PROVE  Answered(r)'
  <1>1. CASE UNCHANGED attempts
    BY <1>1 DEF Answered
  <1>2. ASSUME NEW t \in Threads, Send(t) PROVE Answered(r)'
    <2>1. Len(attempts) \in Nat
      BY LenProperties DEF IInv, TypeOK
    <2>2. Len(attempts') = Len(attempts) + 1 /\ \A i \in 1..Len(attempts) : attempts'[i] = attempts[i]
      BY <1>2, SendAppends
    <2>3. PICK j \in 1..Len(attempts) : attempts[j].msg = [kind |-> "answer", of |-> r]
      BY DEF Answered
    <2>4. j \in 1..Len(attempts') /\ attempts'[j].msg = [kind |-> "answer", of |-> r]
      BY <2>1, <2>2, <2>3
    <2> QED
      BY <2>4 DEF Answered
  <1> QED
    BY <1>1, <1>2, OnlySendAttempts

LEMMA StartedStays ==
    ASSUME TypeOK, [Next]_vars, NEW c \in Clients, pc[c] # "none"
    PROVE  pc'[c] # "none"
  <1> USE DEF TypeOK, ThreadTypes
  <1>1. CASE DaemonMgr \/ JobEnds \/ UNCHANGED vars
    BY <1>1 DEF DaemonMgr, BeginSocket, setHandler, SetDMServer, JobEnds
  <1>2. CASE RunSocket
    BY <1>2 DEF RunSocket, Listen, Accept, Refuse, RefuseAs, Admit, AdmitIf, StartHandler
  <1>3. ASSUME NEW t \in Threads, SendData(t) PROVE pc'[c] # "none"
    BY <1>3 DEF SendData, Fill, FillIf, LockSocket, Send, AfterSend, AfterAnswer
  <1>4. ASSUME NEW d \in Clients, handle_clnt(d) PROVE pc'[c] # "none"
    BY <1>3, <1>4 DEF handle_clnt, Recv, RecvIf, RecvEnd, Classify, ClassifiedAs, AfterAnswer,
                      ClassifyAborts, OnRcvMessage, Exit, ExitAs, CloseSocket
  <1>5. CASE SndMSGThread
    BY <1>3, <1>5 DEF SndMSGThread, DequeueNotice, UseUnsetServer
  <1>6. ASSUME NEW d \in Clients, Client(d) PROVE pc'[c] # "none"
    BY <1>6 DEF Client, Connect, Put, Close, Read
  <1> QED
    BY <1>1, <1>2, <1>4, <1>5, <1>6 DEF Next, Wait

LEMMA FlagStays == [Next]_vars => UNCHANGED m_bThreadStop
  BY DEF Next, DaemonMgr, BeginSocket, setHandler, SetDMServer, RunSocket, Listen, Accept,
         Refuse, RefuseAs, Admit, AdmitIf, StartHandler, JobEnds, handle_clnt, Recv, RecvIf, RecvEnd, Classify,
         ClassifyAborts, OnRcvMessage, Exit, ExitAs, CloseSocket, SendData, Fill, FillIf,
         LockSocket, Send, SndMSGThread, DequeueNotice, UseUnsetServer, Client, Connect, Put,
         Close, Read, Wait

LEMMA TakenStays == IInv /\ [Next]_vars => TakenOnes \subseteq TakenOnes'
  <1> SUFFICES ASSUME IInv, [Next]_vars, NEW r \in TakenOnes PROVE r \in TakenOnes'
    OBVIOUS
  <1>1. r \in Request /\ r.client \in Clients
    BY DEF TakenOnes, Request
  <1>2. pc'[r.client] # "none"
    BY <1>1, StartedStays DEF TakenOnes, IInv
  <1>3. ~m_bThreadStop' => Answered(r)'
    BY FlagStays, AnsweredStays DEF TakenOnes
  <1> QED
    BY <1>1, <1>2, <1>3 DEF TakenOnes

(* The parts of TakenInv that a step leaves as they are.                   *)
LEMMA TakenKept ==
    ASSUME IInv, TakenInv, [Next]_vars
    PROVE  /\ jobs \in Seq(TakenOnes') /\ m_qSMSG \in Seq(Notices')
           /\ pc[Snd] # "recv" => notice \in Notices'
           /\ \A c \in Clients : pc[c] = "queue" => Current(c) \in TakenOnes'
  <1>1. TakenOnes \subseteq TakenOnes'
    BY TakenStays
  <1>2. Notices \subseteq Notices'
    BY <1>1 DEF Notices
  <1>3. jobs \in Seq(TakenOnes') /\ m_qSMSG \in Seq(Notices')
    BY <1>1, <1>2, SeqMonotonic DEF TakenInv
  <1> QED
    BY <1>1, <1>2, <1>3 DEF TakenInv

LEMMA TakenElsewhere ==
    ASSUME IInv, TakenInv, [Next]_vars,
           UNCHANGED queues,
           pc'[Snd] # "recv" => pc[Snd] # "recv" /\ UNCHANGED notice,
           \A c \in Clients : pc'[c] = "queue" => pc[c] = "queue" /\ got'[c] = got[c]
    PROVE  TakenInv'
  <1>1. \A c \in Clients : pc'[c] = "queue" => Current(c)' = Current(c)
    BY DEF Current
  <1> QED
    BY <1>1, TakenKept DEF TakenInv

(* SendData: a request that goes on to the queue has just been answered.   *)
LEMMA SendTakes ==
    ASSUME IInv, TakenInv, [Next]_vars, NEW t \in Threads, SendData(t)
    PROVE  TakenInv'
  <1>0. UNCHANGED <<queues, got, notice>>
    BY DEF SendData, Fill, FillIf, LockSocket, Send
  <1>1. \A x \in Threads \ {t} : pc'[x] = pc[x]
    BY DEF IInv, TypeOK, ThreadTypes, SendData, Fill, FillIf, LockSocket, Send
  <1>2. pc[t] # "recv" /\ pc[t] # "none"
    BY DEF SendData, Fill, FillIf, LockSocket, Send
  <1>3. CASE Fill(t) \/ LockSocket(t)
    <2>1. pc'[t] \in Sending
      BY <1>3 DEF IInv, TypeOK, ThreadTypes, Fill, FillIf, LockSocket, Sending
    <2> QED
      BY <1>0, <1>1, <1>2, <2>1, TakenElsewhere DEF Sending
  <1>4. CASE Send(t) /\ t = Snd
    BY <1>0, <1>1, <1>2, <1>4, TakenElsewhere, Constants
  <1>5. CASE Send(t) /\ t # Snd
    <2>1. PICK to \in Clients \cup {None} :
             attempts'[Len(attempts) + 1] = [msg |-> MessageOf(t), to |-> to]
      BY <1>5, SendAppends
    <2>2. Len(attempts') = Len(attempts) + 1 /\ Len(attempts) \in Nat
      BY <1>5, SendAppends, LenProperties DEF IInv, TypeOK
    <2>3. \E j \in 1..Len(attempts') : attempts'[j].msg = [kind |-> "answer", of |-> Current(t)]
      BY <1>5, <2>1, <2>2 DEF MessageOf
    <2>4. Current(t) \in Request /\ Current(t).client = t
      BY <1>5 DEF IInv, TypeOK, StreamTypes, Current, Request
    <2>5. pc'[t] # "none"
      BY <1>2, <1>5, StartedStays DEF IInv
    <2>6. Current(t) \in TakenOnes'
      BY <2>3, <2>4, <2>5 DEF TakenOnes, Answered
    <2>7. \A c \in Clients : Current(c)' = Current(c)
      BY <1>0 DEF Current
    <2>8. \A c \in Clients : pc'[c] = "queue" => Current(c)' \in TakenOnes'
      BY <1>1, <2>6, <2>7, TakenKept
    <2> QED
      BY <1>0, <1>1, <1>5, <2>8, TakenKept DEF TakenInv
  <1> QED
    BY <1>3, <1>4, <1>5 DEF SendData

LEMMA HandlerTakes ==
    ASSUME IInv, TakenInv, [Next]_vars, NEW c \in Clients, handle_clnt(c)
    PROVE  TakenInv'
  <1> USE Constants
  <1>1. CASE Recv(c)
    <2>1. \A x \in Threads \ {c} : pc'[x] = pc[x]
      BY <1>1 DEF IInv, TypeOK, ThreadTypes, Recv, RecvIf
    <2>2. pc'[c] = "classify" /\ \A x \in Clients \ {c} : got'[x] = got[x]
      BY <1>1 DEF IInv, TypeOK, ThreadTypes, StreamTypes, Recv, RecvIf
    <2> QED
      BY <1>1, <2>1, <2>2, TakenElsewhere DEF Recv, RecvIf
  <1>2. CASE RecvEnd(c) \/ Exit(c) \/ CloseSocket(c) \/ ClassifyAborts(c)
    <2>1. \A x \in Threads : pc'[x] = pc[x] \/ (x = c /\ pc'[x] # "queue")
      BY <1>2 DEF IInv, TypeOK, ThreadTypes, RecvEnd, Exit, ExitAs, CloseSocket, ClassifyAborts
    <2> QED
      BY <1>2, <2>1, TakenElsewhere DEF RecvEnd, Exit, ExitAs, CloseSocket, ClassifyAborts
  <1>3. CASE Classify(c)
    <2>1. UNCHANGED <<queues, got, notice>> /\ \A x \in Threads \ {c} : pc'[x] = pc[x]
      BY <1>3 DEF IInv, TypeOK, ThreadTypes, Classify
    <2>2. CASE pc'[c] # "queue"
      BY <2>1, <2>2, TakenElsewhere
    <2>3. CASE pc'[c] = "queue"
      <3>1. m_bThreadStop'
        BY <1>3, <2>3, FlagStays
        DEF IInv, TypeOK, ThreadTypes, Classify, ClassifiedAs, AfterAnswer
      <3>2. Current(c) \in TakenOnes'
        BY <2>3, <3>1 DEF TakenOnes, IInv, TypeOK, StreamTypes, Current, Request
      <3>3. \A x \in Clients : Current(x)' = Current(x)
        BY <2>1 DEF Current
      <3> QED
        BY <2>1, <3>2, <3>3, TakenKept DEF TakenInv
    <2> QED
      BY <2>2, <2>3
  <1>4. CASE SendData(c)
    BY <1>4, SendTakes
  <1>5. CASE OnRcvMessage(c)
    <2>1. \A x \in Threads : pc'[x] = IF x = c THEN "recv" ELSE pc[x]
      BY <1>5 DEF IInv, TypeOK, ThreadTypes, OnRcvMessage
    <2>2. jobs' \in Seq(TakenOnes')
      BY <1>5, TakenKept, AppendProperties DEF OnRcvMessage
    <2>3. \A x \in Clients : Current(x)' = Current(x)
      BY <1>5 DEF OnRcvMessage, Current
    <2> QED
      BY <1>5, <2>1, <2>2, <2>3, TakenKept DEF OnRcvMessage, TakenInv
  <1> QED
    BY <1>1, <1>2, <1>3, <1>4, <1>5 DEF handle_clnt

LEMMA TakenStep == IInv /\ TakenInv /\ [Next]_vars => TakenInv'
  <1> SUFFICES ASSUME IInv, TakenInv, [Next]_vars PROVE TakenInv'
    OBVIOUS
  <1> USE Constants
  <1>1. CASE DaemonMgr \/ UNCHANGED vars
    BY <1>1, TakenElsewhere DEF DaemonMgr, BeginSocket, setHandler, SetDMServer
  <1>2. CASE RunSocket
    BY <1>2, TakenElsewhere
    DEF IInv, TypeOK, ThreadTypes, RunSocket, Listen, Accept, Refuse, RefuseAs, Admit, AdmitIf, StartHandler
  <1>3. ASSUME NEW c \in Clients, handle_clnt(c) PROVE TakenInv'
    BY <1>3, HandlerTakes
  <1>4. CASE DequeueNotice
    <2>1. m_qSMSG \in Seq(Notices') /\ m_qSMSG # <<>>
      BY <1>4, TakenKept DEF DequeueNotice
    <2>2. Head(m_qSMSG) \in Notices' /\ Tail(m_qSMSG) \in Seq(Notices')
      BY <2>1, HeadTailProperties
    <2>3. \A c \in Clients : pc'[c] = pc[c] /\ Current(c)' = Current(c)
      BY <1>4 DEF IInv, TypeOK, ThreadTypes, DequeueNotice, Current
    <2> QED
      BY <1>4, <2>2, <2>3, TakenKept DEF DequeueNotice, TakenInv
  <1>5. CASE UseUnsetServer
    BY <1>5, TakenElsewhere DEF UseUnsetServer
  <1>6. CASE SendData(Snd)
    BY <1>6, SendTakes
  <1>7. CASE JobEnds
    <2>1. jobs \in Seq(TakenOnes') /\ jobs # <<>> /\ m_qSMSG \in Seq(Notices')
      BY <1>7, TakenKept DEF JobEnds
    <2>2. Head(jobs) \in TakenOnes' /\ jobs' \in Seq(TakenOnes')
      BY <1>7, <2>1, HeadTailProperties DEF JobEnds
    <2>3. [kind |-> "notice", of |-> Head(jobs)] \in Notices'
      BY <2>2 DEF Notices
    <2>4. m_qSMSG' \in Seq(Notices')
      BY <1>7, <2>1, <2>3, AppendProperties DEF JobEnds
    <2>5. \A c \in Clients : Current(c)' = Current(c)
      BY <1>7 DEF JobEnds, Current
    <2> QED
      BY <1>7, <2>2, <2>4, <2>5, TakenKept DEF JobEnds, TakenInv
  <1>8. ASSUME NEW c \in Clients, Client(c) PROVE TakenInv'
    BY <1>8, TakenElsewhere DEF Client, Connect, Put, Close, Read
  <1> QED
    BY <1>1, <1>2, <1>3, <1>4, <1>5, <1>6, <1>7, <1>8 DEF Next, Wait, SndMSGThread

LEMMA InitTaken == Init => TakenInv
  BY Constants, EmptySeq DEF Init, TakenInv

(* A notice is sent only for a request that was taken, after its answer.   *)
LEMMA AnsweredFirst == IInv /\ TakenInv /\ AnswerBeforeNotice /\ [Next]_vars => AnswerBeforeNotice'
  <1> SUFFICES ASSUME IInv, TakenInv, AnswerBeforeNotice, [Next]_vars PROVE AnswerBeforeNotice'
    OBVIOUS
  <1>1. CASE UNCHANGED attempts
    BY <1>1, FlagStays DEF AnswerBeforeNotice
  <1>2. ASSUME NEW t \in Threads, Send(t) PROVE AnswerBeforeNotice'
    <2> DEFINE n == Len(attempts)
    <2>1. /\ n \in Nat /\ Len(attempts') = n + 1
          /\ \A i \in 1..n : attempts'[i] = attempts[i]
          /\ attempts'[n + 1].msg = MessageOf(t)
      <3>1. PICK to \in Clients \cup {None} :
               /\ attempts'[n + 1] = [msg |-> MessageOf(t), to |-> to]
               /\ Len(attempts') = n + 1
               /\ \A i \in 1..n : attempts'[i] = attempts[i]
        BY <1>2, SendAppends
      <3>2. n \in Nat
        BY LenProperties DEF IInv, TypeOK
      <3> QED
        BY <3>1, <3>2
    <2>2. MessageOf(t).kind = "notice" /\ ~m_bThreadStop => Answered(MessageOf(t).of)
      <3>1. CASE t = Snd
        BY <1>2, <3>1 DEF MessageOf, TakenInv, Notices, TakenOnes, Send
      <3>2. CASE t # Snd
        BY <3>2 DEF MessageOf
      <3> QED
        BY <3>1, <3>2
    <2> SUFFICES ASSUME NEW i \in 1..(n + 1), attempts'[i].msg.kind = "notice", ~m_bThreadStop
                 PROVE  \E j \in 1..(i - 1) :
                           attempts'[j].msg = [kind |-> "answer", of |-> attempts'[i].msg.of]
      BY <2>1, FlagStays DEF AnswerBeforeNotice
    <2>3. CASE i = n + 1
      <3>1. PICK j \in 1..n : attempts[j].msg = [kind |-> "answer", of |-> MessageOf(t).of]
        BY <2>1, <2>2, <2>3 DEF Answered
      <3> QED
        BY <2>1, <2>3, <3>1
    <2>4. CASE i \in 1..n
      <3>1. attempts'[i] = attempts[i]
        BY <2>1, <2>4
      <3>2. PICK j \in 1..(i - 1) : attempts[j].msg = [kind |-> "answer", of |-> attempts[i].msg.of]
        BY <2>4, <3>1 DEF AnswerBeforeNotice
      <3>3. j \in 1..n /\ attempts'[j] = attempts[j]
        BY <2>1, <2>4
      <3> QED
        BY <3>1, <3>2, <3>3
    <2> QED
      BY <2>1, <2>3, <2>4
  <1> QED
    BY <1>1, <1>2, OnlySendAttempts

LEMMA NoticeGoesHome == IInv /\ TakenInv /\ [Next]_vars => ~NoticeMisdirected
  <1> SUFFICES ASSUME IInv, TakenInv, [Next]_vars, NoticeMisdirected PROVE FALSE
    OBVIOUS
  <1>1. PICK t \in Threads : Send(t)
    BY OnlySendAttempts DEF NoticeMisdirected
  <1>2. PICK to \in {m_ClientSockets, None} : attempts'[Len(attempts')] = [msg |-> MessageOf(t), to |-> to]
    BY <1>1, SendAppends
  <1> DEFINE asker == MessageOf(t).of.client
  <1>3. /\ MessageOf(t).kind = "notice" /\ to \notin {None, asker}
        /\ pc[asker] \notin {"shutdown", "gone"}
    BY <1>2 DEF NoticeMisdirected
  <1>4. asker \in Clients /\ pc[asker] # "none"
    BY <1>1, <1>3 DEF MessageOf, TakenInv, Notices, TakenOnes, Request, Send
  <1>5. m_ClientSockets = asker
    BY <1>3, <1>4 DEF IInv, OneClient, Serving
  <1> QED
    BY <1>2, <1>3, <1>5

-----------------------------------------------------------------------------
(* The invariant, and the theorems that follow from it.                    *)

(* IInv holds in every state the server can reach.                         *)
THEOREM InvHolds == Spec => []IInv
  <1>1. IInv /\ [Next]_vars => IInv'
    BY TypeStep, PlaceStep, LockStep, NoticeStep, AskerStep DEF IInv
  <1> QED
    BY InitInv, <1>1, PTL DEF Spec

(* The variables keep their types, for any clients, scripts and bounds: in *)
(* particular the thread RunSocket starts is always given a socket.        *)
THEOREM ServerTypes == Spec => []TypeOK
  <1>1. IInv => TypeOK
    BY DEF IInv
  <1> QED
    BY <1>1, InvHolds, PTL

(* However many clients connect, one handler at a time is in its loop, and *)
(* m_ClientSockets is its socket.                                          *)
THEOREM ServesOneClient == Spec => []OneClient
  <1>1. IInv => OneClient
    BY DEF IInv
  <1> QED
    BY <1>1, InvHolds, PTL

(* The two threads in SendData never spoil each other's buffer.            *)
THEOREM BufferProtected == Spec => []BufferIntact
  <1>1. IInv => BufferIntact
    BY DEF IInv
  <1> QED
    BY <1>1, InvHolds, PTL

(* The answer to a request is sent to the client that asked or to nobody.  *)
THEOREM AnswerRouted == Spec => []AnswersToAsker
  <1>1. IInv => AnswersToAsker
    BY DEF IInv
  <1> QED
    BY <1>1, InvHolds, PTL

LEMMA TakenHolds == Spec => [](TakenInv /\ AnswerBeforeNotice)
  <1>1. Init => TakenInv /\ AnswerBeforeNotice
    BY InitTaken DEF Init, AnswerBeforeNotice
  <1>2. IInv /\ TakenInv /\ AnswerBeforeNotice /\ [Next]_vars => (TakenInv /\ AnswerBeforeNotice)'
    BY TakenStep, AnsweredFirst
  <1> QED
    BY <1>1, <1>2, InvHolds, PTL DEF Spec

(* Whatever the jobs and the two senders do, a request is answered before  *)
(* its result is announced, unless the flag nobody initializes came up.    *)
THEOREM AnsweredBeforeNotice == Spec => []AnswerBeforeNotice
  BY TakenHolds, PTL

(* A notice goes to another client than the one that asked only when the   *)
(* handler of that one has given up its place.                             *)
THEOREM NoticeRouted == Spec => NoticeToAskerWhileServed
  <1>1. IInv /\ TakenInv /\ [Next]_vars => [~NoticeMisdirected]_vars
    BY NoticeGoesHome
  <1> QED
    BY <1>1, InvHolds, TakenHolds, PTL DEF Spec, NoticeToAskerWhileServed

=============================================================================
