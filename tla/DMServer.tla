------------------------------ MODULE DMServer ------------------------------
(***************************************************************************)
(* The daemon's socket server with the threads that use it: main, which    *)
(* constructs DaemonMgr; RunSocket, which accepts; one handle_clnt for     *)
(* each client it admitted; and MsgManager's SndMSGThread.  A handler      *)
(* receives a packet, lets RecJson answer it, hands a "Stabilize" request  *)
(* to MsgManager and receives again; RunParse joins the parser thread it   *)
(* starts, so the parser is a part of the handler.  The jobs between       *)
(* OnRcvMessage and m_qSMSG are those of StabilizeService.                 *)
(*                                                                         *)
(* A client connects once, sends the packets of its script and may close   *)
(* at any moment; packets still unread are lost with a reset.  A packet is *)
(* received as a whole.  No section under m_Sockmutx blocks except send,   *)
(* so the others are one step.                                             *)
(***************************************************************************)
EXTENDS RequestDispatch, FiniteSets

CONSTANTS
    Clients,    \* the connections clients try to make
    Script,     \* client -> the texts it sends, one in a packet
    Snd,        \* SndMSGThread
    None,       \* no socket, a free mutex
    Window,     \* messages that fit into a socket's send buffer
    MaxFds      \* sockets the process may have

ASSUME ServerAssumption ==
    /\ Snd \notin Clients
    /\ None \notin Clients \cup {Snd}
    /\ Script \in [Clients -> Seq(Text)]
    /\ Window \in Nat \ {0}
    /\ MaxFds \in Nat

Threads == Clients \cup {Snd}
Request == [client : Clients, n : Nat]       \* the n-th packet of a client
Message == [kind : {"answer", "notice"}, of : Request]

VARIABLES
    main,            \* the constructor's next statement
    m_bThreadStop,   \* DaemonParser's flag, which nothing ever sets
    acc, fd, fds,    \* RunSocket: where it is, the socket it accepted, sockets in use
    m_ClientSockets, m_Sockmutx, m_SendMutex, m_pSendBuffer,
    pc,              \* the handlers and SndMSGThread: where they are
    notice,          \* the message SndMSGThread has dequeued
    jobs, m_qSMSG,   \* requests handed to MsgManager, and their notices
    alive,           \* the process has not aborted
    conn,            \* client -> its connection, as the server left it
    closed,          \* clients that have closed
    put, got, unread,   \* packets sent, packets received, messages to be read
    attempts         \* history: the SendData calls that ended, and where to

setup  == <<main, m_bThreadStop>>
accept == <<acc, fd, fds>>
locks  == <<m_Sockmutx, m_SendMutex, m_pSendBuffer>>
net    == <<conn, closed, put, got, unread>>
queues == <<jobs, m_qSMSG>>
vars   == <<setup, accept, m_ClientSockets, locks, pc, notice, queues, alive, net,
            attempts>>

Attempt == [msg : Message, to : Clients \cup {None}]

SetupTypes ==
    /\ main \in {"beginSocket", "setHandler", "setDMServer", "run"}
    /\ m_bThreadStop \in BOOLEAN /\ alive \in BOOLEAN
AcceptTypes ==
    /\ acc \in {"listen", "accept", "check", "start", "ended"}
    /\ fd \in Clients \cup {None} /\ fds \in 0..MaxFds
LockTypes ==
    /\ m_Sockmutx \in Threads \cup {None} /\ m_SendMutex \in Threads \cup {None}
    /\ m_pSendBuffer \in Message \cup {None}
ThreadTypes ==
    /\ pc \in [Threads -> {"none", "recv", "classify", "sendMutex", "sockMutex",
                           "send", "queue", "exit", "shutdown", "gone"}]
    /\ m_ClientSockets \in Clients \cup {None}
QueueTypes ==
    /\ notice \in Message \cup {None}
    /\ jobs \in Seq(Request) /\ m_qSMSG \in Seq(Message)
StreamTypes ==
    /\ put \in [Clients -> Nat] /\ got \in [Clients -> Nat]
    /\ \A c \in Clients : got[c] <= put[c] /\ put[c] <= Len(Script[c])
NetTypes ==
    /\ conn \in [Clients -> {"new", "pending", "open", "shut"}]
    /\ closed \subseteq Clients
    /\ unread \in [Clients -> 0..Window]

(* The values the variables take; no packet is received that was not sent, *)
(* and no send goes into a full buffer.                                    *)
TypeOK ==
    /\ SetupTypes /\ AcceptTypes /\ LockTypes /\ ThreadTypes /\ QueueTypes
    /\ StreamTypes /\ NetTypes /\ attempts \in Seq(Attempt)

(* m_bThreadStop is never initialized.                                     *)
Init ==
    /\ main = "beginSocket" /\ m_bThreadStop \in BOOLEAN
    /\ acc = "listen" /\ fd = None /\ fds = 0
    /\ m_ClientSockets = None
    /\ m_Sockmutx = None /\ m_SendMutex = None /\ m_pSendBuffer = None
    /\ pc = [t \in Threads |-> IF t = Snd THEN "recv" ELSE "none"]
    /\ notice = None /\ jobs = <<>> /\ m_qSMSG = <<>>
    /\ alive = TRUE
    /\ conn = [c \in Clients |-> "new"] /\ closed = {}
    /\ put = [c \in Clients |-> 0] /\ got = put /\ unread = put
    /\ attempts = <<>>

-----------------------------------------------------------------------------
(* DaemonMgr::DaemonMgr: the server listens before it has a handler, and   *)
(* MsgManager gets its server last.                                        *)
MainGoes(from, to) ==
    /\ alive /\ main = from /\ main' = to
    /\ UNCHANGED <<m_bThreadStop, accept, m_ClientSockets, locks, pc, notice, queues,
                   alive, net, attempts>>

BeginSocket == MainGoes("beginSocket", "setHandler")
setHandler  == MainGoes("setHandler", "setDMServer")
SetDMServer == MainGoes("setDMServer", "run")
DaemonMgr   == BeginSocket \/ setHandler \/ SetDMServer

HandlerSet == main \in {"setDMServer", "run"}

-----------------------------------------------------------------------------
(* RunSocket                                                               *)

AccGoes(from, to) ==
    /\ alive /\ acc = from /\ acc' = to
    /\ UNCHANGED <<setup, locks, notice, queues, alive, closed, put, got, unread, attempts>>

(* An error of bind() or listen() ends the thread.                         *)
Listen ==
    /\ main # "beginSocket"
    /\ AccGoes("listen", "accept") \/ AccGoes("listen", "ended")
    /\ UNCHANGED <<fd, fds, m_ClientSockets, pc, conn>>

(* No socket is ever closed: with MaxFds of them accept() only fails.      *)
Accept(c) ==
    /\ AccGoes("accept", "check")
    /\ conn[c] = "pending" /\ fds < MaxFds
    /\ fd' = c /\ fds' = fds + 1
    /\ conn' = [conn EXCEPT ![c] = "open"]
    /\ UNCHANGED <<m_ClientSockets, pc>>

RefuseAs(state) ==
    /\ AccGoes("check", "accept")
    /\ m_Sockmutx = None /\ m_ClientSockets # None
    /\ conn' = [conn EXCEPT ![fd] = state]
    /\ UNCHANGED <<fd, fds, m_ClientSockets, pc>>

RefuseSilently == RefuseAs("open")   \* the socket is left as it is
Refuse == RefuseAs("shut")

AdmitIf(free) ==
    /\ AccGoes("check", "start")
    /\ m_Sockmutx = None /\ free
    /\ m_ClientSockets' = fd
    /\ UNCHANGED <<fd, fds, pc, conn>>

AdmitAny == AdmitIf(TRUE)   \* a client is admitted beside another
Admit == AdmitIf(m_ClientSockets = None)

(* The handler's socket is read again from m_ClientSockets.                *)
StartHandler ==
    /\ AccGoes("start", "accept")
    /\ pc' = [pc EXCEPT ![m_ClientSockets] = "recv"]
    /\ UNCHANGED <<fd, fds, m_ClientSockets, conn>>

RunSocket == Listen \/ (\E c \in Clients : Accept(c)) \/ Refuse \/ Admit \/ StartHandler

-----------------------------------------------------------------------------
(* handle_clnt                                                             *)

Current(c) == [client |-> c, n |-> got[c]]
CurrentText(c) == Script[c][got[c]]

Goes(t, from, to) ==
    /\ alive /\ pc[t] = from
    /\ pc' = [pc EXCEPT ![t] = to]
    /\ UNCHANGED <<setup, accept, alive, closed, put>>

RecvIf(c, ready) ==
    /\ Goes(c, "recv", "classify")
    /\ ready
    /\ got' = [got EXCEPT ![c] = @ + 1]
    /\ UNCHANGED <<m_ClientSockets, locks, notice, queues, conn, unread, attempts>>

RecvNothing(c) == RecvIf(c, TRUE)   \* RECV's count is not looked at
Recv(c) == RecvIf(c, got[c] < put[c])

RecvEnd(c) ==
    /\ Goes(c, "recv", "exit")
    /\ c \in closed
    /\ UNCHANGED <<m_ClientSockets, locks, notice, queues, conn, got, unread, attempts>>

AfterAnswer(c) == IF Queued(CurrentText(c)) THEN "queue" ELSE "recv"

(* Classfication and RecJson, up to the call of SendData.                  *)
ClassifiedAs(c) ==
    IF ~HandlerSet \/ ~Parsed(CurrentText(c)) THEN "recv"
    ELSE IF m_bThreadStop THEN AfterAnswer(c)
    ELSE "sendMutex"

(* The request is queued on the way to its answer.                         *)
ClassifyQueueing(c) ==
    /\ Goes(c, "classify", ClassifiedAs(c))
    /\ jobs' = IF Queued(CurrentText(c)) THEN Append(jobs, Current(c)) ELSE jobs
    /\ UNCHANGED <<m_ClientSockets, locks, notice, m_qSMSG, conn, got, unread, attempts>>
Classify(c) ==
    /\ Goes(c, "classify", ClassifiedAs(c))
    /\ ~(HandlerSet /\ Aborts(CurrentText(c)))
    /\ UNCHANGED <<m_ClientSockets, locks, notice, queues, conn, got, unread, attempts>>

ClassifyAborts(c) ==
    /\ alive /\ pc[c] = "classify"
    /\ HandlerSet /\ Aborts(CurrentText(c))
    /\ alive' = FALSE
    /\ UNCHANGED <<setup, accept, m_ClientSockets, locks, pc, notice, queues, net, attempts>>

(* The code of the answer plays no part: an answered error is queued too.  *)
OnRcvMessage(c) ==
    /\ Goes(c, "queue", "recv")
    /\ jobs' = Append(jobs, Current(c))
    /\ UNCHANGED <<m_ClientSockets, locks, notice, m_qSMSG, conn, got, unread, attempts>>

ExitAs(c, socket) ==
    /\ Goes(c, "exit", "shutdown")
    /\ m_Sockmutx = None
    /\ m_ClientSockets' = socket
    /\ UNCHANGED <<locks, notice, queues, conn, got, unread, attempts>>

ExitKeeping(c) == ExitAs(c, m_ClientSockets)   \* the slot is not freed
Exit(c) == ExitAs(c, None)

CloseSocket(c) ==
    /\ Goes(c, "shutdown", "gone")
    /\ conn' = [conn EXCEPT ![c] = "shut"]
    /\ UNCHANGED <<m_ClientSockets, locks, notice, queues, got, unread, attempts>>

-----------------------------------------------------------------------------
(* SendData: m_SendMutex for the buffer, then m_Sockmutx for the socket;   *)
(* both stay locked while send() waits for a client that does not read.    *)

MessageOf(t) == IF t = Snd THEN notice ELSE [kind |-> "answer", of |-> Current(t)]
AfterSend(t) == IF t = Snd THEN "recv" ELSE AfterAnswer(t)

FillIf(t, free) ==
    /\ Goes(t, "sendMutex", "sockMutex")
    /\ free
    /\ m_SendMutex' = t
    /\ m_pSendBuffer' = MessageOf(t)
    /\ UNCHANGED <<m_ClientSockets, m_Sockmutx, notice, queues, conn, got, unread, attempts>>

FillUnlocked(t) == FillIf(t, TRUE)   \* the buffer is filled without m_SendMutex
TryFill(t) ==                         \* try_lock: a busy mutex is not waited for
    \/ FillIf(t, m_SendMutex = None)
    \/ /\ Goes(t, "sendMutex", AfterSend(t)) /\ m_SendMutex # None
       /\ UNCHANGED <<m_ClientSockets, locks, notice, queues, conn, got, unread, attempts>>
Fill(t) == FillIf(t, m_SendMutex = None)

LockSocket(t) ==
    /\ Goes(t, "sockMutex", "send")
    /\ m_Sockmutx = None
    /\ m_Sockmutx' = t
    /\ UNCHANGED <<m_ClientSockets, m_SendMutex, m_pSendBuffer, notice, queues, conn, got,
                   unread, attempts>>

Reachable == {c \in Clients \ closed : conn[c] = "open"}

(* send() on the socket of a client that closed, or on 0 when there is no  *)
(* client, fails at once; SendData's result is ignored.                    *)
Send(t) ==
    /\ Goes(t, "send", AfterSend(t))
    /\ \/ /\ m_ClientSockets \in Reachable
          /\ unread[m_ClientSockets] < Window
          /\ unread' = [unread EXCEPT ![m_ClientSockets] = @ + 1]
          /\ attempts' = Append(attempts, [msg |-> m_pSendBuffer, to |-> m_ClientSockets])
       \/ /\ m_ClientSockets \notin Reachable
          /\ attempts' = Append(attempts, [msg |-> m_pSendBuffer, to |-> None])
          /\ UNCHANGED unread
    /\ m_Sockmutx' = None /\ m_SendMutex' = None
    /\ UNCHANGED <<m_ClientSockets, m_pSendBuffer, notice, queues, conn, got>>

SendData(t) == Fill(t) \/ LockSocket(t) \/ Send(t)

handle_clnt(c) ==
    \/ Recv(c) \/ RecvEnd(c) \/ Classify(c) \/ ClassifyAborts(c)
    \/ SendData(c) \/ OnRcvMessage(c) \/ Exit(c) \/ CloseSocket(c)

-----------------------------------------------------------------------------
(* SndMSGThread.  Before SetDMServer its pointer to the server is not      *)
(* initialized; the use of it is modelled as a crash.                      *)

DequeueNotice ==
    /\ Goes(Snd, "recv", "sendMutex")
    /\ m_qSMSG # <<>> /\ main = "run"
    /\ notice' = Head(m_qSMSG) /\ m_qSMSG' = Tail(m_qSMSG)
    /\ UNCHANGED <<m_ClientSockets, locks, jobs, conn, got, unread, attempts>>

UseUnsetServer ==
    /\ alive /\ pc[Snd] = "recv"
    /\ m_qSMSG # <<>> /\ main # "run"
    /\ alive' = FALSE
    /\ UNCHANGED <<setup, accept, m_ClientSockets, locks, pc, notice, queues, net, attempts>>

SndMSGThread == DequeueNotice \/ UseUnsetServer \/ SendData(Snd)

(* StabilizeService: the first job ends, with a notice or without one.     *)
JobEnds ==
    /\ alive /\ jobs # <<>>
    /\ jobs' = Tail(jobs)
    /\ \/ m_qSMSG' = Append(m_qSMSG, [kind |-> "notice", of |-> Head(jobs)])
       \/ UNCHANGED m_qSMSG
    /\ UNCHANGED <<setup, accept, m_ClientSockets, locks, pc, notice, alive, net, attempts>>

-----------------------------------------------------------------------------
(* The clients                                                             *)

server == <<setup, accept, m_ClientSockets, locks, pc, notice, queues, alive, got, attempts>>

Connect(c) ==
    /\ conn[c] = "new" /\ acc \notin {"listen", "ended"}
    /\ conn' = [conn EXCEPT ![c] = "pending"]
    /\ UNCHANGED <<server, closed, put, unread>>

Put(c) ==
    /\ c \notin closed /\ conn[c] \in {"pending", "open"}
    /\ put[c] < Len(Script[c])
    /\ put' = [put EXCEPT ![c] = @ + 1]
    /\ UNCHANGED <<server, conn, closed, unread>>

Close(c) ==
    /\ c \notin closed /\ conn[c] # "new"
    /\ closed' = closed \cup {c}
    /\ UNCHANGED <<server, conn, put, unread>>

Read(c) ==
    /\ unread[c] > 0
    /\ unread' = [unread EXCEPT ![c] = @ - 1]
    /\ UNCHANGED <<server, conn, closed, put>>

Client(c) == Connect(c) \/ Put(c) \/ Close(c) \/ Read(c)

(* Every thread waits for a client or a notice and no mutex is locked.     *)
AtRest ==
    \/ ~alive
    \/ /\ m_SendMutex = None /\ m_Sockmutx = None
       /\ acc \in {"accept", "ended"} /\ m_qSMSG = <<>> /\ jobs = <<>>
       /\ \A t \in Threads : pc[t] \in {"none", "recv", "gone"}

Wait == AtRest /\ UNCHANGED vars

Next ==
    \/ DaemonMgr
    \/ RunSocket
    \/ \E c \in Clients : handle_clnt(c)
    \/ SndMSGThread
    \/ JobEnds
    \/ \E c \in Clients : Client(c)
    \/ Wait

Spec == Init /\ [][Next]_vars

(* Every thread is scheduled again and again and obtains a mutex that is   *)
(* free again and again; a client that does not close reads what it is     *)
(* sent.                                                                   *)
Fairness ==
    /\ WF_vars(DaemonMgr)
    /\ SF_vars(RunSocket)
    /\ SF_vars(SndMSGThread)
    /\ \A c \in Clients : SF_vars(handle_clnt(c)) /\ WF_vars(Read(c))

FairSpec == Spec /\ Fairness

-----------------------------------------------------------------------------
(* Properties                                                              *)

Serving(c) == pc[c] \notin {"none", "shutdown", "gone"}

(* Whatever handler has not left its loop serves the socket that           *)
(* m_ClientSockets names, so there is one at most; and the value RunSocket *)
(* reads again without the lock is the socket it accepted.                 *)
OneClient ==
    /\ \A c \in Clients : Serving(c) => m_ClientSockets = c
    /\ acc = "start" => m_ClientSockets = fd

(* SendData takes no client as parameter; the answer to a request still    *)
(* reaches nobody but the client that asked.                               *)
AnswersToAsker ==
    \A i \in 1..Len(attempts) :
        attempts[i].msg.kind = "answer" =>
            attempts[i].to \in {attempts[i].msg.of.client, None}

(* The buffer two threads share holds the sender's message until it is     *)
(* sent.                                                                   *)
BufferIntact ==
    \A t \in Threads : pc[t] \in {"sockMutex", "send"} => m_pSendBuffer = MessageOf(t)

(* A client never learns the result of a request before it has been told   *)
(* that the request was taken.                                             *)
AnswerBeforeNotice ==
    \A i \in 1..Len(attempts) :
        attempts[i].msg.kind = "notice" /\ ~m_bThreadStop =>
            \E j \in 1..(i - 1) :
                attempts[j].msg = [kind |-> "answer", of |-> attempts[i].msg.of]

(* A StabilizeDone goes to a client other than the one that asked for the  *)
(* job only when the handler of that one has given up its place.           *)
NoticeMisdirected ==
    /\ attempts' # attempts
    /\ LET last == attempts'[Len(attempts')] IN
         /\ last.msg.kind = "notice"
         /\ last.to \notin {None, last.msg.of.client}
         /\ pc[last.msg.of.client] \notin {"shutdown", "gone"}
NoticeToAskerWhileServed == [][~NoticeMisdirected]_vars

(* When the client being served closes, its place becomes free.            *)
PlaceFreed ==
    \A c \in Clients :
        c \in closed /\ Serving(c) ~> m_ClientSockets # c \/ ~alive

(* Every connection is admitted or refused, also one that comes while      *)
(* another client is served or sent to.  Only one that finds all sockets   *)
(* used up is never accepted.                                              *)
Decided(c) == pc[c] # "none" \/ conn[c] = "shut"
ConnectionDecided ==
    \A c \in Clients :
        conn[c] = "pending" ~>
            Decided(c) \/ (conn[c] = "pending" /\ fds = MaxFds) \/ ~alive

(* Every request RecJson knows is answered, also a second one that arrives *)
(* while SndMSGThread sends the notice of the first, once the handler is   *)
(* set and unless the flag nobody initialized stops the parser.            *)
KnownRequestAnswered ==
    \A c \in Clients : \A n \in 1..Len(Script[c]) :
        /\ pc[c] = "classify" /\ got[c] = n
        /\ HandlerSet /\ ~m_bThreadStop
        /\ Parsed(Script[c][n]) /\ ~Aborts(Script[c][n])
        ~> \/ ~alive
           \/ \E i \in 1..Len(attempts) :
                 attempts[i].msg = [kind |-> "answer", of |-> [client |-> c, n |-> n]]
=============================================================================
