----------------------------- MODULE HttpServer -----------------------------
(***************************************************************************)
(* The HTTP server chuqq_httpd_nodelay.c on the event loop ae.c with the   *)
(* back end ae_epoll.c.  Every thread has a loop and a listening socket of *)
(* its own (SO_REUSEPORT); the table of descriptors belongs to the process *)
(* and is shared, so a descriptor that one thread closes may be the next   *)
(* one that another thread accepts.                                        *)
(*                                                                         *)
(* One handler is one step: only accept, read, write and close are visible *)
(* to others, and at most one of them changes what another thread can see. *)
(* Bytes come in units: "end" is the empty line that ends a request,       *)
(* "part" is anything else.  Time events are compiled out of               *)
(* aeProcessEvents and nobody calls aeStop.                                *)
(***************************************************************************)
EXTENDS Integers, Sequences, FiniteSets, FiniteSetsExt

CONSTANTS
    Threads, Clients, None,
    SetSize,    \* argument of aeCreateEventLoop (1024 in the code)
    MaxFd,      \* descriptors the process may have open
    BufSize,    \* units that fit into connection_t.buf
    ListenFd,   \* the listening descriptor of each thread
    Listener,   \* the thread that the kernel's hash gives each client to
    Budget,     \* units each client sends at most; bounds the model
    Leavers     \* clients that may end or reset their connection

ASSUME SizesAreUsable ==
    /\ SetSize \in Nat /\ MaxFd \in Nat /\ BufSize \in Nat \ {0}
    /\ Budget \in [Clients -> Nat] /\ Leavers \subseteq Clients
ASSUME ListenersAreDistinct ==
    /\ ListenFd \in [Threads -> {fd \in 0..MaxFd-1 : fd < SetSize}]
    /\ Listener \in [Clients -> Threads]
    /\ \A t, u \in Threads : ListenFd[t] = ListenFd[u] => t = u
ASSUME NobodyIsNone == None \notin Threads \cup Clients /\ Threads \cap Clients = {}

VARIABLES
    file,       \* descriptor -> what is open on it, or None
    loop,       \* thread -> aeEventLoop: events, the epoll set, maxfd
    fired,      \* thread -> reported events that are still to be looked at
    second,     \* thread -> the event whose writable half comes next
    conn,       \* client -> its connection_t
    backlog,    \* thread -> connections to be accepted
    peer,       \* client -> state of the connection in the kernel
    inbox,      \* client -> units that have arrived and were not read
    sent,       \* client -> units it has sent; the last of them
    taken,      \* client -> units read from it since the last full response
    alive       \* FALSE once a signal has ended the process

vars == <<file, loop, fired, second, conn, backlog, peer, inbox, sent, taken, alive>>

Fds == 0..MaxFd-1
Mask == SUBSET {"R", "W"}
NoEvent == [fd |-> -1, rfired |-> FALSE]
NoConn == [live |-> FALSE, thread |-> None, fd |-> -1, cur |-> 0]
EmptyEvent == [mask |-> {}, rproc |-> "none", wproc |-> "none", data |-> None]
Event(L, fd) == L.events[fd]

(***************************************************************************)
(* ae_epoll.c and ae.c, as functions from a loop to a loop.                *)
(***************************************************************************)
\* EPOLL_CTL_ADD wants a descriptor that is not monitored, EPOLL_CTL_MOD one that is.
aeApiAddEventWorks(L, fd) == (Event(L, fd).mask = {}) <=> (L.epoll[fd] = {})
aeApiAddEvent(L, fd, mask) == [L EXCEPT !.epoll[fd] = Event(L, fd).mask \cup mask]
KeepMonitored(L, fd, mask) == L   \* mutant: epoll_ctl is left out
aeApiDelEvent(L, fd, mask) == [L EXCEPT !.epoll[fd] = Event(L, fd).mask \ mask]

aeCreateFileEvent(L, fd, mask, proc, data) ==
    IF fd >= SetSize \/ ~aeApiAddEventWorks(L, fd) THEN L
    ELSE [aeApiAddEvent(L, fd, mask) EXCEPT
            !.events[fd] = [mask  |-> @.mask \cup mask,
                            rproc |-> IF "R" \in mask THEN proc ELSE @.rproc,
                            wproc |-> IF "W" \in mask THEN proc ELSE @.wproc,
                            data  |-> data],
            !.maxfd = IF fd > @ THEN fd ELSE @]

aeDeleteFileEvent(L, fd, mask) ==
    IF fd >= SetSize \/ Event(L, fd).mask = {} THEN L
    ELSE LET D == [aeApiDelEvent(L, fd, mask) EXCEPT !.events[fd].mask = @ \ mask]
         IN  IF fd = L.maxfd /\ Event(D, fd).mask = {}
             THEN [D EXCEPT !.maxfd = Max({-1} \cup
                      {j \in 0..fd-1 : Event(D, j).mask # {}})]
             ELSE D

aeCreateEventLoop ==
    [events |-> [fd \in 0..SetSize-1 |-> EmptyEvent],
     epoll  |-> [fd \in Fds |-> {}],
     maxfd  |-> -1]

(***************************************************************************)
(* The process after the threads have reached aeMain.                      *)
(***************************************************************************)
thread_main(t) ==
    aeCreateFileEvent(aeCreateEventLoop, ListenFd[t], {"R"}, "socket_accept", t)

Init ==
    /\ file = [fd \in Fds |-> IF \E t \in Threads : ListenFd[t] = fd
                              THEN CHOOSE t \in Threads : ListenFd[t] = fd
                              ELSE None]
    /\ loop = [t \in Threads |-> thread_main(t)]
    /\ fired = [t \in Threads |-> {}]
    /\ second = [t \in Threads |-> NoEvent]
    /\ conn = [c \in Clients |-> NoConn]
    /\ backlog = [t \in Threads |-> <<>>]
    /\ peer = [c \in Clients |-> "new"]
    /\ inbox = [c \in Clients |-> <<>>]
    /\ sent = [c \in Clients |-> [n |-> 0, last |-> "none"]]
    /\ taken = [c \in Clients |-> 0]
    /\ alive = TRUE

(***************************************************************************)
(* The kernel.  A descriptor that is closed leaves every epoll set.  After *)
(* a reset ("reset") a write fails once without a signal; after that, and  *)
(* at once if the client had ended its side before, it raises SIGPIPE      *)
(* ("gone").  EPOLLERR and EPOLLHUP are reported whether asked for or not. *)
(***************************************************************************)
Close(fd, L, t) ==
    /\ file' = [file EXCEPT ![fd] = None]
    /\ loop' = [u \in Threads |->
                   [(IF u = t THEN L ELSE loop[u]) EXCEPT !.epoll[fd] = {}]]

Broken(fd) == file[fd] \in Clients /\ peer[file[fd]] \in {"reset", "gone"}
Readable(fd) ==
    IF file[fd] \in Clients
    THEN inbox[file[fd]] # <<>> \/ peer[file[fd]] # "open"
    ELSE file[fd] \in Threads /\ backlog[file[fd]] # <<>>

Ready(t, fd) ==
    {m \in {"R", "W"} :
        CASE m = "R" -> "R" \in loop[t].epoll[fd] /\ Readable(fd)
          [] m = "W" -> "W" \in loop[t].epoll[fd] \/ Broken(fd)}

\* aeApiPoll: epoll_wait returns everything that is ready, in any order.
aeApiPoll(t) ==
    {[fd |-> fd, mask |-> Ready(t, fd)] :
        fd \in {f \in Fds : loop[t].epoll[f] # {} /\ Ready(t, f) # {}}}

(***************************************************************************)
(* The handlers, called by thread t for the descriptor fd.                 *)
(***************************************************************************)
\* accept takes the lowest free descriptor.  The result of aeCreateFileEvent
\* is not looked at: a descriptor >= SetSize stays open and is never served.
socket_accept(t, fd) ==
    LET free == {f \in Fds : file[f] = None}
        new  == Min(free)
        c    == Head(backlog[t])
    IN  IF free = {} THEN UNCHANGED <<file, loop, conn, backlog>>
        ELSE /\ file' = [file EXCEPT ![new] = c]
             /\ conn' = [conn EXCEPT ![c] =
                            [live |-> TRUE, thread |-> t, fd |-> new, cur |-> 0]]
             /\ loop' = [loop EXCEPT ![t] =
                            aeCreateFileEvent(@, new, {"R"}, "socket_readable", c)]
             /\ backlog' = [backlog EXCEPT ![t] = Tail(@)]

RoomAndOne(c) == BufSize - conn[c].cur + 1   \* mutant: off by one
Room(c) == BufSize - conn[c].cur

EndsInOneRead(c, n) == conn[c].cur = 0 /\ inbox[c][n] = "end"   \* mutant: forgets earlier reads
EndsRequest(c, n) == inbox[c][n] = "end"

CurKept(c, n) == conn[c].cur + n   \* mutant: cur is not set back
CurAfter(c, n) == IF EndsRequest(c, n) THEN 0 ELSE conn[c].cur + n

\* read returns what is there, at most the free part of the buffer.
socket_readable(t, fd, c) ==
    LET n == Min({Len(inbox[c]), Room(c)})
        L == aeDeleteFileEvent(loop[t], fd, {"R"})
    IN  \/ /\ n > 0
           /\ inbox' = [inbox EXCEPT ![c] = SubSeq(@, n + 1, Len(@))]
           /\ taken' = [taken EXCEPT ![c] = @ + n]
           /\ conn' = [conn EXCEPT ![c].cur = CurAfter(c, n)]
           /\ loop' = IF EndsRequest(c, n)
                      THEN [loop EXCEPT ![t] =
                              aeCreateFileEvent(L, fd, {"W"}, "socket_writeable", c)]
                      ELSE loop
           /\ UNCHANGED file
        \/ /\ n = 0
           /\ Close(fd, L, t)
           /\ conn' = [conn EXCEPT ![c].live = FALSE]
           /\ UNCHANGED <<inbox, taken>>

\* One write.  A short one ends the connection, a failed one changes nothing,
\* and one on a connection whose error is already known raises SIGPIPE.
socket_writeable(t, fd, c) ==
    LET L == aeDeleteFileEvent(loop[t], fd, {"W"})
    IN  \/ /\ peer[c] \in {"open", "fin"}
           /\ loop' = [loop EXCEPT ![t] =
                          aeCreateFileEvent(L, fd, {"R"}, "socket_readable", c)]
           /\ taken' = [taken EXCEPT ![c] = 0]
           /\ UNCHANGED <<file, conn, peer, alive>>
        \/ /\ peer[c] \in {"open", "fin"}
           /\ Close(fd, L, t)
           /\ conn' = [conn EXCEPT ![c].live = FALSE]
           /\ UNCHANGED <<taken, peer, alive>>
        \/ /\ peer[c] = "reset"
           /\ peer' = [peer EXCEPT ![c] = "gone"]
           /\ UNCHANGED <<file, loop, conn, taken, alive>>
        \/ /\ peer[c] = "gone"
           /\ alive' = FALSE
           /\ UNCHANGED <<file, loop, conn, taken, peer>>

(***************************************************************************)
(* aeMain and aeProcessEvents: poll, then for each reported event first    *)
(* the readable and then the writable half, each only if the loop still    *)
(* wants it.                                                               *)
(***************************************************************************)
Poll(t) ==
    /\ fired[t] = {} /\ second[t] = NoEvent
    /\ aeApiPoll(t) # {}
    /\ fired' = [fired EXCEPT ![t] = aeApiPoll(t)]
    /\ UNCHANGED <<file, loop, second, conn, backlog, peer, inbox, sent, taken, alive>>

StillWanted(t, e, m) == m \in e.mask /\ m \in Event(loop[t], e.fd).mask

CallReadable(t, e) ==
    LET fe == Event(loop[t], e.fd)
    IN  \/ /\ fe.rproc = "socket_accept"
           /\ socket_accept(t, e.fd)
           /\ UNCHANGED <<inbox, taken>>
        \/ /\ fe.rproc = "socket_readable"
           /\ socket_readable(t, e.fd, fe.data)
           /\ UNCHANGED backlog

ReadableHalf(t) ==
    /\ second[t] = NoEvent
    /\ \E e \in fired[t] :
          /\ fired' = [fired EXCEPT ![t] = @ \ {e}]
          /\ second' = [second EXCEPT ![t] =
                 IF "W" \in e.mask
                 THEN [fd |-> e.fd, rfired |-> StillWanted(t, e, "R")] ELSE NoEvent]
          /\ \/ StillWanted(t, e, "R") /\ CallReadable(t, e)
             \/ /\ ~StillWanted(t, e, "R")
                /\ UNCHANGED <<file, loop, conn, backlog, inbox, taken>>
    /\ UNCHANGED <<peer, sent, alive>>

CallWritable(t, s) ==
    LET fe == Event(loop[t], s.fd)
    IN  /\ "W" \in fe.mask
        /\ ~s.rfired \/ fe.wproc # fe.rproc

WritableHalf(t) ==
    /\ second[t] # NoEvent
    /\ second' = [second EXCEPT ![t] = NoEvent]
    /\ \/ /\ CallWritable(t, second[t])
          /\ socket_writeable(t, second[t].fd, Event(loop[t], second[t].fd).data)
       \/ /\ ~CallWritable(t, second[t])
          /\ UNCHANGED <<file, loop, conn, peer, taken, alive>>
    /\ UNCHANGED <<fired, backlog, inbox, sent>>

aeMain(t) == alive /\ (Poll(t) \/ ReadableHalf(t) \/ WritableHalf(t))

(***************************************************************************)
(* The clients.                                                            *)
(***************************************************************************)
Closed(c) == conn[c].thread # None /\ ~conn[c].live

Connect(c) ==
    /\ peer[c] = "new"
    /\ peer' = [peer EXCEPT ![c] = "open"]
    /\ backlog' = [backlog EXCEPT ![Listener[c]] = Append(@, c)]
    /\ UNCHANGED <<file, loop, fired, second, conn, inbox, sent, taken, alive>>

Send(c) ==
    /\ peer[c] = "open" /\ ~Closed(c)
    /\ sent[c].n < Budget[c]
    /\ \E u \in {"part", "end"} :
          /\ inbox' = [inbox EXCEPT ![c] = Append(@, u)]
          /\ sent' = [sent EXCEPT ![c] = [n |-> @.n + 1, last |-> u]]
    /\ UNCHANGED <<file, loop, fired, second, conn, backlog, peer, taken, alive>>

Leave(c) ==
    /\ c \in Leavers /\ ~Closed(c)
    /\ \/ peer[c] = "open" /\ peer' = [peer EXCEPT ![c] = "fin"]
       \/ peer[c] = "open" /\ peer' = [peer EXCEPT ![c] = "reset"]
       \/ peer[c] = "fin" /\ peer' = [peer EXCEPT ![c] = "gone"]
    /\ UNCHANGED <<file, loop, fired, second, conn, backlog, inbox, sent, taken, alive>>

Client(c) == alive /\ (Connect(c) \/ Send(c) \/ Leave(c))

Next == (\E t \in Threads : aeMain(t)) \/ (\E c \in Clients : Client(c))

\* A thread that has something to do goes on; clients may stop at any time.
Fairness == \A t \in Threads : WF_vars(aeMain(t))

Spec == Init /\ [][Next]_vars /\ Fairness
-----------------------------------------------------------------------------
TypeOK ==
    /\ file \in [Fds -> Threads \cup Clients \cup {None}]
    /\ loop \in [Threads ->
           [events : [0..SetSize-1 ->
                [mask : Mask, rproc : {"none", "socket_accept", "socket_readable"},
                 wproc : {"none", "socket_writeable"},
                 data : Threads \cup Clients \cup {None}]],
            epoll : [Fds -> Mask], maxfd : -1..SetSize-1]]
    /\ fired \in [Threads -> SUBSET [fd : Fds, mask : Mask]]
    /\ second \in [Threads -> [fd : Fds \cup {-1}, rfired : BOOLEAN]]
    /\ conn \in [Clients -> [live : BOOLEAN, thread : Threads \cup {None},
                             fd : Fds \cup {-1}, cur : 0..BufSize]]
    /\ backlog \in [Threads -> Seq(Clients)]
    /\ peer \in [Clients -> {"new", "open", "fin", "reset", "gone"}]
    /\ inbox \in [Clients -> Seq({"part", "end"})]
    /\ sent \in [Clients -> [n : Nat, last : {"none", "part", "end"}]]
    /\ taken \in [Clients -> Nat]
    /\ alive \in BOOLEAN

LoopAgrees(t) ==
    LET L == loop[t]
        registered == {fd \in 0..SetSize-1 : Event(L, fd).mask # {}}
    IN  /\ \A fd \in Fds : L.epoll[fd] = IF fd < SetSize THEN Event(L, fd).mask ELSE {}
        /\ L.maxfd = Max({-1} \cup registered)
        /\ \A fd \in registered \ {ListenFd[t]} :
              LET c == Event(L, fd).data
              IN  /\ c \in Clients /\ conn[c].live
                  /\ conn[c].thread = t /\ conn[c].fd = fd

IsServed(c) ==
    LET fe == Event(loop[conn[c].thread], conn[c].fd)
    IN  /\ fe.data = c
        /\ \/ fe.mask = {"R"} /\ fe.rproc = "socket_readable"
           \/ fe.mask = {"W"} /\ fe.wproc = "socket_writeable"

(* What a loop has registered is exactly what it serves, whatever order the  *)
(* threads close and accept the shared descriptors in: table, epoll set and  *)
(* maxfd agree; the pointer a handler would get is a connection that has not *)
(* been freed and still owns that descriptor in that thread                  *)
(* (chuqq_httpd_nodelay.c:61-63, 84-86); and every open connection waits for *)
(* exactly one of its two handlers, except behind the end of the table,      *)
(* where socket_accept has leaked it.                                        *)
RegistrationIsExact ==
    /\ \A t \in Threads : LoopAgrees(t)
    /\ \A c \in Clients : conn[c].live =>
          /\ file[conn[c].fd] = c
          /\ conn[c].fd < SetSize => IsServed(c)

(* The server drops a client that stays only while it writes the response (a *)
(* short write) or when the client has sent a full buffer without an end in  *)
(* sight: socket_readable takes the empty read of a full buffer for the end  *)
(* of the stream (chuqq_httpd_nodelay.c:41, 58-63).                          *)
DropsAreExplained ==
    [][\A c \in Clients : conn[c].live /\ ~conn'[c].live =>
          \/ peer[c] # "open"
          \/ "W" \in Event(loop[conn[c].thread], conn[c].fd).mask
          \/ taken[c] >= BufSize]_vars

\* The client waits for a response: its last unit ended a request that is not answered.
Waits(c) == sent[c].last = "end" /\ (inbox[c] # <<>> \/ taken[c] > 0)
Unserved(c) == conn[c].fd >= SetSize \/ (~conn[c].live /\ \A fd \in Fds : file[fd] # None)

(* What a connection waits for agrees with what it has read, however the     *)
(* client's bytes were cut into reads and whatever else its thread and the   *)
(* other threads did in between.  While it waits to read, the buffer holds    *)
(* exactly the units read since the last response, never more than fit, and  *)
(* no request that is complete is left lying in it; while it waits to write, *)
(* there is a request to answer and the buffer is free for the next one      *)
(* (chuqq_httpd_nodelay.c:41-57).                                            *)
RequestsAreKept ==
    \A c \in Clients : conn[c].live /\ conn[c].fd < SetSize =>
        LET waitsFor == Event(loop[conn[c].thread], conn[c].fd).mask
        IN  \/ /\ waitsFor = {"R"}
               /\ taken[c] = conn[c].cur /\ conn[c].cur <= BufSize
               /\ inbox[c] = <<>> /\ taken[c] > 0 => sent[c].last # "end"
            \/ waitsFor = {"W"} /\ taken[c] > 0 /\ conn[c].cur = 0

(* Whoever has sent a complete request and waits gets a response, however    *)
(* the request was cut into reads, unless the connection ends, it found no   *)
(* descriptor below SetSize, or a second write to a reset connection has     *)
(* ended the whole process (chuqq_httpd_nodelay.c:73-88).                    *)
RequestsAreAnswered ==
    \A c \in {d \in Clients : Budget[d] > 0} :
        Waits(c) ~> (~Waits(c) \/ Closed(c) \/ Unserved(c) \/ ~alive)
=============================================================================
