--------------------------- MODULE HttpServerProofs ---------------------------
(*****************************************************************************)
(* The invariants of HttpServer for any number of threads, clients and       *)
(* descriptors, any size of the event table and of the buffer.               *)
(*                                                                           *)
(* RegistrationIsExact is not inductive: that a new descriptor is not        *)
(* registered anywhere needs what is open on it (Serving, Listening), that   *)
(* accept does not hit a live connection needs the queues (Queued), and      *)
(* that a handler finds what was reported needs Reported: an event that      *)
(* waits in fired names a descriptor its thread still has, and no other      *)
(* event of that thread names the same one.  RequestsAreKept needs, on top   *)
(* of that, that a connection starts with nothing taken (Fresh) and that the *)
(* last unit a client sent is the last one unread (Ends).                    *)
(*****************************************************************************)
EXTENDS HttpServer, FiniteSetTheorems, SequenceTheorems, WellFoundedInduction, TLAPS

Index == 0 .. SetSize - 1
EventRec == [mask : Mask, rproc : {"none", "socket_accept", "socket_readable"},
             wproc : {"none", "socket_writeable"}, data : Threads \cup Clients \cup {None}]
LoopRec == [events : [Index -> EventRec], epoll : [Fds -> Mask], maxfd : -1 .. SetSize - 1]

(* A loop whose table, epoll set and maxfd agree.                            *)
Registered(L) == {fd \in Index : Event(L, fd).mask # {}}
Agrees(L) ==
    /\ \A fd \in Fds : L.epoll[fd] = IF fd < SetSize THEN Event(L, fd).mask ELSE {}
    /\ L.maxfd \in {-1} \cup Registered(L)
    /\ \A fd \in Registered(L) : fd <= L.maxfd

Loops == \A t \in Threads : Agrees(loop[t])

(* Nothing but the listening socket is ever open on its descriptor.          *)
Listening ==
    \A t \in Threads :
        /\ file[ListenFd[t]] = t
        /\ Event(loop[t], ListenFd[t]).mask = {"R"}
        /\ Event(loop[t], ListenFd[t]).rproc = "socket_accept"

Holds(t, fd, c) == c \in Clients /\ conn[c].live /\ conn[c].thread = t /\ conn[c].fd = fd

Owned ==
    \A t \in Threads, fd \in Index :
        Event(loop[t], fd).mask # {} /\ fd # ListenFd[t] => Holds(t, fd, Event(loop[t], fd).data)

Serving ==
    \A c \in Clients : conn[c].live =>
        /\ conn[c].thread \in Threads /\ conn[c].fd \in Fds
        /\ file[conn[c].fd] = c
        /\ conn[c].fd < SetSize => IsServed(c)

(* Who waits to be accepted waits once, and has no connection_t yet.         *)
Queued ==
    /\ \A t \in Threads : \A i \in 1 .. Len(backlog[t]) :
          /\ Listener[backlog[t][i]] = t
          /\ ~conn[backlog[t][i]].live /\ peer[backlog[t][i]] # "new"
          /\ \A j \in 1 .. Len(backlog[t]) : backlog[t][i] = backlog[t][j] => i = j
    /\ \A c \in Clients : peer[c] = "new" => ~conn[c].live

(* What epoll_wait reported and nobody has handled yet is still so.          *)
StillReady(t, e) ==
    /\ e.fd \in Index /\ Event(loop[t], e.fd).mask # {}
    /\ "R" \in e.mask =>
          IF e.fd = ListenFd[t] THEN backlog[t] # <<>>
          ELSE LET c == Event(loop[t], e.fd).data IN inbox[c] # <<>> \/ peer[c] # "open"

Reported ==
    \A t \in Threads :
        /\ \A e \in fired[t] : StillReady(t, e)
        /\ \A e, f \in fired[t] : e.fd = f.fd => e = f
        /\ second[t] # NoEvent =>
              second[t].fd \in Index /\ \A e \in fired[t] : e.fd # second[t].fd

(* cur counts units that were taken since the last full response, and is 0   *)
(* while a response is due.                                                  *)
Counted ==
    /\ \A c \in Clients : taken[c] >= conn[c].cur
    /\ \A t \in Threads, fd \in Index :
          "W" \in Event(loop[t], fd).mask => conn[Event(loop[t], fd).data].cur = 0

Registration == Loops /\ Listening /\ Owned /\ Serving
IInv == TypeOK /\ Registration /\ Queued /\ Reported /\ Counted
-----------------------------------------------------------------------------
(* A finite set of numbers has a largest element: otherwise the sets of the  *)
(* numbers above each of them would have no smallest one.                    *)
LEMMA MaxExists ==
    ASSUME NEW S \in SUBSET Int, IsFiniteSet(S), S # {}
    PROVE  \E m \in S : \A y \in S : m >= y
<1> DEFINE Above(x) == {y \in S : y > x}
           Family == {Above(x) : x \in S}
           R == StrictSubsetOrdering(S)
           F == FiniteSubsetsOf(S)
<1>1. Family \subseteq F /\ Family # {}
  <2>1. ASSUME NEW x \in S PROVE Above(x) \in F
    BY FS_Subset DEF FiniteSubsetsOf
  <2> QED
    BY <2>1
<1>2. IsWellFoundedOn(R, F)
  BY FS_StrictSubsetOrderingWellFounded
<1>3. PICK U \in Family : \A V \in Family : <<V, U>> \notin R
  <2> HIDE DEF Family, R, F
  <2> QED
    BY <1>1, <1>2, WFMin
<1>4. PICK m \in S : U = Above(m)
  BY <1>3
<1>5. ASSUME NEW y \in S, y > m PROVE FALSE
  <2>1. Above(y) \in Family
    OBVIOUS
  <2>2. Above(y) \subseteq U /\ y \in U /\ y \notin Above(y)
    <3>1. m \in Int /\ y \in Int /\ y > m /\ S \subseteq Int
      BY <1>4, <1>5
    <3> HIDE DEF Family, R, F
    <3>2. \A z \in S : z > y => z > m
      BY <3>1
    <3>3. \A z : z \in U <=> z \in S /\ z > m
      BY <1>4
    <3>4. \A z : z \in Above(y) <=> z \in S /\ z > y
      OBVIOUS
    <3>5. ~(y > y)
      BY <3>1
    <3> HIDE DEF Above
    <3> QED
      BY <3>1, <3>2, <3>3, <3>4, <3>5
  <2>3. U \in SUBSET S /\ Above(y) \in SUBSET S
    BY <1>4
  <2>4. <<Above(y), U>> \in R
    BY <2>2, <2>3 DEF StrictSubsetOrdering
  <2> QED
    BY <1>3, <2>1, <2>4
<1> QED
  BY <1>5

(* What Max of FiniteSetsExt, a CHOOSE, returns.                             *)
LEMMA MaxFacts ==
    ASSUME NEW S \in SUBSET Int, IsFiniteSet(S), S # {}
    PROVE  Max(S) \in S /\ \A y \in S : Max(S) >= y
<1>1. \E m \in S : \A y \in S : m >= y
  BY MaxExists
<1> QED
  BY <1>1 DEF Max

(* A member that bounds the set is its Max.                                  *)
LEMMA MaxIs ==
    ASSUME NEW S \in SUBSET Int, NEW m \in S, \A y \in S : m >= y
    PROVE  Max(S) = m
<1>1. Max(S) \in S /\ \A y \in S : Max(S) >= y
  BY DEF Max
<1>2. Max(S) \in Int /\ m \in Int /\ Max(S) >= m /\ m >= Max(S)
  BY <1>1
<1> QED
  BY <1>2

(* The same for Min, through the negated numbers.                            *)
LEMMA MinFacts ==
    ASSUME NEW S \in SUBSET Int, IsFiniteSet(S), S # {}
    PROVE  Min(S) \in S /\ \A y \in S : Min(S) <= y
<1> DEFINE T == {-x : x \in S}
<1>1. \E m \in S : \A y \in S : m <= y
  <2> DEFINE f == [x \in S |-> -x]
  <2>1. f \in Surjection(S, T)
    BY DEF Surjection, Range
  <2>2. IsFiniteSet(T)
    <3> HIDE DEF T, f
    <3> QED
      BY <2>1, FS_Surjection
  <2>3. T \in SUBSET Int /\ T # {}
    OBVIOUS
  <2>4. PICK m \in T : \A y \in T : m >= y
    <3> HIDE DEF T
    <3> QED
      BY <2>2, <2>3, MaxExists
  <2>5. -m \in S
    BY <2>4
  <2>6. ASSUME NEW y \in S PROVE -m <= y
    BY <2>4, <2>5
  <2> QED
    BY <2>5, <2>6
<1> QED
  BY <1>1 DEF Min

(* How many units one read returns: the smaller of two numbers.              *)
LEMMA MinOfTwo ==
    ASSUME NEW a \in Nat, NEW b \in Nat, NEW n, n = Min({a, b})
    PROVE  n \in Nat /\ n <= a /\ n <= b /\ (n = a \/ n = b)
<1>1. \E m \in {a, b} : \A y \in {a, b} : m <= y
  OBVIOUS
<1>2. n \in {a, b} /\ \A y \in {a, b} : n <= y
  BY <1>1 DEF Min
<1> QED
  BY <1>2
-----------------------------------------------------------------------------
(* The constants in a form the steps can use.                                *)
LEMMA ConstantFacts ==
    /\ SetSize \in Nat /\ MaxFd \in Nat /\ BufSize \in Nat
    /\ Fds \subseteq Nat /\ Index \subseteq Nat
    /\ \A fd \in Fds : fd < SetSize <=> fd \in Index
    /\ \A t \in Threads : ListenFd[t] \in Fds /\ ListenFd[t] \in Index
<1>1. SetSize \in Nat /\ MaxFd \in Nat /\ BufSize \in Nat
  BY SizesAreUsable
<1>2. \A fd \in Fds : fd < SetSize <=> fd \in Index
  BY <1>1 DEF Fds, Index
<1>3. \A t \in Threads : ListenFd[t] \in Fds /\ ListenFd[t] < SetSize
  BY ListenersAreDistinct DEF Fds
<1> QED
  BY <1>1, <1>2, <1>3 DEF Fds, Index

(* Threads, clients and None are told apart in the descriptor table.         *)
LEMMA Distinct ==
    ASSUME NEW t \in Threads, NEW c \in Clients
    PROVE  t # c /\ t # None /\ c # None
  BY NobodyIsNone

(* What a loop consists of.                                                  *)
LEMMA LoopParts ==
    ASSUME NEW L \in LoopRec
    PROVE  /\ L.events \in [Index -> EventRec] /\ L.epoll \in [Fds -> Mask]
           /\ L.maxfd \in -1 .. SetSize - 1
           /\ \A fd \in Index : Event(L, fd) \in EventRec /\ Event(L, fd).mask \in Mask
  BY DEF LoopRec, EventRec, Event

(* maxfd is the largest registered descriptor, in both ways to say so.       *)
LEMMA MaxRegistered ==
    ASSUME NEW L \in LoopRec
    PROVE  (L.maxfd \in {-1} \cup Registered(L) /\ \A fd \in Registered(L) : fd <= L.maxfd)
             => L.maxfd = Max({-1} \cup Registered(L))
<1> SUFFICES ASSUME L.maxfd \in {-1} \cup Registered(L),
                    \A fd \in Registered(L) : fd <= L.maxfd
             PROVE  L.maxfd = Max({-1} \cup Registered(L))
  OBVIOUS
<1> DEFINE S == {-1} \cup Registered(L)
<1>1. S \in SUBSET Int
  BY DEF Registered, Index
<1>2. L.maxfd \in -1 .. SetSize - 1
  BY LoopParts
<1>3. \A y \in S : L.maxfd >= y
  BY <1>2, ConstantFacts DEF Registered
<1> HIDE DEF S
<1>4. L.maxfd \in S
  BY DEF S
<1>5. Max(S) = L.maxfd
  BY <1>1, <1>3, <1>4, MaxIs
<1> QED
  BY <1>5 DEF S

(* aeApiAddEvent and the assignments of aeCreateFileEvent.                   *)
Created(N, L, fd, m, proc, d) ==
    /\ N \in LoopRec /\ Agrees(N)
    /\ fd \notin Index => N = L
    /\ \A j \in Index : j # fd => Event(N, j) = Event(L, j)
    /\ fd \in Index =>
          /\ Event(N, fd).mask = Event(L, fd).mask \cup {m}
          /\ Event(N, fd).data = d
          /\ m = "R" => Event(N, fd).rproc = proc
          /\ m = "W" => Event(N, fd).wproc = proc

LEMMA CreateEvent ==
    ASSUME NEW L \in LoopRec, Agrees(L), NEW fd \in Fds,
           NEW m \in {"R", "W"}, NEW proc, NEW d \in Threads \cup Clients \cup {None},
           m = "R" => proc \in {"socket_accept", "socket_readable"},
           m = "W" => proc = "socket_writeable",
           NEW N, N = aeCreateFileEvent(L, fd, {m}, proc, d)
    PROVE  Created(N, L, fd, m, proc, d)
<1> USE DEF Created
<1>1. CASE fd \notin Index
  <2>1. fd >= SetSize
    BY <1>1, ConstantFacts DEF Fds
  <2>2. N = L
    BY <2>1 DEF aeCreateFileEvent
  <2> QED
    BY <1>1, <2>2
<1>2. CASE fd \in Index
  <2> DEFINE E == [L EXCEPT !.epoll[fd] = Event(L, fd).mask \cup {m}]
             v == [mask  |-> Event(L, fd).mask \cup {m},
                   rproc |-> IF "R" \in {m} THEN proc ELSE Event(L, fd).rproc,
                   wproc |-> IF "W" \in {m} THEN proc ELSE Event(L, fd).wproc,
                   data  |-> d]
             mx == IF fd > L.maxfd THEN fd ELSE L.maxfd
  <2>1. ~(fd >= SetSize) /\ aeApiAddEventWorks(L, fd)
    <3>1. fd < SetSize /\ fd \in Nat /\ SetSize \in Nat
      BY <1>2, ConstantFacts
    <3>2. L.epoll[fd] = Event(L, fd).mask
      BY <3>1 DEF Agrees
    <3> QED
      BY <3>1, <3>2 DEF aeApiAddEventWorks
  <2>2. /\ E.events = L.events /\ E.maxfd = L.maxfd
        /\ E.epoll = [L.epoll EXCEPT ![fd] = Event(L, fd).mask \cup {m}]
        /\ E \in LoopRec
    <3>1. Event(L, fd).mask \cup {m} \in Mask
      BY <1>2, LoopParts DEF Mask
    <3> QED
      BY <3>1 DEF LoopRec
  <2>3. N = [E EXCEPT !.events[fd] = [mask  |-> @.mask \cup {m},
                                      rproc |-> IF "R" \in {m} THEN proc ELSE @.rproc,
                                      wproc |-> IF "W" \in {m} THEN proc ELSE @.wproc,
                                      data  |-> d],
                      !.maxfd = IF fd > @ THEN fd ELSE @]
    BY <2>1 DEF aeCreateFileEvent, aeApiAddEvent
  <2>4. N = [E EXCEPT !.events[fd] = v, !.maxfd = mx]
    <3> HIDE DEF E
    <3> QED
      BY <2>2, <2>3 DEF Event
  <2>5. v \in EventRec /\ mx \in -1 .. SetSize - 1
    <3>1. Event(L, fd) \in EventRec /\ L.maxfd \in -1 .. SetSize - 1
      BY <1>2, LoopParts
    <3>2. mx \in -1 .. SetSize - 1
      BY <1>2, <3>1, ConstantFacts DEF Index
    <3>3. Event(L, fd).mask \cup {m} \in Mask
      BY <1>2, LoopParts DEF Mask
    <3> QED
      BY <3>1, <3>2, <3>3 DEF EventRec
  <2>6. /\ v.mask = Event(L, fd).mask \cup {m} /\ v.data = d
        /\ m = "R" => v.rproc = proc
        /\ m = "W" => v.wproc = proc
    OBVIOUS
  <2> HIDE DEF E, v, mx
  <2>7. /\ N \in LoopRec /\ N.epoll = E.epoll /\ N.maxfd = mx
        /\ N.events = [L.events EXCEPT ![fd] = v]
    <3>1. [E EXCEPT !.events[fd] = v, !.maxfd = mx] \in LoopRec
      BY <2>2, <2>5 DEF LoopRec
    <3>2. /\ [E EXCEPT !.events[fd] = v, !.maxfd = mx].epoll = E.epoll
          /\ [E EXCEPT !.events[fd] = v, !.maxfd = mx].maxfd = mx
          /\ [E EXCEPT !.events[fd] = v, !.maxfd = mx].events = [L.events EXCEPT ![fd] = v]
      BY <2>2 DEF LoopRec
    <3> QED
      BY <2>4, <3>1, <3>2
  <2>8. /\ \A j \in Index : j # fd => Event(N, j) = Event(L, j)
        /\ Event(N, fd) = v
    BY <1>2, <2>7, LoopParts DEF Event
  <2>9. Registered(N) = Registered(L) \cup {fd}
    BY <1>2, <2>6, <2>8 DEF Registered
  <2>10. Agrees(N)
    <3>1. ASSUME NEW j \in Fds PROVE N.epoll[j] = IF j < SetSize THEN Event(N, j).mask ELSE {}
      <4>1. L.epoll[j] = IF j < SetSize THEN Event(L, j).mask ELSE {}
        BY DEF Agrees
      <4>2. CASE j = fd
        <5>1. N.epoll[j] = Event(L, fd).mask \cup {m}
          BY <2>2, <2>7, <4>2, LoopParts
        <5> QED
          BY <1>2, <2>6, <2>8, <4>2, <5>1, ConstantFacts
      <4>3. CASE j # fd
        <5>1. N.epoll[j] = L.epoll[j]
          BY <2>2, <2>7, <4>3, LoopParts
        <5>2. j < SetSize => j \in Index
          BY ConstantFacts
        <5> QED
          BY <2>8, <4>1, <4>3, <5>1, <5>2
      <4> QED
        BY <4>2, <4>3
    <3>2. L.maxfd \in Int /\ fd \in Int /\ Registered(L) \subseteq Int
      <4>1. L.maxfd \in -1 .. SetSize - 1
        BY LoopParts
      <4>2. fd \in Int
        BY ConstantFacts
      <4>3. Registered(L) \subseteq Int
        BY DEF Registered, Index
      <4> QED
        BY <4>1, <4>2, <4>3
    <3>3. N.maxfd \in {-1} \cup Registered(N)
      BY <2>7, <2>9 DEF Agrees, mx
    <3>4. \A j \in Registered(N) : j <= N.maxfd
      <4>1. mx \in Int /\ fd <= mx /\ L.maxfd <= mx
        BY <3>2 DEF mx
      <4>2. \A j \in Registered(L) : j <= L.maxfd
        BY DEF Agrees
      <4>3. \A j \in Registered(L) : j <= mx
        BY <3>2, <4>1, <4>2
      <4> QED
        BY <2>7, <2>9, <4>1, <4>3
    <3> QED
      BY <3>1, <3>3, <3>4 DEF Agrees
  <2> QED
    BY <1>2, <2>6, <2>7, <2>8, <2>10
<1> QED
  BY <1>1, <1>2

(* aeApiDelEvent, the assignments of aeDeleteFileEvent and its search for the *)
(* new maxfd.                                                                *)
Deleted(N, L, fd, m) ==
    /\ N \in LoopRec /\ Agrees(N)
    /\ \A j \in Index : j # fd => Event(N, j) = Event(L, j)
    /\ Event(N, fd).mask = Event(L, fd).mask \ {m}

LEMMA DeleteEvent ==
    ASSUME NEW L \in LoopRec, Agrees(L), NEW fd \in Fds, fd \in Index, NEW m \in {"R", "W"},
           NEW N, N = aeDeleteFileEvent(L, fd, {m})
    PROVE  Deleted(N, L, fd, m)
<1> USE DEF Deleted
<1>1. CASE Event(L, fd).mask = {}
  <2>1. N = L
    BY <1>1 DEF aeDeleteFileEvent
  <2> QED
    BY <1>1, <2>1
<1>2. CASE Event(L, fd).mask # {}
  <2> DEFINE rest == Event(L, fd).mask \ {m}
             E == [L EXCEPT !.epoll[fd] = rest]
             D == [E EXCEPT !.events[fd].mask = @ \ {m}]
             S == {-1} \cup {j \in 0 .. fd - 1 : Event(D, j).mask # {}}
  <2>1. fd < SetSize /\ fd \in Nat /\ ~(fd >= SetSize) /\ rest \in Mask
    BY LoopParts, ConstantFacts DEF Mask
  <2>2. N = IF fd = L.maxfd /\ Event(D, fd).mask = {} THEN [D EXCEPT !.maxfd = Max(S)] ELSE D
    BY <1>2, <2>1 DEF aeDeleteFileEvent, aeApiDelEvent
  <2>3. /\ E.events = L.events /\ E.maxfd = L.maxfd /\ E.epoll = [L.epoll EXCEPT ![fd] = rest]
        /\ E \in LoopRec
    BY <2>1 DEF LoopRec
  <2>4. /\ D \in LoopRec /\ D.maxfd = L.maxfd /\ D.epoll = E.epoll
        /\ D.events = [L.events EXCEPT ![fd].mask = @ \ {m}]
    <3> HIDE DEF E
    <3>1. D.maxfd = E.maxfd /\ D.epoll = E.epoll
          /\ D.events = [E.events EXCEPT ![fd].mask = @ \ {m}]
      BY <2>3 DEF LoopRec
    <3>2. [E.events EXCEPT ![fd].mask = @ \ {m}] \in [Index -> EventRec]
      <4>1. E.events \in [Index -> EventRec] /\ E.events[fd] \in EventRec
        BY <2>3, LoopParts
      <4>2. E.events[fd].mask \ {m} \in Mask
        BY <2>1, <2>3 DEF Event
      <4>3. [E.events[fd] EXCEPT !.mask = @ \ {m}] \in EventRec
        BY <4>1, <4>2 DEF EventRec
      <4> QED
        BY <4>1, <4>3
    <3>3. D = [E EXCEPT !.events = [E.events EXCEPT ![fd].mask = @ \ {m}]]
      BY <2>3 DEF LoopRec
    <3>4. D \in LoopRec
      BY <2>3, <3>2, <3>3 DEF LoopRec
    <3> QED
      BY <2>3, <3>1, <3>4
  <2> HIDE DEF E, D
  <2>5. /\ \A j \in Index : j # fd => Event(D, j) = Event(L, j)
        /\ Event(D, fd).mask = rest
    <3>1. L.events \in [Index -> EventRec] /\ L.events[fd] \in EventRec
      BY LoopParts
    <3> QED
      BY <2>4, <3>1 DEF Event, EventRec
  <2>6. S \in SUBSET Int /\ IsFiniteSet(S) /\ S # {} /\ S \subseteq -1 .. fd - 1
    <3>1. S \subseteq -1 .. fd - 1
      BY <2>1
    <3>2. IsFiniteSet(-1 .. fd - 1)
      BY <2>1, FS_Interval
    <3>3. IsFiniteSet(S)
      BY <3>1, <3>2, FS_Subset
    <3> QED
      BY <3>1, <3>3
  <2>7. Max(S) \in S /\ \A y \in S : Max(S) >= y
    <3> HIDE DEF S
    <3> QED
      BY <2>6, MaxFacts
  <2>8. /\ N \in LoopRec /\ N.epoll = D.epoll /\ N.events = D.events
        /\ N.maxfd = IF fd = L.maxfd /\ rest = {} THEN Max(S) ELSE L.maxfd
    <3>1. Max(S) \in -1 .. SetSize - 1
      BY <2>1, <2>6, <2>7, ConstantFacts
    <3> HIDE DEF S, rest
    <3> QED
      BY <2>2, <2>4, <2>5, <3>1 DEF LoopRec
  <2>9. /\ \A j \in Index : Event(N, j) = Event(D, j)
        /\ Registered(N) = Registered(D)
    BY <2>8 DEF Event, Registered
  <2>10. Registered(D) = IF rest = {} THEN Registered(L) \ {fd} ELSE Registered(L)
    BY <1>2, <2>5 DEF Registered
  <2>11. ASSUME NEW j \in Fds PROVE N.epoll[j] = IF j < SetSize THEN Event(N, j).mask ELSE {}
    <3>1. L.epoll[j] = IF j < SetSize THEN Event(L, j).mask ELSE {}
      BY DEF Agrees
    <3>2. CASE j = fd
      <4>1. N.epoll[j] = rest
        BY <2>3, <2>4, <2>8, <3>2, LoopParts
      <4> QED
        BY <2>1, <2>5, <2>9, <3>2, <4>1
    <3>3. CASE j # fd
      <4>1. N.epoll[j] = L.epoll[j]
        BY <2>3, <2>4, <2>8, <3>3, LoopParts
      <4>2. j < SetSize => j \in Index
        BY ConstantFacts
      <4> QED
        BY <2>5, <2>9, <3>1, <3>3, <4>1, <4>2
    <3> QED
      BY <3>2, <3>3
  <2>12. /\ N.maxfd \in {-1} \cup Registered(N)
         /\ \A j \in Registered(N) : j <= N.maxfd
    <3>1. /\ L.maxfd \in {-1} \cup Registered(L) /\ \A j \in Registered(L) : j <= L.maxfd
      BY DEF Agrees
    <3>2. CASE fd = L.maxfd /\ rest = {}
      <4>1. \A j \in Registered(N) : j \in Index /\ j # fd /\ j <= fd /\ Event(D, j).mask # {}
        BY <2>9, <2>10, <3>1, <3>2 DEF Registered
      <4>2. \A j \in Registered(N) : j \in 0 .. fd - 1
        BY <2>1, <4>1, ConstantFacts DEF Index
      <4>3. \A j \in Registered(N) : j \in S
        BY <4>1, <4>2
      <4>4. \A j \in S : j = -1 \/ j \in Registered(N)
        <5>1. \A j \in 0 .. fd - 1 : j \in Index
          BY <2>1, ConstantFacts DEF Index
        <5> QED
          BY <2>9, <5>1 DEF Registered
      <4>5. N.maxfd = Max(S)
        BY <2>8, <3>2
      <4>6. \A j \in Registered(N) : j \in Int /\ Max(S) \in Int
        BY <2>6, <2>7, <4>3
      <4> HIDE DEF S
      <4> QED
        BY <2>7, <4>3, <4>4, <4>5, <4>6
    <3>3. CASE ~(fd = L.maxfd /\ rest = {})
      <4>1. N.maxfd = L.maxfd
        BY <2>8, <3>3
      <4> QED
        BY <2>9, <2>10, <3>1, <3>3, <4>1
    <3> QED
      BY <3>2, <3>3
  <2>13. Agrees(N)
    BY <2>11, <2>12 DEF Agrees
  <2> QED
    BY <2>5, <2>8, <2>9, <2>13
<1> QED
  BY <1>1, <1>2

(* The kernel takes a closed descriptor out of an epoll set.                 *)
Forgotten(N, L, fd) ==
    N \in LoopRec /\ Agrees(N) /\ \A j \in Index : Event(N, j) = Event(L, j)

LEMMA ForgetDescriptor ==
    ASSUME NEW L \in LoopRec, Agrees(L), NEW fd \in Fds,
           fd \in Index => Event(L, fd).mask = {},
           NEW N, N = [L EXCEPT !.epoll[fd] = {}]
    PROVE  Forgotten(N, L, fd)
<1> USE DEF Forgotten
<1>1. /\ N \in LoopRec /\ N.events = L.events /\ N.maxfd = L.maxfd
      /\ N.epoll = [L.epoll EXCEPT ![fd] = {}]
  <2>1. {} \in Mask
    BY DEF Mask
  <2> QED
    BY <2>1 DEF LoopRec
<1>2. /\ \A j \in Index : Event(N, j) = Event(L, j)
      /\ Registered(N) = Registered(L)
  BY <1>1 DEF Event, Registered
<1>3. ASSUME NEW j \in Fds PROVE N.epoll[j] = IF j < SetSize THEN Event(N, j).mask ELSE {}
  <2>1. L.epoll[j] = IF j < SetSize THEN Event(L, j).mask ELSE {}
    BY DEF Agrees
  <2>2. j < SetSize => j \in Index
    BY ConstantFacts
  <2>3. N.epoll[j] = IF j = fd THEN {} ELSE L.epoll[j]
    BY <1>1, LoopParts
  <2> QED
    BY <1>2, <2>1, <2>2, <2>3
<1>4. Agrees(N)
  BY <1>1, <1>2, <1>3 DEF Agrees
<1> QED
  BY <1>1, <1>2, <1>4

-----------------------------------------------------------------------------
(* What a handler does to the registration of descriptors.  Thread t changes *)
(* the entry of fd and no other one; every loop stays consistent.            *)
Frame(t, fd) ==
    /\ loop' \in [Threads -> LoopRec] /\ \A u \in Threads : Agrees(loop'[u])
    /\ \A u \in Threads, j \in Index : u # t \/ j # fd => Event(loop'[u], j) = Event(loop[u], j)

Watched(t, fd, c, m) ==
    /\ Event(loop'[t], fd).mask = {m} /\ Event(loop'[t], fd).data = c
    /\ m = "R" => Event(loop'[t], fd).rproc = "socket_readable"
    /\ m = "W" => Event(loop'[t], fd).wproc = "socket_writeable"

SameOwner(c) ==
    conn'[c].live = conn[c].live /\ conn'[c].thread = conn[c].thread /\ conn'[c].fd = conn[c].fd

Keeps == UNCHANGED <<file, loop>> /\ \A c \in Clients : SameOwner(c)

Accepts(t, fd, c) ==
    /\ fd \in Fds /\ file[fd] = None /\ file' = [file EXCEPT ![fd] = c]
    /\ c \in Clients /\ ~conn[c].live
    /\ conn'[c].live /\ conn'[c].thread = t /\ conn'[c].fd = fd
    /\ \A d \in Clients \ {c} : SameOwner(d)
    /\ Frame(t, fd) /\ (fd \in Index => Watched(t, fd, c, "R"))

Switches(t, fd, c, m) ==
    /\ Holds(t, fd, c) /\ fd \in Index /\ fd \in Fds
    /\ UNCHANGED file /\ \A d \in Clients : SameOwner(d)
    /\ Frame(t, fd) /\ Watched(t, fd, c, m)

Drops(t, fd, c) ==
    /\ Holds(t, fd, c) /\ fd \in Index /\ fd \in Fds
    /\ file' = [file EXCEPT ![fd] = None]
    /\ ~conn'[c].live
    /\ \A d \in Clients \ {c} : SameOwner(d)
    /\ Frame(t, fd) /\ Event(loop'[t], fd).mask = {}

Registers == \/ Keeps
             \/ \E t \in Threads, fd \in Fds, c \in Clients :
                   \/ Accepts(t, fd, c) \/ Drops(t, fd, c)
                   \/ \E m \in {"R", "W"} : Switches(t, fd, c, m)

ConnRec == [live : BOOLEAN, thread : Threads \cup {None}, fd : Fds \cup {-1}, cur : 0 .. BufSize]

(* TypeOK in the names used here.                                            *)
LEMMA TypeParts ==
    TypeOK <=>
        /\ file \in [Fds -> Threads \cup Clients \cup {None}]
        /\ loop \in [Threads -> LoopRec]
        /\ fired \in [Threads -> SUBSET [fd : Fds, mask : Mask]]
        /\ second \in [Threads -> [fd : Fds \cup {-1}, rfired : BOOLEAN]]
        /\ conn \in [Clients -> ConnRec]
        /\ backlog \in [Threads -> Seq(Clients)]
        /\ peer \in [Clients -> {"new", "open", "fin", "reset", "gone"}]
        /\ inbox \in [Clients -> Seq({"part", "end"})]
        /\ sent \in [Clients -> [n : Nat, last : {"none", "part", "end"}]]
        /\ taken \in [Clients -> Nat]
        /\ alive \in BOOLEAN
  BY DEF TypeOK, LoopRec, EventRec, ConnRec, Index

(* Every loop is of the right type and agrees with its epoll set.            *)
LEMMA LoopFacts ==
    ASSUME TypeOK, Loops, NEW t \in Threads
    PROVE  loop[t] \in LoopRec /\ Agrees(loop[t])
  BY TypeParts DEF Loops

(* A descriptor belongs to one thread: nobody else has it registered.        *)
LEMMA OnlyOwner ==
    ASSUME TypeOK, Registration, NEW t \in Threads, NEW fd \in Fds, NEW c, Holds(t, fd, c)
    PROVE  /\ file[fd] = c /\ fd # ListenFd[t]
           /\ fd \in Index => IsServed(c) /\ Event(loop[t], fd).data = c
           /\ \A u \in Threads \ {t} : fd \in Index => Event(loop[u], fd).mask = {}
<1>1. c \in Clients /\ conn[c].live /\ conn[c].thread = t /\ conn[c].fd = fd
  BY DEF Holds
<1>2. file[fd] = c /\ (fd \in Index => IsServed(c))
  BY <1>1, ConstantFacts DEF Registration, Serving
<1>3. fd \in Index => Event(loop[t], fd).data = c
  BY <1>1, <1>2 DEF IsServed
<1>4. \A u \in Threads : fd # ListenFd[u]
  BY <1>1, <1>2, Distinct DEF Registration, Listening
<1>5. ASSUME NEW u \in Threads \ {t}, fd \in Index, Event(loop[u], fd).mask # {} PROVE FALSE
  <2>1. Holds(u, fd, Event(loop[u], fd).data)
    BY <1>4, <1>5 DEF Registration, Owned
  <2>2. /\ Event(loop[u], fd).data \in Clients /\ conn[Event(loop[u], fd).data].live
        /\ conn[Event(loop[u], fd).data].fd = fd /\ conn[Event(loop[u], fd).data].thread = u
    BY <2>1 DEF Holds
  <2>3. file[fd] = Event(loop[u], fd).data
    BY <2>2 DEF Registration, Serving
  <2> QED
    BY <1>1, <1>2, <2>2, <2>3
<1> QED
  BY <1>2, <1>3, <1>4, <1>5

(* A registered descriptor that is not the listening one serves a connection. *)
LEMMA Registrant ==
    ASSUME TypeOK, Registration, NEW t \in Threads, NEW fd \in Fds, fd \in Index,
           Event(loop[t], fd).mask # {}, fd # ListenFd[t]
    PROVE  LET c == Event(loop[t], fd).data
           IN  Holds(t, fd, c) /\ c \in Clients /\ IsServed(c)
<1>1. Holds(t, fd, Event(loop[t], fd).data)
  BY DEF Registration, Owned
<1> QED
  BY <1>1, OnlyOwner DEF Holds

(* Closing fd, of connection c, after thread t has deleted its event m.      *)
LEMMA CloseDrops ==
    ASSUME TypeOK, Registration, NEW t \in Threads, NEW fd \in Fds, fd \in Index,
           NEW c, Holds(t, fd, c), NEW m \in {"R", "W"}, Event(loop[t], fd).mask = {m},
           Close(fd, aeDeleteFileEvent(loop[t], fd, {m}), t),
           conn' = [conn EXCEPT ![c].live = FALSE]
    PROVE  Drops(t, fd, c)
<1> DEFINE L == aeDeleteFileEvent(loop[t], fd, {m})
           M(u) == IF u = t THEN L ELSE loop[u]
<1>1. c \in Clients
  BY DEF Holds
<1>2. ASSUME NEW u \in Threads PROVE loop[u] \in LoopRec /\ Agrees(loop[u])
  BY LoopFacts DEF Registration
<1>3. /\ L \in LoopRec /\ Agrees(L) /\ Event(L, fd).mask = {}
      /\ \A j \in Index : j # fd => Event(L, j) = Event(loop[t], j)
  <2>1. loop[t] \in LoopRec /\ Agrees(loop[t])
    BY <1>2
  <2>2. Deleted(L, loop[t], fd, m)
    BY <2>1, DeleteEvent, Zenon
  <2> HIDE DEF L
  <2> QED
    BY <2>2 DEF Deleted
<1> HIDE DEF L
<1>4. ASSUME NEW u \in Threads
      PROVE  /\ M(u) \in LoopRec /\ Agrees(M(u)) /\ Event(M(u), fd).mask = {}
             /\ \A j \in Index : u # t \/ j # fd => Event(M(u), j) = Event(loop[u], j)
  BY <1>2, <1>3, OnlyOwner
<1>5. ASSUME NEW u \in Threads PROVE loop'[u] = [M(u) EXCEPT !.epoll[fd] = {}]
  BY DEF Close, L
<1>6. file' = [file EXCEPT ![fd] = None]
  BY DEF Close
<1> HIDE DEF M, L
<1>7. ASSUME NEW u \in Threads
      PROVE  /\ loop'[u] \in LoopRec /\ Agrees(loop'[u])
             /\ \A j \in Index : Event(loop'[u], j) = Event(M(u), j)
  <2>1. /\ M(u) \in LoopRec /\ Agrees(M(u)) /\ Event(M(u), fd).mask = {}
        /\ loop'[u] = [M(u) EXCEPT !.epoll[fd] = {}]
    BY <1>4, <1>5
  <2>2. Forgotten(loop'[u], M(u), fd)
    BY <2>1, ForgetDescriptor, Zenon
  <2> QED
    BY <2>2 DEF Forgotten
<1>8. Frame(t, fd)
  <2>1. loop' \in [Threads -> LoopRec]
    <3>1. DOMAIN loop' = Threads /\ loop' = [u \in Threads |-> loop'[u]]
      BY DEF Close
    <3> QED
      BY <1>7, <3>1
  <2> QED
    BY <1>4, <1>7, <2>1 DEF Frame
<1>9. Event(loop'[t], fd).mask = {}
  BY <1>4, <1>7
<1>10. ~conn'[c].live /\ \A d \in Clients \ {c} : SameOwner(d)
  BY <1>1, TypeParts DEF SameOwner, ConnRec
<1> QED
  BY <1>6, <1>8, <1>9, <1>10 DEF Drops

(* Thread t deletes the one event of fd and waits for the other one.         *)
LEMMA SwitchEvent ==
    ASSUME TypeOK, Registration, NEW t \in Threads, NEW fd \in Fds, fd \in Index,
           NEW c, Holds(t, fd, c), NEW m \in {"R", "W"}, NEW w \in {"R", "W"}, m # w,
           Event(loop[t], fd).mask = {m},
           loop' = [loop EXCEPT ![t] =
                      aeCreateFileEvent(aeDeleteFileEvent(loop[t], fd, {m}), fd, {w},
                          IF w = "R" THEN "socket_readable" ELSE "socket_writeable", c)]
    PROVE  Frame(t, fd) /\ Watched(t, fd, c, w)
<1> DEFINE L == aeDeleteFileEvent(loop[t], fd, {m})
           proc == IF w = "R" THEN "socket_readable" ELSE "socket_writeable"
           N == aeCreateFileEvent(L, fd, {w}, proc, c)
<1>1. c \in Threads \cup Clients \cup {None}
  BY DEF Holds
<1>2. ASSUME NEW u \in Threads PROVE loop[u] \in LoopRec /\ Agrees(loop[u])
  BY LoopFacts DEF Registration
<1>3. /\ L \in LoopRec /\ Agrees(L) /\ Event(L, fd).mask = {}
      /\ \A j \in Index : j # fd => Event(L, j) = Event(loop[t], j)
  <2>1. loop[t] \in LoopRec /\ Agrees(loop[t])
    BY <1>2
  <2>2. Deleted(L, loop[t], fd, m)
    BY <2>1, DeleteEvent, Zenon
  <2> HIDE DEF L
  <2> QED
    BY <2>2 DEF Deleted
<1> HIDE DEF L
<1>4. /\ w = "R" => proc \in {"socket_accept", "socket_readable"}
      /\ w = "W" => proc = "socket_writeable"
      /\ w = "R" => proc = "socket_readable"
  OBVIOUS
<1> HIDE DEF proc
<1>5. /\ N \in LoopRec /\ Agrees(N)
      /\ \A j \in Index : j # fd => Event(N, j) = Event(L, j)
      /\ Event(N, fd).mask = Event(L, fd).mask \cup {w}
      /\ Event(N, fd).data = c
      /\ w = "R" => Event(N, fd).rproc = proc
      /\ w = "W" => Event(N, fd).wproc = proc
  <2>1. L \in LoopRec /\ Agrees(L)
    BY <1>3
  <2>2. Created(N, L, fd, w, proc, c)
    BY <1>1, <1>4, <2>1, CreateEvent, Zenon
  <2> HIDE DEF N
  <2> QED
    BY <2>2 DEF Created
<1> HIDE DEF N
<1>6. loop' = [loop EXCEPT ![t] = N] /\ loop \in [Threads -> LoopRec]
  BY TypeParts DEF L, N, proc
<1>7. loop'[t] = N /\ \A u \in Threads \ {t} : loop'[u] = loop[u]
  BY <1>6
<1>8. Frame(t, fd)
  <2>1. loop' \in [Threads -> LoopRec]
    BY <1>5, <1>6
  <2> QED
    BY <1>2, <1>3, <1>5, <1>7, <2>1 DEF Frame
<1>9. Watched(t, fd, c, w)
  BY <1>3, <1>4, <1>5, <1>7 DEF Watched
<1> QED
  BY <1>8, <1>9

(* accept takes a descriptor that no loop knows.                             *)
LEMMA FreeIsUnknown ==
    ASSUME TypeOK, Registration, NEW t \in Threads, NEW fd \in Fds, fd \in Index,
           file[fd] = None
    PROVE  Event(loop[t], fd).mask = {}
<1> SUFFICES ASSUME Event(loop[t], fd).mask # {} PROVE FALSE
  OBVIOUS
<1>1. fd # ListenFd[t]
  BY NobodyIsNone DEF Registration, Listening
<1>2. PICK c \in Clients : Holds(t, fd, c)
  BY <1>1, Registrant
<1> QED
  BY <1>2, OnlyOwner, NobodyIsNone

(* Whom accept returns has no connection_t yet.                              *)
LEMMA FirstWaits ==
    ASSUME TypeOK, Queued, NEW t \in Threads, backlog[t] # <<>>
    PROVE  /\ Head(backlog[t]) \in Clients /\ ~conn[Head(backlog[t])].live
           /\ Head(backlog[t]) = backlog[t][1] /\ 1 \in 1 .. Len(backlog[t])
<1>1. backlog[t] \in Seq(Clients)
  BY TypeParts
<1>2. Head(backlog[t]) = backlog[t][1] /\ 1 \in 1 .. Len(backlog[t])
  BY <1>1
<1>3. backlog[t][1] \in Clients
  BY <1>1, <1>2
<1>4. ~conn[backlog[t][1]].live
  BY <1>2 DEF Queued
<1> QED
  BY <1>2, <1>3, <1>4

NewConn(t, fd) == [live |-> TRUE, thread |-> t, fd |-> fd, cur |-> 0]

(* socket_accept finds no descriptor, or opens and registers a free one.     *)
LEMMA AcceptOutcome ==
    ASSUME TypeOK, Registration, Queued, NEW t \in Threads, NEW f, backlog[t] # <<>>,
           socket_accept(t, f)
    PROVE  \/ UNCHANGED <<file, loop, conn, backlog>>
           \/ \E fd \in Fds :
                 /\ Accepts(t, fd, Head(backlog[t]))
                 /\ conn' = [conn EXCEPT ![Head(backlog[t])] = NewConn(t, fd)]
                 /\ backlog' = [backlog EXCEPT ![t] = Tail(@)]
<1> DEFINE free == {g \in Fds : file[g] = None}
           c == Head(backlog[t])
<1>1. CASE free = {}
  BY <1>1 DEF socket_accept
<1>2. CASE free # {}
  <2> DEFINE new == Min(free)
  <2>1. /\ file' = [file EXCEPT ![new] = c]
        /\ conn' = [conn EXCEPT ![c] = NewConn(t, new)]
        /\ loop' = [loop EXCEPT ![t] =
                       aeCreateFileEvent(@, new, {"R"}, "socket_readable", c)]
        /\ backlog' = [backlog EXCEPT ![t] = Tail(@)]
    BY <1>2 DEF socket_accept, NewConn
  <2>2. new \in Fds /\ file[new] = None
    <3>1. free \in SUBSET Fds /\ Fds \in SUBSET Int
      BY ConstantFacts
    <3>2. IsFiniteSet(Fds)
      BY ConstantFacts, FS_Interval DEF Fds
    <3>3. IsFiniteSet(free)
      BY <3>1, <3>2, FS_Subset
    <3>4. new \in free
      <4> HIDE DEF free
      <4> QED
        BY <1>2, <3>1, <3>3, MinFacts
    <3> QED
      BY <3>4
  <2>3. c \in Clients /\ ~conn[c].live
    BY FirstWaits
  <2> HIDE DEF new, c, free
  <2>4. /\ conn'[c].live /\ conn'[c].thread = t /\ conn'[c].fd = new
        /\ \A d \in Clients \ {c} : SameOwner(d)
    <3>1. conn'[c] = NewConn(t, new) /\ \A d \in Clients \ {c} : conn'[d] = conn[d]
      BY <2>1, <2>3, TypeParts
    <3> QED
      BY <3>1 DEF SameOwner, NewConn
  <2> DEFINE N == aeCreateFileEvent(loop[t], new, {"R"}, "socket_readable", c)
  <2>5. loop[t] \in LoopRec /\ Agrees(loop[t])
    BY LoopFacts DEF Registration
  <2>6. Created(N, loop[t], new, "R", "socket_readable", c)
    <3>1. c \in Threads \cup Clients \cup {None}
      BY <2>3
    <3> QED
      BY <2>2, <2>5, <3>1, CreateEvent, Zenon
  <2>7. new \in Index => Event(loop[t], new).mask = {}
    BY <2>2, FreeIsUnknown
  <2>8. /\ loop' = [loop EXCEPT ![t] = N] /\ loop \in [Threads -> LoopRec]
        /\ loop'[t] = N /\ \A u \in Threads \ {t} : loop'[u] = loop[u]
    BY <2>1, TypeParts
  <2> HIDE DEF N
  <2>9. Frame(t, new)
    <3>1. \A u \in Threads : loop[u] \in LoopRec /\ Agrees(loop[u])
      BY LoopFacts DEF Registration
    <3>2. loop' \in [Threads -> LoopRec]
      BY <2>6, <2>8 DEF Created
    <3> QED
      BY <2>6, <2>8, <3>1, <3>2 DEF Frame, Created
  <2>10. new \in Index => Watched(t, new, c, "R")
    BY <2>6, <2>7, <2>8 DEF Watched, Created
  <2>11. Accepts(t, new, c)
    BY <2>1, <2>2, <2>3, <2>4, <2>9, <2>10 DEF Accepts
  <2> QED
    BY <2>1, <2>2, <2>11 DEF c
<1> QED
  BY <1>1, <1>2

(* How much one read takes.                                                  *)
LEMMA ReadSize ==
    ASSUME TypeOK, NEW c \in Clients, NEW n, n = Min({Len(inbox[c]), Room(c)})
    PROVE  /\ n \in Nat /\ n <= Len(inbox[c]) /\ conn[c].cur + n <= BufSize
           /\ n = 0 => inbox[c] = <<>> \/ conn[c].cur = BufSize
           /\ conn[c].cur \in 0 .. BufSize
<1>1. conn[c].cur \in 0 .. BufSize
  BY TypeParts DEF ConnRec
<1>2. inbox[c] \in Seq({"part", "end"})
  BY TypeParts
<1>3. Len(inbox[c]) \in Nat /\ Room(c) \in Nat /\ Room(c) = BufSize - conn[c].cur
  BY <1>1, <1>2, ConstantFacts DEF Room
<1>4. n \in Nat /\ n <= Len(inbox[c]) /\ n <= Room(c) /\ (n = Len(inbox[c]) \/ n = Room(c))
  BY <1>3, MinOfTwo
<1>5. Len(inbox[c]) = 0 => inbox[c] = <<>>
  BY <1>2
<1> QED
  BY <1>1, <1>3, <1>4, <1>5, ConstantFacts

(* A connection is read from when it waits for that, and then waits for that *)
(* alone.                                                                    *)
LEMMA ReadOutcome ==
    ASSUME TypeOK, Registration, NEW t \in Threads, NEW fd \in Fds, fd \in Index,
           "R" \in Event(loop[t], fd).mask, Event(loop[t], fd).rproc = "socket_readable",
           NEW c, c = Event(loop[t], fd).data, socket_readable(t, fd, c)
    PROVE  /\ Holds(t, fd, c) /\ c \in Clients
           /\ fd # ListenFd[t] /\ Event(loop[t], fd).mask = {"R"}
           /\ Keeps \/ Switches(t, fd, c, "W") \/ Drops(t, fd, c)
<1>1. fd # ListenFd[t]
  BY DEF Registration, Listening
<1>2. Holds(t, fd, c) /\ c \in Clients /\ IsServed(c)
  BY <1>1, Registrant
<1>3. Event(loop[t], fd).mask = {"R"}
  BY <1>2 DEF IsServed, Holds
<1> DEFINE n == Min({Len(inbox[c]), Room(c)})
           L == aeDeleteFileEvent(loop[t], fd, {"R"})
<1>4. CASE /\ n > 0
           /\ conn' = [conn EXCEPT ![c].cur = CurAfter(c, n)]
           /\ loop' = IF EndsRequest(c, n)
                      THEN [loop EXCEPT ![t] =
                              aeCreateFileEvent(L, fd, {"W"}, "socket_writeable", c)]
                      ELSE loop
           /\ UNCHANGED file
  <2>1. \A d \in Clients : SameOwner(d)
    <3> HIDE DEF n, L
    <3> QED
      BY <1>2, <1>4, TypeParts DEF SameOwner, ConnRec
  <2>2. CASE EndsRequest(c, n)
    <3>1. loop' = [loop EXCEPT ![t] =
                     aeCreateFileEvent(aeDeleteFileEvent(loop[t], fd, {"R"}), fd, {"W"},
                         IF "W" = "R" THEN "socket_readable" ELSE "socket_writeable", c)]
      BY <1>4, <2>2
    <3>2. Frame(t, fd) /\ Watched(t, fd, c, "W")
      BY <1>2, <1>3, <3>1, SwitchEvent, Zenon
    <3> QED
      BY <1>1, <1>2, <1>3, <1>4, <2>1, <3>2 DEF Switches
  <2>3. CASE ~EndsRequest(c, n)
    <3>1. Keeps
      BY <1>4, <2>1, <2>3 DEF Keeps
    <3> QED
      BY <1>1, <1>2, <1>3, <3>1
  <2> QED
    BY <2>2, <2>3
<1>5. CASE Close(fd, L, t) /\ conn' = [conn EXCEPT ![c].live = FALSE]
  <2>1. Drops(t, fd, c)
    BY <1>2, <1>3, <1>5, CloseDrops, Zenon
  <2> QED
    BY <1>1, <1>2, <1>3, <2>1
<1> QED
  BY <1>4, <1>5 DEF socket_readable

(* A connection is written to when it waits for that alone.                  *)
LEMMA WriteOutcome ==
    ASSUME TypeOK, Registration, NEW t \in Threads, NEW fd \in Fds, fd \in Index,
           "W" \in Event(loop[t], fd).mask,
           NEW c, c = Event(loop[t], fd).data, socket_writeable(t, fd, c)
    PROVE  /\ Holds(t, fd, c) /\ c \in Clients
           /\ fd # ListenFd[t] /\ Event(loop[t], fd).mask = {"W"}
           /\ Keeps \/ Switches(t, fd, c, "R") \/ Drops(t, fd, c)
<1>1. fd # ListenFd[t]
  BY DEF Registration, Listening
<1>2. Holds(t, fd, c) /\ c \in Clients /\ IsServed(c)
  BY <1>1, Registrant
<1>3. Event(loop[t], fd).mask = {"W"}
  BY <1>2 DEF IsServed, Holds
<1> DEFINE L == aeDeleteFileEvent(loop[t], fd, {"W"})
<1>4. CASE /\ loop' = [loop EXCEPT ![t] =
                          aeCreateFileEvent(L, fd, {"R"}, "socket_readable", c)]
           /\ UNCHANGED <<file, conn>>
  <2>1. loop' = [loop EXCEPT ![t] =
                   aeCreateFileEvent(aeDeleteFileEvent(loop[t], fd, {"W"}), fd, {"R"},
                       IF "R" = "R" THEN "socket_readable" ELSE "socket_writeable", c)]
    BY <1>4
  <2>2. Frame(t, fd) /\ Watched(t, fd, c, "R")
    BY <1>2, <1>3, <2>1, SwitchEvent, Zenon
  <2>3. \A d \in Clients : SameOwner(d)
    BY <1>4 DEF SameOwner
  <2> QED
    BY <1>1, <1>2, <1>3, <1>4, <2>2, <2>3 DEF Switches
<1>5. CASE Close(fd, L, t) /\ conn' = [conn EXCEPT ![c].live = FALSE]
  <2>1. Drops(t, fd, c)
    BY <1>2, <1>3, <1>5, CloseDrops, Zenon
  <2> QED
    BY <1>1, <1>2, <1>3, <2>1
<1>6. CASE UNCHANGED <<file, loop, conn>>
  BY <1>1, <1>2, <1>3, <1>6 DEF Keeps, SameOwner
<1> QED
  BY <1>4, <1>5, <1>6 DEF socket_writeable

(* Loops stay consistent.                                                    *)
LEMMA LoopsStep ==
    ASSUME TypeOK, Registration, Registers
    PROVE  Loops'
<1>1. CASE Keeps
  BY <1>1 DEF Keeps, Registration, Loops
<1>2. ASSUME NEW t \in Threads, NEW fd \in Fds, Frame(t, fd) PROVE Loops'
  BY <1>2 DEF Frame, Loops
<1> QED
  BY <1>1, <1>2 DEF Registers, Accepts, Drops, Switches

(* A descriptor that is opened or closed is no listening one.                *)
LEMMA NotListening ==
    ASSUME TypeOK, Registration, NEW t \in Threads, NEW fd \in Fds,
           file[fd] = None \/ file[fd] \in Clients
    PROVE  \A u \in Threads : ListenFd[u] # fd
  BY NobodyIsNone DEF Registration, Listening

(* No handler opens, closes or re-registers a listening descriptor.          *)
LEMMA ListeningStep ==
    ASSUME TypeOK, Registration, Registers
    PROVE  Listening'
<1>1. CASE Keeps
  BY <1>1 DEF Keeps, Registration, Listening
<1>2. ASSUME NEW t \in Threads, NEW fd \in Fds, Frame(t, fd),
             \A u \in Threads : ListenFd[u] # fd,
             UNCHANGED file \/ \E x : file' = [file EXCEPT ![fd] = x]
      PROVE  Listening'
  <2> SUFFICES ASSUME NEW u \in Threads
               PROVE  /\ file'[ListenFd[u]] = u
                      /\ Event(loop'[u], ListenFd[u]).mask = {"R"}
                      /\ Event(loop'[u], ListenFd[u]).rproc = "socket_accept"
    BY DEF Listening
  <2>1. ListenFd[u] \in Fds /\ ListenFd[u] \in Index
    BY ConstantFacts
  <2>2. file'[ListenFd[u]] = file[ListenFd[u]]
    BY <1>2, <2>1, TypeParts
  <2>3. Event(loop'[u], ListenFd[u]) = Event(loop[u], ListenFd[u])
    BY <1>2, <2>1 DEF Frame
  <2> QED
    BY <2>2, <2>3 DEF Registration, Listening
<1>3. ASSUME NEW t \in Threads, NEW fd \in Fds, NEW c \in Clients, Accepts(t, fd, c)
      PROVE  Listening'
  <2>1. \A u \in Threads : ListenFd[u] # fd
    BY <1>3, NotListening DEF Accepts
  <2> QED
    BY <1>2, <1>3, <2>1 DEF Accepts
<1>4. ASSUME NEW t \in Threads, NEW fd \in Fds, NEW c \in Clients, Holds(t, fd, c)
      PROVE  \A u \in Threads : ListenFd[u] # fd
  BY <1>4, OnlyOwner, NotListening
<1> QED
  BY <1>1, <1>2, <1>3, <1>4 DEF Registers, Drops, Switches

(* Whatever is registered stays the connection that owns the descriptor.     *)
LEMMA OwnedStep ==
    ASSUME TypeOK, Registration, Registers
    PROVE  Owned'
<1> USE DEF Registration
<1>1. CASE Keeps
  BY <1>1 DEF Keeps, Owned, Holds, SameOwner
<1> SUFFICES ASSUME NEW t \in Threads, NEW fd \in Fds, NEW c \in Clients,
                    \/ Accepts(t, fd, c) \/ Drops(t, fd, c)
                    \/ \E m \in {"R", "W"} : Switches(t, fd, c, m),
                    NEW u \in Threads, NEW j \in Index, Event(loop'[u], j).mask # {},
                    j # ListenFd[u]
             PROVE  Holds(u, j, Event(loop[u], j).data)'
  BY <1>1 DEF Registers, Owned
<1>2. CASE u # t \/ j # fd
  <2> DEFINE d == Event(loop[u], j).data
  <2>1. Event(loop'[u], j) = Event(loop[u], j)
    BY <1>2 DEF Accepts, Drops, Switches, Frame
  <2>2. d \in Clients /\ conn[d].live /\ conn[d].thread = u /\ conn[d].fd = j
    BY <2>1 DEF Owned, Holds
  <2>3. SameOwner(d)
    BY <1>2, <2>2 DEF Accepts, Drops, Switches, Holds
  <2> QED
    BY <2>1, <2>2, <2>3 DEF Holds, SameOwner
<1>3. CASE u = t /\ j = fd
  <2>1. CASE Accepts(t, fd, c)
    BY <1>3, <2>1 DEF Accepts, Watched, Holds
  <2>2. CASE Drops(t, fd, c)
    BY <1>3, <2>2 DEF Drops
  <2>3. CASE \E m \in {"R", "W"} : Switches(t, fd, c, m)
    BY <1>3, <2>3 DEF Switches, Watched, Holds, SameOwner
  <2> QED
    BY <2>1, <2>2, <2>3
<1> QED
  BY <1>2, <1>3

(* Every open connection keeps waiting for exactly one handler.              *)
LEMMA ServingStep ==
    ASSUME TypeOK, Registration, Registers
    PROVE  Serving'
<1> USE DEF Registration
<1>1. CASE Keeps
  BY <1>1 DEF Keeps, Serving, IsServed, SameOwner
<1> SUFFICES ASSUME NEW t \in Threads, NEW fd \in Fds, NEW c \in Clients,
                    \/ Accepts(t, fd, c) \/ Drops(t, fd, c)
                    \/ \E m \in {"R", "W"} : Switches(t, fd, c, m),
                    NEW d \in Clients, conn'[d].live
             PROVE  /\ conn'[d].thread \in Threads /\ conn'[d].fd \in Fds
                    /\ file'[conn'[d].fd] = d
                    /\ conn'[d].fd < SetSize => IsServed(d)'
  BY <1>1 DEF Registers, Serving
<1>2. CASE d # c
  <2>1. SameOwner(d)
    BY <1>2 DEF Accepts, Drops, Switches
  <2>2. /\ conn[d].live /\ conn[d].thread \in Threads /\ conn[d].fd \in Fds
        /\ file[conn[d].fd] = d /\ (conn[d].fd < SetSize => IsServed(d))
    BY <2>1 DEF Serving, SameOwner
  <2>3. conn[d].fd # fd
    <3>1. file[fd] = None \/ file[fd] = c
      BY OnlyOwner DEF Accepts, Drops, Switches
    <3> QED
      BY <1>2, <2>2, <3>1, NobodyIsNone
  <2>4. file'[conn[d].fd] = d
    BY <2>2, <2>3, TypeParts DEF Accepts, Drops, Switches
  <2>5. ASSUME conn[d].fd < SetSize
        PROVE  Event(loop'[conn[d].thread], conn[d].fd) = Event(loop[conn[d].thread], conn[d].fd)
    <3>1. conn[d].fd \in Index
      BY <2>2, <2>5, ConstantFacts
    <3>2. Frame(t, fd)
      BY DEF Accepts, Drops, Switches
    <3> QED
      BY <2>2, <2>3, <3>1, <3>2 DEF Frame
  <2> QED
    BY <2>1, <2>2, <2>4, <2>5 DEF SameOwner, IsServed
<1>3. CASE d = c
  <2>1. ~Drops(t, fd, c)
    BY <1>3 DEF Drops
  <2>2. /\ conn'[c].thread = t /\ conn'[c].fd = fd
    BY <2>1 DEF Accepts, Switches, Holds, SameOwner
  <2>3. file'[fd] = c
    <3>1. CASE Accepts(t, fd, c)
      BY <3>1, TypeParts DEF Accepts
    <3>2. CASE \E m \in {"R", "W"} : Switches(t, fd, c, m)
      BY <3>2, OnlyOwner DEF Switches
    <3> QED
      BY <2>1, <3>1, <3>2
  <2>4. fd < SetSize => \E m \in {"R", "W"} : Watched(t, fd, c, m)
    BY <2>1, ConstantFacts DEF Accepts, Switches
  <2> QED
    BY <1>3, <2>2, <2>3, <2>4 DEF IsServed, Watched
<1> QED
  BY <1>2, <1>3

-----------------------------------------------------------------------------
(* What aeProcessEvents does with an event it was given.                     *)
AcceptCall(t, e) ==
    /\ e.fd = ListenFd[t] /\ "R" \in e.mask /\ backlog[t] # <<>>
    /\ socket_accept(t, e.fd) /\ UNCHANGED <<inbox, taken>>

ReadCall(t, e) ==
    /\ e.fd # ListenFd[t] /\ "R" \in e.mask
    /\ "R" \in Event(loop[t], e.fd).mask
    /\ Event(loop[t], e.fd).rproc = "socket_readable"
    /\ socket_readable(t, e.fd, Event(loop[t], e.fd).data) /\ UNCHANGED backlog

WriteCall(t, fd) ==
    /\ "W" \in Event(loop[t], fd).mask
    /\ socket_writeable(t, fd, Event(loop[t], fd).data)

Handled(t, e) ==
    /\ e.fd \in Fds /\ e.fd \in Index /\ StillReady(t, e)
    /\ fired' = [fired EXCEPT ![t] = @ \ {e}]
    /\ \/ second' = [second EXCEPT ![t] = NoEvent]
       \/ \E b \in BOOLEAN : second' = [second EXCEPT ![t] = [fd |-> e.fd, rfired |-> b]]
    /\ UNCHANGED <<peer, sent, alive>>
    /\ \/ UNCHANGED <<file, loop, conn, backlog, inbox, taken>>
       \/ AcceptCall(t, e)
       \/ ReadCall(t, e)

(* An event that epoll_wait reported names a descriptor.                     *)
LEMMA EventType ==
    ASSUME TypeOK, NEW t \in Threads, NEW e \in fired[t]
    PROVE  e \in [fd : Fds, mask : Mask] /\ e.fd \in Fds
  BY TypeParts

(* The readable half calls the handler of what was reported, or nothing.     *)
LEMMA HalfReadable ==
    ASSUME TypeOK, Registration, Reported, NEW t \in Threads, ReadableHalf(t)
    PROVE  \E e \in fired[t] : Handled(t, e)
<1>1. PICK e \in fired[t] :
        /\ fired' = [fired EXCEPT ![t] = @ \ {e}]
        /\ second' = [second EXCEPT ![t] =
               IF "W" \in e.mask
               THEN [fd |-> e.fd, rfired |-> StillWanted(t, e, "R")] ELSE NoEvent]
        /\ \/ StillWanted(t, e, "R") /\ CallReadable(t, e)
           \/ /\ ~StillWanted(t, e, "R")
              /\ UNCHANGED <<file, loop, conn, backlog, inbox, taken>>
  BY DEF ReadableHalf
<1>2. e.fd \in Fds /\ StillReady(t, e) /\ e.fd \in Index
  BY EventType DEF Reported, StillReady
<1>3. UNCHANGED <<peer, sent, alive>>
  BY DEF ReadableHalf
<1>4. StillWanted(t, e, "R") \in BOOLEAN
  BY DEF StillWanted
<1>5. \/ second' = [second EXCEPT ![t] = NoEvent]
      \/ \E b \in BOOLEAN : second' = [second EXCEPT ![t] = [fd |-> e.fd, rfired |-> b]]
  BY <1>1, <1>4
<1>6. ASSUME StillWanted(t, e, "R"), CallReadable(t, e) PROVE AcceptCall(t, e) \/ ReadCall(t, e)
  <2>1. "R" \in e.mask /\ "R" \in Event(loop[t], e.fd).mask
    BY <1>6 DEF StillWanted
  <2>2. CASE e.fd = ListenFd[t]
    <3>1. Event(loop[t], e.fd).rproc = "socket_accept"
      BY <2>2 DEF Registration, Listening
    <3>2. backlog[t] # <<>>
      BY <1>2, <2>1, <2>2 DEF StillReady
    <3> QED
      BY <1>6, <2>1, <2>2, <3>1, <3>2 DEF CallReadable, AcceptCall
  <2>3. CASE e.fd # ListenFd[t]
    <3>1. /\ Holds(t, e.fd, Event(loop[t], e.fd).data)
          /\ IsServed(Event(loop[t], e.fd).data)
      BY <1>2, <2>1, <2>3, Registrant
    <3>2. Event(loop[t], e.fd).rproc = "socket_readable"
      BY <2>1, <3>1 DEF IsServed, Holds
    <3> QED
      BY <1>6, <2>1, <2>3, <3>2 DEF CallReadable, ReadCall
  <2> QED
    BY <2>2, <2>3
<1>7. Handled(t, e)
  BY <1>1, <1>2, <1>3, <1>5, <1>6 DEF Handled
<1> QED
  BY <1>7

(* The writable half is that of an event no longer in fired.                 *)
LEMMA HalfWritable ==
    ASSUME TypeOK, Reported, NEW t \in Threads, WritableHalf(t)
    PROVE  /\ second[t].fd \in Fds /\ second[t].fd \in Index
           /\ \A e \in fired[t] : e.fd # second[t].fd
           /\ second' = [second EXCEPT ![t] = NoEvent]
           /\ UNCHANGED <<fired, backlog, inbox, sent>>
           /\ \/ UNCHANGED <<file, loop, conn, peer, taken, alive>>
              \/ WriteCall(t, second[t].fd)
<1>1. second[t] # NoEvent
  BY DEF WritableHalf
<1>2. second[t].fd \in Index /\ \A e \in fired[t] : e.fd # second[t].fd
  BY <1>1 DEF Reported
<1>3. second[t].fd \in Fds \cup {-1}
  BY TypeParts
<1>4. second[t].fd \in Fds
  BY <1>2, <1>3, ConstantFacts
<1>5. \/ UNCHANGED <<file, loop, conn, peer, taken, alive>>
      \/ WriteCall(t, second[t].fd)
  BY DEF WritableHalf, CallWritable, WriteCall
<1> QED
  BY <1>2, <1>4, <1>5 DEF WritableHalf

(* Every step does one of the four things to the registration.               *)
LEMMA RegistersStep ==
    ASSUME TypeOK, Registration, Queued, Reported, [Next]_vars
    PROVE  Registers
<1>1. ASSUME UNCHANGED <<file, loop, conn>> PROVE Registers
  BY <1>1 DEF Registers, Keeps, SameOwner
<1>2. ASSUME NEW t \in Threads, Poll(t) PROVE Registers
  BY <1>1, <1>2 DEF Poll
<1>3. ASSUME NEW t \in Threads, ReadableHalf(t) PROVE Registers
  <2>1. PICK e \in fired[t] : Handled(t, e)
    BY <1>3, HalfReadable
  <2>2. CASE UNCHANGED <<file, loop, conn, backlog, inbox, taken>>
    BY <1>1, <2>2
  <2>3. CASE AcceptCall(t, e)
    <3>1. \/ UNCHANGED <<file, loop, conn, backlog>>
          \/ \E fd \in Fds : Accepts(t, fd, Head(backlog[t]))
      BY <2>3, AcceptOutcome DEF AcceptCall
    <3>2. Head(backlog[t]) \in Clients
      BY <2>3, FirstWaits DEF AcceptCall
    <3> QED
      BY <1>1, <3>1, <3>2 DEF Registers
  <2>4. CASE ReadCall(t, e)
    <3>1. e.fd \in Fds /\ e.fd \in Index
      BY <2>1 DEF Handled
    <3> DEFINE c == Event(loop[t], e.fd).data
    <3>2. c \in Clients /\ (Keeps \/ Switches(t, e.fd, c, "W") \/ Drops(t, e.fd, c))
      BY <2>4, <3>1, ReadOutcome DEF ReadCall
    <3> QED
      BY <3>1, <3>2 DEF Registers
  <2> QED
    BY <2>1, <2>2, <2>3, <2>4 DEF Handled
<1>4. ASSUME NEW t \in Threads, WritableHalf(t) PROVE Registers
  <2>1. second[t].fd \in Fds /\ second[t].fd \in Index
    BY <1>4, HalfWritable
  <2>2. CASE UNCHANGED <<file, loop, conn, peer, taken, alive>>
    BY <1>1, <2>2
  <2>3. CASE WriteCall(t, second[t].fd)
    <3> DEFINE fd == second[t].fd
               c == Event(loop[t], fd).data
    <3>1. c \in Clients /\ (Keeps \/ Switches(t, fd, c, "R") \/ Drops(t, fd, c))
      BY <2>1, <2>3, WriteOutcome DEF WriteCall
    <3> QED
      BY <2>1, <3>1 DEF Registers
  <2> QED
    BY <1>4, <2>2, <2>3, HalfWritable
<1>5. ASSUME NEW c \in Clients, Client(c) PROVE Registers
  BY <1>1, <1>5 DEF Client, Connect, Send, Leave
<1>6. CASE UNCHANGED vars
  BY <1>1, <1>6 DEF vars
<1> QED
  BY <1>2, <1>3, <1>4, <1>5, <1>6 DEF Next, aeMain

(* The registration survives every step.                                     *)
LEMMA RegistrationStep ==
    ASSUME TypeOK, Registration, Queued, Reported, [Next]_vars
    PROVE  Registration'
  BY RegistersStep, LoopsStep, ListeningStep, OwnedStep, ServingStep DEF Registration

-----------------------------------------------------------------------------
(* The five kinds of steps the remaining parts of IInv are followed through. *)
LEMMA Steps ==
    ASSUME TypeOK, Registration, Reported, [Next]_vars
    PROVE  \/ UNCHANGED vars
           \/ \E t \in Threads : Poll(t)
           \/ \E t \in Threads : \E e \in fired[t] : Handled(t, e)
           \/ \E t \in Threads : WritableHalf(t)
           \/ \E c \in Clients : Connect(c) \/ Send(c) \/ Leave(c)
  BY HalfReadable DEF Next, aeMain, Client

(* What one read does to the data of connection c, and what one write does.  *)
Freed(c) == conn' = [conn EXCEPT ![c].live = FALSE]

Took(c) ==
    \E n \in Nat, cur \in 0 .. BufSize :
        /\ 0 < n /\ n <= Len(inbox[c]) /\ cur <= conn[c].cur + n
        /\ inbox' = [inbox EXCEPT ![c] = SubSeq(@, n + 1, Len(@))]
        /\ taken' = [taken EXCEPT ![c] = @ + n]
        /\ conn' = [conn EXCEPT ![c].cur = cur]
        /\ UNCHANGED loop \/ cur = 0

(* Every outcome of socket_readable is one of the two.                       *)
LEMMA ReadEffect ==
    ASSUME TypeOK, NEW t, NEW fd, NEW c \in Clients, socket_readable(t, fd, c)
    PROVE  \/ Took(c)
           \/ /\ Freed(c) /\ UNCHANGED <<inbox, taken>>
              /\ inbox[c] = <<>> \/ conn[c].cur = BufSize
<1> DEFINE n == Min({Len(inbox[c]), Room(c)})
<1>1. /\ n \in Nat /\ n <= Len(inbox[c]) /\ conn[c].cur + n <= BufSize
      /\ n = 0 => inbox[c] = <<>> \/ conn[c].cur = BufSize
      /\ conn[c].cur \in 0 .. BufSize
  BY ReadSize
<1>2. \/ /\ n > 0
         /\ inbox' = [inbox EXCEPT ![c] = SubSeq(@, n + 1, Len(@))]
         /\ taken' = [taken EXCEPT ![c] = @ + n]
         /\ conn' = [conn EXCEPT ![c].cur = CurAfter(c, n)]
         /\ UNCHANGED loop \/ EndsRequest(c, n)
      \/ n = 0 /\ Freed(c) /\ UNCHANGED <<inbox, taken>>
  BY DEF socket_readable, Freed
<1> HIDE DEF n
<1>3. /\ CurAfter(c, n) \in 0 .. BufSize /\ CurAfter(c, n) <= conn[c].cur + n
      /\ EndsRequest(c, n) => CurAfter(c, n) = 0
  BY <1>1, ConstantFacts DEF CurAfter
<1> QED
  BY <1>1, <1>2, <1>3 DEF Took

(* The four outcomes of socket_writeable.                                    *)
LEMMA WriteEffect ==
    ASSUME NEW t, NEW fd, NEW c, socket_writeable(t, fd, c)
    PROVE  \/ taken' = [taken EXCEPT ![c] = 0] /\ UNCHANGED <<conn, peer, alive>>
           \/ Freed(c) /\ UNCHANGED <<taken, peer, alive>>
           \/ /\ peer[c] = "reset" /\ peer' = [peer EXCEPT ![c] = "gone"]
              /\ UNCHANGED <<conn, taken, alive>>
           \/ alive' = FALSE /\ UNCHANGED <<conn, taken, peer>>
  BY DEF socket_writeable, Freed

(* The types of the table, the loops and the connections.                    *)
LEMMA RegistersType ==
    ASSUME TypeOK, Registers
    PROVE  /\ file' \in [Fds -> Threads \cup Clients \cup {None}]
           /\ loop' \in [Threads -> LoopRec]
<1>1. /\ file \in [Fds -> Threads \cup Clients \cup {None}]
      /\ loop \in [Threads -> LoopRec]
  BY TypeParts
<1>2. file' \in [Fds -> Threads \cup Clients \cup {None}]
  BY <1>1 DEF Registers, Keeps, Accepts, Drops, Switches
<1>3. loop' \in [Threads -> LoopRec]
  BY <1>1 DEF Registers, Keeps, Accepts, Drops, Switches, Frame
<1> QED
  BY <1>2, <1>3

(* A freed connection keeps its other fields.                                *)
LEMMA FreedType ==
    ASSUME TypeOK, NEW c \in Clients, Freed(c)
    PROVE  conn' \in [Clients -> ConnRec]
<1>1. conn \in [Clients -> ConnRec] /\ conn[c] \in ConnRec
  BY TypeParts
<1>2. [conn[c] EXCEPT !.live = FALSE] \in ConnRec
  BY <1>1 DEF ConnRec
<1>3. conn' = [conn EXCEPT ![c] = [conn[c] EXCEPT !.live = FALSE]]
  BY DEF Freed
<1> HIDE DEF ConnRec
<1> QED
  BY <1>1, <1>2, <1>3

(* cur stays within the buffer, the rest of the input is a sequence.         *)
LEMMA TookType ==
    ASSUME TypeOK, NEW c \in Clients, Took(c)
    PROVE  /\ conn' \in [Clients -> ConnRec] /\ taken' \in [Clients -> Nat]
           /\ inbox' \in [Clients -> Seq({"part", "end"})]
<1>1. PICK n \in Nat, cur \in 0 .. BufSize :
        /\ 0 < n /\ n <= Len(inbox[c])
        /\ inbox' = [inbox EXCEPT ![c] = SubSeq(@, n + 1, Len(@))]
        /\ taken' = [taken EXCEPT ![c] = @ + n]
        /\ conn' = [conn EXCEPT ![c].cur = cur]
  BY DEF Took
<1>2. conn' \in [Clients -> ConnRec]
  BY <1>1, TypeParts DEF ConnRec
<1>3. taken' \in [Clients -> Nat]
  BY <1>1, TypeParts
<1>4. inbox \in [Clients -> Seq({"part", "end"})] /\ inbox[c] \in Seq({"part", "end"})
  BY TypeParts
<1>5. SubSeq(inbox[c], n + 1, Len(inbox[c])) \in Seq({"part", "end"})
  BY <1>4
<1>6. inbox' \in [Clients -> Seq({"part", "end"})]
  BY <1>1, <1>4, <1>5
<1> QED
  BY <1>2, <1>3, <1>6

(* Types of the variables that only clients and handlers touch.              *)
DataTypes ==
    /\ conn' \in [Clients -> ConnRec]
    /\ backlog' \in [Threads -> Seq(Clients)]
    /\ inbox' \in [Clients -> Seq({"part", "end"})]
    /\ taken' \in [Clients -> Nat]

(* The readable half keeps the types of what it changes.                     *)
LEMMA HandledType ==
    ASSUME TypeOK, Registration, Queued, NEW t \in Threads, NEW e \in fired[t], Handled(t, e)
    PROVE  DataTypes
<1>1. /\ conn \in [Clients -> ConnRec] /\ backlog \in [Threads -> Seq(Clients)]
      /\ inbox \in [Clients -> Seq({"part", "end"})] /\ taken \in [Clients -> Nat]
  BY TypeParts
<1>2. CASE UNCHANGED <<file, loop, conn, backlog, inbox, taken>>
  BY <1>1, <1>2 DEF DataTypes
<1>3. CASE AcceptCall(t, e)
  <2>1. \/ UNCHANGED <<file, loop, conn, backlog>>
        \/ \E fd \in Fds :
              /\ conn' = [conn EXCEPT ![Head(backlog[t])] = NewConn(t, fd)]
              /\ backlog' = [backlog EXCEPT ![t] = Tail(@)]
    BY <1>3, AcceptOutcome DEF AcceptCall
  <2>2. backlog[t] # <<>> /\ UNCHANGED <<inbox, taken>>
    BY <1>3 DEF AcceptCall
  <2>3. backlog[t] \in Seq(Clients) /\ Tail(backlog[t]) \in Seq(Clients)
    BY <1>1, <2>2
  <2>4. \A fd \in Fds : NewConn(t, fd) \in ConnRec
    BY ConstantFacts DEF NewConn, ConnRec
  <2>5. conn' \in [Clients -> ConnRec]
    BY <1>1, <2>1, <2>4
  <2>6. backlog' \in [Threads -> Seq(Clients)]
    BY <1>1, <2>1, <2>3
  <2> QED
    BY <1>1, <2>2, <2>5, <2>6 DEF DataTypes
<1>4. CASE ReadCall(t, e)
  <2> DEFINE c == Event(loop[t], e.fd).data
  <2>1. c \in Clients
    BY <1>4, ReadOutcome DEF ReadCall, Handled
  <2>2. Took(c) \/ (Freed(c) /\ UNCHANGED <<inbox, taken>>)
    BY <1>4, <2>1, ReadEffect DEF ReadCall
  <2>3. UNCHANGED backlog
    BY <1>4 DEF ReadCall
  <2> HIDE DEF c
  <2> QED
    BY <1>1, <2>1, <2>2, <2>3, TookType, FreedType DEF DataTypes
<1> QED
  BY <1>2, <1>3, <1>4 DEF Handled

(* The types survive every step.                                             *)
LEMMA TypeStep ==
    ASSUME TypeOK, Registration, Queued, Reported, [Next]_vars
    PROVE  TypeOK'
<1> DEFINE Rest == /\ fired' \in [Threads -> SUBSET [fd : Fds, mask : Mask]]
                   /\ second' \in [Threads -> [fd : Fds \cup {-1}, rfired : BOOLEAN]]
                   /\ peer' \in [Clients -> {"new", "open", "fin", "reset", "gone"}]
                   /\ sent' \in [Clients -> [n : Nat, last : {"none", "part", "end"}]]
                   /\ alive' \in BOOLEAN
<1>1. /\ fired \in [Threads -> SUBSET [fd : Fds, mask : Mask]]
      /\ second \in [Threads -> [fd : Fds \cup {-1}, rfired : BOOLEAN]]
      /\ conn \in [Clients -> ConnRec]
      /\ backlog \in [Threads -> Seq(Clients)]
      /\ peer \in [Clients -> {"new", "open", "fin", "reset", "gone"}]
      /\ inbox \in [Clients -> Seq({"part", "end"})]
      /\ sent \in [Clients -> [n : Nat, last : {"none", "part", "end"}]]
      /\ taken \in [Clients -> Nat]
      /\ alive \in BOOLEAN
  BY TypeParts
<1>2. NoEvent \in [fd : Fds \cup {-1}, rfired : BOOLEAN]
  BY DEF NoEvent
<1>3. ASSUME UNCHANGED vars PROVE DataTypes /\ Rest
  BY <1>1, <1>3 DEF vars, DataTypes
<1>4. ASSUME NEW t \in Threads, Poll(t) PROVE DataTypes /\ Rest
  <2>1. aeApiPoll(t) \in SUBSET [fd : Fds, mask : Mask]
    <3>1. \A f \in Fds : Ready(t, f) \in Mask
      BY DEF Ready, Mask
    <3> QED
      BY <3>1 DEF aeApiPoll
  <2>2. fired' \in [Threads -> SUBSET [fd : Fds, mask : Mask]]
    BY <1>1, <1>4, <2>1 DEF Poll
  <2> QED
    BY <1>1, <1>4, <2>2 DEF Poll, DataTypes
<1>5. ASSUME NEW t \in Threads, NEW e \in fired[t], Handled(t, e) PROVE DataTypes /\ Rest
  <2>1. DataTypes
    BY <1>5, HandledType
  <2>2. fired' \in [Threads -> SUBSET [fd : Fds, mask : Mask]]
    BY <1>1, <1>5 DEF Handled
  <2>3. second' \in [Threads -> [fd : Fds \cup {-1}, rfired : BOOLEAN]]
    <3>1. e.fd \in Fds
      BY <1>5 DEF Handled
    <3>2. \A b \in BOOLEAN : [fd |-> e.fd, rfired |-> b] \in [fd : Fds \cup {-1}, rfired : BOOLEAN]
      BY <3>1
    <3> DEFINE R == [fd : Fds \cup {-1}, rfired : BOOLEAN]
    <3>3. \E s \in R : second' = [second EXCEPT ![t] = s]
      BY <1>2, <1>5, <3>2 DEF Handled
    <3>4. second \in [Threads -> R]
      BY <1>1
    <3> HIDE DEF R
    <3>5. second' \in [Threads -> R]
      BY <3>3, <3>4
    <3> QED
      BY <3>5 DEF R
  <2> QED
    BY <1>1, <1>5, <2>1, <2>2, <2>3 DEF Handled
<1>6. ASSUME NEW t \in Threads, WritableHalf(t) PROVE DataTypes /\ Rest
  <2> DEFINE fd == second[t].fd
             c == Event(loop[t], fd).data
  <2>1. /\ fd \in Fds /\ fd \in Index
        /\ second' = [second EXCEPT ![t] = NoEvent]
        /\ UNCHANGED <<fired, backlog, inbox, sent>>
        /\ \/ UNCHANGED <<file, loop, conn, peer, taken, alive>>
           \/ WriteCall(t, fd)
    BY <1>6, HalfWritable
  <2>2. second' \in [Threads -> [fd : Fds \cup {-1}, rfired : BOOLEAN]]
    BY <1>1, <1>2, <2>1
  <2>3. ASSUME WriteCall(t, fd)
        PROVE  /\ conn' \in [Clients -> ConnRec] /\ taken' \in [Clients -> Nat]
               /\ peer' \in [Clients -> {"new", "open", "fin", "reset", "gone"}]
               /\ alive' \in BOOLEAN
    <3>1. c \in Clients
      BY <2>1, <2>3, WriteOutcome DEF WriteCall
    <3>2. \/ taken' = [taken EXCEPT ![c] = 0] /\ UNCHANGED <<conn, peer, alive>>
          \/ Freed(c) /\ UNCHANGED <<taken, peer, alive>>
          \/ peer' = [peer EXCEPT ![c] = "gone"] /\ UNCHANGED <<conn, taken, alive>>
          \/ alive' = FALSE /\ UNCHANGED <<conn, taken, peer>>
      BY <2>3, WriteEffect DEF WriteCall
    <3> HIDE DEF c
    <3>3. conn' \in [Clients -> ConnRec]
      BY <1>1, <3>1, <3>2, FreedType
    <3>4. taken' \in [Clients -> Nat]
      BY <1>1, <3>1, <3>2
    <3>5. peer' \in [Clients -> {"new", "open", "fin", "reset", "gone"}]
      BY <1>1, <3>1, <3>2
    <3>6. alive' \in BOOLEAN
      BY <1>1, <3>2
    <3> QED
      BY <3>3, <3>4, <3>5, <3>6
  <2> QED
    BY <1>1, <2>1, <2>2, <2>3 DEF DataTypes
<1>7. ASSUME NEW c \in Clients, Connect(c) PROVE DataTypes /\ Rest
  <2>1. Listener[c] \in Threads /\ Append(backlog[Listener[c]], c) \in Seq(Clients)
    BY <1>1, ListenersAreDistinct
  <2>2. backlog' \in [Threads -> Seq(Clients)]
    BY <1>1, <1>7, <2>1 DEF Connect
  <2>3. peer' \in [Clients -> {"new", "open", "fin", "reset", "gone"}]
    BY <1>1, <1>7 DEF Connect
  <2> QED
    BY <1>1, <1>7, <2>2, <2>3 DEF Connect, DataTypes
<1>8. ASSUME NEW c \in Clients, Send(c) PROVE DataTypes /\ Rest
  <2>1. PICK u \in {"part", "end"} :
          /\ inbox' = [inbox EXCEPT ![c] = Append(@, u)]
          /\ sent' = [sent EXCEPT ![c] = [n |-> @.n + 1, last |-> u]]
    BY <1>8 DEF Send
  <2>2. Append(inbox[c], u) \in Seq({"part", "end"})
    BY <1>1
  <2>3. inbox' \in [Clients -> Seq({"part", "end"})]
    BY <1>1, <2>1, <2>2
  <2>4. [n |-> sent[c].n + 1, last |-> u] \in [n : Nat, last : {"none", "part", "end"}]
    BY <1>1
  <2>5. sent' \in [Clients -> [n : Nat, last : {"none", "part", "end"}]]
    BY <1>1, <2>1, <2>4
  <2> QED
    BY <1>1, <1>8, <2>3, <2>5 DEF Send, DataTypes
<1>9. ASSUME NEW c \in Clients, Leave(c) PROVE DataTypes /\ Rest
  BY <1>1, <1>9 DEF Leave, DataTypes
<1>10. DataTypes /\ Rest
  <2> HIDE DEF Rest
  <2> QED
    BY <1>3, <1>4, <1>5, <1>6, <1>7, <1>8, <1>9, Steps
<1>11. /\ file' \in [Fds -> Threads \cup Clients \cup {None}]
       /\ loop' \in [Threads -> LoopRec]
  BY RegistersStep, RegistersType
<1>12. TypeOK' <=>
        /\ file' \in [Fds -> Threads \cup Clients \cup {None}]
        /\ loop' \in [Threads -> LoopRec]
        /\ fired' \in [Threads -> SUBSET [fd : Fds, mask : Mask]]
        /\ second' \in [Threads -> [fd : Fds \cup {-1}, rfired : BOOLEAN]]
        /\ conn' \in [Clients -> ConnRec]
        /\ backlog' \in [Threads -> Seq(Clients)]
        /\ peer' \in [Clients -> {"new", "open", "fin", "reset", "gone"}]
        /\ inbox' \in [Clients -> Seq({"part", "end"})]
        /\ sent' \in [Clients -> [n : Nat, last : {"none", "part", "end"}]]
        /\ taken' \in [Clients -> Nat]
        /\ alive' \in BOOLEAN
  BY DEF TypeOK, LoopRec, EventRec, ConnRec, Index
<1> QED
  BY <1>10, <1>11, <1>12 DEF DataTypes

-----------------------------------------------------------------------------
(* The queues when nobody enters or leaves one.                              *)
LEMMA QueuedKept ==
    ASSUME TypeOK, Queued, UNCHANGED backlog,
           \A c \in Clients : conn'[c].live => conn[c].live,
           \A c \in Clients : peer'[c] = "new" => peer[c] = "new"
    PROVE  Queued'
<1>1. ASSUME NEW t \in Threads, NEW i \in 1 .. Len(backlog[t]) PROVE backlog[t][i] \in Clients
  <2>1. backlog[t] \in Seq(Clients)
    BY TypeParts
  <2> QED
    BY <2>1
<1> QED
  BY <1>1 DEF Queued

(* The client that is accepted leaves its queue, the others stay.            *)
LEMMA AcceptQueued ==
    ASSUME TypeOK, Queued, NEW t \in Threads, backlog[t] # <<>>, NEW fd \in Fds,
           conn' = [conn EXCEPT ![Head(backlog[t])] = NewConn(t, fd)],
           backlog' = [backlog EXCEPT ![t] = Tail(@)], UNCHANGED peer
    PROVE  Queued'
<1> DEFINE c == Head(backlog[t])
<1>1. c \in Clients /\ c = backlog[t][1] /\ 1 \in 1 .. Len(backlog[t])
  BY FirstWaits
<1>2. Listener[c] = t /\ peer[c] # "new"
  BY <1>1 DEF Queued
<1>3. \A d \in Clients \ {c} : conn'[d] = conn[d]
  BY TypeParts
<1>4. backlog \in [Threads -> Seq(Clients)] /\ backlog[t] \in Seq(Clients)
  BY TypeParts
<1>5. /\ Len(Tail(backlog[t])) = Len(backlog[t]) - 1 /\ Len(backlog[t]) \in Nat
      /\ \A i \in 1 .. Len(Tail(backlog[t])) :
            i + 1 \in 1 .. Len(backlog[t]) /\ Tail(backlog[t])[i] = backlog[t][i + 1]
  BY <1>4
<1>6. backlog'[t] = Tail(backlog[t]) /\ \A u \in Threads \ {t} : backlog'[u] = backlog[u]
  BY <1>4
<1> HIDE DEF c
<1>7. ASSUME NEW u \in Threads, NEW i \in 1 .. Len(backlog'[u])
      PROVE  /\ Listener[backlog'[u][i]] = u
             /\ ~conn'[backlog'[u][i]].live /\ peer'[backlog'[u][i]] # "new"
             /\ \A j \in 1 .. Len(backlog'[u]) : backlog'[u][i] = backlog'[u][j] => i = j
  <2>1. CASE u # t
    <3>1. backlog'[u] = backlog[u] /\ i \in 1 .. Len(backlog[u])
      BY <1>6, <2>1
    <3>2. backlog[u][i] \in Clients /\ Listener[backlog[u][i]] = u
      BY <1>4, <3>1 DEF Queued
    <3>3. conn'[backlog[u][i]] = conn[backlog[u][i]]
      BY <1>2, <1>3, <2>1, <3>2
    <3> QED
      BY <3>1, <3>3 DEF Queued
  <2>2. CASE u = t
    <3>1. /\ backlog'[u] = Tail(backlog[t]) /\ i + 1 \in 1 .. Len(backlog[t])
          /\ backlog'[u][i] = backlog[t][i + 1] /\ i \in 1 .. Len(Tail(backlog[t]))
      BY <1>5, <1>6, <2>2
    <3>2. backlog[t][i + 1] \in Clients /\ backlog[t][i + 1] # c
      <4>1. i + 1 # 1
        BY <3>1
      <4>2. backlog[t][i + 1] # backlog[t][1]
        BY <1>1, <3>1, <4>1 DEF Queued
      <4> QED
        BY <1>1, <1>4, <3>1, <4>2
    <3>3. conn'[backlog[t][i + 1]] = conn[backlog[t][i + 1]]
      BY <1>3, <3>2
    <3>4. /\ Listener[backlog[t][i + 1]] = t
          /\ ~conn[backlog[t][i + 1]].live /\ peer[backlog[t][i + 1]] # "new"
      BY <3>1 DEF Queued
    <3>5. ASSUME NEW j \in 1 .. Len(Tail(backlog[t])),
                 backlog[t][i + 1] = Tail(backlog[t])[j]
          PROVE  i = j
      <4>1. j + 1 \in 1 .. Len(backlog[t]) /\ backlog[t][i + 1] = backlog[t][j + 1]
        BY <1>5, <3>5
      <4>2. i + 1 = j + 1
        BY <3>1, <4>1 DEF Queued
      <4>3. i \in Int /\ j \in Int
        BY <3>1
      <4> QED
        BY <4>2, <4>3
    <3> QED
      BY <2>2, <3>1, <3>3, <3>4, <3>5
  <2> QED
    BY <2>1, <2>2
<1>8. ASSUME NEW d \in Clients, peer'[d] = "new" PROVE ~conn'[d].live
  BY <1>2, <1>3, <1>8 DEF Queued
<1> QED
  BY <1>7, <1>8 DEF Queued

(* A client enters the queue of the thread the kernel gives it to.           *)
LEMMA ConnectQueued ==
    ASSUME TypeOK, Queued, NEW c \in Clients, Connect(c)
    PROVE  Queued'
<1> DEFINE t == Listener[c]
<1>1. /\ peer[c] = "new" /\ UNCHANGED conn
      /\ peer' = [peer EXCEPT ![c] = "open"] /\ backlog' = [backlog EXCEPT ![t] = Append(@, c)]
  BY DEF Connect
<1>2. t \in Threads /\ ~conn[c].live
  BY <1>1, ListenersAreDistinct DEF Queued
<1>3. /\ backlog \in [Threads -> Seq(Clients)]
      /\ peer \in [Clients -> {"new", "open", "fin", "reset", "gone"}]
  BY TypeParts
<1>4. /\ peer'[c] = "open" /\ \A d \in Clients \ {c} : peer'[d] = peer[d]
  BY <1>1, <1>3
<1>5. ASSUME NEW u \in Threads, NEW i \in 1 .. Len(backlog[u])
      PROVE  backlog[u][i] \in Clients /\ backlog[u][i] # c
  <2>1. backlog[u] \in Seq(Clients)
    BY <1>3
  <2> QED
    BY <1>1, <2>1 DEF Queued
<1>6. /\ Len(Append(backlog[t], c)) = Len(backlog[t]) + 1 /\ Len(backlog[t]) \in Nat
      /\ \A i \in 1 .. Len(backlog[t]) : Append(backlog[t], c)[i] = backlog[t][i]
      /\ Append(backlog[t], c)[Len(backlog[t]) + 1] = c
  BY <1>2, <1>3
<1>7. backlog'[t] = Append(backlog[t], c) /\ \A u \in Threads \ {t} : backlog'[u] = backlog[u]
  BY <1>1, <1>2, <1>3
<1>8. t = Listener[c]
  OBVIOUS
<1> HIDE DEF t
<1>9. ASSUME NEW u \in Threads, NEW i \in 1 .. Len(backlog'[u])
      PROVE  /\ Listener[backlog'[u][i]] = u
             /\ ~conn'[backlog'[u][i]].live /\ peer'[backlog'[u][i]] # "new"
             /\ \A j \in 1 .. Len(backlog'[u]) : backlog'[u][i] = backlog'[u][j] => i = j
  <2>1. CASE u # t
    BY <1>1, <1>4, <1>5, <1>7, <2>1 DEF Queued
  <2>2. CASE u = t
    <3>1. ASSUME NEW j \in 1 .. Len(backlog'[u])
          PROVE  \/ j \in 1 .. Len(backlog[t]) /\ backlog'[u][j] = backlog[t][j]
                 \/ j = Len(backlog[t]) + 1 /\ backlog'[u][j] = c
      BY <1>6, <1>7, <2>2
    <3>2. CASE i \in 1 .. Len(backlog[t]) /\ backlog'[u][i] = backlog[t][i]
      <4>1. backlog[t][i] \in Clients \ {c}
        BY <1>2, <1>5, <3>2
      <4>2. Listener[backlog[t][i]] = t /\ ~conn[backlog[t][i]].live /\ peer[backlog[t][i]] # "new"
        BY <1>2, <3>2 DEF Queued
      <4>3. \A j \in 1 .. Len(backlog[t]) : backlog[t][i] = backlog[t][j] => i = j
        BY <1>2, <3>2 DEF Queued
      <4> QED
        BY <1>1, <1>4, <2>2, <3>1, <3>2, <4>1, <4>2, <4>3
    <3>3. CASE i = Len(backlog[t]) + 1 /\ backlog'[u][i] = c
      BY <1>1, <1>2, <1>4, <1>5, <1>8, <2>2, <3>1, <3>3
    <3> QED
      BY <3>1, <3>2, <3>3
  <2> QED
    BY <2>1, <2>2
<1>10. ASSUME NEW d \in Clients, peer'[d] = "new" PROVE ~conn'[d].live
  BY <1>1, <1>4, <1>10 DEF Queued
<1> QED
  BY <1>9, <1>10 DEF Queued

(* Reading and freeing open no connection.                                   *)
LEMMA EffectKeeps ==
    ASSUME TypeOK, NEW c \in Clients, Freed(c) \/ Took(c)
    PROVE  \A d \in Clients : conn'[d].live => conn[d].live
<1>1. conn \in [Clients -> ConnRec] /\ conn[c] \in ConnRec
  BY TypeParts
<1>2. [conn[c] EXCEPT !.live = FALSE].live = FALSE
  BY <1>1 DEF ConnRec
<1>3. \A n : [conn[c] EXCEPT !.cur = n].live = conn[c].live
  BY <1>1 DEF ConnRec
<1>4. CASE Freed(c)
  <2>1. conn'[c] = [conn[c] EXCEPT !.live = FALSE] /\ \A d \in Clients \ {c} : conn'[d] = conn[d]
    BY <1>1, <1>4 DEF Freed
  <2> QED
    BY <1>2, <2>1
<1>5. CASE Took(c)
  <2>1. PICK n : conn' = [conn EXCEPT ![c].cur = n]
    BY <1>5 DEF Took
  <2>2. conn'[c] = [conn[c] EXCEPT !.cur = n] /\ \A d \in Clients \ {c} : conn'[d] = conn[d]
    BY <1>1, <2>1
  <2> QED
    BY <1>3, <2>2
<1> QED
  BY <1>4, <1>5

(* The queues survive every step.                                            *)
LEMMA QueuedStep ==
    ASSUME TypeOK, Registration, Queued, Reported, [Next]_vars
    PROVE  Queued'
<1>1. ASSUME UNCHANGED <<conn, backlog, peer>> PROVE Queued'
  BY <1>1, QueuedKept
<1>2. ASSUME NEW t \in Threads, NEW e \in fired[t], Handled(t, e) PROVE Queued'
  <2>1. UNCHANGED peer
    BY <1>2 DEF Handled
  <2>2. CASE UNCHANGED <<file, loop, conn, backlog, inbox, taken>>
    BY <1>1, <2>1, <2>2
  <2>3. CASE AcceptCall(t, e)
    <3>1. \/ UNCHANGED <<file, loop, conn, backlog>>
          \/ \E fd \in Fds :
                /\ conn' = [conn EXCEPT ![Head(backlog[t])] = NewConn(t, fd)]
                /\ backlog' = [backlog EXCEPT ![t] = Tail(@)]
      BY <2>3, AcceptOutcome DEF AcceptCall
    <3>2. backlog[t] # <<>>
      BY <2>3 DEF AcceptCall
    <3> QED
      BY <1>1, <2>1, <3>1, <3>2, AcceptQueued
  <2>4. CASE ReadCall(t, e)
    <3> DEFINE c == Event(loop[t], e.fd).data
    <3>1. c \in Clients
      BY <1>2, <2>4, ReadOutcome DEF ReadCall, Handled
    <3>2. Freed(c) \/ Took(c)
      BY <2>4, <3>1, ReadEffect DEF ReadCall
    <3>3. \A d \in Clients : conn'[d].live => conn[d].live
      BY <3>1, <3>2, EffectKeeps
    <3>4. UNCHANGED backlog
      BY <2>4 DEF ReadCall
    <3> QED
      BY <2>1, <3>3, <3>4, QueuedKept
  <2> QED
    BY <1>2, <2>2, <2>3, <2>4 DEF Handled
<1>3. ASSUME NEW t \in Threads, WritableHalf(t) PROVE Queued'
  <2> DEFINE fd == second[t].fd
             c == Event(loop[t], fd).data
  <2>1. /\ fd \in Fds /\ fd \in Index /\ UNCHANGED backlog
        /\ UNCHANGED <<file, loop, conn, peer, taken, alive>> \/ WriteCall(t, fd)
    BY <1>3, HalfWritable
  <2>2. CASE WriteCall(t, fd)
    <3>1. c \in Clients
      BY <2>1, <2>2, WriteOutcome DEF WriteCall
    <3>2. \/ UNCHANGED <<conn, peer>>
          \/ Freed(c) /\ UNCHANGED peer
          \/ peer' = [peer EXCEPT ![c] = "gone"] /\ UNCHANGED conn
      BY <2>2, WriteEffect DEF WriteCall
    <3> HIDE DEF c
    <3>3. \A d \in Clients : conn'[d].live => conn[d].live
      BY <3>1, <3>2, EffectKeeps
    <3>4. \A d \in Clients : peer'[d] = "new" => peer[d] = "new"
      BY <3>1, <3>2, TypeParts
    <3> QED
      BY <2>1, <3>3, <3>4, QueuedKept
  <2> QED
    BY <1>1, <2>1, <2>2
<1>4. ASSUME NEW c \in Clients, Leave(c) PROVE Queued'
  <2>1. \A d \in Clients : peer'[d] = "new" => peer[d] = "new"
    BY <1>4, TypeParts DEF Leave
  <2> QED
    BY <1>4, <2>1, QueuedKept DEF Leave
<1> QED
  BY <1>1, <1>2, <1>3, <1>4, Steps, ConnectQueued DEF vars, Poll, Send

-----------------------------------------------------------------------------
(* A report outlives every step that leaves its entry alone and takes nothing *)
(* from what made it ready.                                                  *)
Refills(c) == (inbox[c] # <<>> \/ peer[c] # "open") => (inbox'[c] # <<>> \/ peer'[c] # "open")

LEMMA StillReadyKept ==
    ASSUME TypeOK, Registration, NEW u \in Threads, NEW e \in fired[u], StillReady(u, e),
           Event(loop'[u], e.fd) = Event(loop[u], e.fd),
           e.fd = ListenFd[u] => (backlog[u] # <<>> => backlog'[u] # <<>>),
           \A d \in Clients : Holds(u, e.fd, d) => Refills(d)
    PROVE  StillReady(u, e)'
<1>1. e.fd \in Fds /\ e.fd \in Index /\ Event(loop[u], e.fd).mask # {}
  BY EventType DEF StillReady
<1>2. CASE e.fd = ListenFd[u]
  BY <1>1, <1>2 DEF StillReady
<1>3. CASE e.fd # ListenFd[u]
  <2> DEFINE d == Event(loop[u], e.fd).data
  <2>1. Holds(u, e.fd, d) /\ d \in Clients
    BY <1>1, <1>3, Registrant
  <2>2. Refills(d)
    BY <2>1
  <2>3. "R" \in e.mask => inbox[d] # <<>> \/ peer[d] # "open"
    BY <1>3 DEF StillReady
  <2>4. "R" \in e.mask => inbox'[d] # <<>> \/ peer'[d] # "open"
    BY <2>2, <2>3 DEF Refills
  <2>5. Event(loop'[u], e.fd).mask # {} /\ Event(loop'[u], e.fd).data = d
    BY <1>1
  <2> HIDE DEF d
  <2> QED
    BY <1>1, <1>3, <2>4, <2>5 DEF StillReady
<1> QED
  BY <1>2, <1>3

(* A step that reports nothing new and handles nothing.                      *)
LEMMA ReportedKept ==
    ASSUME TypeOK, Registration, Reported, UNCHANGED <<loop, fired, second>>,
           \A t \in Threads : backlog[t] # <<>> => backlog'[t] # <<>>,
           \A d \in Clients : conn[d].live => Refills(d)
    PROVE  Reported'
<1>1. ASSUME NEW u \in Threads, NEW e \in fired[u] PROVE StillReady(u, e)'
  BY StillReadyKept DEF Reported, Holds
<1> QED
  BY <1>1 DEF Reported

(* epoll_wait reports what is ready, each descriptor once.                   *)
LEMMA PollReports ==
    ASSUME TypeOK, Registration, NEW t \in Threads
    PROVE  /\ \A e \in aeApiPoll(t) : StillReady(t, e)
           /\ \A e, f \in aeApiPoll(t) : e.fd = f.fd => e = f
<1>1. ASSUME NEW e \in aeApiPoll(t) PROVE StillReady(t, e)
  <2>1. PICK fd \in Fds : e = [fd |-> fd, mask |-> Ready(t, fd)] /\ loop[t].epoll[fd] # {}
    BY DEF aeApiPoll
  <2>2. e.fd = fd /\ e.mask = Ready(t, fd)
    BY <2>1
  <2>3. fd \in Index /\ Event(loop[t], fd).mask # {}
    BY <2>1, ConstantFacts DEF Registration, Loops, Agrees
  <2>4. ASSUME "R" \in Ready(t, fd) PROVE Readable(fd)
    BY <2>4 DEF Ready
  <2>5. CASE fd = ListenFd[t]
    <3>1. file[fd] = t /\ t \notin Clients
      BY <2>5, NobodyIsNone DEF Registration, Listening
    <3>2. Readable(fd) => backlog[t] # <<>>
      BY <3>1 DEF Readable
    <3> QED
      BY <2>2, <2>3, <2>4, <2>5, <3>2 DEF StillReady
  <2>6. CASE fd # ListenFd[t]
    <3> DEFINE d == Event(loop[t], fd).data
    <3>1. Holds(t, fd, d) /\ d \in Clients
      BY <2>3, <2>6, Registrant
    <3>2. file[fd] = d
      BY <3>1, OnlyOwner
    <3>3. Readable(fd) => inbox[d] # <<>> \/ peer[d] # "open"
      BY <3>1, <3>2 DEF Readable
    <3> QED
      BY <2>2, <2>3, <2>4, <2>6, <3>3 DEF StillReady
  <2> QED
    BY <2>5, <2>6
<1>2. ASSUME NEW e \in aeApiPoll(t), NEW f \in aeApiPoll(t), e.fd = f.fd PROVE e = f
  BY <1>2 DEF aeApiPoll
<1> QED
  BY <1>1, <1>2

(* Handling one event leaves the other reports alone, those of other threads *)
(* too.                                                                      *)
LEMMA HandledReported ==
    ASSUME TypeOK, Registration, Queued, Reported,
           NEW t \in Threads, NEW e \in fired[t], Handled(t, e)
    PROVE  Reported'
<1>1. /\ e.fd \in Fds /\ e.fd \in Index /\ fired \in [Threads -> SUBSET [fd : Fds, mask : Mask]]
      /\ second \in [Threads -> [fd : Fds \cup {-1}, rfired : BOOLEAN]]
      /\ UNCHANGED peer
  BY TypeParts DEF Handled
<1>2. /\ fired'[t] = fired[t] \ {e} /\ \A u \in Threads \ {t} : fired'[u] = fired[u]
  BY <1>1 DEF Handled
<1>3. /\ second'[t] = NoEvent \/ second'[t].fd = e.fd
      /\ \A u \in Threads \ {t} : second'[u] = second[u]
  BY <1>1 DEF Handled
<1>4. \A u \in Threads : \A f \in fired'[u] : f \in fired[u] /\ (u = t => f.fd # e.fd)
  BY <1>2 DEF Reported
<1>5. ASSUME NEW u \in Threads, NEW f \in fired'[u] PROVE StillReady(u, f)'
  <2>1. /\ f \in fired[u] /\ (u = t => f.fd # e.fd) /\ StillReady(u, f)
        /\ f.fd \in Fds /\ f.fd \in Index /\ Event(loop[u], f.fd).mask # {}
    BY <1>4, <1>5, EventType DEF Reported, StillReady
  <2>2. CASE UNCHANGED <<file, loop, conn, backlog, inbox, taken>>
    BY <1>1, <2>1, <2>2, StillReadyKept DEF Refills
  <2>3. CASE AcceptCall(t, e)
    <3>1. /\ e.fd = ListenFd[t] /\ backlog[t] # <<>> /\ socket_accept(t, e.fd)
          /\ UNCHANGED <<inbox, taken>>
      BY <2>3 DEF AcceptCall
    <3>2. \/ UNCHANGED <<file, loop, conn, backlog>>
          \/ \E fd \in Fds : /\ Accepts(t, fd, Head(backlog[t]))
                             /\ backlog' = [backlog EXCEPT ![t] = Tail(@)]
      BY <3>1, AcceptOutcome
    <3>3. u = t => f.fd # ListenFd[u]
      BY <2>1, <3>1
    <3>4. f.fd = ListenFd[u] => backlog'[u] = backlog[u]
      BY <3>2, <3>3, TypeParts
    <3>5. Event(loop'[u], f.fd) = Event(loop[u], f.fd)
      <4>1. CASE UNCHANGED <<file, loop, conn, backlog>>
        BY <4>1
      <4>2. ASSUME NEW fd \in Fds, Accepts(t, fd, Head(backlog[t]))
            PROVE  Event(loop'[u], f.fd) = Event(loop[u], f.fd)
        <5>1. file[fd] = None /\ Frame(t, fd)
          BY <4>2 DEF Accepts
        <5>2. f.fd # fd
          BY <2>1, <5>1, FreeIsUnknown
        <5> QED
          BY <2>1, <5>1, <5>2 DEF Frame
      <4> QED
        BY <3>2, <4>1, <4>2
    <3>6. \A d \in Clients : Refills(d)
      BY <1>1, <3>1 DEF Refills
    <3> QED
      BY <2>1, <3>4, <3>5, <3>6, StillReadyKept
  <2>4. CASE ReadCall(t, e)
    <3> DEFINE c == Event(loop[t], e.fd).data
    <3>1. /\ Holds(t, e.fd, c) /\ c \in Clients
          /\ Keeps \/ Switches(t, e.fd, c, "W") \/ Drops(t, e.fd, c)
      BY <1>1, <2>4, ReadOutcome DEF ReadCall
    <3>2. Took(c) \/ UNCHANGED <<inbox, taken>>
      BY <2>4, <3>1, ReadEffect DEF ReadCall
    <3>3. UNCHANGED backlog
      BY <2>4 DEF ReadCall
    <3> HIDE DEF c
    <3>4. Event(loop'[u], f.fd) = Event(loop[u], f.fd)
      BY <2>1, <3>1 DEF Keeps, Switches, Drops, Frame
    <3>5. ASSUME NEW d \in Clients, Holds(u, f.fd, d) PROVE Refills(d)
      <4>1. d # c
        BY <2>1, <3>1, <3>5 DEF Holds
      <4>2. inbox'[d] = inbox[d]
        BY <3>1, <3>2, <4>1, TypeParts DEF Took
      <4> QED
        BY <1>1, <4>2 DEF Refills
    <3> QED
      BY <2>1, <3>3, <3>4, <3>5, StillReadyKept
  <2> QED
    BY <2>2, <2>3, <2>4 DEF Handled
<1> QED
  BY <1>1, <1>3, <1>4, <1>5 DEF Reported

(* The writable half leaves every report alone, its thread's too.            *)
LEMMA WriteReported ==
    ASSUME TypeOK, Registration, Reported, NEW t \in Threads, WritableHalf(t)
    PROVE  Reported'
<1> DEFINE fd == second[t].fd
           c == Event(loop[t], fd).data
<1>1. /\ fd \in Fds /\ fd \in Index
      /\ \A e \in fired[t] : e.fd # fd
      /\ second' = [second EXCEPT ![t] = NoEvent]
      /\ UNCHANGED <<fired, backlog, inbox, sent>>
      /\ UNCHANGED <<file, loop, conn, peer, taken, alive>> \/ WriteCall(t, fd)
  BY HalfWritable
<1>2. second'[t] = NoEvent /\ \A u \in Threads \ {t} : second'[u] = second[u]
  BY <1>1, TypeParts
<1>3. \A d \in Clients : Refills(d)
  <2>1. CASE WriteCall(t, fd)
    <3>1. c \in Clients
      BY <1>1, <2>1, WriteOutcome DEF WriteCall
    <3>2. UNCHANGED peer \/ peer' = [peer EXCEPT ![c] = "gone"]
      BY <2>1, WriteEffect DEF WriteCall
    <3> HIDE DEF c
    <3> QED
      BY <1>1, <3>1, <3>2, TypeParts DEF Refills
  <2> QED
    BY <1>1, <2>1 DEF Refills
<1>4. Keeps \/ UNCHANGED loop \/ \E d : Switches(t, fd, d, "R") \/ Drops(t, fd, d)
  BY <1>1, WriteOutcome DEF WriteCall
<1> HIDE DEF fd
<1>5. ASSUME NEW u \in Threads, NEW e \in fired[u] PROVE StillReady(u, e)'
  <2>1. StillReady(u, e) /\ e.fd \in Index /\ (u = t => e.fd # fd)
    BY <1>1 DEF Reported, StillReady
  <2>2. Event(loop'[u], e.fd) = Event(loop[u], e.fd)
    BY <1>4, <2>1 DEF Keeps, Switches, Drops, Frame
  <2> QED
    BY <1>1, <1>3, <2>1, <2>2, StillReadyKept
<1> QED
  BY <1>1, <1>2, <1>5 DEF Reported

(* What was reported stays so until it is handled.                           *)
LEMMA ReportedStep ==
    ASSUME TypeOK, Registration, Queued, Reported, [Next]_vars
    PROVE  Reported'
<1>1. CASE UNCHANGED vars
  BY <1>1, ReportedKept DEF vars, Refills
<1>2. ASSUME NEW t \in Threads, Poll(t) PROVE Reported'
  <2>1. /\ second[t] = NoEvent /\ fired' = [fired EXCEPT ![t] = aeApiPoll(t)]
        /\ UNCHANGED <<loop, second, backlog, peer, inbox>>
    BY <1>2 DEF Poll
  <2>2. fired'[t] = aeApiPoll(t) /\ \A u \in Threads \ {t} : fired'[u] = fired[u]
    BY <2>1, TypeParts
  <2>3. ASSUME NEW u \in Threads
        PROVE  /\ \A e \in fired'[u] : StillReady(u, e)
               /\ \A e, f \in fired'[u] : e.fd = f.fd => e = f
    BY <2>2, PollReports DEF Reported
  <2>4. ASSUME NEW u \in Threads, NEW e, StillReady(u, e) PROVE StillReady(u, e)'
    BY <2>1, <2>4 DEF StillReady
  <2>5. ASSUME NEW u \in Threads, second'[u] # NoEvent
        PROVE  second'[u].fd \in Index /\ \A e \in fired'[u] : e.fd # second'[u].fd
    BY <2>1, <2>2, <2>5 DEF Reported
  <2> QED
    BY <2>3, <2>4, <2>5 DEF Reported
<1>3. ASSUME NEW c \in Clients, Connect(c) PROVE Reported'
  <2>1. /\ peer[c] = "new" /\ peer' = [peer EXCEPT ![c] = "open"]
        /\ backlog' = [backlog EXCEPT ![Listener[c]] = Append(@, c)]
        /\ UNCHANGED <<loop, fired, second, inbox>>
    BY <1>3 DEF Connect
  <2>2. \A d \in Clients : conn[d].live => Refills(d)
    BY <2>1, TypeParts DEF Queued, Refills
  <2>3. ASSUME NEW t \in Threads, backlog[t] # <<>> PROVE backlog'[t] # <<>>
    <3>1. backlog[t] \in Seq(Clients)
      BY TypeParts
    <3>2. Append(backlog[t], c) # <<>>
      BY <3>1, AppendProperties
    <3> QED
      BY <2>1, <2>3, <3>2, TypeParts
  <2> QED
    BY <2>1, <2>2, <2>3, ReportedKept
<1>4. ASSUME NEW c \in Clients, Send(c) PROVE Reported'
  <2>1. PICK u \in {"part", "end"} : inbox' = [inbox EXCEPT ![c] = Append(@, u)]
    BY <1>4 DEF Send
  <2>2. Append(inbox[c], u) # <<>>
    <3>1. inbox[c] \in Seq({"part", "end"})
      BY TypeParts
    <3> QED
      BY <3>1, AppendProperties
  <2>3. \A d \in Clients : Refills(d)
    BY <1>4, <2>1, <2>2, TypeParts DEF Refills, Send
  <2> QED
    BY <1>4, <2>3, ReportedKept DEF Send
<1>5. ASSUME NEW c \in Clients, Leave(c) PROVE Reported'
  <2>1. \A d \in Clients : Refills(d)
    BY <1>5, TypeParts DEF Refills, Leave
  <2> QED
    BY <1>5, <2>1, ReportedKept DEF Leave
<1> QED
  BY <1>1, <1>2, <1>3, <1>4, <1>5, Steps, HandledReported, WriteReported

-----------------------------------------------------------------------------
(* A connection that a response is due to has an empty buffer and is nobody  *)
(* whom its thread reads from.                                               *)
LEMMA DueFacts ==
    ASSUME TypeOK, Registration, NEW u \in Threads, NEW j \in Index,
           "W" \in Event(loop[u], j).mask
    PROVE  Holds(u, j, Event(loop[u], j).data) /\ Event(loop[u], j).data \in Clients
<1>1. j # ListenFd[u]
  BY DEF Registration, Listening
<1> QED
  BY <1>1 DEF Registration, Owned, Holds

(* Fields of connections that a read or a close leaves alone.                *)
LEMMA FreedCur ==
    ASSUME TypeOK, NEW c \in Clients, Freed(c)
    PROVE  ~conn'[c].live /\ \A d \in Clients : conn'[d].cur = conn[d].cur
<1>1. conn \in [Clients -> ConnRec] /\ conn[c] \in ConnRec
  BY TypeParts
<1>2. conn'[c] = [conn[c] EXCEPT !.live = FALSE] /\ \A d \in Clients \ {c} : conn'[d] = conn[d]
  BY <1>1 DEF Freed
<1>3. /\ [conn[c] EXCEPT !.live = FALSE].live = FALSE
      /\ [conn[c] EXCEPT !.live = FALSE].cur = conn[c].cur
  BY <1>1 DEF ConnRec
<1> QED
  BY <1>2, <1>3

(* A step that starts no response and moves no cur.                          *)
LEMMA CountedKept ==
    ASSUME TypeOK, Registration, Counted,
           \A c \in Clients : conn'[c].cur = conn[c].cur,
           \A c \in Clients : taken'[c] >= conn[c].cur,
           \A u \in Threads, j \in Index :
               "W" \in Event(loop'[u], j).mask => Event(loop'[u], j) = Event(loop[u], j)
    PROVE  Counted'
<1>1. ASSUME NEW u \in Threads, NEW j \in Index, "W" \in Event(loop'[u], j).mask
      PROVE  conn'[Event(loop'[u], j).data].cur = 0
  <2>1. Event(loop'[u], j) = Event(loop[u], j)
    BY <1>1
  <2>2. Event(loop[u], j).data \in Clients /\ conn[Event(loop[u], j).data].cur = 0
    BY <1>1, <2>1, DueFacts DEF Counted
  <2> QED
    BY <2>1, <2>2
<1> QED
  BY <1>1 DEF Counted

(* A read counts in taken what it adds to cur, and 0 while a response is due. *)
LEMMA TookCounted ==
    ASSUME TypeOK, Registration, Counted, NEW t \in Threads, NEW fd \in Fds, fd \in Index,
           NEW c \in Clients, Holds(t, fd, c), Event(loop[t], fd).mask = {"R"}, Took(c),
           Keeps \/ Switches(t, fd, c, "W")
    PROVE  Counted'
<1>1. PICK n \in Nat, cur \in 0 .. BufSize :
        /\ cur <= conn[c].cur + n
        /\ taken' = [taken EXCEPT ![c] = @ + n]
        /\ conn' = [conn EXCEPT ![c].cur = cur]
        /\ UNCHANGED loop \/ cur = 0
  BY DEF Took
<1>2. /\ conn \in [Clients -> ConnRec] /\ taken \in [Clients -> Nat]
      /\ conn[c] \in ConnRec
  BY TypeParts
<1>3. /\ conn'[c].cur = cur /\ taken'[c] = taken[c] + n
      /\ \A d \in Clients \ {c} : conn'[d] = conn[d] /\ taken'[d] = taken[d]
  <2>1. conn'[c] = [conn[c] EXCEPT !.cur = cur]
    BY <1>1, <1>2
  <2>2. [conn[c] EXCEPT !.cur = cur].cur = cur
    BY <1>2 DEF ConnRec
  <2> QED
    BY <1>1, <1>2, <2>1, <2>2
<1>4. \A d \in Clients : taken'[d] >= conn'[d].cur
  <2>1. conn[c].cur \in Nat /\ taken[c] \in Nat /\ taken[c] >= conn[c].cur /\ cur \in Nat
    BY <1>2, ConstantFacts DEF ConnRec, Counted
  <2>2. taken'[c] >= conn'[c].cur
    BY <1>1, <1>3, <2>1
  <2> QED
    BY <1>3, <2>2 DEF Counted
<1>5. ASSUME NEW u \in Threads, NEW j \in Index, "W" \in Event(loop'[u], j).mask
      PROVE  conn'[Event(loop'[u], j).data].cur = 0
  <2>1. CASE u = t /\ j = fd
    <3>1. loop' # loop
      BY <1>5, <2>1
    <3>2. cur = 0 /\ Event(loop'[t], fd).data = c
      BY <1>1, <3>1 DEF Keeps, Switches, Watched
    <3> QED
      BY <1>3, <2>1, <3>2
  <2>2. CASE u # t \/ j # fd
    <3> DEFINE d == Event(loop[u], j).data
    <3>1. Event(loop'[u], j) = Event(loop[u], j)
      BY <2>2 DEF Keeps, Switches, Frame
    <3>2. Holds(u, j, d) /\ d \in Clients /\ conn[d].cur = 0
      BY <1>5, <3>1, DueFacts DEF Counted
    <3>3. d # c
      BY <2>2, <3>2 DEF Holds
    <3> QED
      BY <1>3, <3>1, <3>2, <3>3
  <2> QED
    BY <2>1, <2>2
<1> QED
  BY <1>4, <1>5 DEF Counted

(* The counts survive every step.                                            *)
LEMMA CountedStep ==
    ASSUME TypeOK, Registration, Queued, Reported, Counted, [Next]_vars
    PROVE  Counted'
<1>1. ASSUME UNCHANGED <<loop, conn, taken>> PROVE Counted'
  BY <1>1 DEF Counted
<1>2. ASSUME NEW t \in Threads, NEW e \in fired[t], Handled(t, e) PROVE Counted'
  <2>1. CASE UNCHANGED <<file, loop, conn, backlog, inbox, taken>>
    BY <1>1, <2>1
  <2>2. CASE AcceptCall(t, e)
    <3> DEFINE c == Head(backlog[t])
    <3>1. backlog[t] # <<>> /\ UNCHANGED taken
      BY <2>2 DEF AcceptCall
    <3>2. \/ UNCHANGED <<file, loop, conn, backlog>>
          \/ \E fd \in Fds :
                Accepts(t, fd, c) /\ conn' = [conn EXCEPT ![c] = NewConn(t, fd)]
      BY <2>2, AcceptOutcome DEF AcceptCall
    <3>3. c \in Clients
      BY <3>1, FirstWaits
    <3> HIDE DEF c
    <3>4. ASSUME NEW fd \in Fds, Accepts(t, fd, c), conn' = [conn EXCEPT ![c] = NewConn(t, fd)]
          PROVE  Counted'
      <4>1. conn'[c].cur = 0 /\ \A d \in Clients \ {c} : conn'[d] = conn[d]
        <5>1. conn'[c] = NewConn(t, fd)
          BY <3>3, <3>4, TypeParts
        <5> QED
          BY <3>4, <5>1, TypeParts DEF NewConn
      <4>2. ASSUME NEW d \in Clients PROVE taken'[d] >= conn'[d].cur
        <5>1. taken[d] \in Nat
          BY TypeParts
        <5> QED
          BY <3>1, <4>1, <5>1 DEF Counted
      <4>3. ASSUME NEW u \in Threads, NEW j \in Index, "W" \in Event(loop'[u], j).mask
            PROVE  conn'[Event(loop'[u], j).data].cur = 0
        <5>1. u # t \/ j # fd
          BY <3>4, <4>3 DEF Accepts, Watched
        <5>2. Event(loop'[u], j) = Event(loop[u], j)
          BY <3>4, <5>1 DEF Accepts, Frame
        <5>3. Event(loop[u], j).data \in Clients /\ conn[Event(loop[u], j).data].cur = 0
          BY <4>3, <5>2, DueFacts DEF Counted
        <5> QED
          BY <4>1, <5>2, <5>3
      <4> QED
        BY <4>2, <4>3 DEF Counted
    <3> QED
      BY <1>1, <3>1, <3>2, <3>4
  <2>3. CASE ReadCall(t, e)
    <3> DEFINE c == Event(loop[t], e.fd).data
    <3>1. /\ e.fd \in Fds /\ e.fd \in Index
      BY <1>2 DEF Handled
    <3>2. /\ Holds(t, e.fd, c) /\ c \in Clients /\ Event(loop[t], e.fd).mask = {"R"}
          /\ Keeps \/ Switches(t, e.fd, c, "W") \/ Drops(t, e.fd, c)
      BY <2>3, <3>1, ReadOutcome DEF ReadCall
    <3>3. Took(c) \/ (Freed(c) /\ UNCHANGED <<inbox, taken>>)
      BY <2>3, <3>2, ReadEffect DEF ReadCall
    <3> HIDE DEF c
    <3>4. CASE Took(c)
      <4>1. conn'[c].live = conn[c].live
        <5>1. PICK cur : conn' = [conn EXCEPT ![c].cur = cur]
          BY <3>4 DEF Took
        <5>2. conn[c] \in ConnRec /\ conn'[c] = [conn[c] EXCEPT !.cur = cur]
          BY <3>2, <5>1, TypeParts
        <5>3. [conn[c] EXCEPT !.cur = cur].live = conn[c].live
          BY <5>2 DEF ConnRec
        <5> QED
          BY <5>2, <5>3
      <4>2. Keeps \/ Switches(t, e.fd, c, "W")
        BY <3>2, <4>1 DEF Drops, Holds
      <4> QED
        BY <3>1, <3>2, <3>4, <4>2, TookCounted
    <3>5. CASE Freed(c) /\ UNCHANGED <<inbox, taken>>
      <4>1. ~conn'[c].live /\ \A d \in Clients : conn'[d].cur = conn[d].cur
        BY <3>2, <3>5, FreedCur
      <4>2. Drops(t, e.fd, c)
        BY <3>2, <4>1 DEF Keeps, Switches, SameOwner, Holds
      <4>3. \A u \in Threads, j \in Index :
               "W" \in Event(loop'[u], j).mask => Event(loop'[u], j) = Event(loop[u], j)
        BY <4>2 DEF Drops, Frame
      <4>4. \A d \in Clients : taken'[d] >= conn[d].cur
        BY <3>5 DEF Counted
      <4> QED
        BY <4>1, <4>3, <4>4, CountedKept
    <3> QED
      BY <3>3, <3>4, <3>5
  <2> QED
    BY <1>2, <2>1, <2>2, <2>3 DEF Handled
<1>3. ASSUME NEW t \in Threads, WritableHalf(t) PROVE Counted'
  <2> DEFINE fd == second[t].fd
             c == Event(loop[t], fd).data
  <2>1. /\ fd \in Fds /\ fd \in Index
        /\ UNCHANGED <<file, loop, conn, peer, taken, alive>> \/ WriteCall(t, fd)
    BY <1>3, HalfWritable
  <2>2. CASE WriteCall(t, fd)
    <3>1. /\ c \in Clients /\ Event(loop[t], fd).mask = {"W"}
          /\ Keeps \/ Switches(t, fd, c, "R") \/ Drops(t, fd, c)
      BY <2>1, <2>2, WriteOutcome DEF WriteCall
    <3>2. conn[c].cur = 0
      BY <2>1, <3>1 DEF Counted
    <3>3. \/ taken' = [taken EXCEPT ![c] = 0] /\ UNCHANGED conn
          \/ Freed(c) /\ UNCHANGED taken
          \/ UNCHANGED <<conn, taken>>
      BY <2>2, WriteEffect DEF WriteCall
    <3> HIDE DEF c, fd
    <3>4. \A u \in Threads, j \in Index :
             "W" \in Event(loop'[u], j).mask => Event(loop'[u], j) = Event(loop[u], j)
      BY <3>1 DEF Keeps, Switches, Drops, Frame, Watched
    <3>5. \A d \in Clients : conn'[d].cur = conn[d].cur
      BY <3>1, <3>3, FreedCur
    <3>6. ASSUME NEW d \in Clients PROVE taken'[d] >= conn[d].cur
      <4>1. taken'[d] = taken[d] \/ (d = c /\ taken'[d] = 0)
        BY <3>1, <3>3, TypeParts
      <4> QED
        BY <3>2, <4>1 DEF Counted
    <3> QED
      BY <3>4, <3>5, <3>6, CountedKept
  <2> QED
    BY <1>1, <2>1, <2>2
<1> QED
  BY <1>1, <1>2, <1>3, Steps DEF vars, Poll, Connect, Send, Leave

-----------------------------------------------------------------------------
(* aeCreateEventLoop and thread_main: a loop that waits for its listener.    *)
LEMMA FirstLoop ==
    ASSUME NEW t \in Threads, NEW N, N = thread_main(t)
    PROVE  /\ N \in LoopRec /\ Agrees(N)
           /\ Event(N, ListenFd[t]).mask = {"R"} /\ Event(N, ListenFd[t]).rproc = "socket_accept"
           /\ \A j \in Index : j # ListenFd[t] => Event(N, j).mask = {}
<1> DEFINE L == aeCreateEventLoop
           lf == ListenFd[t]
<1>1. lf \in Fds /\ lf \in Index
  BY ConstantFacts
<1>2. L \in LoopRec
  <2>1. EmptyEvent \in EventRec /\ {} \in Mask
    BY DEF EmptyEvent, EventRec, Mask
  <2>2. -1 \in -1 .. SetSize - 1
    BY ConstantFacts
  <2> QED
    BY <2>1, <2>2 DEF LoopRec, aeCreateEventLoop, Index
<1>3. \A j \in Index : Event(L, j).mask = {}
  BY DEF aeCreateEventLoop, Event, EmptyEvent, Index
<1>4. Agrees(L)
  <2>1. Registered(L) = {}
    BY <1>3 DEF Registered
  <2>2. L.maxfd = -1 /\ \A j \in Fds : L.epoll[j] = {}
    BY DEF aeCreateEventLoop
  <2>3. \A j \in Fds : j < SetSize => j \in Index
    BY ConstantFacts
  <2> HIDE DEF L
  <2> QED
    BY <1>3, <2>1, <2>2, <2>3 DEF Agrees
<1>5. Created(N, L, lf, "R", "socket_accept", t)
  <2>1. N = aeCreateFileEvent(L, lf, {"R"}, "socket_accept", t)
    BY DEF thread_main
  <2>2. /\ t \in Threads \cup Clients \cup {None} /\ "R" \in {"R", "W"}
        /\ "R" = "R" => "socket_accept" \in {"socket_accept", "socket_readable"}
        /\ "R" = "W" => "socket_accept" = "socket_writeable"
    OBVIOUS
  <2> HIDE DEF L, lf
  <2> QED
    BY <1>1, <1>2, <1>4, <2>1, <2>2, CreateEvent, Zenon
<1> HIDE DEF L
<1> QED
  BY <1>1, <1>3, <1>5 DEF Created

(* The process after the threads have reached aeMain.                        *)
LEMMA Initial ==
    ASSUME Init
    PROVE  IInv
<1>1. \A t \in Threads : loop[t] = thread_main(t)
  BY DEF Init
<1>2. ASSUME NEW t \in Threads
      PROVE  /\ loop[t] \in LoopRec /\ Agrees(loop[t])
             /\ Event(loop[t], ListenFd[t]).mask = {"R"}
             /\ Event(loop[t], ListenFd[t]).rproc = "socket_accept"
             /\ \A j \in Index : j # ListenFd[t] => Event(loop[t], j).mask = {}
  BY <1>1, FirstLoop
<1>3. \A c \in Clients : ~conn[c].live /\ conn[c].cur = 0 /\ taken[c] = 0
  BY DEF Init, NoConn
<1>4. ASSUME NEW t \in Threads PROVE file[ListenFd[t]] = t
  <2>1. ListenFd[t] \in Fds
    BY ConstantFacts
  <2>2. \A u \in Threads : ListenFd[u] = ListenFd[t] => u = t
    BY ListenersAreDistinct
  <2> QED
    BY <2>1, <2>2 DEF Init
<1>5. TypeOK
  <2>1. file \in [Fds -> Threads \cup Clients \cup {None}]
    BY DEF Init
  <2>2. loop \in [Threads -> LoopRec]
    BY <1>2 DEF Init
  <2>3. second \in [Threads -> [fd : Fds \cup {-1}, rfired : BOOLEAN]]
    BY DEF Init, NoEvent
  <2>4. conn \in [Clients -> ConnRec]
    <3>1. NoConn \in ConnRec
      BY ConstantFacts DEF NoConn, ConnRec
    <3> QED
      BY <3>1 DEF Init
  <2>5. backlog \in [Threads -> Seq(Clients)] /\ inbox \in [Clients -> Seq({"part", "end"})]
    BY EmptySeq DEF Init
  <2>6. fired \in [Threads -> SUBSET [fd : Fds, mask : Mask]]
    BY DEF Init
  <2>7. /\ peer \in [Clients -> {"new", "open", "fin", "reset", "gone"}]
        /\ sent \in [Clients -> [n : Nat, last : {"none", "part", "end"}]]
        /\ taken \in [Clients -> Nat] /\ alive \in BOOLEAN
    BY DEF Init
  <2> QED
    BY <2>1, <2>2, <2>3, <2>4, <2>5, <2>6, <2>7, TypeParts
<1>6. Registration
  BY <1>2, <1>3, <1>4 DEF Registration, Loops, Listening, Owned, Serving
<1>7. Queued
  <2>1. \A t \in Threads : backlog[t] = <<>> /\ Len(backlog[t]) = 0
    BY DEF Init
  <2> QED
    BY <1>3, <2>1 DEF Queued
<1>8. Reported
  BY DEF Init, Reported
<1>9. Counted
  <2>1. ASSUME NEW t \in Threads, NEW j \in Index PROVE "W" \notin Event(loop[t], j).mask
    BY <1>2
  <2> QED
    BY <1>3, <2>1 DEF Counted
<1> QED
  BY <1>5, <1>6, <1>7, <1>8, <1>9 DEF IInv

(* The strengthening is inductive.                                           *)
LEMMA Inductive ==
    ASSUME IInv, [Next]_vars
    PROVE  IInv'
  BY TypeStep, RegistrationStep, QueuedStep, ReportedStep, CountedStep DEF IInv

(* The strengthening holds in every state the server reaches through         *)
(* aeProcessEvents and its three handlers (ae.c:349-457).                    *)
THEOREM Invariance == Spec => []IInv
<1>1. Init => IInv
  BY Initial
<1>2. IInv /\ [Next]_vars => IInv'
  BY Inductive
<1> QED
  BY <1>1, <1>2, PTL DEF Spec

(* No handler writes beside the buffer, the event table or the descriptors of *)
(* the process: cur stays within connection_t.buf, maxfd within the table    *)
(* and every index a handler uses is one of a descriptor                     *)
(* (chuqq_httpd_nodelay.c:41, ae.c:135-171).                                 *)
THEOREM TypesHold == Spec => []TypeOK
<1>1. IInv => TypeOK
  BY DEF IInv
<1> QED
  BY <1>1, Invariance, PTL

(* However the threads interleave accepting, reading, answering and closing  *)
(* on the shared descriptors, the pointer each loop has registered for a     *)
(* descriptor is the connection that owns it, not one that socket_readable or *)
(* socket_writeable has freed, and maxfd, the table and the epoll set agree  *)
(* (ae.c:135-171, chuqq_httpd_nodelay.c:61-63, 84-86).                       *)
THEOREM RegistrationStaysExact == Spec => []RegistrationIsExact
<1>1. IInv => RegistrationIsExact
  <2> SUFFICES ASSUME IInv PROVE RegistrationIsExact
    OBVIOUS
  <2> USE DEF IInv
  <2>1. ASSUME NEW t \in Threads PROVE LoopAgrees(t)
    <3>1. loop[t] \in LoopRec /\ Agrees(loop[t])
      BY LoopFacts DEF Registration
    <3>2. loop[t].maxfd = Max({-1} \cup Registered(loop[t]))
      BY <3>1, MaxRegistered DEF Agrees
    <3>3. Registered(loop[t]) = {fd \in 0 .. SetSize - 1 : Event(loop[t], fd).mask # {}}
      BY DEF Registered, Index
    <3>4. ASSUME NEW fd \in Registered(loop[t]) \ {ListenFd[t]}
          PROVE  Holds(t, fd, Event(loop[t], fd).data)
      BY DEF Registration, Owned, Registered
    <3> QED
      BY <3>1, <3>2, <3>3, <3>4 DEF LoopAgrees, Agrees, Holds
  <2>2. ASSUME NEW c \in Clients, conn[c].live
        PROVE  file[conn[c].fd] = c /\ (conn[c].fd < SetSize => IsServed(c))
    BY <2>2 DEF Registration, Serving
  <2> QED
    BY <2>1, <2>2 DEF RegistrationIsExact
<1> QED
  BY <1>1, Invariance, PTL

(* Why a step may free a connection: its thread writes the response, the     *)
(* client has ended the connection, or its buffer is full; an empty read is  *)
(* never the answer to a report that another step has made stale             *)
(* (chuqq_httpd_nodelay.c:41, 58-63, 80-86).                                 *)
LEMMA DropExplained ==
    ASSUME IInv, [Next]_vars, NEW c \in Clients, conn[c].live, ~conn'[c].live
    PROVE  \/ peer[c] # "open"
           \/ "W" \in Event(loop[conn[c].thread], conn[c].fd).mask
           \/ taken[c] >= BufSize
<1> USE DEF IInv
<1>1. conn' # conn
  OBVIOUS
<1>2. ASSUME NEW t \in Threads, NEW e \in fired[t], Handled(t, e)
      PROVE  peer[c] # "open" \/ taken[c] >= BufSize
  <2>1. CASE AcceptCall(t, e)
    <3>1. \/ UNCHANGED <<file, loop, conn, backlog>>
          \/ \E fd \in Fds : Accepts(t, fd, Head(backlog[t]))
      BY <2>1, AcceptOutcome DEF AcceptCall
    <3> QED
      BY <1>1, <3>1 DEF Accepts, SameOwner
  <2>2. CASE ReadCall(t, e)
    <3> DEFINE d == Event(loop[t], e.fd).data
    <3>1. /\ e.fd \in Fds /\ e.fd \in Index /\ StillReady(t, e)
      BY <1>2 DEF Handled
    <3>2. /\ Holds(t, e.fd, d) /\ d \in Clients
          /\ Keeps \/ Switches(t, e.fd, d, "W") \/ Drops(t, e.fd, d)
      BY <2>2, <3>1, ReadOutcome DEF ReadCall
    <3>3. c = d
      BY <3>2 DEF Keeps, Switches, Drops, SameOwner
    <3>4. Took(c) \/ inbox[c] = <<>> \/ conn[c].cur = BufSize
      BY <2>2, <3>2, <3>3, ReadEffect DEF ReadCall
    <3>5. inbox[c] # <<>> \/ peer[c] # "open"
      BY <2>2, <3>1, <3>3 DEF ReadCall, StillReady
    <3>6. ~Took(c)
      <4> SUFFICES ASSUME Took(c) PROVE FALSE
        OBVIOUS
      <4>1. PICK cur : conn' = [conn EXCEPT ![c].cur = cur]
        BY DEF Took
      <4>2. conn[c] \in ConnRec /\ conn'[c] = [conn[c] EXCEPT !.cur = cur]
        BY <4>1, TypeParts
      <4>3. [conn[c] EXCEPT !.cur = cur].live = conn[c].live
        BY <4>2 DEF ConnRec
      <4> QED
        BY <4>2, <4>3
    <3>7. conn[c].cur = BufSize => taken[c] >= BufSize
      BY DEF Counted
    <3> QED
      BY <3>4, <3>5, <3>6, <3>7
  <2> QED
    BY <1>1, <1>2, <2>1, <2>2 DEF Handled
<1>3. ASSUME NEW t \in Threads, WritableHalf(t)
      PROVE  "W" \in Event(loop[conn[c].thread], conn[c].fd).mask
  <2> DEFINE fd == second[t].fd
             d == Event(loop[t], fd).data
  <2>1. /\ fd \in Fds /\ fd \in Index
        /\ UNCHANGED <<file, loop, conn, peer, taken, alive>> \/ WriteCall(t, fd)
    BY <1>3, HalfWritable
  <2>2. WriteCall(t, fd)
    BY <1>1, <2>1
  <2>3. /\ Holds(t, fd, d) /\ Event(loop[t], fd).mask = {"W"}
        /\ Keeps \/ Switches(t, fd, d, "R") \/ Drops(t, fd, d)
    BY <2>1, <2>2, WriteOutcome DEF WriteCall
  <2>4. c = d
    BY <2>3 DEF Keeps, Switches, Drops, SameOwner
  <2> QED
    BY <2>3, <2>4 DEF Holds
<1> QED
  BY <1>1, <1>2, <1>3, Steps DEF vars, Poll, Connect, Send, Leave

(* A client that stays is dropped only while its response is written or for  *)
(* a request that fills the buffer, whatever the other threads and clients do *)
(* between epoll_wait and the handler (chuqq_httpd_nodelay.c:41, 58-63).     *)
THEOREM DropsStayExplained == Spec => DropsAreExplained
<1>1. IInv /\ [Next]_vars =>
        [\A c \in Clients : conn[c].live /\ ~conn'[c].live =>
            \/ peer[c] # "open"
            \/ "W" \in Event(loop[conn[c].thread], conn[c].fd).mask
            \/ taken[c] >= BufSize]_vars
  BY DropExplained
<1> QED
  BY <1>1, Invariance, PTL DEF Spec, DropsAreExplained
-----------------------------------------------------------------------------
(* What a connection has read and what it waits for.                         *)

(* A client that was not accepted yet has had nothing taken from it.         *)
Fresh ==
    /\ \A c \in Clients : peer[c] = "new" => taken[c] = 0
    /\ \A t \in Threads : \A i \in 1 .. Len(backlog[t]) : taken[backlog[t][i]] = 0

(* The last unit that was not read is the last one that was sent.            *)
Ends == \A c \in Clients : inbox[c] # <<>> => inbox[c][Len(inbox[c])] = sent[c].last

Kept(c) ==
    conn[c].live /\ conn[c].fd < SetSize =>
        LET waitsFor == Event(loop[conn[c].thread], conn[c].fd).mask
        IN  \/ /\ waitsFor = {"R"}
               /\ taken[c] = conn[c].cur /\ conn[c].cur <= BufSize
               /\ inbox[c] = <<>> /\ taken[c] > 0 => sent[c].last # "end"
            \/ waitsFor = {"W"} /\ taken[c] > 0 /\ conn[c].cur = 0

KInv == Fresh /\ Ends /\ \A c \in Clients : Kept(c)

(* A step that changes nothing of connection d, or only adds to its input.   *)
SameData(d) ==
    /\ conn'[d] = conn[d] /\ taken'[d] = taken[d]
    /\ \/ inbox'[d] = inbox[d] /\ sent'[d] = sent[d]
       \/ inbox'[d] # <<>>

LEMMA KeptSame ==
    ASSUME NEW d \in Clients, Kept(d), SameData(d),
           conn[d].live /\ conn[d].fd < SetSize =>
               Event(loop'[conn[d].thread], conn[d].fd) = Event(loop[conn[d].thread], conn[d].fd)
    PROVE  Kept(d)'
  BY DEF Kept, SameData

(* A handler that changes the entry of fd leaves the entries of the other    *)
(* connections alone.                                                        *)
LEMMA OtherEntries ==
    ASSUME TypeOK, Registration, NEW t \in Threads, NEW fd \in Fds, Frame(t, fd),
           NEW c \in Clients, file[fd] = c \/ file[fd] = None,
           NEW d \in Clients, d # c, conn[d].live, conn[d].fd < SetSize
    PROVE  Event(loop'[conn[d].thread], conn[d].fd) = Event(loop[conn[d].thread], conn[d].fd)
<1>1. conn[d].thread \in Threads /\ conn[d].fd \in Fds /\ file[conn[d].fd] = d
  BY DEF Registration, Serving
<1>2. conn[d].fd \in Index
  BY <1>1, ConstantFacts
<1>3. conn[d].fd # fd
  BY <1>1, NobodyIsNone
<1> QED
  BY <1>1, <1>2, <1>3 DEF Frame

(* What one read of connection c does when it finds n units.                 *)
ReadSome(t, fd, c, n) ==
    /\ 0 < n /\ n <= Len(inbox[c]) /\ conn[c].cur + n <= BufSize
    /\ inbox' = [inbox EXCEPT ![c] = SubSeq(@, n + 1, Len(@))]
    /\ taken' = [taken EXCEPT ![c] = @ + n]
    /\ conn' = [conn EXCEPT ![c].cur = CurAfter(c, n)]
    /\ EndsRequest(c, n) => Switches(t, fd, c, "W")
    /\ ~EndsRequest(c, n) => UNCHANGED loop

(* Every outcome of socket_readable in full.                                 *)
LEMMA ReadInFull ==
    ASSUME TypeOK, Registration, NEW t \in Threads, NEW fd \in Fds, fd \in Index,
           "R" \in Event(loop[t], fd).mask, Event(loop[t], fd).rproc = "socket_readable",
           NEW c, c = Event(loop[t], fd).data, socket_readable(t, fd, c)
    PROVE  /\ Holds(t, fd, c) /\ c \in Clients /\ Event(loop[t], fd).mask = {"R"}
           /\ \/ \E n \in Nat : ReadSome(t, fd, c, n)
              \/ Freed(c) /\ Drops(t, fd, c) /\ UNCHANGED <<inbox, taken>>
<1>1. /\ Holds(t, fd, c) /\ c \in Clients /\ fd # ListenFd[t]
      /\ Event(loop[t], fd).mask = {"R"}
  BY ReadOutcome
<1> DEFINE n == Min({Len(inbox[c]), Room(c)})
           L == aeDeleteFileEvent(loop[t], fd, {"R"})
<1>2. n \in Nat /\ n <= Len(inbox[c]) /\ conn[c].cur + n <= BufSize
  BY <1>1, ReadSize
<1>3. CASE /\ n > 0
           /\ inbox' = [inbox EXCEPT ![c] = SubSeq(@, n + 1, Len(@))]
           /\ taken' = [taken EXCEPT ![c] = @ + n]
           /\ conn' = [conn EXCEPT ![c].cur = CurAfter(c, n)]
           /\ loop' = IF EndsRequest(c, n)
                      THEN [loop EXCEPT ![t] =
                              aeCreateFileEvent(L, fd, {"W"}, "socket_writeable", c)]
                      ELSE loop
           /\ UNCHANGED file
  <2>1. \A d \in Clients : SameOwner(d)
    <3> HIDE DEF n, L
    <3> QED
      BY <1>1, <1>3, TypeParts DEF SameOwner, ConnRec
  <2>2. ASSUME EndsRequest(c, n) PROVE Switches(t, fd, c, "W")
    <3>1. loop' = [loop EXCEPT ![t] =
                     aeCreateFileEvent(aeDeleteFileEvent(loop[t], fd, {"R"}), fd, {"W"},
                         IF "W" = "R" THEN "socket_readable" ELSE "socket_writeable", c)]
      BY <1>3, <2>2
    <3>2. Frame(t, fd) /\ Watched(t, fd, c, "W")
      BY <1>1, <3>1, SwitchEvent, Zenon
    <3> QED
      BY <1>1, <1>3, <2>1, <3>2 DEF Switches
  <2>3. ReadSome(t, fd, c, n)
    <3> HIDE DEF n, L
    <3> QED
      BY <1>2, <1>3, <2>2 DEF ReadSome
  <2> QED
    BY <1>1, <1>2, <2>3
<1>4. CASE Close(fd, L, t) /\ conn' = [conn EXCEPT ![c].live = FALSE] /\ UNCHANGED <<inbox, taken>>
  <2>1. Drops(t, fd, c)
    BY <1>1, <1>4, CloseDrops, Zenon
  <2> QED
    BY <1>1, <1>4, <2>1 DEF Freed
<1>5. \/ /\ n > 0
         /\ inbox' = [inbox EXCEPT ![c] = SubSeq(@, n + 1, Len(@))]
         /\ taken' = [taken EXCEPT ![c] = @ + n]
         /\ conn' = [conn EXCEPT ![c].cur = CurAfter(c, n)]
         /\ loop' = IF EndsRequest(c, n)
                    THEN [loop EXCEPT ![t] =
                            aeCreateFileEvent(L, fd, {"W"}, "socket_writeable", c)]
                    ELSE loop
         /\ UNCHANGED file
      \/ /\ Close(fd, L, t) /\ conn' = [conn EXCEPT ![c].live = FALSE]
         /\ UNCHANGED <<inbox, taken>>
  BY DEF socket_readable
<1> HIDE DEF n, L
<1> QED
  BY <1>3, <1>4, <1>5

(* Nobody who waits to be accepted is the connection a handler works on.     *)
LEMMA FreshKept ==
    ASSUME TypeOK, Queued, Fresh, UNCHANGED backlog,
           \A d \in Clients : peer'[d] = "new" => peer[d] = "new",
           \A d \in Clients : ~conn[d].live => taken'[d] = taken[d]
    PROVE  Fresh'
<1>1. ASSUME NEW t \in Threads, NEW i \in 1 .. Len(backlog[t])
      PROVE  backlog[t][i] \in Clients /\ taken'[backlog[t][i]] = 0
  <2>1. backlog[t] \in Seq(Clients)
    BY TypeParts
  <2>2. backlog[t][i] \in Clients
    BY <2>1
  <2> QED
    BY <2>2 DEF Queued, Fresh
<1>2. ASSUME NEW d \in Clients, peer'[d] = "new" PROVE taken'[d] = 0
  BY <1>2 DEF Queued, Fresh
<1> QED
  BY <1>1, <1>2 DEF Fresh

(* A read: the units move from the input to the buffer or end a request.     *)
LEMMA ReadKept ==
    ASSUME TypeOK, Registration, Queued, KInv, NEW t \in Threads, NEW fd \in Fds, fd \in Index,
           NEW c \in Clients, Holds(t, fd, c), Event(loop[t], fd).mask = {"R"},
           NEW n \in Nat, ReadSome(t, fd, c, n), UNCHANGED <<backlog, peer, sent>>
    PROVE  KInv'
<1>1. /\ conn \in [Clients -> ConnRec] /\ taken \in [Clients -> Nat]
      /\ inbox \in [Clients -> Seq({"part", "end"})]
      /\ conn[c] \in ConnRec /\ taken[c] \in Nat /\ inbox[c] \in Seq({"part", "end"})
  BY TypeParts
<1>2. conn[c].live /\ conn[c].thread = t /\ conn[c].fd = fd /\ fd < SetSize /\ file[fd] = c
  BY OnlyOwner, ConstantFacts DEF Holds
<1>3. taken[c] = conn[c].cur /\ conn[c].cur \in Nat
  BY <1>1, <1>2, ConstantFacts DEF KInv, Kept, ConnRec
<1>4. /\ 0 < n /\ n <= Len(inbox[c]) /\ conn[c].cur + n <= BufSize
      /\ inbox'[c] = SubSeq(inbox[c], n + 1, Len(inbox[c])) /\ taken'[c] = taken[c] + n
      /\ conn'[c] = [conn[c] EXCEPT !.cur = CurAfter(c, n)]
      /\ \A d \in Clients \ {c} :
            conn'[d] = conn[d] /\ taken'[d] = taken[d] /\ inbox'[d] = inbox[d]
  BY <1>1 DEF ReadSome
<1>5. /\ conn'[c].live /\ conn'[c].thread = t /\ conn'[c].fd = fd
      /\ conn'[c].cur = CurAfter(c, n)
  BY <1>1, <1>2, <1>4 DEF ConnRec
<1>6. /\ Len(inbox[c]) \in Nat
      /\ inbox'[c] = <<>> => n = Len(inbox[c])
      /\ inbox'[c] # <<>> => inbox'[c][Len(inbox'[c])] = inbox[c][Len(inbox[c])]
  <2> DEFINE l == Len(inbox[c])
             rest == SubSeq(inbox[c], n + 1, l)
  <2>1. l \in Nat
    BY <1>1
  <2>2. /\ rest \in Seq({"part", "end"})
        /\ Len(rest) = IF n + 1 <= l THEN l - (n + 1) + 1 ELSE 0
        /\ \A i \in 1 .. l - (n + 1) + 1 : rest[i] = inbox[c][n + 1 + i - 1]
    BY <1>1, <1>4, <2>1, SubSeqProperties
  <2> HIDE DEF l, rest
  <2>3. Len(rest) = l - n
    BY <1>4, <2>1, <2>2 DEF l
  <2>4. rest = <<>> => n = l
    BY <2>1, <2>3
  <2>5. rest # <<>> => rest[Len(rest)] = inbox[c][l]
    <3>1. rest # <<>> => Len(rest) # 0
      BY <2>2
    <3>2. l - n # 0 => l - n \in 1 .. l - (n + 1) + 1
      BY <1>4, <2>1 DEF l
    <3>3. n + 1 + (l - n) - 1 = l
      BY <2>1
    <3> QED
      BY <2>2, <2>3, <3>1, <3>2, <3>3
  <2> QED
    BY <1>4, <2>1, <2>4, <2>5 DEF l, rest
<1>7. Fresh'
  <2>1. \A d \in Clients : ~conn[d].live => taken'[d] = taken[d]
    BY <1>2, <1>4
  <2> QED
    BY <2>1, FreshKept DEF KInv
<1>8. inbox[c][Len(inbox[c])] = sent[c].last
  <2>1. inbox[c] # <<>>
    BY <1>1, <1>4, <1>6
  <2> QED
    BY <2>1 DEF KInv, Ends
<1>9. Ends'
  BY <1>4, <1>6, <1>8 DEF KInv, Ends
<1>10. Kept(c)'
  <2>1. CASE EndsRequest(c, n)
    <3>1. Event(loop'[t], fd).mask = {"W"}
      BY <2>1 DEF ReadSome, Switches, Watched
    <3>2. CurAfter(c, n) = 0 /\ taken'[c] > 0
      BY <1>1, <1>4, <2>1 DEF CurAfter
    <3> QED
      BY <1>5, <3>1, <3>2 DEF Kept
  <2>2. CASE ~EndsRequest(c, n)
    <3>1. Event(loop'[t], fd).mask = {"R"}
      BY <2>2 DEF ReadSome
    <3>2. CurAfter(c, n) = conn[c].cur + n
      BY <2>2 DEF CurAfter
    <3>3. inbox'[c] = <<>> => sent'[c].last # "end"
      BY <1>6, <1>8, <2>2 DEF EndsRequest
    <3> QED
      BY <1>3, <1>4, <1>5, <3>1, <3>2, <3>3 DEF Kept
  <2> QED
    BY <2>1, <2>2
<1>11. ASSUME NEW d \in Clients, d # c PROVE Kept(d)'
  <2>1. SameData(d)
    BY <1>4, <1>11 DEF SameData
  <2>2. ASSUME conn[d].live, conn[d].fd < SetSize
        PROVE  Event(loop'[conn[d].thread], conn[d].fd) = Event(loop[conn[d].thread], conn[d].fd)
    <3>1. CASE UNCHANGED loop
      BY <3>1
    <3>2. CASE Frame(t, fd)
      BY <1>2, <1>11, <2>2, <3>2, OtherEntries
    <3> QED
      BY <3>1, <3>2 DEF ReadSome, Switches
  <2> QED
    BY <2>1, <2>2, KeptSame DEF KInv
<1> QED
  BY <1>7, <1>9, <1>10, <1>11 DEF KInv

(* A connection that is freed is nobody's any more.                          *)
LEMMA DropKept ==
    ASSUME TypeOK, Registration, Queued, KInv, NEW t \in Threads, NEW fd \in Fds,
           NEW c \in Clients, Drops(t, fd, c), Freed(c),
           UNCHANGED <<backlog, peer, sent, inbox, taken>>
    PROVE  KInv'
<1>1. file[fd] = c /\ ~conn'[c].live
  BY OnlyOwner DEF Drops
<1>2. \A d \in Clients \ {c} : conn'[d] = conn[d]
  BY TypeParts DEF Freed
<1>3. Fresh' /\ Ends'
  BY DEF KInv, Fresh, Ends
<1>4. ASSUME NEW d \in Clients, d # c PROVE Kept(d)'
  <2>1. SameData(d)
    BY <1>2, <1>4 DEF SameData
  <2> QED
    BY <1>1, <1>4, <2>1, OtherEntries, KeptSame DEF KInv, Drops
<1>5. Kept(c)'
  BY <1>1 DEF Kept
<1> QED
  BY <1>3, <1>4, <1>5 DEF KInv

(* A new connection has an empty buffer.                                     *)
LEMMA AcceptKept ==
    ASSUME TypeOK, Registration, Queued, KInv, NEW t \in Threads, backlog[t] # <<>>,
           NEW fd \in Fds, NEW c, c = Head(backlog[t]), Accepts(t, fd, c),
           conn' = [conn EXCEPT ![c] = NewConn(t, fd)],
           backlog' = [backlog EXCEPT ![t] = Tail(@)],
           UNCHANGED <<peer, sent, inbox, taken>>
    PROVE  KInv'
<1>1. c \in Clients /\ c = backlog[t][1] /\ 1 \in 1 .. Len(backlog[t])
  BY FirstWaits
<1>2. taken[c] = 0
  BY <1>1 DEF KInv, Fresh
<1>3. conn'[c] = NewConn(t, fd) /\ \A d \in Clients \ {c} : conn'[d] = conn[d]
  BY <1>1, TypeParts
<1>4. Fresh'
  <2>1. backlog \in [Threads -> Seq(Clients)] /\ backlog[t] \in Seq(Clients)
    BY TypeParts
  <2>2. ASSUME NEW u \in Threads, NEW i \in 1 .. Len(backlog'[u]) PROVE taken[backlog'[u][i]] = 0
    <3>1. CASE u # t
      <4>1. backlog'[u] = backlog[u]
        BY <2>1, <3>1
      <4> QED
        BY <2>2, <4>1 DEF KInv, Fresh
    <3>2. CASE u = t
      <4>1. backlog'[u] = Tail(backlog[t])
        BY <2>1, <3>2
      <4>2. i + 1 \in 1 .. Len(backlog[t]) /\ backlog'[u][i] = backlog[t][i + 1]
        <5>1. /\ Len(Tail(backlog[t])) = Len(backlog[t]) - 1
              /\ \A j \in 1 .. Len(Tail(backlog[t])) : Tail(backlog[t])[j] = backlog[t][j + 1]
          BY <2>1, HeadTailProperties
        <5>2. Len(backlog[t]) \in Nat /\ i \in 1 .. Len(backlog[t]) - 1
          BY <2>1, <2>2, <4>1, <5>1
        <5>3. i + 1 \in 1 .. Len(backlog[t]) /\ i \in 1 .. Len(Tail(backlog[t]))
          BY <5>1, <5>2
        <5>4. Tail(backlog[t])[i] = backlog[t][i + 1]
          BY <5>1, <5>3
        <5> QED
          BY <4>1, <5>3, <5>4
      <4> QED
        BY <4>2 DEF KInv, Fresh
    <3> QED
      BY <3>1, <3>2
  <2> QED
    BY <2>2 DEF KInv, Fresh
<1>5. Ends'
  BY DEF KInv, Ends
<1>6. file[fd] = None /\ Frame(t, fd) /\ (fd \in Index => Event(loop'[t], fd).mask = {"R"})
  BY DEF Accepts, Watched
<1>7. Kept(c)'
  <2>1. conn'[c].thread = t /\ conn'[c].fd = fd /\ conn'[c].cur = 0
    BY <1>3 DEF NewConn
  <2>2. fd < SetSize => Event(loop'[t], fd).mask = {"R"}
    BY <1>6, ConstantFacts
  <2>3. 0 <= BufSize /\ ~(0 > 0)
    BY ConstantFacts
  <2> QED
    BY <1>2, <2>1, <2>2, <2>3 DEF Kept
<1>8. ASSUME NEW d \in Clients, d # c PROVE Kept(d)'
  <2>1. SameData(d)
    BY <1>3, <1>8 DEF SameData
  <2> QED
    BY <1>1, <1>6, <1>8, <2>1, OtherEntries, KeptSame DEF KInv
<1> QED
  BY <1>4, <1>5, <1>7, <1>8 DEF KInv

(* A write that answers the request, one that ends the connection, and one   *)
(* that fails.                                                               *)
LEMMA WriteKept ==
    ASSUME TypeOK, Registration, Queued, KInv, NEW t \in Threads, NEW fd \in Fds, fd \in Index,
           NEW c, c = Event(loop[t], fd).data, WriteCall(t, fd),
           UNCHANGED <<backlog, inbox, sent>>
    PROVE  KInv'
<1> DEFINE L == aeDeleteFileEvent(loop[t], fd, {"W"})
<1>1. /\ Holds(t, fd, c) /\ c \in Clients /\ Event(loop[t], fd).mask = {"W"}
      /\ Keeps \/ Switches(t, fd, c, "R") \/ Drops(t, fd, c)
  BY WriteOutcome DEF WriteCall
<1>2. conn[c].live /\ conn[c].thread = t /\ conn[c].fd = fd /\ fd < SetSize /\ file[fd] = c
  BY <1>1, OnlyOwner, ConstantFacts DEF Holds
<1>3. conn[c].cur = 0
  BY <1>1, <1>2 DEF KInv, Kept
<1>4. \/ /\ taken' = [taken EXCEPT ![c] = 0] /\ UNCHANGED <<conn, peer>>
         /\ loop' = [loop EXCEPT ![t] =
                        aeCreateFileEvent(L, fd, {"R"}, "socket_readable", c)]
      \/ Freed(c) /\ UNCHANGED <<taken, peer>>
      \/ /\ UNCHANGED <<loop, conn, taken>>
         /\ UNCHANGED peer \/ peer' = [peer EXCEPT ![c] = "gone"]
  BY DEF WriteCall, socket_writeable, Freed
<1>5. CASE /\ taken' = [taken EXCEPT ![c] = 0] /\ UNCHANGED <<conn, peer>>
           /\ loop' = [loop EXCEPT ![t] =
                          aeCreateFileEvent(L, fd, {"R"}, "socket_readable", c)]
  <2>1. loop' = [loop EXCEPT ![t] =
                   aeCreateFileEvent(aeDeleteFileEvent(loop[t], fd, {"W"}), fd, {"R"},
                       IF "R" = "R" THEN "socket_readable" ELSE "socket_writeable", c)]
    BY <1>5
  <2>2. Frame(t, fd) /\ Watched(t, fd, c, "R")
    BY <1>1, <2>1, SwitchEvent, Zenon
  <2> HIDE DEF L
  <2>3. taken'[c] = 0 /\ \A d \in Clients \ {c} : taken'[d] = taken[d]
    BY <1>1, <1>5, TypeParts
  <2>4. Fresh' /\ Ends'
    <3>1. Fresh'
      BY <1>2, <1>5, <2>3, FreshKept DEF KInv
    <3> QED
      BY <3>1 DEF KInv, Ends
  <2>5. Kept(c)'
    <3>1. 0 <= BufSize /\ ~(0 > 0)
      BY ConstantFacts
    <3> QED
      BY <1>2, <1>3, <1>5, <2>2, <2>3, <3>1 DEF Kept, Watched
  <2>6. ASSUME NEW d \in Clients, d # c PROVE Kept(d)'
    <3>1. SameData(d)
      BY <1>5, <2>3, <2>6 DEF SameData
    <3> QED
      BY <1>1, <1>2, <2>2, <2>6, <3>1, OtherEntries, KeptSame DEF KInv
  <2> QED
    BY <2>4, <2>5, <2>6 DEF KInv
<1>6. CASE Freed(c) /\ UNCHANGED <<taken, peer>>
  <2> HIDE DEF L
  <2>1. ~conn'[c].live
    BY <1>1, <1>6, FreedCur
  <2>2. Drops(t, fd, c)
    BY <1>1, <1>2, <2>1 DEF Keeps, Switches, SameOwner
  <2> QED
    BY <1>1, <1>6, <2>2, DropKept
<1>7. CASE /\ UNCHANGED <<loop, conn, taken>>
           /\ UNCHANGED peer \/ peer' = [peer EXCEPT ![c] = "gone"]
  <2> HIDE DEF L
  <2>1. \A d \in Clients : peer'[d] = "new" => peer[d] = "new"
    BY <1>1, <1>7, TypeParts
  <2>2. Fresh' /\ Ends'
    <3>1. Fresh'
      BY <1>7, <2>1, FreshKept DEF KInv
    <3> QED
      BY <3>1 DEF KInv, Ends
  <2>3. \A d \in Clients : Kept(d)'
    BY <1>7 DEF KInv, Kept
  <2> QED
    BY <2>2, <2>3 DEF KInv
<1> QED
  BY <1>4, <1>5, <1>6, <1>7

(* A client enters the queue with nothing taken from it.                     *)
LEMMA ConnectKept ==
    ASSUME TypeOK, Queued, KInv, NEW c \in Clients, Connect(c)
    PROVE  KInv'
<1>1. /\ peer[c] = "new" /\ taken[c] = 0 /\ peer' = [peer EXCEPT ![c] = "open"]
      /\ backlog' = [backlog EXCEPT ![Listener[c]] = Append(@, c)]
      /\ UNCHANGED <<loop, conn, inbox, sent, taken>>
  BY DEF Connect, KInv, Fresh
<1>2. backlog \in [Threads -> Seq(Clients)]
  BY TypeParts
<1>3. ASSUME NEW u \in Threads, NEW i \in 1 .. Len(backlog'[u]) PROVE taken[backlog'[u][i]] = 0
  <2>1. CASE u # Listener[c]
    <3>1. backlog'[u] = backlog[u]
      BY <1>1, <1>2, <2>1
    <3> QED
      BY <1>3, <3>1 DEF KInv, Fresh
  <2>2. CASE u = Listener[c]
    <3>1. backlog[u] \in Seq(Clients) /\ backlog'[u] = Append(backlog[u], c)
      BY <1>1, <1>2, <2>2
    <3>2. \/ i \in 1 .. Len(backlog[u]) /\ backlog'[u][i] = backlog[u][i]
          \/ backlog'[u][i] = c
      BY <1>3, <3>1
    <3> QED
      BY <1>1, <3>2 DEF KInv, Fresh
  <2> QED
    BY <2>1, <2>2
<1>4. \A d \in Clients : peer'[d] = "new" => peer[d] = "new"
  BY <1>1, TypeParts
<1>5. Fresh'
  BY <1>1, <1>3, <1>4 DEF KInv, Fresh
<1>6. Ends' /\ \A d \in Clients : Kept(d)'
  BY <1>1 DEF KInv, Ends, Kept
<1> QED
  BY <1>5, <1>6 DEF KInv

(* What a client sends is unread at first.                                   *)
LEMMA SendKept ==
    ASSUME TypeOK, KInv, NEW c \in Clients, Send(c)
    PROVE  KInv'
<1>1. PICK u \in {"part", "end"} :
        /\ inbox' = [inbox EXCEPT ![c] = Append(@, u)]
        /\ sent' = [sent EXCEPT ![c] = [n |-> @.n + 1, last |-> u]]
  BY DEF Send
<1>2. UNCHANGED <<loop, conn, backlog, peer, taken>>
  BY DEF Send
<1>3. /\ inbox \in [Clients -> Seq({"part", "end"})] /\ inbox[c] \in Seq({"part", "end"})
      /\ sent \in [Clients -> [n : Nat, last : {"none", "part", "end"}]]
  BY TypeParts
<1>4. /\ inbox'[c] = Append(inbox[c], u) /\ sent'[c].last = u
      /\ \A d \in Clients \ {c} : inbox'[d] = inbox[d] /\ sent'[d] = sent[d]
  BY <1>1, <1>3
<1>5. inbox'[c] # <<>> /\ inbox'[c][Len(inbox'[c])] = u
  BY <1>3, <1>4, AppendProperties
<1>6. Fresh' /\ Ends'
  BY <1>2, <1>4, <1>5 DEF KInv, Fresh, Ends
<1>7. ASSUME NEW d \in Clients PROVE Kept(d)'
  <2>1. SameData(d)
    BY <1>2, <1>4, <1>5 DEF SameData
  <2> QED
    BY <1>2, <2>1, KeptSame DEF KInv
<1> QED
  BY <1>6, <1>7 DEF KInv

(* Every step.                                                               *)
LEMMA KeptStep ==
    ASSUME IInv, KInv, [Next]_vars
    PROVE  KInv'
<1> USE DEF IInv
<1>1. ASSUME UNCHANGED <<loop, conn, backlog, peer, inbox, sent, taken>> PROVE KInv'
  BY <1>1 DEF KInv, Fresh, Ends, Kept
<1>2. ASSUME NEW t \in Threads, NEW e \in fired[t], Handled(t, e) PROVE KInv'
  <2>1. UNCHANGED <<peer, sent>> /\ e.fd \in Fds /\ e.fd \in Index
    BY <1>2 DEF Handled
  <2>2. CASE UNCHANGED <<file, loop, conn, backlog, inbox, taken>>
    BY <1>1, <2>1, <2>2
  <2>3. CASE AcceptCall(t, e)
    <3>1. backlog[t] # <<>> /\ UNCHANGED <<inbox, taken>>
      BY <2>3 DEF AcceptCall
    <3>2. \/ UNCHANGED <<file, loop, conn, backlog>>
          \/ \E fd \in Fds :
                /\ Accepts(t, fd, Head(backlog[t]))
                /\ conn' = [conn EXCEPT ![Head(backlog[t])] = NewConn(t, fd)]
                /\ backlog' = [backlog EXCEPT ![t] = Tail(@)]
      BY <2>3, AcceptOutcome DEF AcceptCall
    <3> QED
      BY <1>1, <2>1, <3>1, <3>2, AcceptKept
  <2>4. CASE ReadCall(t, e)
    <3> DEFINE c == Event(loop[t], e.fd).data
    <3>1. /\ Holds(t, e.fd, c) /\ c \in Clients /\ Event(loop[t], e.fd).mask = {"R"}
          /\ \/ \E n \in Nat : ReadSome(t, e.fd, c, n)
             \/ Freed(c) /\ Drops(t, e.fd, c) /\ UNCHANGED <<inbox, taken>>
      BY <2>1, <2>4, ReadInFull DEF ReadCall
    <3>2. UNCHANGED backlog
      BY <2>4 DEF ReadCall
    <3> HIDE DEF c
    <3> QED
      BY <2>1, <3>1, <3>2, ReadKept, DropKept
  <2> QED
    BY <1>2, <2>2, <2>3, <2>4 DEF Handled
<1>3. ASSUME NEW t \in Threads, WritableHalf(t) PROVE KInv'
  <2>1. /\ second[t].fd \in Fds /\ second[t].fd \in Index /\ UNCHANGED <<backlog, inbox, sent>>
        /\ \/ UNCHANGED <<file, loop, conn, peer, taken, alive>>
           \/ WriteCall(t, second[t].fd)
    BY <1>3, HalfWritable
  <2> QED
    BY <1>1, <2>1, WriteKept
<1>4. ASSUME NEW c \in Clients, Leave(c) PROVE KInv'
  <2>1. \A d \in Clients : peer'[d] = "new" => peer[d] = "new"
    BY <1>4, TypeParts DEF Leave
  <2>2. UNCHANGED <<loop, conn, backlog, inbox, sent, taken>>
    BY <1>4 DEF Leave
  <2> QED
    BY <2>1, <2>2 DEF KInv, Fresh, Ends, Kept
<1> QED
  BY <1>1, <1>2, <1>3, <1>4, Steps, ConnectKept, SendKept DEF vars, Poll

(* Whatever the size of the buffer and however the units of a request are    *)
(* spread over reads, a connection that waits to read holds exactly what it  *)
(* read since the last response and no complete request, and one that waits  *)
(* to write has a request to answer and an empty buffer                      *)
(* (chuqq_httpd_nodelay.c:41-57).                                            *)
THEOREM RequestsStayKept == Spec => []RequestsAreKept
<1>1. Init => KInv
  BY DEF Init, KInv, Fresh, Ends, Kept, NoConn
<1>2. IInv /\ KInv /\ [Next]_vars => KInv'
  BY KeptStep
<1>3. KInv => RequestsAreKept
  BY DEF KInv, Kept, RequestsAreKept
<1> QED
  BY <1>1, <1>2, <1>3, Invariance, PTL DEF Spec

(* The next epoll_wait of its thread reports every client that waits for a    *)
(* response and has a descriptor in the table.                               *)
NobodyWaitsUnnoticed ==
    \A c \in Clients : Waits(c) /\ conn[c].live /\ conn[c].fd < SetSize =>
        Ready(conn[c].thread, conn[c].fd) # {}

(* A client that has sent a complete request is never forgotten: however the *)
(* request was read, the loop is registered for what is still to be done, so *)
(* that RequestsAreAnswered needs no more than that the thread polls again   *)
(* (ae_epoll.c:108-131, chuqq_httpd_nodelay.c:46-56).                        *)
THEOREM WaitersAreNoticed == Spec => []NobodyWaitsUnnoticed
<1>1. ASSUME IInv, RequestsAreKept PROVE NobodyWaitsUnnoticed
  <2> SUFFICES ASSUME NEW c \in Clients, Waits(c), conn[c].live, conn[c].fd < SetSize
               PROVE  Ready(conn[c].thread, conn[c].fd) # {}
    BY DEF NobodyWaitsUnnoticed
  <2> DEFINE t == conn[c].thread
             fd == conn[c].fd
             mask == Event(loop[t], fd).mask
  <2>1. t \in Threads /\ fd \in Fds /\ file[fd] = c
    BY <1>1 DEF IInv, Registration, Serving
  <2>2. loop[t].epoll[fd] = mask
    BY <1>1, <2>1 DEF IInv, Registration, Loops, Agrees
  <2>3. inbox[c] # <<>> \/ (taken[c] > 0 /\ sent[c].last = "end")
    BY DEF Waits
  <2>4. mask = {"W"} \/ (mask = {"R"} /\ inbox[c] # <<>>)
    BY <1>1, <2>3 DEF RequestsAreKept
  <2> HIDE DEF t, fd, mask
  <2>5. CASE mask = {"W"}
    <3>1. "W" \in Ready(t, fd)
      BY <2>2, <2>5 DEF Ready
    <3> QED
      BY <3>1 DEF t, fd
  <2>6. CASE mask = {"R"} /\ inbox[c] # <<>>
    <3>1. Readable(fd)
      BY <2>1, <2>6 DEF Readable
    <3>2. "R" \in Ready(t, fd)
      BY <2>2, <2>6, <3>1 DEF Ready
    <3> QED
      BY <3>2 DEF t, fd
  <2> QED
    BY <2>4, <2>5, <2>6
<1> QED
  BY <1>1, Invariance, RequestsStayKept, PTL
=============================================================================
