------------------------- MODULE EpollFrameworkProofs --------------------------
(***************************************************************************)
(* The safety properties of EpollFramework for every number of connections,*)
(* descriptors and messages.  What the handlers do to the table of         *)
(* descriptors, to epoll and to the heap is stated once, for registering   *)
(* (RegisterKeeps), accepting (AcceptKeeps) and closing (CloseKeeps).      *)
(***************************************************************************)
EXTENDS EpollFramework, TLAPS

(* A descriptor that is open: one ConnectStat, one direction, one deadline.*)
Ours(f) ==
    LET e == fd_table[f]
        s == e.timeout_data
    IN  /\ sock[f] \in Conns /\ link[sock[f]] = "open"
        /\ s \in Stats /\ heap[s] \in ConnectStats /\ heap[s].conn = sock[f]
        /\ e.read \in {NoHandler, Handler("echo", s)}
        /\ e.write \in {NoHandler, Handler("welcome", s), Handler("reply", s)}
        /\ e.left \in 0..Long
        /\ epoll_state[f] = kernel[f]
        /\ \/ kernel[f] = {"read"} /\ e.read.call = "echo" /\ heap[s].reply = FALSE
           \/ kernel[f] = {"write"} /\ e.write.call = "welcome" /\ heap[s].reply = FALSE
           \/ kernel[f] = {"write"} /\ e.write.call = "reply" /\ heap[s].reply = TRUE

(* A descriptor that is not.                                               *)
Idle(f) == fd_table[f] = Cleared /\ epoll_state[f] = {} /\ kernel[f] = {}

OpenOrIdle == \A f \in Fds : (sock[f] # None => Ours(f)) /\ (sock[f] = None => Idle(f))

OnePerConn == \A f, g \in Fds : sock[f] = sock[g] /\ sock[f] # None => f = g

(* Nothing is allocated but for an open descriptor.                        *)
Owners ==
    \A s \in Stats : heap[s] # None =>
        \E f \in Fds : sock[f] # None /\ fd_table[f].timeout_data = s

DescriptorTypes ==
    /\ link \in [Conns -> {"new", "backlog", "open", "closed"}]
    /\ sock \in [Fds -> Conns \cup {None}]
    /\ fd_table \in [Fds -> Entries]
    /\ epoll_state \in [Fds -> SUBSET {"read", "write"}]
    /\ kernel \in [Fds -> SUBSET {"read", "write"}]
    /\ heap \in [Stats -> ConnectStats \cup {None}]
    /\ promised \in [Fds -> 0..Long]

Descriptors == DescriptorTypes /\ OpenOrIdle /\ OnePerConn /\ Owners

(* Deadlines are exact but for connections accepted before the clock ran.  *)
Punctual ==
    \A f \in Fds : sock[f] # None /\ sock[f] \notin first =>
        started /\ fd_table[f].left = promised[f]

(* What an event says of its descriptor is so until it is handled ...      *)
Pending ==
    /\ \A e \in events : e.fd # Listener =>
          /\ e.conn \in Conns /\ sock[e.fd] = e.conn
          /\ e.hup => peer[e.conn] = "reset"
          /\ e.in => kernel[e.fd] = {"read"}
          /\ e.out => kernel[e.fd] = {"write"}
    /\ \A d, e \in events : d.fd = e.fd => d = e

(* ... and in between, unless the read half has closed it.                 *)
HalfDone ==
    mainpc = "half" =>
        /\ half.fd # Listener =>
              /\ half.conn \in Conns /\ sock[half.fd] \in {half.conn, None}
              /\ half.hup => peer[half.conn] = "reset"
              /\ half.out /\ ~half.hup =>
                     sock[half.fd] = half.conn /\ kernel[half.fd] = {"write"}
        /\ \A e \in events : e.fd # half.fd

ClientTypes ==
    /\ peer \in [Conns -> {"here", "shut", "reset"}]
    /\ sent \in [Conns -> 0..MaxMsgs] /\ unread \in [Conns -> Nat]
    /\ \A c \in Conns : unread[c] <= sent[c]

LoopTypes ==
    /\ mainpc \in {"wait", "handle", "half", "time", "check"}
    /\ events \subseteq Events /\ (events # {} => mainpc \in {"handle", "half"})
    /\ half \in Events \cup {None} /\ (half # None <=> mainpc = "half")
    /\ due \in BOOLEAN /\ started \in BOOLEAN
    /\ first \cup early \cup lost \subseteq Conns

IInv ==
    /\ Descriptors /\ ClientTypes /\ LoopTypes
    /\ Punctual /\ Pending /\ HalfDone /\ RepliesNotLost /\ EarlyOnlyAtStart

-------------------------------------------------------------------------------
(* The table of descriptors                                                *)

LEMMA Times == {Short, Long} \subseteq 0..Long /\ NoTimeout \notin 0..Long
BY TimesAssumption DEF NoTimeout

LEMMA NoneIsNothing ==
    None \notin Conns /\ None \notin Stats /\ None \notin ConnectStats /\ None \notin Events
BY NoneAssumption

(* epoll does as it is told, if the framework was right about it before.   *)
LEMMA EpollFollows ==
    ASSUME DescriptorTypes, NEW fd \in Fds, epoll_state[fd] = kernel[fd],
           NEW way \in {"read", "write"}, epollSetEvents(fd, {way})
    PROVE  /\ epoll_state' \in [Fds -> SUBSET {"read", "write"}]
           /\ kernel' \in [Fds -> SUBSET {"read", "write"}]
           /\ epoll_state'[fd] = {way} /\ kernel'[fd] = {way}
           /\ \A g \in Fds \ {fd} : epoll_state'[g] = epoll_state[g] /\ kernel'[g] = kernel[g]
BY DEF DescriptorTypes, epollSetEvents

LEMMA AwaitSets ==
    ASSUME DescriptorTypes, NEW fd \in Fds, epoll_state[fd] = kernel[fd],
           NEW way \in {"read", "write"}, NEW s \in Stats,
           NEW name, IF way = "read" THEN name = "echo" ELSE name \in {"welcome", "reply"},
           NEW timeout \in {Short, Long},
           Await(fd, way, Handler(name, s), timeout)
    PROVE  /\ fd_table' \in [Fds -> Entries]
           /\ promised' \in [Fds -> 0..Long]
           /\ epoll_state' \in [Fds -> SUBSET {"read", "write"}]
           /\ kernel' \in [Fds -> SUBSET {"read", "write"}]
           /\ epoll_state'[fd] = {way} /\ kernel'[fd] = {way}
           /\ fd_table'[fd].timeout_data = s /\ fd_table'[fd].left = timeout
           /\ fd_table'[fd].read = (IF way = "read" THEN Handler(name, s) ELSE fd_table[fd].read)
           /\ fd_table'[fd].write = (IF way = "write" THEN Handler(name, s) ELSE fd_table[fd].write)
           /\ promised'[fd] = timeout
           /\ \A g \in Fds \ {fd} :
                 /\ fd_table'[g] = fd_table[g] /\ promised'[g] = promised[g]
                 /\ epoll_state'[g] = epoll_state[g] /\ kernel'[g] = kernel[g]
<1>1. /\ epoll_state' \in [Fds -> SUBSET {"read", "write"}]
      /\ kernel' \in [Fds -> SUBSET {"read", "write"}]
      /\ epoll_state'[fd] = {way} /\ kernel'[fd] = {way}
      /\ \A g \in Fds \ {fd} : epoll_state'[g] = epoll_state[g] /\ kernel'[g] = kernel[g]
    BY EpollFollows DEF Await
<1>2. fd_table' = [fd_table EXCEPT
          ![fd] = [@ EXCEPT ![way] = Handler(name, s), !.timeout_data = s, !.left = timeout]]
    BY DEF Await, Handler
<1>3. promised' = [promised EXCEPT ![fd] = timeout]
    BY DEF Await
<1>4. timeout \in 0..Long /\ timeout \in NoTimeout..Long
    BY TimesAssumption DEF NoTimeout
<1>5. /\ promised' \in [Fds -> 0..Long] /\ promised'[fd] = timeout
      /\ \A g \in Fds \ {fd} : promised'[g] = promised[g]
    BY <1>3, <1>4 DEF DescriptorTypes
<1>6. fd_table[fd] \in Entries
    BY DEF DescriptorTypes
<1>7. /\ fd_table'[fd] = [fd_table[fd] EXCEPT ![way] = Handler(name, s),
                                               !.timeout_data = s, !.left = timeout]
      /\ \A g \in Fds \ {fd} : fd_table'[g] = fd_table[g]
    BY <1>2 DEF DescriptorTypes
<1>8. CASE way = "read"
    <2>1. name = "echo" /\ Handler(name, s) \in Handlers({"echo"})
        BY <1>8 DEF Handler, Handlers
    <2>2. /\ fd_table'[fd] \in Entries
          /\ fd_table'[fd].timeout_data = s /\ fd_table'[fd].left = timeout
          /\ fd_table'[fd].read = Handler(name, s)
          /\ fd_table'[fd].write = fd_table[fd].write
        BY <1>4, <1>6, <1>7, <1>8, <2>1 DEF Entries
    <2>3. fd_table' \in [Fds -> Entries]
        BY <1>2, <1>7, <2>2 DEF DescriptorTypes
    <2> QED
        BY <1>1, <1>7, <1>8, <1>5, <2>2, <2>3
<1>9. CASE way = "write"
    <2>1. Handler(name, s) \in Handlers({"welcome", "reply"})
        BY <1>9 DEF Handler, Handlers
    <2>2. /\ fd_table'[fd] \in Entries
          /\ fd_table'[fd].timeout_data = s /\ fd_table'[fd].left = timeout
          /\ fd_table'[fd].write = Handler(name, s)
          /\ fd_table'[fd].read = fd_table[fd].read
        BY <1>4, <1>6, <1>7, <1>9, <2>1 DEF Entries
    <2>3. fd_table' \in [Fds -> Entries]
        BY <1>2, <1>7, <2>2 DEF DescriptorTypes
    <2> QED
        BY <1>1, <1>7, <1>9, <1>5, <2>2, <2>3
<1> QED
    BY <1>8, <1>9

(* A descriptor that has the same entry and ConnectStat is as it was.      *)
LEMMA SameDescriptor ==
    ASSUME NEW f \in Fds,
           (sock[f] # None => Ours(f)) /\ (sock[f] = None => Idle(f)),
           sock'[f] = sock[f], fd_table'[f] = fd_table[f],
           epoll_state'[f] = epoll_state[f], kernel'[f] = kernel[f],
           sock[f] # None => /\ link'[sock[f]] = link[sock[f]]
                             /\ heap'[fd_table[f].timeout_data] = heap[fd_table[f].timeout_data]
    PROVE  (sock'[f] # None => Ours(f)') /\ (sock'[f] = None => Idle(f)')
<1>1. CASE sock[f] = None
    BY <1>1 DEF Idle, Cleared, NoHandler
<1>2. CASE sock[f] # None
    BY <1>2 DEF Ours, ConnectStats, Handler, NoHandler
<1> QED
    BY <1>1, <1>2

(* An open descriptor turns from reading to writing or back.               *)
LEMMA RegisterKeeps ==
    ASSUME Descriptors, NEW fd \in Fds, sock[fd] # None,
           NEW way \in {"read", "write"}, NEW name, NEW reply \in BOOLEAN,
           \/ way = "read" /\ name = "echo" /\ reply = FALSE
           \/ way = "write" /\ name = "reply" /\ reply = TRUE,
           Await(fd, way, Handler(name, fd_table[fd].timeout_data), Short),
           heap' \in [Stats -> ConnectStats \cup {None}],
           heap'[fd_table[fd].timeout_data].conn = sock[fd],
           heap'[fd_table[fd].timeout_data] \in ConnectStats,
           heap'[fd_table[fd].timeout_data].reply = reply,
           \A s \in Stats : s # fd_table[fd].timeout_data => heap'[s] = heap[s],
           sock' = sock, link' = link
    PROVE  /\ Descriptors'
           /\ kernel'[fd] = {way}
           /\ fd_table'[fd].left = promised'[fd]
           /\ \A g \in Fds \ {fd} :
                 /\ fd_table'[g] = fd_table[g] /\ promised'[g] = promised[g]
                 /\ kernel'[g] = kernel[g]
<1> DEFINE s == fd_table[fd].timeout_data
<1>1. DescriptorTypes /\ Ours(fd)
    BY DEF Descriptors, OpenOrIdle
<1>2. s \in Stats /\ epoll_state[fd] = kernel[fd]
    BY <1>1 DEF Ours
<1>3. /\ fd_table' \in [Fds -> Entries]
      /\ promised' \in [Fds -> 0..Long]
      /\ epoll_state' \in [Fds -> SUBSET {"read", "write"}]
      /\ kernel' \in [Fds -> SUBSET {"read", "write"}]
      /\ epoll_state'[fd] = {way} /\ kernel'[fd] = {way}
      /\ fd_table'[fd].timeout_data = s /\ fd_table'[fd].left = Short
      /\ fd_table'[fd].read = (IF way = "read" THEN Handler(name, s) ELSE fd_table[fd].read)
      /\ fd_table'[fd].write = (IF way = "write" THEN Handler(name, s) ELSE fd_table[fd].write)
      /\ promised'[fd] = Short
      /\ \A g \in Fds \ {fd} :
            /\ fd_table'[g] = fd_table[g] /\ promised'[g] = promised[g]
            /\ epoll_state'[g] = epoll_state[g] /\ kernel'[g] = kernel[g]
    BY <1>1, <1>2, AwaitSets
<1>4. DescriptorTypes'
    BY <1>1, <1>3 DEF DescriptorTypes
<1>5. Ours(fd)'
    <2>1. /\ sock'[fd] \in Conns /\ link'[sock'[fd]] = "open"
          /\ s \in Stats /\ heap'[s] \in ConnectStats /\ heap'[s].conn = sock'[fd]
        BY <1>1, <1>2 DEF Ours
    <2>2. /\ fd_table'[fd].read \in {NoHandler, Handler("echo", s)}
          /\ fd_table'[fd].write \in {NoHandler, Handler("welcome", s), Handler("reply", s)}
        BY <1>1, <1>3 DEF Ours
    <2>3. \/ kernel'[fd] = {"read"} /\ fd_table'[fd].read.call = "echo" /\ heap'[s].reply = FALSE
          \/ kernel'[fd] = {"write"} /\ fd_table'[fd].write.call = "reply" /\ heap'[s].reply = TRUE
        BY <1>3 DEF Handler
    <2> QED
        BY <1>3, <2>1, <2>2, <2>3, Times DEF Ours
<1>6. ASSUME NEW f \in Fds, f # fd
      PROVE  (sock'[f] # None => Ours(f)') /\ (sock'[f] = None => Idle(f)')
    <2>1. (sock[f] # None => Ours(f)) /\ (sock[f] = None => Idle(f))
        BY DEF Descriptors, OpenOrIdle
    <2>2. sock[f] # None => fd_table[f].timeout_data \in Stats \ {s}
        BY <1>1, <1>6, <2>1 DEF Ours, Descriptors, OnePerConn
    <2>3. sock[f] # None => heap'[fd_table[f].timeout_data] = heap[fd_table[f].timeout_data]
        BY <2>2
    <2> QED
        BY <1>3, <1>6, <2>1, <2>3, SameDescriptor
<1>7. OpenOrIdle'
    BY <1>5, <1>6, sock'[fd] # None DEF OpenOrIdle
<1>8. OnePerConn'
    BY DEF Descriptors, OnePerConn
<1>9. Owners'
    <2>1. \A f \in Fds : fd_table'[f].timeout_data = fd_table[f].timeout_data
        BY <1>3
    <2>2. \A t \in Stats : heap'[t] # None => heap[t] # None
        BY <1>1, NoneIsNothing DEF Ours
    <2> QED
        BY <2>1, <2>2 DEF Descriptors, Owners
<1> QED
    BY <1>3, <1>4, <1>7, <1>8, <1>9 DEF Descriptors

(* A new connection takes a free descriptor and a free ConnectStat.        *)
LEMMA AcceptKeeps ==
    ASSUME Descriptors, NEW fd \in Fds, sock[fd] = None,
           NEW c \in Conns, link[c] = "backlog", NEW s \in Stats, heap[s] = None,
           link' = [link EXCEPT ![c] = "open"],
           sock' = [sock EXCEPT ![fd] = c],
           heap' = [heap EXCEPT ![s] = [conn |-> c, reply |-> FALSE]],
           Await(fd, "write", Handler("welcome", s), Long)
    PROVE  /\ Descriptors'
           /\ fd_table'[fd].left = promised'[fd]
           /\ \A g \in Fds \ {fd} :
                 /\ sock'[g] = sock[g] /\ fd_table'[g] = fd_table[g]
                 /\ promised'[g] = promised[g] /\ kernel'[g] = kernel[g]
<1>1. DescriptorTypes /\ Idle(fd)
    BY DEF Descriptors, OpenOrIdle
<1>2. epoll_state[fd] = kernel[fd]
    BY <1>1 DEF Idle
<1>3. /\ fd_table' \in [Fds -> Entries]
      /\ promised' \in [Fds -> 0..Long]
      /\ epoll_state' \in [Fds -> SUBSET {"read", "write"}]
      /\ kernel' \in [Fds -> SUBSET {"read", "write"}]
      /\ epoll_state'[fd] = {"write"} /\ kernel'[fd] = {"write"}
      /\ fd_table'[fd].timeout_data = s /\ fd_table'[fd].left = Long
      /\ fd_table'[fd].read = fd_table[fd].read
      /\ fd_table'[fd].write = Handler("welcome", s)
      /\ promised'[fd] = Long
      /\ \A g \in Fds \ {fd} :
            /\ fd_table'[g] = fd_table[g] /\ promised'[g] = promised[g]
            /\ epoll_state'[g] = epoll_state[g] /\ kernel'[g] = kernel[g]
    BY <1>1, <1>2, AwaitSets
<1>4. /\ link' \in [Conns -> {"new", "backlog", "open", "closed"}] /\ link'[c] = "open"
      /\ \A d \in Conns \ {c} : link'[d] = link[d]
      /\ sock' \in [Fds -> Conns \cup {None}] /\ sock'[fd] = c
      /\ \A g \in Fds \ {fd} : sock'[g] = sock[g]
    BY <1>1 DEF DescriptorTypes
<1>5. /\ heap' \in [Stats -> ConnectStats \cup {None}]
      /\ heap'[s] \in ConnectStats /\ heap'[s].conn = c /\ heap'[s].reply = FALSE
      /\ \A t \in Stats \ {s} : heap'[t] = heap[t]
    BY <1>1 DEF DescriptorTypes, ConnectStats
<1>6. DescriptorTypes'
    BY <1>3, <1>4, <1>5 DEF DescriptorTypes
<1>7. Ours(fd)'
    <2>1. /\ fd_table'[fd].read = NoHandler
          /\ fd_table'[fd].write = Handler("welcome", s)
        BY <1>1, <1>3 DEF Idle, Cleared
    <2>2. fd_table'[fd].left \in 0..Long
        BY <1>3, Times
    <2>3. fd_table'[fd].write.call = "welcome"
        BY <2>1 DEF Handler
    <2> QED
        BY <1>3, <1>4, <1>5, <2>1, <2>2, <2>3 DEF Ours
<1>8. ASSUME NEW f \in Fds, f # fd
      PROVE  (sock'[f] # None => Ours(f)') /\ (sock'[f] = None => Idle(f)')
    <2>1. (sock[f] # None => Ours(f)) /\ (sock[f] = None => Idle(f))
        BY DEF Descriptors, OpenOrIdle
    <2>2. sock[f] # None => sock[f] # c /\ fd_table[f].timeout_data \in Stats \ {s}
        BY <2>1, NoneIsNothing DEF Ours
    <2>3. sock[f] # None => /\ link'[sock[f]] = link[sock[f]]
                            /\ heap'[fd_table[f].timeout_data] = heap[fd_table[f].timeout_data]
        BY <1>4, <1>5, <2>1, <2>2 DEF Ours
    <2> QED
        BY <1>3, <1>4, <1>8, <2>1, <2>3, SameDescriptor
<1>9. OpenOrIdle'
    BY <1>4, <1>7, <1>8, NoneIsNothing DEF OpenOrIdle
<1>10. OnePerConn'
    <2>1. \A f \in Fds : sock[f] # None => link[sock[f]] = "open"
        BY DEF Descriptors, OpenOrIdle, Ours
    <2>2. \A f \in Fds : sock[f] # c
        BY <2>1, NoneIsNothing
    <2> QED
        BY <1>4, <2>2 DEF Descriptors, OnePerConn
<1>11. Owners'
    <2> SUFFICES ASSUME NEW t \in Stats, heap'[t] # None
                 PROVE  \E f \in Fds : sock'[f] # None /\ fd_table'[f].timeout_data = t
        BY DEF Owners
    <2>1. CASE t = s
        BY <1>3, <1>4, <2>1, NoneIsNothing
    <2>2. CASE t # s
        <3>1. PICK f \in Fds : sock[f] # None /\ fd_table[f].timeout_data = t
            BY <1>5, <2>2 DEF Descriptors, Owners
        <3> QED
            BY <1>3, <1>4, <3>1
    <2> QED
        BY <2>1, <2>2
<1> QED
    BY <1>3, <1>4, <1>6, <1>9, <1>10, <1>11 DEF Descriptors

(* Open descriptors are closed, each with its ConnectStat.                 *)
LEMMA CloseKeeps ==
    ASSUME Descriptors, NEW fds \in SUBSET Fds, \A f \in fds : sock[f] # None,
           CloseAndFree(fds, {fd_table[f].timeout_data : f \in fds}),
           promised' = promised
    PROVE  /\ Descriptors'
           /\ \A f \in fds : sock'[f] = None
           /\ \A g \in Fds \ fds :
                 /\ sock'[g] = sock[g] /\ fd_table'[g] = fd_table[g]
                 /\ kernel'[g] = kernel[g]
<1> DEFINE freed == {fd_table[f].timeout_data : f \in fds}
<1>1. DescriptorTypes /\ OpenOrIdle /\ OnePerConn /\ Owners
    BY DEF Descriptors
<1>2. Cleared \in Entries
    BY TimesAssumption DEF Cleared, Entries, Handlers, NoTimeout
<1>3. /\ fd_table' \in [Fds -> Entries]
      /\ \A f \in fds : fd_table'[f] = Cleared
      /\ \A g \in Fds \ fds : fd_table'[g] = fd_table[g]
    BY <1>1, <1>2 DEF CloseAndFree, DescriptorTypes
<1>4. /\ epoll_state' \in [Fds -> SUBSET {"read", "write"}]
      /\ kernel' \in [Fds -> SUBSET {"read", "write"}]
      /\ sock' \in [Fds -> Conns \cup {None}]
      /\ \A f \in fds : epoll_state'[f] = {} /\ kernel'[f] = {} /\ sock'[f] = None
      /\ \A g \in Fds \ fds :
            epoll_state'[g] = epoll_state[g] /\ kernel'[g] = kernel[g] /\ sock'[g] = sock[g]
    BY <1>1 DEF CloseAndFree, DescriptorTypes
<1>5. /\ heap' \in [Stats -> ConnectStats \cup {None}]
      /\ \A s \in freed \cap Stats : heap'[s] = None
      /\ \A s \in Stats \ freed : heap'[s] = heap[s]
    BY <1>1 DEF CloseAndFree, DescriptorTypes
<1>6. /\ link' \in [Conns -> {"new", "backlog", "open", "closed"}]
      /\ \A c \in Conns : (\A f \in fds : sock[f] # c) => link'[c] = link[c]
    BY <1>1 DEF CloseAndFree, DescriptorTypes
<1>7. DescriptorTypes'
    BY <1>1, <1>3, <1>4, <1>5, <1>6 DEF DescriptorTypes
<1>8. ASSUME NEW f \in Fds
      PROVE  (sock'[f] # None => Ours(f)') /\ (sock'[f] = None => Idle(f)')
    <2>1. CASE f \in fds
        BY <1>3, <1>4, <2>1 DEF Idle, Cleared, NoHandler
    <2>2. CASE f \notin fds
        <3>1. (sock[f] # None => Ours(f)) /\ (sock[f] = None => Idle(f))
            BY <1>1 DEF OpenOrIdle
        <3>2. ASSUME sock[f] # None
              PROVE  link'[sock[f]] = link[sock[f]]
            BY <1>1, <1>6, <2>2, <3>1, <3>2 DEF OnePerConn, Ours
        <3>3. ASSUME sock[f] # None
              PROVE  heap'[fd_table[f].timeout_data] = heap[fd_table[f].timeout_data]
            <4>1. \A g \in fds : heap[fd_table[g].timeout_data].conn = sock[g] /\ sock[g] # sock[f]
                BY <1>1, <2>2, <3>3 DEF OpenOrIdle, OnePerConn, Ours
            <4>2. fd_table[f].timeout_data \in Stats \ freed
                BY <3>1, <3>3, <4>1 DEF Ours
            <4> QED
                BY <1>5, <4>2
        <3> QED
            BY <1>3, <1>4, <2>2, <3>1, <3>2, <3>3, SameDescriptor
    <2> QED
        BY <2>1, <2>2
<1>9. OpenOrIdle'
    BY <1>8 DEF OpenOrIdle
<1>10. OnePerConn'
    BY <1>1, <1>4 DEF OnePerConn
<1>11. Owners'
    <2> SUFFICES ASSUME NEW t \in Stats, heap'[t] # None
                 PROVE  \E f \in Fds : sock'[f] # None /\ fd_table'[f].timeout_data = t
        BY DEF Owners
    <2>1. t \notin freed /\ heap[t] # None
        BY <1>5
    <2>2. PICK f \in Fds : sock[f] # None /\ fd_table[f].timeout_data = t
        BY <1>1, <2>1 DEF Owners
    <2>3. f \notin fds
        BY <2>1, <2>2
    <2> QED
        BY <1>3, <1>4, <2>2, <2>3
<1> QED
    BY <1>4, <1>3, <1>7, <1>9, <1>10, <1>11 DEF Descriptors

-------------------------------------------------------------------------------
(* The events that are left stay true of their descriptors.                *)

LEMMA ReadHalfEvents ==
    ASSUME IInv, NEW e \in events,
           events' = events \ {e}, half' = e, peer' = peer,
           \A g \in Fds \ {e.fd} : sock[g] # None =>
               sock'[g] = sock[g] /\ kernel'[g] = kernel[g],
           e.fd # Listener => sock'[e.fd] \in {sock[e.fd], None},
           e.fd # Listener /\ e.out /\ ~e.in /\ ~e.hup =>
               sock'[e.fd] = sock[e.fd] /\ kernel'[e.fd] = kernel[e.fd]
    PROVE  Pending' /\ HalfDone'
<1>1. /\ events \subseteq Events
      /\ \A d \in events : d.fd # Listener =>
            /\ d.fd \in Fds /\ d.conn \in Conns /\ sock[d.fd] = d.conn
            /\ d.hup => peer[d.conn] = "reset"
            /\ d.in => kernel[d.fd] = {"read"}
            /\ d.out => kernel[d.fd] = {"write"}
      /\ \A d \in events : d.fd = e.fd => d = e
    BY DEF IInv, LoopTypes, Pending, Events
<1>2. Pending'
    <2>1. ASSUME NEW d \in events', d.fd # Listener
          PROVE  /\ d.conn \in Conns /\ sock'[d.fd] = d.conn
                 /\ d.hup => peer'[d.conn] = "reset"
                 /\ d.in => kernel'[d.fd] = {"read"}
                 /\ d.out => kernel'[d.fd] = {"write"}
        <3>1. d \in events /\ d.fd \in Fds \ {e.fd} /\ sock[d.fd] # None
            BY <1>1, <2>1, NoneIsNothing
        <3> QED
            BY <1>1, <2>1, <3>1
    <2> QED
        BY <2>1 DEF IInv, Pending
<1>3. HalfDone'
    <2>1. ASSUME e.fd # Listener, e.out, ~e.hup
          PROVE  sock'[e.fd] = e.conn /\ kernel'[e.fd] = {"write"}
        <3>1. kernel[e.fd] = {"write"} /\ ~e.in
            BY <1>1, <2>1
        <3> QED
            BY <1>1, <2>1, <3>1
    <2>2. \A d \in events' : d.fd # e.fd
        BY <1>1
    <2> QED
        BY <1>1, <2>1, <2>2 DEF HalfDone
<1> QED
    BY <1>2, <1>3

LEMMA WriteHalfEvents ==
    ASSUME IInv, mainpc = "half", events' = events, peer' = peer,
           mainpc' \in {"time", "handle"},
           \A g \in Fds \ {half.fd} : sock'[g] = sock[g] /\ kernel'[g] = kernel[g]
    PROVE  Pending' /\ HalfDone'
<1>1. ASSUME NEW d \in events, d.fd # Listener
      PROVE  d.fd \in Fds \ {half.fd}
    BY <1>1 DEF IInv, LoopTypes, HalfDone, Events
<1>2. Pending'
    BY <1>1 DEF IInv, Pending
<1>3. HalfDone'
    BY DEF HalfDone
<1> QED
    BY <1>2, <1>3

(* While descriptors stay as they are.                                     *)
LEMMA SameDescriptors ==
    ASSUME Descriptors, UNCHANGED <<fdVars, promised>>,
           link' \in [Conns -> {"new", "backlog", "open", "closed"}],
           \A c \in Conns : link[c] = "open" => link'[c] = "open"
    PROVE  Descriptors'
<1>1. DescriptorTypes'
    BY DEF Descriptors, DescriptorTypes, fdVars
<1>2. ASSUME NEW f \in Fds
      PROVE  (sock'[f] # None => Ours(f)') /\ (sock'[f] = None => Idle(f)')
    <2>1. (sock[f] # None => Ours(f)) /\ (sock[f] = None => Idle(f))
        BY DEF Descriptors, OpenOrIdle
    <2>2. sock[f] # None => link'[sock[f]] = link[sock[f]]
        BY <2>1 DEF Ours
    <2> QED
        BY <2>1, <2>2, SameDescriptor DEF fdVars
<1>3. OpenOrIdle'
    BY <1>2 DEF OpenOrIdle
<1>4. OnePerConn' /\ Owners'
    BY DEF Descriptors, OnePerConn, Owners, fdVars
<1> QED
    BY <1>1, <1>3, <1>4 DEF Descriptors

LEMMA InitInvariant == Init => IInv
<1> SUFFICES ASSUME Init PROVE IInv
    OBVIOUS
<1>1. Cleared \in Entries
    BY TimesAssumption DEF Cleared, Entries, Handlers, NoTimeout
<1>2. Descriptors
    <2>1. DescriptorTypes
        BY <1>1, TimesAssumption DEF Init, DescriptorTypes
    <2>2. OpenOrIdle /\ OnePerConn /\ Owners
        BY DEF Init, OpenOrIdle, OnePerConn, Owners, Idle
    <2> QED
        BY <2>1, <2>2 DEF Descriptors
<1>3. ClientTypes
    BY MaxMsgsAssumption DEF Init, ClientTypes
<1>4. LoopTypes
    BY DEF Init, LoopTypes
<1>5. Punctual /\ Pending /\ HalfDone /\ RepliesNotLost /\ EarlyOnlyAtStart
    BY DEF Init, Punctual, Pending, HalfDone, RepliesNotLost, EarlyOnlyAtStart
<1> QED
    BY <1>2, <1>3, <1>4, <1>5 DEF IInv

LEMMA StutterInvariant == IInv /\ UNCHANGED vars => IInv'
<1> SUFFICES ASSUME IInv, UNCHANGED vars PROVE IInv'
    OBVIOUS
<1>1. Descriptors'
    BY SameDescriptors DEF IInv, Descriptors, DescriptorTypes, vars, clientVars, fdVars, history
<1>2. ClientTypes' /\ LoopTypes'
    BY DEF IInv, ClientTypes, LoopTypes, vars, clientVars, loopVars, history
<1>3. Punctual' /\ Pending' /\ HalfDone' /\ RepliesNotLost' /\ EarlyOnlyAtStart'
    BY DEF IInv, Punctual, Pending, HalfDone, RepliesNotLost, EarlyOnlyAtStart,
           vars, clientVars, fdVars, loopVars, history
<1> QED
    BY <1>1, <1>2, <1>3 DEF IInv

(* What clients do changes no descriptor, and no reset is taken back.      *)
LEMMA ClientInvariant ==
    ASSUME IInv, NEW c \in Conns, Connect(c) \/ Send(c) \/ Leave(c)
    PROVE  IInv'
<1>1. UNCHANGED <<fdVars, loopVars, history>>
    BY DEF Connect, Send, Leave
<1>2. Descriptors'
    <2>1. /\ link' \in [Conns -> {"new", "backlog", "open", "closed"}]
          /\ \A d \in Conns : link[d] = "open" => link'[d] = "open"
        BY DEF IInv, Descriptors, DescriptorTypes, Connect, Send, Leave
    <2> QED
        BY <1>1, <2>1, SameDescriptors DEF IInv, history
<1>3. ClientTypes'
    BY MaxMsgsAssumption DEF IInv, ClientTypes, Connect, Send, Leave
<1>4. LoopTypes' /\ Punctual'
    BY <1>1 DEF IInv, LoopTypes, Punctual, fdVars, loopVars, history
<1>5. \A d \in Conns : peer[d] = "reset" => peer'[d] = "reset"
    BY DEF IInv, ClientTypes, Connect, Send, Leave
<1>6. Pending' /\ HalfDone'
    BY <1>1, <1>5 DEF IInv, Pending, HalfDone, fdVars, loopVars
<1>7. RepliesNotLost' /\ EarlyOnlyAtStart'
    BY <1>1, <1>5 DEF IInv, LoopTypes, RepliesNotLost, EarlyOnlyAtStart, history
<1> QED
    BY <1>2, <1>3, <1>4, <1>6, <1>7 DEF IInv

-------------------------------------------------------------------------------
(* The main loop                                                           *)

LEMMA WaitInvariant == ASSUME IInv, epoll_wait PROVE IInv'
<1>1. UNCHANGED <<clientVars, fdVars, half, due, started, history>>
    BY DEF epoll_wait
<1>2. Descriptors'
    BY <1>1, SameDescriptors DEF IInv, Descriptors, DescriptorTypes, clientVars, fdVars, history
<1>3. ClientTypes'
    BY <1>1 DEF IInv, ClientTypes, clientVars
<1>4. ASSUME NEW f \in Fds, kernel[f] # {}
      PROVE  /\ Event(f) \in Events /\ Event(f).fd = f /\ f # Listener
             /\ Event(f).conn = sock[f] /\ sock[f] \in Conns
             /\ Event(f).hup => peer[sock[f]] = "reset"
             /\ Event(f).in => kernel[f] = {"read"}
             /\ Event(f).out => kernel[f] = {"write"}
    <2>1. sock[f] # None /\ Ours(f)
        BY <1>4 DEF IInv, Descriptors, OpenOrIdle, Idle
    <2>2. sock[f] \in Conns /\ kernel[f] \in {{"read"}, {"write"}}
        BY <2>1 DEF Ours
    <2> DEFINE hup == peer[sock[f]] = "reset"
               in == "read" \in kernel[f] /\ (unread[sock[f]] > 0 \/ peer[sock[f]] # "here")
               out == "write" \in kernel[f]
    <2>3. Event(f) = [fd |-> f, conn |-> sock[f], hup |-> hup, in |-> in, out |-> out]
        BY DEF Event
    <2>4. hup \in BOOLEAN /\ in \in BOOLEAN /\ out \in BOOLEAN
        OBVIOUS
    <2>5. (in => kernel[f] = {"read"}) /\ (out => kernel[f] = {"write"})
        BY <2>2
    <2> HIDE DEF hup, in, out
    <2>6. Event(f) \in Events
        BY <2>2, <2>3, <2>4 DEF Events
    <2>7. /\ Event(f).fd = f /\ Event(f).conn = sock[f]
          /\ Event(f).hup = hup /\ Event(f).in = in /\ Event(f).out = out
        BY <2>3
    <2> USE DEF hup
    <2> QED
        BY <2>2, <2>5, <2>6, <2>7, FdsAssumption
<1>5. /\ Ready \subseteq {Event(f) : f \in {g \in Fds : kernel[g] # {}}}
      /\ \A e \in ListenerReady : e.fd = Listener /\ e \in Events
      /\ \A d, e \in ListenerReady : d = e
    <2>1. Ready \subseteq {Event(f) : f \in {g \in Fds : kernel[g] # {}}}
        BY DEF Ready
    <2> DEFINE call == [fd |-> Listener, conn |-> None, hup |-> FALSE, in |-> TRUE, out |-> FALSE]
    <2>2. call \in Events /\ call.fd = Listener
        BY DEF Events
    <2>3. ListenerReady \subseteq {call}
        BY DEF ListenerReady
    <2> HIDE DEF call
    <2> QED
        BY <2>1, <2>2, <2>3
<1>6. events' = Ready \cup ListenerReady /\ mainpc = "wait"
      /\ mainpc' = (IF events' = {} THEN "time" ELSE "handle")
    BY DEF epoll_wait
<1>7. ASSUME NEW e \in events'
      PROVE  \/ e.fd = Listener /\ e \in ListenerReady
             \/ e.fd # Listener /\ \E f \in Fds : kernel[f] # {} /\ e = Event(f) /\ e.fd = f
    BY <1>4, <1>5, <1>6, <1>7
<1>8. LoopTypes'
    <2>1. half = None /\ half' = None
        BY <1>1, <1>6 DEF IInv, LoopTypes
    <2>2. events' \subseteq Events
        BY <1>4, <1>5, <1>7
    <2>3. mainpc' \in {"time", "handle"} /\ (events' # {} => mainpc' = "handle")
        BY <1>6
    <2> QED
        BY <1>1, <2>1, <2>2, <2>3 DEF IInv, LoopTypes, history
<1>9. Pending'
    <2>1. ASSUME NEW e \in events', e.fd # Listener
          PROVE  /\ e.conn \in Conns /\ sock[e.fd] = e.conn
                 /\ e.hup => peer[e.conn] = "reset"
                 /\ e.in => kernel[e.fd] = {"read"}
                 /\ e.out => kernel[e.fd] = {"write"}
        BY <1>4, <1>7, <2>1
    <2>2. \A d, e \in events' : d.fd = e.fd => d = e
        BY <1>5, <1>7
    <2> QED
        BY <1>1, <2>1, <2>2 DEF Pending, clientVars, fdVars
<1>10. HalfDone'
    BY <1>6 DEF HalfDone
<1>11. Punctual' /\ RepliesNotLost' /\ EarlyOnlyAtStart'
    BY <1>1 DEF IInv, Punctual, RepliesNotLost, EarlyOnlyAtStart, clientVars, fdVars, history
<1> QED
    BY <1>2, <1>3, <1>8, <1>9, <1>10, <1>11 DEF IInv

LEMMA LaterBounded ==
    ASSUME NEW left \in 0..Long, NEW d \in {0, 1}
    PROVE  Later(left, d) \in 0..Long
BY TimesAssumption DEF Later

(* Deadlines come nearer; before the clock has been read, all are past.    *)
LEMMA TimeInvariant ==
    ASSUME IInv, NEW d \in {0, 1}, getCurrentTime(d)
    PROVE  IInv'
<1>1. UNCHANGED <<clientVars, sock, epoll_state, kernel, heap, events, half, first, early, lost>>
      /\ mainpc = "time" /\ mainpc' = "check" /\ started' = TRUE
      /\ due' = (due \/ d > 0 \/ ~started)
    BY DEF getCurrentTime
<1>2. DescriptorTypes /\ OpenOrIdle
    BY DEF IInv, Descriptors
<1>3. /\ promised' \in [Fds -> 0..Long]
      /\ \A f \in Fds : promised'[f] = Later(promised[f], d)
    BY <1>2, LaterBounded DEF DescriptorTypes, getCurrentTime
<1>4. ASSUME NEW f \in Fds
      PROVE  /\ fd_table'[f] \in Entries
             /\ fd_table'[f].read = fd_table[f].read
             /\ fd_table'[f].write = fd_table[f].write
             /\ fd_table'[f].timeout_data = fd_table[f].timeout_data
             /\ sock[f] = None => fd_table'[f] = fd_table[f]
             /\ sock[f] # None =>
                   fd_table'[f].left = (IF started THEN Later(fd_table[f].left, d) ELSE 0)
             /\ sock[f] # None => fd_table'[f].left \in 0..Long
    <2>1. fd_table[f] \in Entries
        BY <1>2 DEF DescriptorTypes
    <2>2. fd_table'[f] = IF fd_table[f].left = NoTimeout THEN fd_table[f]
              ELSE [fd_table[f] EXCEPT !.left = IF started THEN Later(@, d) ELSE 0]
        BY DEF getCurrentTime
    <2>3. CASE sock[f] = None
        <3>1. fd_table[f].left = NoTimeout
            BY <1>2, <2>3 DEF OpenOrIdle, Idle, Cleared
        <3> QED
            BY <2>1, <2>2, <2>3, <3>1
    <2>4. CASE sock[f] # None
        <3> DEFINE new == IF started THEN Later(fd_table[f].left, d) ELSE 0
        <3>1. fd_table[f].left \in 0..Long
            BY <1>2, <2>4 DEF OpenOrIdle, Ours
        <3>2. new \in 0..Long /\ new \in NoTimeout..Long
            BY <3>1, LaterBounded, TimesAssumption DEF NoTimeout
        <3>3. fd_table'[f] = [fd_table[f] EXCEPT !.left = new]
            BY <2>2, <3>1, Times
        <3> HIDE DEF new
        <3>4. /\ fd_table'[f] \in Entries
              /\ fd_table'[f].read = fd_table[f].read
              /\ fd_table'[f].write = fd_table[f].write
              /\ fd_table'[f].timeout_data = fd_table[f].timeout_data
              /\ fd_table'[f].left = new
            BY <2>1, <3>2, <3>3 DEF Entries
        <3> QED
            BY <2>4, <3>2, <3>4 DEF new
    <2> QED
        BY <2>3, <2>4
<1>5. Descriptors'
    <2>1. fd_table' \in [Fds -> Entries]
        <3>1. fd_table' = [f \in Fds |-> fd_table'[f]]
            BY DEF getCurrentTime
        <3> QED
            BY <1>4, <3>1
    <2>2. DescriptorTypes'
        BY <1>1, <1>2, <1>3, <2>1 DEF DescriptorTypes, clientVars
    <2>3. ASSUME NEW f \in Fds
          PROVE  (sock'[f] # None => Ours(f)') /\ (sock'[f] = None => Idle(f)')
        <3>1. CASE sock[f] = None
            BY <1>1, <1>2, <1>4, <3>1 DEF OpenOrIdle, Idle, Cleared, NoHandler
        <3>2. CASE sock[f] # None
            <4>1. Ours(f)
                BY <1>2, <3>2 DEF OpenOrIdle
            <4> QED
                BY <1>1, <1>4, <3>2, <4>1 DEF Ours, clientVars, NoHandler, Handler
        <3> QED
            BY <3>1, <3>2
    <2>4. OpenOrIdle'
        BY <2>3 DEF OpenOrIdle
    <2>5. OnePerConn' /\ Owners'
        BY <1>1, <1>4 DEF IInv, Descriptors, OnePerConn, Owners
    <2> QED
        BY <2>2, <2>4, <2>5 DEF Descriptors
<1>6. Punctual'
    <2>1. ASSUME NEW f \in Fds, sock[f] # None, sock[f] \notin first
          PROVE  fd_table'[f].left = promised'[f]
        <3>1. started /\ fd_table[f].left = promised[f]
            BY <2>1 DEF IInv, Punctual
        <3> QED
            BY <1>3, <1>4, <2>1, <3>1
    <2> QED
        BY <1>1, <2>1 DEF Punctual
<1>7. ClientTypes'
    BY <1>1 DEF IInv, ClientTypes, clientVars
<1>8. LoopTypes'
    <2>1. events = {} /\ half = None
        BY <1>1 DEF IInv, LoopTypes
    <2> QED
        BY <1>1, <2>1 DEF IInv, LoopTypes
<1>9. Pending' /\ HalfDone'
    BY <1>1 DEF IInv, Pending, HalfDone, LoopTypes
<1>10. RepliesNotLost' /\ EarlyOnlyAtStart'
    BY <1>1 DEF IInv, RepliesNotLost, EarlyOnlyAtStart, clientVars
<1> QED
    BY <1>5, <1>6, <1>7, <1>8, <1>9, <1>10 DEF IInv

(* Only descriptors in use have a deadline to miss, and one that is missed *)
(* before what was promised belongs to a connection of the start.          *)
LEMMA TimeoutInvariant == ASSUME IInv, checkTimeouts PROVE IInv'
<1> DEFINE expired == {f \in Fds : fd_table[f].left = 0}
<1>1. mainpc = "check" /\ mainpc' = "wait" /\ due' = FALSE
      /\ UNCHANGED <<events, half, started>>
    BY DEF checkTimeouts
<1>2. events = {} /\ half = None
    BY <1>1 DEF IInv, LoopTypes
<1>3. CASE ~due
    <2>1. UNCHANGED <<clientVars, fdVars, history>>
        BY <1>3 DEF checkTimeouts
    <2>2. Descriptors'
        BY <2>1, SameDescriptors DEF IInv, Descriptors, DescriptorTypes, clientVars, fdVars, history
    <2>3. ClientTypes' /\ LoopTypes'
        BY <1>1, <1>2, <2>1 DEF IInv, ClientTypes, LoopTypes, clientVars, history
    <2>4. Punctual' /\ Pending' /\ HalfDone' /\ RepliesNotLost' /\ EarlyOnlyAtStart'
        BY <1>1, <1>2, <2>1 DEF IInv, Punctual, Pending, HalfDone, RepliesNotLost, EarlyOnlyAtStart,
               clientVars, fdVars, history
    <2> QED
        BY <2>2, <2>3, <2>4 DEF IInv
<1>4. CASE due
    <2>1. /\ CloseAndFree(expired, {fd_table[f].timeout_data : f \in expired})
          /\ early' = early \cup {sock[f] : f \in {g \in expired : promised[g] > 0}}
          /\ UNCHANGED <<peer, sent, unread, promised, first, lost>>
        BY <1>4 DEF checkTimeouts
    <2>2. \A f \in expired : sock[f] # None
        BY DEF IInv, Descriptors, OpenOrIdle, Idle, Cleared, NoTimeout
    <2>3. /\ Descriptors'
          /\ \A f \in expired : sock'[f] = None
          /\ \A g \in Fds \ expired : sock'[g] = sock[g] /\ fd_table'[g] = fd_table[g]
        BY <2>1, <2>2, CloseKeeps DEF IInv
    <2>4. ASSUME NEW f \in expired, promised[f] > 0
          PROVE  sock[f] \in first
        BY <2>2, <2>4 DEF IInv, Punctual
    <2>5. EarlyOnlyAtStart' /\ RepliesNotLost'
        BY <2>1, <2>4 DEF IInv, EarlyOnlyAtStart, RepliesNotLost
    <2>6. ClientTypes'
        BY <2>1 DEF IInv, ClientTypes
    <2>7. first' \cup early' \cup lost' \subseteq Conns
        BY <2>1, <2>4 DEF IInv, LoopTypes
    <2>8. LoopTypes'
        BY <1>1, <1>2, <2>7 DEF IInv, LoopTypes
    <2>9. Punctual'
        BY <1>1, <2>1, <2>3 DEF IInv, Punctual
    <2>10. Pending' /\ HalfDone'
        BY <1>1, <1>2 DEF Pending, HalfDone
    <2> QED
        BY <2>3, <2>5, <2>6, <2>8, <2>9, <2>10 DEF IInv
<1> QED
    BY <1>3, <1>4 DEF IInv, LoopTypes

-------------------------------------------------------------------------------
(* The two halves of comm_call_handlers                                    *)

(* A half in which no handler changes anything.                            *)
LEMMA NothingDone ==
    ASSUME IInv, UNCHANGED <<clientVars, fdVars, history>>
    PROVE  /\ Descriptors' /\ ClientTypes'
           /\ started' = started => Punctual'
           /\ RepliesNotLost' /\ EarlyOnlyAtStart'
<1>1. Descriptors'
    BY SameDescriptors DEF IInv, Descriptors, DescriptorTypes, clientVars, fdVars, history
<1> QED
    BY <1>1 DEF IInv, ClientTypes, Punctual, RepliesNotLost, EarlyOnlyAtStart,
            clientVars, fdVars, history

(* The loop moves from one half to the other.                              *)
LEMMA ReadHalfTypes ==
    ASSUME LoopTypes, NEW e \in events, events' = events \ {e}, half' = e, mainpc' = "half",
           UNCHANGED <<due, started>>, first' \cup early' \cup lost' \subseteq Conns
    PROVE  LoopTypes'
<1>1. e \in Events /\ e # None
    BY NoneIsNothing DEF LoopTypes
<1> QED
    BY <1>1 DEF LoopTypes

LEMMA WriteHalfTypes ==
    ASSUME LoopTypes, mainpc = "half", half' = None, UNCHANGED <<events, due, started>>,
           mainpc' = (IF events = {} THEN "time" ELSE "handle"),
           first' \cup early' \cup lost' \subseteq Conns
    PROVE  LoopTypes'
BY DEF LoopTypes

LEMMA AcceptInvariant ==
    ASSUME IInv, NEW e \in events, e.fd = Listener,
           events' = events \ {e}, half' = e, mainpc' = "half", UNCHANGED <<due, started>>,
           accept_connection
    PROVE  IInv'
<1>1. CASE HandlerFails
    <2>1. UNCHANGED <<clientVars, fdVars, history>>
        BY <1>1 DEF HandlerFails
    <2>2. LoopTypes'
        BY <2>1, ReadHalfTypes DEF IInv, LoopTypes, history
    <2>3. Pending' /\ HalfDone'
        BY <2>1, ReadHalfEvents DEF clientVars, fdVars
    <2> QED
        BY <2>1, <2>2, <2>3, NothingDone DEF IInv
<1>2. ASSUME NEW fd \in {f \in Fds : sock[f] = None}, NEW c \in Conns, NEW s \in Stats,
             link[c] = "backlog", heap[s] = None,
             link' = [link EXCEPT ![c] = "open"],
             sock' = [sock EXCEPT ![fd] = c],
             heap' = [heap EXCEPT ![s] = [conn |-> c, reply |-> FALSE]],
             Await(fd, "write", Handler("welcome", s), Long),
             first' = (IF started THEN first ELSE first \cup {c}),
             UNCHANGED <<peer, sent, unread, early, lost>>
      PROVE  IInv'
    <2>1. /\ Descriptors'
          /\ fd_table'[fd].left = promised'[fd]
          /\ \A g \in Fds \ {fd} :
                /\ sock'[g] = sock[g] /\ fd_table'[g] = fd_table[g]
                /\ promised'[g] = promised[g] /\ kernel'[g] = kernel[g]
        BY <1>2, AcceptKeeps DEF IInv
    <2>2. ClientTypes'
        BY <1>2 DEF IInv, ClientTypes
    <2>3. LoopTypes'
        BY <1>2, ReadHalfTypes DEF IInv, LoopTypes
    <2>4. Pending' /\ HalfDone'
        <3>1. \A g \in Fds \ {e.fd} : sock[g] # None =>
                  sock'[g] = sock[g] /\ kernel'[g] = kernel[g]
            BY <1>2, <2>1
        <3> QED
            BY <1>2, <3>1, ReadHalfEvents
    <2>5. Punctual'
        <3>1. sock'[fd] = c /\ (c \notin first' => started)
            BY <1>2 DEF IInv, Descriptors, DescriptorTypes
        <3> QED
            BY <1>2, <2>1, <3>1 DEF IInv, Punctual
    <2>6. RepliesNotLost' /\ EarlyOnlyAtStart'
        BY <1>2 DEF IInv, RepliesNotLost, EarlyOnlyAtStart
    <2> QED
        BY <2>1, <2>2, <2>3, <2>4, <2>5, <2>6 DEF IInv
<1> QED
    BY <1>1, <1>2 DEF accept_connection

(* A message is read or the connection is closed; a reply is overwritten   *)
(* only in an event of EPOLLHUP.                                           *)
LEMMA EchoInvariant ==
    ASSUME IInv, NEW e \in events, e.fd # Listener, e.in \/ e.hup,
           events' = events \ {e}, half' = e, mainpc' = "half", UNCHANGED <<due, started>>,
           fd_table[e.fd].read.call = "echo",
           do_echo_handler(e.fd, fd_table[e.fd].read.data)
    PROVE  IInv'
<1> DEFINE fd == e.fd
           s == fd_table[fd].timeout_data
           c == sock[fd]
<1>1. /\ fd \in Fds /\ c \in Conns /\ c = e.conn
      /\ e.hup => peer[c] = "reset"
      /\ e.in => kernel[fd] = {"read"}
    BY DEF IInv, LoopTypes, Pending, Events
<1>2. c # None /\ Ours(fd)
    BY <1>1, NoneIsNothing DEF IInv, Descriptors, OpenOrIdle
<1>3. /\ s \in Stats /\ heap[s] \in ConnectStats /\ heap[s].conn = c
      /\ fd_table[fd].read.data = s
    BY <1>2 DEF Ours, Handler, NoHandler
<1>4. heap[s].reply => peer[c] = "reset"
    BY <1>1, <1>2 DEF Ours
<1>5. CASE HandlerFails
    <2>1. UNCHANGED <<clientVars, fdVars, history>>
        BY <1>5 DEF HandlerFails
    <2>2. LoopTypes'
        BY <2>1, ReadHalfTypes DEF IInv, LoopTypes, history
    <2>3. Pending' /\ HalfDone'
        BY <2>1, ReadHalfEvents DEF clientVars, fdVars
    <2> QED
        BY <2>1, <2>2, <2>3, NothingDone DEF IInv
<1>6. ASSUME CloseAndFree({fd}, {s}), UNCHANGED <<peer, sent, history>>,
             unread' = unread \/ (unread[c] > 0 /\ unread' = [unread EXCEPT ![c] = @ - 1])
      PROVE  IInv'
    <2>1. {fd_table[f].timeout_data : f \in {fd}} = {s} /\ promised' = promised
        BY <1>6 DEF history
    <2>2. /\ Descriptors' /\ sock'[fd] = None
          /\ \A g \in Fds \ {fd} :
                /\ sock'[g] = sock[g] /\ fd_table'[g] = fd_table[g] /\ kernel'[g] = kernel[g]
        <3>1. CloseAndFree({fd}, {fd_table[f].timeout_data : f \in {fd}})
            BY <1>6, <2>1
        <3>2. {fd} \in SUBSET Fds /\ \A f \in {fd} : sock[f] # None
            BY <1>1, <1>2
        <3> HIDE DEF fd, s
        <3> QED
            BY <2>1, <3>1, <3>2, CloseKeeps DEF IInv
    <2>3. ClientTypes'
        BY <1>1, <1>6 DEF IInv, ClientTypes
    <2>4. LoopTypes'
        BY <1>6, ReadHalfTypes DEF IInv, LoopTypes, history
    <2>5. Pending' /\ HalfDone'
        BY <1>6, <2>2, ReadHalfEvents
    <2>6. Punctual'
        BY <1>6, <2>1, <2>2 DEF IInv, Punctual, history
    <2>7. RepliesNotLost' /\ EarlyOnlyAtStart'
        BY <1>6 DEF IInv, RepliesNotLost, EarlyOnlyAtStart, history
    <2> QED
        BY <2>2, <2>3, <2>4, <2>5, <2>6, <2>7 DEF IInv
<1>7. ASSUME unread[c] > 0, unread' = [unread EXCEPT ![c] = @ - 1],
             heap' = [heap EXCEPT ![s].reply = TRUE],
             Await(fd, "write", Handler("reply", s), Short),
             lost' = (IF heap[s].reply THEN lost \cup {c} ELSE lost),
             UNCHANGED <<link, peer, sent, sock, first, early>>
      PROVE  IInv'
    <2>1. /\ heap' \in [Stats -> ConnectStats \cup {None}]
          /\ heap'[s] \in ConnectStats /\ heap'[s].conn = c /\ heap'[s].reply = TRUE
          /\ \A t \in Stats : t # s => heap'[t] = heap[t]
        BY <1>3, <1>7 DEF IInv, Descriptors, DescriptorTypes, ConnectStats
    <2>2. /\ Descriptors'
          /\ fd_table'[fd].left = promised'[fd]
          /\ \A g \in Fds \ {fd} :
                /\ fd_table'[g] = fd_table[g] /\ promised'[g] = promised[g]
                /\ kernel'[g] = kernel[g]
        <3> HIDE DEF fd
        <3> QED
            BY <1>1, <1>2, <1>7, <2>1, RegisterKeeps DEF IInv
    <2>3. ClientTypes'
        BY <1>1, <1>7 DEF IInv, ClientTypes
    <2>4. LoopTypes'
        BY <1>1, <1>7, ReadHalfTypes DEF IInv, LoopTypes
    <2>5. Pending' /\ HalfDone'
        BY <1>7, <2>2, ReadHalfEvents
    <2>6. Punctual'
        BY <1>7, <2>2 DEF IInv, Punctual
    <2>7. RepliesNotLost' /\ EarlyOnlyAtStart'
        BY <1>4, <1>7 DEF IInv, RepliesNotLost, EarlyOnlyAtStart
    <2> QED
        BY <2>2, <2>3, <2>4, <2>5, <2>6, <2>7 DEF IInv
<1> QED
    BY <1>3, <1>5, <1>6, <1>7 DEF do_echo_handler

LEMMA ReadHalfInvariant == ASSUME IInv, NEW e \in events, ReadHalf(e) PROVE IInv'
<1>1. events' = events \ {e} /\ half' = e /\ mainpc' = "half" /\ UNCHANGED <<due, started>>
    BY DEF ReadHalf
<1>2. CASE e.fd = Listener
    BY <1>1, <1>2, AcceptInvariant DEF ReadHalf
<1>3. CASE UNCHANGED <<clientVars, fdVars, history>>
    <2>1. LoopTypes'
        BY <1>1, <1>3, ReadHalfTypes DEF IInv, LoopTypes, history
    <2>2. Pending' /\ HalfDone'
        BY <1>1, <1>3, ReadHalfEvents DEF clientVars, fdVars
    <2> QED
        BY <1>1, <1>3, <2>1, <2>2, NothingDone DEF IInv
<1>4. CASE e.fd # Listener /\ ~(e.in \/ e.hup)
    BY <1>3, <1>4 DEF ReadHalf, Call, NoHandler
<1>5. CASE e.fd # Listener /\ (e.in \/ e.hup)
    <2>1. Call(e.fd, fd_table[e.fd].read) /\ e.fd \in Fds
        BY <1>5 DEF ReadHalf, IInv, LoopTypes, Events
    <2>2. fd_table[e.fd].read.call \in {"none", "echo"}
        BY <2>1 DEF IInv, Descriptors, DescriptorTypes, Entries, Handlers, NoHandler
    <2> QED
        BY <1>1, <1>3, <1>5, <2>1, <2>2, EchoInvariant DEF Call
<1> QED
    BY <1>2, <1>4, <1>5

(* The welcome or the reply is written, unless the peer has reset the      *)
(* connection or the read half has closed it.                              *)
LEMMA WriteHalfInvariant == ASSUME IInv, WriteHalf PROVE IInv'
<1> DEFINE fd == half.fd
           s == fd_table[fd].timeout_data
<1>1. /\ mainpc = "half" /\ half' = None /\ UNCHANGED <<events, due, started>>
      /\ mainpc' = (IF events = {} THEN "time" ELSE "handle")
    BY DEF WriteHalf
<1>2. CASE UNCHANGED <<clientVars, fdVars, history>>
    <2>1. LoopTypes'
        BY <1>1, <1>2, WriteHalfTypes DEF IInv, LoopTypes, history
    <2>2. Pending' /\ HalfDone'
        BY <1>1, <1>2, WriteHalfEvents DEF clientVars, fdVars
    <2> QED
        BY <1>1, <1>2, <2>1, <2>2, NothingDone DEF IInv
<1>3. CASE half.fd # Listener /\ (half.out \/ half.hup) /\ Call(fd, fd_table[fd].write)
    <2>1. /\ fd \in Fds /\ half.conn \in Conns /\ sock[fd] \in {half.conn, None}
          /\ half.hup => peer[half.conn] = "reset"
          /\ half.out /\ ~half.hup => sock[fd] = half.conn /\ kernel[fd] = {"write"}
        BY <1>1, <1>3 DEF IInv, LoopTypes, HalfDone, Events
    <2>2. CASE sock[fd] = None
        <3>1. fd_table[fd].write.call = "none"
            BY <2>1, <2>2 DEF IInv, Descriptors, OpenOrIdle, Idle, Cleared, NoHandler
        <3> QED
            BY <1>2, <1>3, <3>1 DEF Call
    <2>3. CASE sock[fd] # None
        <3>1. Ours(fd) /\ sock[fd] = half.conn
            BY <2>1, <2>3 DEF IInv, Descriptors, OpenOrIdle
        <3>2. /\ s \in Stats /\ heap[s] \in ConnectStats /\ heap[s].conn = sock[fd]
              /\ fd_table[fd].write.call \in {"none", "welcome", "reply"}
              /\ fd_table[fd].write.call # "none" => fd_table[fd].write.data = s
            BY <3>1 DEF Ours, NoHandler, Handler
        <3>3. CASE fd_table[fd].write.call = "none" \/ HandlerFails
            BY <1>2, <1>3, <3>3 DEF Call, HandlerFails
        <3>4. ASSUME peer[sock[fd]] # "reset",
                     heap' \in [Stats -> ConnectStats \cup {None}],
                     heap'[s] \in ConnectStats, heap'[s].conn = sock[fd], heap'[s].reply = FALSE,
                     \A t \in Stats : t # s => heap'[t] = heap[t],
                     Await(fd, "read", Handler("echo", s), Short),
                     UNCHANGED <<clientVars, sock, first, early, lost>>
              PROVE  IInv'
            <4>1. /\ Descriptors'
                  /\ fd_table'[fd].left = promised'[fd]
                  /\ \A g \in Fds \ {fd} :
                        /\ fd_table'[g] = fd_table[g] /\ promised'[g] = promised[g]
                        /\ kernel'[g] = kernel[g]
                <5>1. link' = link
                    BY <3>4 DEF clientVars
                <5> HIDE DEF fd
                <5> QED
                    BY <2>1, <2>3, <3>4, <5>1, RegisterKeeps DEF IInv
            <4>2. ClientTypes'
                BY <3>4 DEF IInv, ClientTypes, clientVars
            <4>3. LoopTypes'
                BY <1>1, <3>4, WriteHalfTypes DEF IInv, LoopTypes
            <4>4. Pending' /\ HalfDone'
                BY <1>1, <3>4, <4>1, WriteHalfEvents DEF clientVars
            <4>5. Punctual'
                BY <1>1, <3>4, <4>1 DEF IInv, Punctual
            <4>6. RepliesNotLost' /\ EarlyOnlyAtStart'
                BY <3>4 DEF IInv, RepliesNotLost, EarlyOnlyAtStart, clientVars
            <4> QED
                BY <4>1, <4>2, <4>3, <4>4, <4>5, <4>6 DEF IInv
        <3>5. CASE fd_table[fd].write.call = "welcome" /\ ~HandlerFails
            <4>1. /\ peer[sock[fd]] # "reset"
                  /\ Await(fd, "read", Handler("echo", s), Short)
                  /\ UNCHANGED <<clientVars, sock, heap, first, early, lost>>
                BY <1>3, <3>2, <3>5 DEF Call, do_welcome_handler
            <4>2. heap[s].reply = FALSE
                BY <1>3, <2>1, <3>1, <3>5, <4>1 DEF Ours
            <4> QED
                BY <3>2, <3>4, <4>1, <4>2 DEF IInv, Descriptors, DescriptorTypes
        <3>6. CASE fd_table[fd].write.call = "reply" /\ ~HandlerFails
            <4>1. /\ peer[sock[fd]] # "reset"
                  /\ heap' = [heap EXCEPT ![s].reply = FALSE]
                  /\ Await(fd, "read", Handler("echo", s), Short)
                  /\ UNCHANGED <<clientVars, sock, first, early, lost>>
                BY <1>3, <3>2, <3>6 DEF Call, do_echo_response
            <4>2. /\ heap' \in [Stats -> ConnectStats \cup {None}]
                  /\ heap'[s] \in ConnectStats /\ heap'[s].conn = sock[fd]
                  /\ heap'[s].reply = FALSE
                  /\ \A t \in Stats : t # s => heap'[t] = heap[t]
                BY <3>2, <4>1 DEF IInv, Descriptors, DescriptorTypes, ConnectStats
            <4> QED
                BY <3>4, <4>1, <4>2
        <3> QED
            BY <3>2, <3>3, <3>5, <3>6
    <2> QED
        BY <2>2, <2>3
<1> QED
    BY <1>2, <1>3 DEF WriteHalf

-------------------------------------------------------------------------------
(* The properties                                                          *)

LEMMA NextInvariant == IInv /\ [Next]_vars => IInv'
<1> SUFFICES ASSUME IInv, [Next]_vars PROVE IInv'
    OBVIOUS
<1>1. ASSUME NEW c \in Conns, Connect(c) \/ Send(c) \/ Leave(c) PROVE IInv'
    BY <1>1, ClientInvariant
<1>2. CASE epoll_wait
    BY <1>2, WaitInvariant
<1>3. ASSUME NEW e \in events, ReadHalf(e) PROVE IInv'
    BY <1>3, ReadHalfInvariant
<1>4. CASE WriteHalf
    BY <1>4, WriteHalfInvariant
<1>5. ASSUME NEW d \in {0, 1}, getCurrentTime(d) PROVE IInv'
    BY <1>5, TimeInvariant
<1>6. CASE checkTimeouts
    BY <1>6, TimeoutInvariant
<1>7. CASE UNCHANGED vars
    BY <1>7, StutterInvariant
<1> QED
    BY <1>1, <1>2, <1>3, <1>4, <1>5, <1>6, <1>7 DEF Next

LEMMA Invariant == Spec => []IInv
BY InitInvariant, NextInvariant, PTL DEF Spec

(* No handler, no timeout and no event belongs to a connection that is no  *)
(* more, although handlers close descriptors whose events wait and accept  *)
(* gives their numbers away in the same round.                             *)
THEOREM NothingIsEverStale == Spec => []NothingIsStale
<1>1. IInv => NothingIsStale
    <2> SUFFICES ASSUME IInv PROVE NothingIsStale
        OBVIOUS
    <2>1. TypeOK
        BY DEF IInv, Descriptors, DescriptorTypes, ClientTypes, LoopTypes, TypeOK
    <2>2. EntriesAreCurrent
        <3>1. ASSUME NEW f \in Fds, sock[f] # None
              PROVE  LET e == fd_table[f]
                         Mine(s) == s \in Stats /\ heap[s] # None /\ heap[s].conn = sock[f]
                     IN  /\ \A h \in {e.read, e.write} : h = NoHandler \/ Mine(h.data)
                         /\ Mine(e.timeout_data) /\ e.left # NoTimeout
            <4>1. Ours(f)
                BY <3>1 DEF IInv, Descriptors, OpenOrIdle
            <4> QED
                BY <4>1, NoneIsNothing, Times DEF Ours, Handler, NoHandler
        <3>2. \A f \in Fds : sock[f] = None => fd_table[f] = Cleared /\ epoll_state[f] = {}
            BY DEF IInv, Descriptors, OpenOrIdle, Idle
        <3>3. ASSUME NEW s \in Stats, heap[s] # None
              PROVE  \E f \in Fds : sock[f] = heap[s].conn /\ fd_table[f].timeout_data = s
            BY <3>3 DEF IInv, Descriptors, Owners, OpenOrIdle, Ours
        <3> QED
            BY <3>1, <3>2, <3>3 DEF EntriesAreCurrent
    <2>3. EventsAreCurrent
        BY DEF IInv, Pending, HalfDone, EventsAreCurrent
    <2> QED
        BY <2>1, <2>2, <2>3 DEF NothingIsStale
<1> QED
    BY <1>1, Invariant, PTL

(* An open connection waits for the one thing it has to do, with the       *)
(* handler for it registered, and epoll has been told.                     *)
THEOREM InterestsAlwaysFit == Spec => []InterestFits
<1>1. IInv => InterestFits
    <2> SUFFICES ASSUME IInv, NEW f \in Fds, sock[f] # None
                 PROVE  LET e == fd_table[f] IN
                        /\ kernel[f] = epoll_state[f]
                        /\ \/ kernel[f] = {"read"} /\ e.read.call = "echo" /\ ~heap[e.read.data].reply
                           \/ /\ kernel[f] = {"write"}
                              /\ e.write.call = IF heap[e.write.data].reply THEN "reply" ELSE "welcome"
        BY DEF InterestFits
    <2>1. Ours(f)
        BY DEF IInv, Descriptors, OpenOrIdle
    <2> QED
        BY <2>1 DEF Ours, Handler, NoHandler
<1> QED
    BY <1>1, Invariant, PTL

(* A reply is overwritten only when its peer has reset the connection.     *)
THEOREM RepliesAreWritten == Spec => []RepliesNotLost
<1>1. IInv => RepliesNotLost
    BY DEF IInv
<1> QED
    BY <1>1, Invariant, PTL

(* Whoever was accepted after the clock was first read has its full time.  *)
THEOREM DeadlinesAreKept == Spec => []EarlyOnlyAtStart
<1>1. IInv => EarlyOnlyAtStart
    BY DEF IInv
<1> QED
    BY <1>1, Invariant, PTL
===============================================================================
