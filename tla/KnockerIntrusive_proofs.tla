----------------------- MODULE KnockerIntrusive_proofs -----------------------
(***************************************************************************)
(* Proofs about KnockerIntrusive, for any table of descriptors, any range  *)
(* of ports and any limit.                                                 *)
(***************************************************************************)
EXTENDS KnockerIntrusive, SequenceTheorems, FiniteSetTheorems, TLAPS

-----------------------------------------------------------------------------
(* The links of the table spell out the history, forwards and backwards.     *)
Linked ==
  /\ head = IF order = <<>> THEN none ELSE order[1]
  /\ tail = IF order = <<>> THEN none ELSE order[Len(order)]
  /\ \A n \in 1 .. Len(order) :
       /\ prev[order[n]] = IF n = 1 THEN none ELSE order[n - 1]
       /\ next[order[n]] = IF n = Len(order) THEN none ELSE order[n + 1]

\* The list, the table, the kernel and the counter agree.
ListAgrees ==
  /\ Linked
  /\ \A fd \in Fds : active[fd] <=> fd \in InFlight
  /\ InFlight = OpenFds
  /\ in_flight_count = Len(order) /\ in_flight_count <= MAX_IN_FLIGHT
-----------------------------------------------------------------------------
(* The inductive invariant: what else is true of every state.                *)

\* The history names every open socket once, even behind a stale event.
OrderIsOpen ==
  /\ \A m, n \in 1 .. Len(order) : m # n => order[m] # order[n]
  /\ \A fd \in Fds : fd \in InFlight <=> sock[fd] # "closed"

\* The table's start time is that of the port in the epoll payload; sockets are
\* appended in the order of their ports, and no port is ahead of the fill loop.
StartedInOrder ==
  /\ start_time = dialed
  /\ \A fd \in Fds : dialed[fd] < port
  /\ \A m, n \in 1 .. Len(order) : m < n => start_time[order[m]] < start_time[order[n]]

\* The events still to be handled are of different sockets.  Since epoll_wait
\* returned them their socket was not dialed again, and if it was closed, the
\* sweep closed it and gave its port up.
EventsAreOfThisBatch ==
  /\ batch # <<>> => pc \in {"dispatch", "sweep"}
  /\ \A n \in 1 .. Len(batch) :
       batch[n] # TimerEvent =>
         /\ batch[n].fd \in Fds
         /\ batch[n].port = dialed[batch[n].fd] /\ batch[n].port \in Ports
         /\ sock[batch[n].fd] # "pending"
         /\ sock[batch[n].fd] = "closed" => batch[n].port \in timed_out
  /\ \A m, n \in 1 .. Len(batch) : m # n => batch[m].fd # batch[n].fd

\* A socket that is open was dialed, and if it is connected, its port accepted.
ConnectedIsOpened ==
  \A fd \in Fds : /\ sock[fd] # "closed" => dialed[fd] \in Ports
                  /\ sock[fd] = "connected" => dialed[fd] \in opened

IInv ==
  /\ ListInvariant
  /\ OrderIsOpen
  /\ StartedInOrder
  /\ EventsAreOfThisBatch
  /\ ConnectedIsOpened
  /\ AnswersAreTrue
-----------------------------------------------------------------------------
(* Descriptors, positions and events.                                        *)

\* A descriptor is neither the end of a list nor the timer.
LEMMA FdsAreIndices ==
  /\ \A fd \in Fds : fd \in Nat /\ fd # none /\ fd # timer_fd
  /\ Fds \subseteq Indices /\ none \in Indices
BY KnockerAssumption DEF none, Indices

\* No list is so short that the counter stops.
LEMMA CountsAreInts == CountFloor \in Int /\ CountFloor < 0 /\ MAX_IN_FLIGHT \in Nat \ {0}
BY KnockerAssumption DEF CountFloor

\* Positions in the history.
LEMMA PositionsAreFds ==
  ASSUME TypeOK
  PROVE  /\ Len(order) \in Nat
         /\ \A n \in 1 .. Len(order) : order[n] \in Fds
         /\ order = <<>> <=> Len(order) = 0
         /\ InFlight \subseteq Fds
<1>1. order \in Seq(Fds)
  BY DEF TypeOK
<1>2. Len(order) \in Nat /\ \A n \in 1 .. Len(order) : order[n] \in Fds
  BY <1>1, LenProperties, ElementOfSeq
<1>3. order = <<>> <=> Len(order) = 0
  BY <1>1, EmptySeq
<1> QED BY <1>2, <1>3 DEF InFlight

\* The history with one more descriptor.
LEMMA AppendToOrder ==
  ASSUME TypeOK, NEW fd \in Fds, order' = Append(order, fd)
  PROVE  /\ order' \in Seq(Fds)
         /\ Len(order') = Len(order) + 1
         /\ \A n \in 1 .. Len(order) : order'[n] = order[n]
         /\ order'[Len(order) + 1] = fd
         /\ InFlight' = InFlight \cup {fd}
<1>1. /\ order' \in Seq(Fds)
      /\ Len(order') = Len(order) + 1
      /\ \A n \in 1 .. Len(order) : order'[n] = order[n]
      /\ order'[Len(order) + 1] = fd
  BY AppendProperties DEF TypeOK
<1>2. Len(order) \in Nat
  BY PositionsAreFds
<1>3. 1 .. Len(order) + 1 = (1 .. Len(order)) \cup {Len(order) + 1}
  BY <1>2
<1>4. InFlight' = {order'[n] : n \in 1 .. Len(order) + 1}
  BY <1>1 DEF InFlight
<1> QED BY <1>1, <1>3, <1>4 DEF InFlight

\* The history without a descriptor it names.
LEMMA WithoutShifts ==
  ASSUME TypeOK, OrderIsOpen, NEW fd \in InFlight
  PROVE  /\ Place(fd) \in 1 .. Len(order) /\ order[Place(fd)] = fd
         /\ Without(fd) \in Seq(Fds)
         /\ Len(Without(fd)) = Len(order) - 1
         /\ \A n \in 1 .. Len(order) - 1 :
              Without(fd)[n] = IF n < Place(fd) THEN order[n] ELSE order[n + 1]
<1>1. Place(fd) \in 1 .. Len(order) /\ order[Place(fd)] = fd
  BY DEF Place, InFlight
<1> DEFINE k == Place(fd)
           f == [n \in 1 .. Len(order) - 1 |-> order[IF n < k THEN n ELSE n + 1]]
<1>2. Without(fd) = f
  BY DEF Without
<1> HIDE DEF k
<1>3. Len(order) \in Nat /\ \A n \in 1 .. Len(order) : order[n] \in Fds
  BY PositionsAreFds
<1>4. Len(order) - 1 \in Nat
  BY <1>1, <1>3
<1>5. \A n \in 1 .. Len(order) - 1 : f[n] = IF n < k THEN order[n] ELSE order[n + 1]
  OBVIOUS
<1>6. \A n \in 1 .. Len(order) - 1 : f[n] \in Fds
  BY <1>3, <1>5
<1>7. f \in [1 .. Len(order) - 1 -> Fds]
  BY <1>6
<1>8. f \in Seq(Fds) /\ Len(f) = Len(order) - 1
  BY <1>4, <1>7, SeqDef, LenProperties
<1> QED BY <1>1, <1>2, <1>5, <1>8 DEF k

\* A descriptor that the history does not name changes nothing.
LEMMA WithoutStranger ==
  ASSUME NEW fd, fd \notin InFlight
  PROVE  Without(fd) = order
BY DEF Without

\* Removing a descriptor from the history, in either case.
LEMMA WithoutRemoves ==
  ASSUME TypeOK, OrderIsOpen, NEW fd \in Fds, order' = Without(fd)
  PROVE  /\ order' \in Seq(Fds)
         /\ InFlight' = InFlight \ {fd}
         /\ \A m, n \in 1 .. Len(order') : m # n => order'[m] # order'[n]
         /\ \A m, n \in 1 .. Len(order') : m < n =>
              \E i, j \in 1 .. Len(order) : i < j /\ order'[m] = order[i] /\ order'[n] = order[j]
<1>1. CASE fd \notin InFlight
  <2>1. order' = order /\ order \in Seq(Fds)
    BY <1>1, WithoutStranger DEF TypeOK
  <2>2. InFlight' = InFlight
    BY <2>1 DEF InFlight
  <2> QED BY <1>1, <2>1, <2>2 DEF OrderIsOpen
<1>2. CASE fd \in InFlight
  <2> DEFINE k == Place(fd)
  <2>1. /\ k \in 1 .. Len(order) /\ order[k] = fd
        /\ order' \in Seq(Fds)
        /\ Len(order') = Len(order) - 1
        /\ \A n \in 1 .. Len(order) - 1 : order'[n] = IF n < k THEN order[n] ELSE order[n + 1]
    BY <1>2, WithoutShifts
  <2> HIDE DEF k
  <2>2. Len(order) \in Nat
    BY PositionsAreFds
  <2>3. \A m, n \in 1 .. Len(order) : m # n => order[m] # order[n]
    BY DEF OrderIsOpen
  <2>4. \A m, n \in 1 .. Len(order') : m < n =>
          \E i, j \in 1 .. Len(order) : i < j /\ order'[m] = order[i] /\ order'[n] = order[j]
    <3> SUFFICES ASSUME NEW m \in 1 .. Len(order'), NEW n \in 1 .. Len(order'), m < n
                 PROVE  \E i, j \in 1 .. Len(order) :
                          i < j /\ order'[m] = order[i] /\ order'[n] = order[j]
      OBVIOUS
    <3> DEFINE i == IF m < k THEN m ELSE m + 1
               j == IF n < k THEN n ELSE n + 1
    <3>1. i \in 1 .. Len(order) /\ j \in 1 .. Len(order) /\ i < j
      BY <2>1, <2>2
    <3>2. order'[m] = order[i] /\ order'[n] = order[j]
      BY <2>1
    <3> QED BY <3>1, <3>2
  <2>5. \A m, n \in 1 .. Len(order') : m # n => order'[m] # order'[n]
    <3>1. \A m, n \in 1 .. Len(order') : m < n => order'[m] # order'[n]
      BY <2>1, <2>2, <2>3
    <3> QED BY <2>1, <2>2, <3>1
  <2>6. \A x \in InFlight' : x \in InFlight /\ x # fd
    <3>1. ASSUME NEW n \in 1 .. Len(order) - 1
          PROVE  \E i \in 1 .. Len(order) : i # k /\ order'[n] = order[i]
      <4>1. CASE n < k
        BY <4>1, <2>1, <2>2
      <4>2. CASE ~(n < k)
        <5>1. n + 1 \in 1 .. Len(order) /\ n + 1 # k
          BY <4>2, <2>1, <2>2
        <5> QED BY <5>1, <4>2, <2>1
      <4> QED BY <4>1, <4>2
    <3> QED BY <3>1, <2>1, <2>3 DEF InFlight
  <2>7. \A x \in InFlight : x # fd => x \in InFlight'
    <3> SUFFICES ASSUME NEW i \in 1 .. Len(order), i # k
                 PROVE  order[i] \in InFlight'
      BY <2>1 DEF InFlight
    <3>1. CASE i < k
      <4>1. i \in 1 .. Len(order) - 1 /\ order'[i] = order[i]
        BY <3>1, <2>1, <2>2
      <4> QED BY <4>1, <2>1 DEF InFlight
    <3>2. CASE ~(i < k)
      <4>1. i - 1 \in 1 .. Len(order) - 1 /\ ~(i - 1 < k) /\ (i - 1) + 1 = i
        BY <3>2, <2>1, <2>2
      <4>2. order'[i - 1] = order[i]
        BY <4>1, <2>1
      <4> QED BY <4>1, <4>2, <2>1 DEF InFlight
    <3> QED BY <3>1, <3>2
  <2> QED BY <2>1, <2>4, <2>5, <2>6, <2>7
<1> QED BY <1>1, <1>2
-----------------------------------------------------------------------------
(* The operations on the list.                                               *)

\* Inserting at the tail appends to the list.
LEMMA InsertKeepsLinks ==
  ASSUME TypeOK, OrderIsOpen, Linked, NEW fd \in Fds, fd \notin InFlight,
         list_insert_tail(fd), order' = Append(order, fd)
  PROVE  Linked'
<1> DEFINE last == Len(order)
<1>1. /\ last \in Nat
      /\ \A n \in 1 .. last : order[n] \in Fds /\ order[n] # fd /\ order[n] # none
      /\ order = <<>> <=> last = 0
  BY PositionsAreFds, FdsAreIndices DEF InFlight
<1>2. /\ Len(order') = last + 1
      /\ \A n \in 1 .. last : order'[n] = order[n]
      /\ order'[last + 1] = fd
      /\ order' # <<>>
  <2>1. order' \in Seq(Fds) /\ Len(order') = last + 1
    BY AppendToOrder
  <2>2. order' # <<>>
    BY <2>1, <1>1, EmptySeq
  <2> QED BY <2>1, <2>2, AppendToOrder
<1>3. \A m, n \in 1 .. last : m # n => order[m] # order[n]
  BY DEF OrderIsOpen
<1>4. tail = none <=> last = 0
  BY <1>1 DEF Linked
<1>5. head' = order'[1] /\ tail' = order'[last + 1]
  BY <1>1, <1>2, <1>4 DEF Linked, list_insert_tail
<1>6. \A f \in Fds : f # fd => prev'[f] = prev[f]
  BY DEF TypeOK, list_insert_tail
<1>7. prev'[fd] = IF last = 0 THEN none ELSE order[last]
  BY <1>1, <1>4 DEF TypeOK, Linked, list_insert_tail
<1>8. next'[fd] = none
  <2>1. CASE tail = none
    BY <2>1 DEF TypeOK, list_insert_tail
  <2>2. CASE tail # none
    <3>1. tail # fd
      BY <2>2, <1>1, <1>4 DEF Linked
    <3> QED BY <2>2, <3>1 DEF TypeOK, list_insert_tail
  <2> QED BY <2>1, <2>2
<1>9. \A n \in 1 .. last : next'[order[n]] = IF n = last THEN fd ELSE next[order[n]]
  <2> SUFFICES ASSUME NEW n \in 1 .. last
               PROVE  next'[order[n]] = IF n = last THEN fd ELSE next[order[n]]
    OBVIOUS
  <2>1. tail = order[last] /\ tail # none /\ last \in 1 .. last
    BY <1>1, <1>4 DEF Linked
  <2>2. \A f \in Fds : f # fd => next'[f] = IF f = order[last] THEN fd ELSE next[f]
    BY <2>1 DEF TypeOK, list_insert_tail
  <2>3. order[n] = order[last] <=> n = last
    BY <2>1, <1>3
  <2> QED BY <1>1, <2>2, <2>3
<1>10. \A n \in 1 .. last + 1 :
         /\ prev'[order'[n]] = IF n = 1 THEN none ELSE order'[n - 1]
         /\ next'[order'[n]] = IF n = last + 1 THEN none ELSE order'[n + 1]
  <2>1. ASSUME NEW n \in 1 .. last
        PROVE  /\ prev'[order'[n]] = IF n = 1 THEN none ELSE order'[n - 1]
               /\ next'[order'[n]] = order'[n + 1]
    <3>1. prev'[order'[n]] = IF n = 1 THEN none ELSE order[n - 1]
      BY <1>1, <1>2, <1>6 DEF Linked
    <3>2. n # 1 => order'[n - 1] = order[n - 1]
      BY <1>1, <1>2
    <3>3. next'[order'[n]] = IF n = last THEN fd ELSE order[n + 1]
      BY <1>1, <1>2, <1>9 DEF Linked
    <3>4. n # last => order'[n + 1] = order[n + 1]
      BY <1>1, <1>2
    <3> QED BY <1>2, <3>1, <3>2, <3>3, <3>4
  <2>2. /\ prev'[order'[last + 1]] = IF last + 1 = 1 THEN none ELSE order'[last]
        /\ next'[order'[last + 1]] = none
    BY <1>1, <1>2, <1>7, <1>8
  <2>3. ASSUME NEW n \in 1 .. last + 1, n # last + 1 PROVE n \in 1 .. last
    BY <1>1, <2>3
  <2>4. (last + 1) - 1 = last
    BY <1>1
  <2> QED BY <1>1, <2>1, <2>2, <2>3, <2>4
<1> QED BY <1>2, <1>5, <1>10 DEF Linked

\* Unlinking removes from the list, be it the head, the tail, the middle or all
\* of it.
LEMMA UnlinkKeepsLinks ==
  ASSUME TypeOK, OrderIsOpen, Linked, NEW fd \in InFlight,
         list_unlink(fd), order' = Without(fd)
  PROVE  Linked'
<1> DEFINE k == Place(fd)
           last == Len(order)
<1>1. /\ last \in Nat
      /\ \A n \in 1 .. last : order[n] \in Fds /\ order[n] # none
      /\ order = <<>> <=> last = 0
      /\ fd \in Fds
  BY PositionsAreFds, FdsAreIndices
<1>2. /\ k \in 1 .. last /\ order[k] = fd
      /\ order' \in Seq(Fds) /\ Len(order') = last - 1
      /\ \A n \in 1 .. last - 1 : order'[n] = IF n < k THEN order[n] ELSE order[n + 1]
  BY WithoutShifts
<1>3. \A m, n \in 1 .. last : order[m] = order[n] <=> m = n
  BY DEF OrderIsOpen
<1> HIDE DEF k
<1>4. /\ order' = <<>> <=> last = 1
      /\ last - 1 \in Nat
  BY <1>1, <1>2, EmptySeq
<1>5. /\ prev[fd] = IF k = 1 THEN none ELSE order[k - 1]
      /\ next[fd] = IF k = last THEN none ELSE order[k + 1]
  BY <1>2 DEF Linked
<1>6. /\ prev[fd] = none <=> k = 1
      /\ next[fd] = none <=> k = last
      /\ k # 1 => k - 1 \in 1 .. last
      /\ k # last => k + 1 \in 1 .. last
  <2>1. k # 1 => k - 1 \in 1 .. last
    BY <1>1, <1>2
  <2>2. k # last => k + 1 \in 1 .. last
    BY <1>1, <1>2
  <2> QED BY <1>1, <1>5, <2>1, <2>2
<1>7. head' = IF order' = <<>> THEN none ELSE order'[1]
  <2>1. head = order[1]
    BY <1>1, <1>2 DEF Linked
  <2>2. head' = IF k = 1 THEN next[fd] ELSE order[1]
    BY <1>6, <2>1 DEF list_unlink
  <2>3. last # 1 => order'[1] = IF 1 < k THEN order[1] ELSE order[2]
    BY <1>1, <1>2
  <2> QED BY <1>1, <1>2, <1>4, <1>5, <2>2, <2>3
<1>8. tail' = IF order' = <<>> THEN none ELSE order'[last - 1]
  <2>1. tail = order[last]
    BY <1>1, <1>2 DEF Linked
  <2>2. tail' = IF k = last THEN prev[fd] ELSE order[last]
    BY <1>6, <2>1 DEF list_unlink
  <2>3. last # 1 => order'[last - 1] = IF last - 1 < k THEN order[last - 1] ELSE order[last]
    BY <1>1, <1>2
  <2> QED BY <1>1, <1>2, <1>4, <1>5, <2>2, <2>3
<1>9. \A n \in 1 .. last :
        next'[order[n]] = IF k # 1 /\ n = k - 1 THEN next[fd] ELSE next[order[n]]
  <2>1. \A f \in Fds : next'[f] = IF k # 1 /\ f = order[k - 1] THEN next[fd] ELSE next[f]
    BY <1>1, <1>5, <1>6 DEF TypeOK, list_unlink
  <2> QED BY <1>1, <1>3, <1>6, <2>1
<1>10. \A n \in 1 .. last :
         prev'[order[n]] = IF k # last /\ n = k + 1 THEN prev[fd] ELSE prev[order[n]]
  <2>1. \A f \in Fds : prev'[f] = IF k # last /\ f = order[k + 1] THEN prev[fd] ELSE prev[f]
    BY <1>1, <1>5, <1>6 DEF TypeOK, list_unlink
  <2> QED BY <1>1, <1>3, <1>6, <2>1
<1>11. ASSUME NEW n \in 1 .. last - 1
       PROVE  next'[order'[n]] = IF n = last - 1 THEN none ELSE order'[n + 1]
  <2>0. n \in 1 .. last /\ n + 1 \in 1 .. last /\ n \in Int
    BY <1>1
  <2>1. CASE n < k
    <3>1. order'[n] = order[n]
      BY <2>1, <1>2
    <3>2. next'[order[n]] = IF n = k - 1 THEN next[fd] ELSE order[n + 1]
      <4>1. n # last
        BY <1>1
      <4>2. k # 1
        BY <2>1, <2>0
      <4> QED BY <4>1, <4>2, <2>0, <1>9 DEF Linked
    <3>3. CASE n = k - 1
      <4>1. n + 1 = k /\ (n = last - 1 <=> k = last)
        BY <3>3, <2>0, <1>1, <1>2
      <4>2. n # last - 1 => order'[n + 1] = order[k + 1]
        <5> SUFFICES ASSUME n # last - 1 PROVE order'[n + 1] = order[k + 1]
          OBVIOUS
        <5>1. k \in 1 .. last - 1
          BY <4>1, <1>1, <1>2
        <5>2. ~(k < k)
          BY <1>2
        <5> QED BY <4>1, <5>1, <5>2, <1>2
      <4> QED BY <3>1, <3>2, <3>3, <4>1, <4>2, <1>5
    <3>4. CASE n # k - 1
      <4>1. n + 1 < k /\ n # last - 1 /\ n + 1 \in 1 .. last - 1
        BY <3>4, <2>1, <2>0, <1>1, <1>2
      <4> QED BY <3>1, <3>2, <3>4, <4>1, <1>2
    <3> QED BY <3>3, <3>4
  <2>2. CASE ~(n < k)
    <3>1. order'[n] = order[n + 1]
      BY <2>2, <1>2
    <3>2. n + 1 # k - 1
      BY <2>2, <2>0, <1>1, <1>2
    <3>3. next'[order[n + 1]] = IF n + 1 = last THEN none ELSE order[(n + 1) + 1]
      BY <2>0, <3>2, <1>9 DEF Linked
    <3>4. n # last - 1 => order'[n + 1] = order[(n + 1) + 1]
      <4> SUFFICES ASSUME n # last - 1 PROVE order'[n + 1] = order[(n + 1) + 1]
        OBVIOUS
      <4>1. n + 1 \in 1 .. last - 1 /\ ~(n + 1 < k)
        BY <2>2, <2>0, <1>1, <1>2
      <4> QED BY <4>1, <1>2
    <3>5. n + 1 = last <=> n = last - 1
      BY <1>1, <2>0
    <3> QED BY <3>1, <3>3, <3>4, <3>5
  <2> QED BY <2>1, <2>2
<1>12. ASSUME NEW n \in 1 .. last - 1
       PROVE  prev'[order'[n]] = IF n = 1 THEN none ELSE order'[n - 1]
  <2>0. n \in 1 .. last /\ n + 1 \in 1 .. last /\ n \in Int
    BY <1>1
  <2>1. CASE n < k
    <3>1. order'[n] = order[n] /\ n # k + 1
      BY <2>1, <2>0, <1>2
    <3>2. prev'[order[n]] = IF n = 1 THEN none ELSE order[n - 1]
      BY <2>0, <3>1, <1>10 DEF Linked
    <3>3. n # 1 => order'[n - 1] = order[n - 1]
      <4> SUFFICES ASSUME n # 1 PROVE order'[n - 1] = order[n - 1]
        OBVIOUS
      <4>1. n - 1 \in 1 .. last - 1 /\ n - 1 < k
        BY <2>1, <2>0, <1>1, <1>2
      <4> QED BY <4>1, <1>2
    <3> QED BY <3>1, <3>2, <3>3
  <2>2. CASE ~(n < k)
    <3>1. order'[n] = order[n + 1] /\ n + 1 # 1 /\ (n + 1) - 1 = n
      BY <2>2, <2>0, <1>2
    <3>2. prev'[order[n + 1]] = IF n = k THEN prev[fd] ELSE order[n]
      <4>1. k # last
        BY <2>2, <1>1, <1>2
      <4>2. n + 1 = k + 1 <=> n = k
        BY <2>0, <1>2
      <4>3. prev[order[n + 1]] = order[n]
        BY <2>0, <3>1 DEF Linked
      <4> QED BY <2>0, <4>1, <4>2, <4>3, <1>10
    <3>3. n # 1 => order'[n - 1] = IF n = k THEN order[k - 1] ELSE order[n]
      <4> SUFFICES ASSUME n # 1 PROVE order'[n - 1] = IF n = k THEN order[k - 1] ELSE order[n]
        OBVIOUS
      <4>1. n - 1 \in 1 .. last - 1 /\ (n - 1 < k <=> n = k) /\ (n - 1) + 1 = n
        BY <2>2, <2>0, <1>1, <1>2
      <4> QED BY <4>1, <1>2
    <3>4. n = 1 => k = 1
      BY <2>2, <1>2
    <3> QED BY <3>1, <3>2, <3>3, <3>4, <1>5
  <2> QED BY <2>1, <2>2
<1> QED BY <1>2, <1>7, <1>8, <1>11, <1>12 DEF Linked
-----------------------------------------------------------------------------
(* What the parts of a step do to the list.                                  *)

\* A step that leaves the list alone and opens and closes no socket.
LEMMA QuietKeepsList ==
  ASSUME TypeOK, ListIsInFlight, OrderIsOpen, UNCHANGED listVars, UNCHANGED stale,
         \A fd \in Fds : sock'[fd] = "closed" <=> sock[fd] = "closed"
  PROVE  ListIsInFlight' /\ OrderIsOpen'
<1>1. InFlight' = InFlight /\ OpenFds' = OpenFds
  BY DEF listVars, InFlight, OpenFds, FreeFds
<1>2. OrderIsOpen'
  BY <1>1 DEF OrderIsOpen, listVars
<1> QED BY <1>1, <1>2 DEF ListIsInFlight, listVars

\* The invariant in terms of Linked.
LEMMA ListInParts == OrderIsOpen => (ListIsInFlight <=> (~stale => ListAgrees))
BY DEF ListIsInFlight, ListAgrees, Linked, OrderIsOpen

\* A socket is dialed and linked at the tail.
LEMMA DialKeepsList ==
  ASSUME TypeOK, ListIsInFlight, OrderIsOpen, MayDial,
         NEW fd \in Fds, Dial(fd, port), list_insert_tail(fd),
         active' = [active EXCEPT ![fd] = TRUE],
         order' = Append(order, fd),
         in_flight_count' = in_flight_count + 1, UNCHANGED stale
  PROVE  ListIsInFlight' /\ OrderIsOpen'
<1>1. sock[fd] = "closed" /\ fd \notin InFlight
  BY DEF Dial, Lowest, FreeFds, OrderIsOpen
<1>2. \A f \in Fds : sock'[f] = IF f = fd THEN "pending" ELSE sock[f]
  BY DEF Dial, TypeOK, KernelTypeOK
<1>3. InFlight' = InFlight \cup {fd} /\ Len(order') = Len(order) + 1 /\ InFlight \subseteq Fds
  BY AppendToOrder, PositionsAreFds
<1>4. OrderIsOpen'
  <2>1. \A m, n \in 1 .. Len(order') : m # n => order'[m] # order'[n]
    <3>1. \A n \in 1 .. Len(order) : order[n] # fd
      BY <1>1 DEF InFlight
    <3> QED BY <3>1, AppendToOrder, PositionsAreFds DEF OrderIsOpen
  <2>2. \A f \in Fds : f \in InFlight' <=> sock'[f] # "closed"
    BY <1>1, <1>2, <1>3 DEF OrderIsOpen
  <2> QED BY <2>1, <2>2 DEF OrderIsOpen
<1>5. ASSUME ~stale
      PROVE  ListAgrees'
  <2>1. /\ Linked
        /\ \A f \in Fds : active[f] <=> f \in InFlight
        /\ in_flight_count = Len(order)
    BY <1>5, ListInParts DEF ListAgrees
  <2>2. Linked'
    BY <1>1, <2>1, InsertKeepsLinks
  <2>3. \A f \in Fds : active'[f] = IF f = fd THEN TRUE ELSE active[f]
    BY DEF TypeOK
  <2>4. InFlight' = OpenFds'
    BY <1>2, <1>3, <1>4 DEF OrderIsOpen, OpenFds, FreeFds
  <2>5. in_flight_count' = Len(order') /\ in_flight_count' <= MAX_IN_FLIGHT
    BY <1>3, <2>1, PositionsAreFds, KnockerAssumption DEF MayDial
  <2> QED BY <1>3, <2>1, <2>2, <2>3, <2>4, <2>5 DEF ListAgrees
<1>6. OrderIsOpen' => (ListIsInFlight' <=> (~stale' => ListAgrees'))
  BY ListInParts, PTL
<1> QED BY <1>4, <1>5, <1>6

\* A socket is unlinked and closed; it was in flight, or the flag goes up.
LEMMA DropKeepsList ==
  ASSUME TypeOK, ListIsInFlight, OrderIsOpen,
         NEW fd \in Fds, Drop(fd), Close(fd),
         stale \/ active[fd] \/ stale', stale => stale'
  PROVE  ListIsInFlight' /\ OrderIsOpen'
<1>1. \A f \in Fds : sock'[f] = IF f = fd THEN "closed" ELSE sock[f]
  BY DEF Close, TypeOK, KernelTypeOK
<1>2. order' = Without(fd)
  BY DEF Drop
<1>3. /\ InFlight' = InFlight \ {fd} /\ InFlight \subseteq Fds
      /\ \A m, n \in 1 .. Len(order') : m # n => order'[m] # order'[n]
  BY <1>2, WithoutRemoves, PositionsAreFds
<1>4. OrderIsOpen'
  BY <1>1, <1>3 DEF OrderIsOpen
<1>5. ASSUME ~stale'
      PROVE  ListAgrees'
  <2>1. /\ Linked
        /\ \A f \in Fds : active[f] <=> f \in InFlight
        /\ in_flight_count = Len(order) /\ in_flight_count <= MAX_IN_FLIGHT
    BY <1>5, ListInParts DEF ListAgrees
  <2>2. fd \in InFlight
    BY <1>5, <2>1
  <2>3. Linked'
    BY <1>2, <2>1, <2>2, UnlinkKeepsLinks DEF Drop
  <2>4. \A f \in Fds : active'[f] = IF f = fd THEN FALSE ELSE active[f]
    BY DEF TypeOK, Drop
  <2>5. InFlight' = OpenFds'
    BY <1>1, <1>3, <1>4 DEF OrderIsOpen, OpenFds, FreeFds
  <2>6. Len(order') = Len(order) - 1
    BY <1>2, <2>2, WithoutShifts
  <2>7. in_flight_count' = Len(order') /\ in_flight_count' <= MAX_IN_FLIGHT
    <3>1. Len(order) \in Nat /\ Len(order') = Len(order) - 1 /\ Len(order') \in Nat
      BY <2>6, <1>2, <2>2, WithoutShifts, PositionsAreFds, LenProperties
    <3>2. in_flight_count > CountFloor
      BY <2>1, <3>1, CountsAreInts
    <3> QED BY <2>1, <3>1, <3>2, KnockerAssumption DEF Drop
  <2> QED BY <1>3, <2>1, <2>3, <2>4, <2>5, <2>7 DEF ListAgrees
<1>6. OrderIsOpen' => (ListIsInFlight' <=> (~stale' => ListAgrees'))
  BY ListInParts, PTL
<1> QED BY <1>4, <1>5, <1>6
-----------------------------------------------------------------------------
(* epoll_wait.                                                               *)

\* There are finitely many ready events.
LEMMA ReadyIsFinite ==
  ASSUME KernelTypeOK
  PROVE  IsFiniteSet(ReadyEvents)
<1> DEFINE S == {f \in Fds : sock[f] \in {"connected", "refused"}}
           T == {[fd |-> fd, port |-> dialed[fd]] : fd \in S}
           g == [fd \in S |-> [fd |-> fd, port |-> dialed[fd]]]
<1>1. IsFiniteSet(S)
  BY FS_Subset, KnockerAssumption
<1>2. g \in Surjection(S, T)
  BY DEF Surjection
<1>3. IsFiniteSet(T)
  BY <1>1, <1>2, FS_Surjection
<1>4. IsFiniteSet(T \cup {TimerEvent})
  BY <1>3, FS_AddElement
<1> QED BY <1>3, <1>4 DEF ReadyEvents

\* A ready event is that of the timer, or of a socket that has an answer.
LEMMA ReadyHasAnswer ==
  ASSUME KernelTypeOK, NEW e \in ReadyEvents
  PROVE  /\ e \in [fd : Fds \cup {timer_fd}, port : Ports \cup {0}]
         /\ e = TimerEvent \/ (e.fd \in Fds /\ e.port = dialed[e.fd]
                                /\ sock[e.fd] \in {"connected", "refused"})
<1>1. TimerEvent \in [fd : Fds \cup {timer_fd}, port : Ports \cup {0}]
  BY DEF TimerEvent
<1>2. CASE e = TimerEvent
  BY <1>1, <1>2
<1>3. ASSUME NEW fd \in Fds, sock[fd] \in {"connected", "refused"},
             e = [fd |-> fd, port |-> dialed[fd]]
      PROVE  /\ e \in [fd : Fds \cup {timer_fd}, port : Ports \cup {0}]
             /\ e.fd \in Fds /\ e.port = dialed[e.fd]
             /\ sock[e.fd] \in {"connected", "refused"}
  <2>1. dialed[fd] \in Ports \cup {0}
    BY DEF KernelTypeOK
  <2> QED BY <1>3, <2>1
<1>4. e = TimerEvent \/ \E fd \in Fds : /\ sock[fd] \in {"connected", "refused"}
                                       /\ e = [fd |-> fd, port |-> dialed[fd]]
  BY DEF ReadyEvents
<1> QED BY <1>2, <1>3, <1>4

\* A batch names different descriptors.
LEMMA BatchIsOfReady ==
  ASSUME KernelTypeOK, NEW b \in Batches
  PROVE  /\ b \in Seq(ReadyEvents)
         /\ \A n \in 1 .. Len(b) : b[n] \in ReadyEvents
         /\ \A m, n \in 1 .. Len(b) : m # n => b[m].fd # b[n].fd
<1> DEFINE ready == Cardinality(ReadyEvents)
           last == IF ready <= MAX_EVENTS THEN ready ELSE MAX_EVENTS
<1>1. b \in [1 .. last -> ReadyEvents] /\ \A m, n \in 1 .. last : b[m] = b[n] => m = n
  BY DEF Batches
<1>2. last \in Nat
  BY ReadyIsFinite, FS_CardinalityType, KnockerAssumption
<1> HIDE DEF last
<1>3. b \in Seq(ReadyEvents) /\ Len(b) = last
  BY <1>1, <1>2, SeqDef, LenProperties
<1>4. ASSUME NEW d \in ReadyEvents, NEW e \in ReadyEvents, d.fd = e.fd PROVE d = e
  <2>1. TimerEvent.fd = timer_fd /\ timer_fd \notin Fds
    BY KnockerAssumption DEF TimerEvent
  <2>2. \/ d = TimerEvent
        \/ \E fd \in Fds : d = [fd |-> fd, port |-> dialed[fd]]
    BY DEF ReadyEvents
  <2>3. \/ e = TimerEvent
        \/ \E fd \in Fds : e = [fd |-> fd, port |-> dialed[fd]]
    BY DEF ReadyEvents
  <2> QED BY <1>4, <2>1, <2>2, <2>3
<1> QED BY <1>1, <1>3, <1>4
-----------------------------------------------------------------------------
(* Type correctness.                                                         *)

\* The ports of a scan.
LEMMA PortsAreNaturals ==
  /\ start_port \in Nat /\ start_port > 0 /\ end_port \in Nat /\ start_port <= end_port
  /\ Ports \subseteq Nat /\ 0 \notin Ports
BY KnockerAssumption DEF Ports

LEMMA InitTypeOK == Init => TypeOK
<1> SUFFICES ASSUME Init PROVE TypeOK
  OBVIOUS
<1>1. <<>> \in Seq(Fds) /\ <<>> \in Seq([fd : Fds \cup {timer_fd}, port : Ports \cup {0}])
  BY EmptySeq
<1>2. start_port \in start_port .. end_port + 1
  BY PortsAreNaturals
<1>3. KernelInit => KernelTypeOK
  BY <1>2 DEF KernelInit, KernelTypeOK, SockStates
<1>4. KernelInit
  BY DEF Init
<1>5. /\ active \in [Fds -> BOOLEAN] /\ start_time \in [Fds -> Ports \cup {0}]
      /\ next \in [Fds -> Indices] /\ prev \in [Fds -> Indices]
      /\ head \in Indices /\ tail \in Indices /\ in_flight_count \in CountFloor .. MAX_IN_FLIGHT
  BY FdsAreIndices, CountsAreInts DEF Init
<1> QED BY <1>1, <1>2, <1>3, <1>4, <1>5 DEF Init, TypeOK

\* Closing and dialing.
LEMMA DropTypeOK ==
  ASSUME TypeOK, OrderIsOpen, NEW fd \in Fds, Drop(fd), Close(fd)
  PROVE  /\ KernelTypeOK'
         /\ active' \in [Fds -> BOOLEAN] /\ start_time' = start_time
         /\ next' \in [Fds -> Indices] /\ prev' \in [Fds -> Indices]
         /\ head' \in Indices /\ tail' \in Indices
         /\ in_flight_count' \in CountFloor .. MAX_IN_FLIGHT
         /\ order' \in Seq(Fds)
<1>1. KernelTypeOK'
  BY DEF TypeOK, KernelTypeOK, Close, SockStates
<1>2. order' \in Seq(Fds)
  BY WithoutRemoves DEF Drop
<1>3. next[fd] \in Indices /\ prev[fd] \in Indices
  BY DEF TypeOK
<1>4. /\ next' \in [Fds -> Indices] /\ prev' \in [Fds -> Indices]
      /\ head' \in Indices /\ tail' \in Indices
  BY <1>3 DEF TypeOK, Drop, list_unlink
<1>5. active' \in [Fds -> BOOLEAN] /\ start_time' = start_time
  BY DEF TypeOK, Drop
<1>6. in_flight_count' \in CountFloor .. MAX_IN_FLIGHT
  BY CountsAreInts DEF TypeOK, Drop
<1> QED BY <1>1, <1>2, <1>4, <1>5, <1>6

LEMMA DialTypeOK ==
  ASSUME TypeOK, DialInProgress
  PROVE  TypeOK'
<1>1. PICK fd \in Fds :
        /\ Dial(fd, port)
        /\ active' = [active EXCEPT ![fd] = TRUE]
        /\ start_time' = [start_time EXCEPT ![fd] = port]
        /\ list_insert_tail(fd)
        /\ order' = Append(order, fd)
  BY DEF DialInProgress
<1>2. port \in Ports /\ port + 1 \in start_port .. end_port + 1
  BY PortsAreNaturals DEF DialInProgress, MayDial, TypeOK, Ports
<1>3. KernelTypeOK'
  BY <1>1, <1>2 DEF Dial, TypeOK, KernelTypeOK, SockStates
<1>4. order' \in Seq(Fds)
  BY <1>1, AppendToOrder
<1>5. /\ next' \in [Fds -> Indices] /\ prev' \in [Fds -> Indices]
      /\ head' \in Indices /\ tail' \in Indices
  BY <1>1, FdsAreIndices DEF TypeOK, list_insert_tail
<1>6. active' \in [Fds -> BOOLEAN] /\ start_time' \in [Fds -> Ports \cup {0}]
  BY <1>1, <1>2 DEF TypeOK
<1>7. in_flight_count' \in CountFloor .. MAX_IN_FLIGHT
  BY CountsAreInts DEF DialInProgress, MayDial, TypeOK
<1> QED BY <1>2, <1>3, <1>4, <1>5, <1>6, <1>7 DEF DialInProgress, TypeOK

\* What is left of a batch.
LEMMA TailOfBatch ==
  ASSUME TypeOK, batch # <<>>, batch' = Tail(batch)
  PROVE  /\ batch' \in Seq([fd : Fds \cup {timer_fd}, port : Ports \cup {0}])
         /\ Len(batch) \in Nat \ {0} /\ Len(batch') = Len(batch) - 1
         /\ \A n \in 1 .. Len(batch) - 1 : batch'[n] = batch[n + 1]
         /\ Head(batch) = batch[1]
BY HeadTailProperties, EmptySeq, LenProperties DEF TypeOK

LEMMA NextTypeOK ==
  ASSUME TypeOK, OrderIsOpen, EventsAreOfThisBatch, ConnectedIsOpened, [Next]_vars
  PROVE  TypeOK'
<1> USE DEF TypeOK, listVars, kernelVars, progVars
<1>1. CASE DialInProgress
  BY <1>1, DialTypeOK
<1>2. CASE DialResolved
  <2>1. port \in Ports /\ port + 1 \in start_port .. end_port + 1
    BY <1>2, PortsAreNaturals DEF DialResolved, MayDial, Ports
  <2>2. KernelTypeOK'
    BY <1>2, <2>1 DEF DialResolved, KernelTypeOK
  <2> QED BY <1>2, <2>1, <2>2 DEF DialResolved
<1>3. CASE DialFails
  BY <1>3 DEF DialFails, KernelTypeOK
<1>4. CASE Wait
  <2>1. PICK b \in Batches : batch' = b
    BY <1>4 DEF Wait
  <2>2. b \in Seq(ReadyEvents) /\ \A n \in 1 .. Len(b) : b[n] \in ReadyEvents
    BY BatchIsOfReady
  <2>3. \A n \in 1 .. Len(b) : b[n] \in [fd : Fds \cup {timer_fd}, port : Ports \cup {0}]
    BY <2>2, ReadyHasAnswer
  <2>4. b \in Seq([fd : Fds \cup {timer_fd}, port : Ports \cup {0}])
    <3> DEFINE E == [fd : Fds \cup {timer_fd}, port : Ports \cup {0}]
    <3>1. Len(b) \in Nat /\ b \in [1 .. Len(b) -> ReadyEvents]
      BY <2>2, LenProperties
    <3>2. \A n \in 1 .. Len(b) : b[n] \in E
      BY <2>3
    <3> HIDE DEF E
    <3>3. b \in [1 .. Len(b) -> E]
      BY <3>1, <3>2
    <3>4. b \in Seq(E)
      BY <3>1, <3>3, SeqDef
    <3> QED BY <3>4 DEF E
  <2> QED BY <1>4, <2>1, <2>4 DEF Wait, KernelTypeOK
<1>5. CASE StartSweep
  BY <1>5, TailOfBatch DEF StartSweep, KernelTypeOK
<1>6. CASE SweepHead
  <2>1. head \in Fds
    BY <1>6 DEF SweepHead, HeadExpired, Indices
  <2>2. start_time[head] \in Ports \cup {0}
    BY <2>1
  <2>3. Drop(head) /\ Close(head)
    BY <1>6 DEF SweepHead
  <2> QED BY <1>6, <2>1, <2>2, <2>3, DropTypeOK DEF SweepHead
<1>7. CASE EndSweep
  BY <1>7 DEF EndSweep, KernelTypeOK
<1>8. CASE Handle
  <2> DEFINE e == Head(batch)
  <2>1. /\ batch # <<>> /\ e # TimerEvent /\ batch' = Tail(batch)
        /\ answered' = IF err(e.fd) = 0 THEN answered \cup {e.port} ELSE answered
        /\ Drop(e.fd) /\ Close(e.fd)
        /\ stale' = (stale \/ ~active[e.fd])
        /\ UNCHANGED <<port, pc, now, timed_out>>
    BY <1>8 DEF Handle
  <2>2. e = batch[1] /\ 1 \in 1 .. Len(batch) /\ batch' \in Seq([fd : Fds \cup {timer_fd}, port : Ports \cup {0}])
    BY <2>1, TailOfBatch
  <2>3. e.fd \in Fds /\ e.port = dialed[e.fd]
    BY <2>1, <2>2 DEF EventsAreOfThisBatch
  <2> HIDE DEF e
  <2>4. e.port \in Ports
    BY <2>1, <2>2 DEF EventsAreOfThisBatch, e
  <2> QED BY <2>1, <2>2, <2>3, <2>4, DropTypeOK
<1>9. CASE BatchDone
  BY <1>9 DEF BatchDone, KernelTypeOK
<1>10. CASE Meanwhile(World(port))
  <2>1. CASE \E fd \in Fds : Respond(fd)
    <3>1. PICK fd \in Fds : Respond(fd)
      BY <2>1
    <3>2. dialed[fd] \in Ports
      BY <3>1 DEF Respond, ConnectedIsOpened
    <3>3. KernelTypeOK'
      BY <3>1, <3>2 DEF Respond, KernelTypeOK, SockStates
    <3> QED BY <1>10, <3>3 DEF Meanwhile
  <2>2. CASE Pulse
    BY <1>10, <2>2 DEF Meanwhile, Pulse, KernelTypeOK
  <2>3. CASE TimePasses(port)
    <3>1. horizon' \in start_port .. end_port + 1
      BY <2>3, PortsAreNaturals DEF TimePasses, KernelTypeOK
    <3>2. KernelTypeOK'
      BY <2>3, <3>1 DEF TimePasses, KernelTypeOK
    <3> QED BY <1>10, <3>2 DEF Meanwhile
  <2> QED BY <1>10, <2>1, <2>2, <2>3 DEF Meanwhile, World
<1>11. CASE UNCHANGED vars
  BY <1>11 DEF vars, KernelTypeOK
<1> QED
  BY <1>1, <1>2, <1>3, <1>4, <1>5, <1>6, <1>7, <1>8, <1>9, <1>10, <1>11 DEF Next, Program
-----------------------------------------------------------------------------
(* The list.                                                                 *)

LEMMA InitList == Init => ListIsInFlight /\ OrderIsOpen
<1> SUFFICES ASSUME Init PROVE ListIsInFlight /\ OrderIsOpen
  OBVIOUS
<1>1. order = <<>> /\ Len(order) = 0 /\ 1 .. 0 = {}
  BY EmptySeq DEF Init
<1>2. InFlight = {}
  BY <1>1 DEF InFlight
<1>3. \A fd \in Fds : sock[fd] = "closed" /\ active[fd] = FALSE
  BY DEF Init, KernelInit
<1>4. OpenFds = {}
  BY <1>3 DEF OpenFds, FreeFds
<1>5. OrderIsOpen
  BY <1>1, <1>2, <1>3 DEF OrderIsOpen
<1>6. ListAgrees
  BY <1>1, <1>2, <1>3, <1>4, KnockerAssumption DEF ListAgrees, Linked, Init
<1> QED BY <1>5, <1>6, ListInParts

\* Who is dropped by the sweep, and by the handler.
LEMMA SweepDrops ==
  ASSUME TypeOK, ListIsInFlight, OrderIsOpen, SweepHead
  PROVE  /\ head \in Fds /\ Drop(head) /\ Close(head) /\ stale' = stale
         /\ ~stale => active[head] /\ head = order[1] /\ order # <<>>
<1>1. head \in Fds /\ Drop(head) /\ Close(head) /\ stale' = stale
  BY DEF SweepHead, HeadExpired, TypeOK, Indices
<1>2. ASSUME ~stale PROVE active[head] /\ head = order[1] /\ order # <<>>
  <2>1. ListAgrees
    BY <1>2, ListInParts
  <2>2. order # <<>> /\ head = order[1]
    BY <2>1 DEF ListAgrees, Linked, SweepHead, HeadExpired
  <2>3. order[1] \in InFlight
    BY <2>2, PositionsAreFds DEF InFlight
  <2> QED BY <1>1, <2>1, <2>2, <2>3 DEF ListAgrees
<1> QED BY <1>1, <1>2

LEMMA HandleDrops ==
  ASSUME TypeOK, EventsAreOfThisBatch, Handle
  PROVE  LET fd == batch[1].fd
         IN  /\ 1 \in 1 .. Len(batch) /\ batch[1] # TimerEvent
             /\ fd \in Fds /\ Drop(fd) /\ Close(fd)
             /\ stale' = (stale \/ ~active[fd])
             /\ answered' = IF err(fd) = 0 THEN answered \cup {batch[1].port} ELSE answered
             /\ batch' = Tail(batch) /\ batch # <<>>
             /\ UNCHANGED <<port, pc, now, timed_out>>
<1>1. Head(batch) = batch[1] /\ 1 \in 1 .. Len(batch)
  BY HeadTailProperties, LenProperties, EmptySeq DEF TypeOK, Handle
<1>2. batch[1] # TimerEvent
  BY <1>1 DEF Handle
<1>3. batch[1].fd \in Fds
  BY <1>1, <1>2 DEF EventsAreOfThisBatch
<1> QED BY <1>1, <1>2, <1>3 DEF Handle

LEMMA NextList ==
  ASSUME TypeOK, ListIsInFlight, OrderIsOpen, EventsAreOfThisBatch, [Next]_vars
  PROVE  ListIsInFlight' /\ OrderIsOpen'
<1>1. CASE DialInProgress
  BY <1>1, DialKeepsList DEF DialInProgress
<1>2. CASE SweepHead
  BY <1>2, SweepDrops, DropKeepsList
<1>3. CASE Handle
  <2> DEFINE fd == batch[1].fd
  <2>1. fd \in Fds /\ Drop(fd) /\ Close(fd) /\ stale' = (stale \/ ~active[fd])
    BY <1>3, HandleDrops
  <2> HIDE DEF fd
  <2>2. active[fd] \in BOOLEAN /\ stale \in BOOLEAN
    BY <2>1 DEF TypeOK
  <2> QED BY <2>1, <2>2, DropKeepsList
<1>4. CASE /\ UNCHANGED listVars /\ UNCHANGED stale
           /\ \A fd \in Fds : sock'[fd] = "closed" <=> sock[fd] = "closed"
  BY <1>4, QuietKeepsList
<1>5. ASSUME DialResolved \/ DialFails \/ Wait \/ StartSweep \/ EndSweep \/ BatchDone \/ UNCHANGED vars
      PROVE  UNCHANGED <<listVars, stale, sock>>
  BY <1>5 DEF DialResolved, DialFails, Wait, StartSweep, EndSweep, BatchDone, vars, progVars, kernelVars
<1>6. ASSUME Meanwhile(World(port))
      PROVE  /\ UNCHANGED listVars /\ UNCHANGED stale
             /\ \A fd \in Fds : sock'[fd] = "closed" <=> sock[fd] = "closed"
  <2>1. UNCHANGED listVars /\ UNCHANGED stale
    BY <1>6 DEF Meanwhile, progVars
  <2>2. CASE Pulse \/ TimePasses(port)
    BY <2>1, <2>2 DEF Pulse, TimePasses
  <2>3. ASSUME NEW fd \in Fds, Respond(fd)
        PROVE  \A f \in Fds : sock'[f] = "closed" <=> sock[f] = "closed"
    BY <2>3 DEF Respond, TypeOK, KernelTypeOK
  <2> QED BY <1>6, <2>1, <2>2, <2>3 DEF Meanwhile, World
<1> QED BY <1>1, <1>2, <1>3, <1>4, <1>5, <1>6 DEF Next, Program
-----------------------------------------------------------------------------
(* The order of the list.                                                    *)

LEMMA StartTimesAreNaturals ==
  ASSUME TypeOK
  PROVE  \A f \in Fds : dialed[f] \in Nat /\ start_time[f] \in Nat
<1>1. Ports \cup {0} \subseteq Nat
  BY PortsAreNaturals
<1>2. dialed \in [Fds -> Ports \cup {0}] /\ start_time \in [Fds -> Ports \cup {0}]
  BY DEF TypeOK, KernelTypeOK
<1> QED BY <1>1, <1>2

LEMMA InitStarted == Init => StartedInOrder
<1> SUFFICES ASSUME Init PROVE StartedInOrder
  OBVIOUS
<1>1. order = <<>> /\ Len(order) = 0 /\ 1 .. 0 = {}
  BY EmptySeq DEF Init
<1> QED BY <1>1, PortsAreNaturals DEF Init, KernelInit, StartedInOrder

\* Dialing appends the greatest port.
LEMMA DialKeepsOrder ==
  ASSUME TypeOK, OrderIsOpen, StartedInOrder, DialInProgress
  PROVE  StartedInOrder'
<1>1. PICK fd \in Fds :
        /\ Dial(fd, port)
        /\ start_time' = [start_time EXCEPT ![fd] = port]
        /\ order' = Append(order, fd)
  BY DEF DialInProgress
<1>2. start_time' = dialed'
  BY <1>1 DEF Dial, StartedInOrder
<1>3. \A f \in Fds : start_time'[f] = IF f = fd THEN port ELSE start_time[f]
  BY <1>1 DEF TypeOK
<1>4. port' = port + 1 /\ port \in Nat
  BY PortsAreNaturals DEF DialInProgress, TypeOK
<1>5. \A f \in Fds : start_time[f] \in Nat /\ start_time[f] < port
  BY StartTimesAreNaturals DEF StartedInOrder
<1>6. \A f \in Fds : dialed'[f] < port'
  BY <1>2, <1>3, <1>4, <1>5
<1>7. fd \notin InFlight
  BY <1>1 DEF Dial, Lowest, FreeFds, OrderIsOpen
<1>8. \A n \in 1 .. Len(order) : order[n] \in Fds /\ order[n] # fd /\ order'[n] = order[n]
  BY <1>1, <1>7, AppendToOrder, PositionsAreFds DEF InFlight
<1>9. Len(order) \in Nat /\ Len(order') = Len(order) + 1 /\ order'[Len(order) + 1] = fd
  BY <1>1, AppendToOrder, PositionsAreFds
<1>10. ASSUME NEW m \in 1 .. Len(order'), NEW n \in 1 .. Len(order'), m < n
       PROVE  start_time'[order'[m]] < start_time'[order'[n]]
  <2>1. m \in 1 .. Len(order) /\ start_time'[order'[m]] = start_time[order[m]]
    BY <1>3, <1>8, <1>9, <1>10
  <2>2. CASE n = Len(order) + 1
    BY <2>1, <2>2, <1>3, <1>5, <1>8, <1>9
  <2>3. CASE n # Len(order) + 1
    <3>1. n \in 1 .. Len(order) /\ start_time'[order'[n]] = start_time[order[n]]
      BY <2>3, <1>3, <1>8, <1>9
    <3> QED BY <1>10, <2>1, <3>1 DEF StartedInOrder
  <2> QED BY <2>2, <2>3
<1> QED BY <1>2, <1>6, <1>10 DEF StartedInOrder

\* Dropping a socket leaves the others in their order.
LEMMA DropKeepsOrder ==
  ASSUME TypeOK, OrderIsOpen, StartedInOrder,
         NEW fd \in Fds, Drop(fd), Close(fd), UNCHANGED port
  PROVE  StartedInOrder'
<1>1. start_time' = start_time /\ dialed' = dialed /\ order' = Without(fd)
  BY DEF Drop, Close
<1>2. \A m, n \in 1 .. Len(order') : m < n =>
        \E i, j \in 1 .. Len(order) : i < j /\ order'[m] = order[i] /\ order'[n] = order[j]
  BY <1>1, WithoutRemoves
<1>3. \A m, n \in 1 .. Len(order') : m < n => start_time[order'[m]] < start_time[order'[n]]
  BY <1>2 DEF StartedInOrder
<1> QED BY <1>1, <1>3 DEF StartedInOrder

LEMMA NextStarted ==
  ASSUME TypeOK, ListIsInFlight, OrderIsOpen, StartedInOrder, EventsAreOfThisBatch, [Next]_vars
  PROVE  StartedInOrder'
<1>1. CASE DialInProgress
  BY <1>1, DialKeepsOrder
<1>2. CASE SweepHead
  BY <1>2, SweepDrops, DropKeepsOrder DEF SweepHead
<1>3. CASE Handle
  <2> DEFINE fd == batch[1].fd
  <2>1. fd \in Fds /\ Drop(fd) /\ Close(fd) /\ UNCHANGED port
    BY <1>3, HandleDrops
  <2> HIDE DEF fd
  <2> QED BY <2>1, DropKeepsOrder
<1>4. ASSUME UNCHANGED <<order, start_time, dialed>>, port' = port \/ port' = port + 1
      PROVE  StartedInOrder'
  <2>1. \A f \in Fds : dialed[f] \in Nat
    BY StartTimesAreNaturals
  <2>2. port \in Nat
    BY PortsAreNaturals DEF TypeOK
  <2>3. \A f \in Fds : dialed'[f] < port'
    BY <1>4, <2>1, <2>2 DEF StartedInOrder
  <2> QED BY <1>4, <2>3 DEF StartedInOrder
<1>5. ASSUME \/ DialResolved \/ DialFails \/ Wait \/ StartSweep \/ EndSweep \/ BatchDone
             \/ Meanwhile(World(port)) \/ UNCHANGED vars
      PROVE  UNCHANGED <<order, start_time, dialed>> /\ (port' = port \/ port' = port + 1)
  BY <1>5 DEF DialResolved, DialFails, Wait, StartSweep, EndSweep, BatchDone, Meanwhile, World,
       Respond, Pulse, TimePasses, vars, progVars, kernelVars, listVars
<1> QED BY <1>1, <1>2, <1>3, <1>4, <1>5 DEF Next, Program
-----------------------------------------------------------------------------
(* Sockets, events and reports.                                              *)

LEMMA InitEvents == Init => EventsAreOfThisBatch /\ ConnectedIsOpened /\ AnswersAreTrue
<1> SUFFICES ASSUME Init PROVE EventsAreOfThisBatch /\ ConnectedIsOpened /\ AnswersAreTrue
  OBVIOUS
<1>1. batch = <<>> /\ Len(batch) = 0 /\ 1 .. 0 = {}
  BY EmptySeq DEF Init
<1> QED BY <1>1 DEF Init, KernelInit, EventsAreOfThisBatch, ConnectedIsOpened, AnswersAreTrue

LEMMA NextConnected ==
  ASSUME TypeOK, ListIsInFlight, OrderIsOpen, EventsAreOfThisBatch, ConnectedIsOpened, [Next]_vars
  PROVE  ConnectedIsOpened'
<1> USE DEF TypeOK, KernelTypeOK, ConnectedIsOpened
<1>1. CASE DialInProgress
  <2>1. PICK fd \in Fds : Dial(fd, port)
    BY <1>1 DEF DialInProgress
  <2>2. port \in Ports
    BY <1>1, PortsAreNaturals DEF DialInProgress, MayDial, Ports
  <2> QED BY <2>1, <2>2 DEF Dial
<1>2. CASE SweepHead
  BY <1>2, SweepDrops DEF Close
<1>3. CASE Handle
  <2> DEFINE fd == batch[1].fd
  <2>1. fd \in Fds /\ Close(fd)
    BY <1>3, HandleDrops
  <2> HIDE DEF fd
  <2> QED BY <2>1 DEF Close
<1>4. ASSUME NEW fd \in Fds, Respond(fd) PROVE ConnectedIsOpened'
  BY <1>4 DEF Respond
<1>5. ASSUME \/ DialResolved \/ DialFails \/ Wait \/ StartSweep \/ EndSweep \/ BatchDone
             \/ Pulse \/ TimePasses(port) \/ UNCHANGED vars
      PROVE  UNCHANGED <<sock, dialed>> /\ opened \subseteq opened'
  BY <1>5 DEF DialResolved, DialFails, Wait, StartSweep, EndSweep, BatchDone, Pulse, TimePasses,
       vars, kernelVars
<1>6. ASSUME UNCHANGED <<sock, dialed>>, opened \subseteq opened'
      PROVE  ConnectedIsOpened'
  BY <1>6
<1> QED BY <1>1, <1>2, <1>3, <1>4, <1>5, <1>6 DEF Next, Program, Meanwhile, World

\* The events behind the first keep what they say, if the sockets they are
\* about do.
LEMMA TailKeepsEvents ==
  ASSUME TypeOK, EventsAreOfThisBatch, batch # <<>>, batch' = Tail(batch),
         pc' \in {"dispatch", "sweep"}, UNCHANGED <<dialed, timed_out>>,
         \A n \in 2 .. Len(batch) :
           batch[n].fd \in Fds => sock'[batch[n].fd] = sock[batch[n].fd]
  PROVE  EventsAreOfThisBatch'
<1>1. /\ Len(batch) \in Nat \ {0} /\ Len(batch') = Len(batch) - 1
      /\ \A n \in 1 .. Len(batch) - 1 : batch'[n] = batch[n + 1]
  BY TailOfBatch
<1>2. \A n \in 1 .. Len(batch') : n + 1 \in 2 .. Len(batch) /\ n + 1 \in 1 .. Len(batch)
  BY <1>1
<1>3. \A n \in 1 .. Len(batch') : batch'[n] = batch[n + 1]
  BY <1>1
<1>4. ASSUME NEW n \in 1 .. Len(batch'), batch'[n] # TimerEvent
      PROVE  /\ batch'[n].fd \in Fds
             /\ batch'[n].port = dialed'[batch'[n].fd] /\ batch'[n].port \in Ports
             /\ sock'[batch'[n].fd] # "pending"
             /\ sock'[batch'[n].fd] = "closed" => batch'[n].port \in timed_out'
  <2> DEFINE e == batch[n + 1]
  <2>1. batch'[n] = e /\ e # TimerEvent /\ n + 1 \in 2 .. Len(batch) /\ n + 1 \in 1 .. Len(batch)
    BY <1>2, <1>3, <1>4
  <2>2. /\ e.fd \in Fds /\ e.port = dialed[e.fd] /\ e.port \in Ports
        /\ sock[e.fd] # "pending"
        /\ sock[e.fd] = "closed" => e.port \in timed_out
    BY <2>1 DEF EventsAreOfThisBatch
  <2>3. sock'[e.fd] = sock[e.fd]
    BY <2>1, <2>2
  <2> QED BY <2>1, <2>2, <2>3
<1>5. \A m, n \in 1 .. Len(batch') : m # n => batch'[m].fd # batch'[n].fd
  <2> SUFFICES ASSUME NEW m \in 1 .. Len(batch'), NEW n \in 1 .. Len(batch'), m # n
               PROVE  batch'[m].fd # batch'[n].fd
    OBVIOUS
  <2>1. m + 1 # n + 1
    BY <1>1
  <2> QED BY <2>1, <1>2, <1>3 DEF EventsAreOfThisBatch
<1> QED BY <1>4, <1>5 DEF EventsAreOfThisBatch

LEMMA NextEvents ==
  ASSUME TypeOK, ListIsInFlight, OrderIsOpen, StartedInOrder, EventsAreOfThisBatch,
         ConnectedIsOpened, [Next]_vars
  PROVE  EventsAreOfThisBatch'
<1>1. ASSUME batch' = batch, batch = <<>> PROVE EventsAreOfThisBatch'
  <2>1. Len(batch') = 0 /\ 1 .. 0 = {}
    BY <1>1, EmptySeq
  <2> QED BY <1>1, <2>1 DEF EventsAreOfThisBatch
<1>2. ASSUME DialInProgress \/ DialResolved \/ DialFails \/ BatchDone
      PROVE  batch' = batch /\ batch = <<>>
  BY <1>2 DEF DialInProgress, DialResolved, DialFails, BatchDone, MayDial, EventsAreOfThisBatch
<1>3. CASE Wait
  <2>1. KernelTypeOK
    BY DEF TypeOK
  <2>2. /\ \A n \in 1 .. Len(batch') : batch'[n] \in ReadyEvents
        /\ \A m, n \in 1 .. Len(batch') : m # n => batch'[m].fd # batch'[n].fd
        /\ pc' = "dispatch" /\ UNCHANGED <<sock, dialed, timed_out>>
    BY <1>3, <2>1, BatchIsOfReady DEF Wait, kernelVars
  <2>3. ASSUME NEW n \in 1 .. Len(batch'), batch'[n] # TimerEvent
        PROVE  /\ batch'[n].fd \in Fds
               /\ batch'[n].port = dialed[batch'[n].fd] /\ batch'[n].port \in Ports
               /\ sock[batch'[n].fd] \in {"connected", "refused"}
    <3>1. /\ batch'[n].fd \in Fds /\ batch'[n].port = dialed[batch'[n].fd]
          /\ sock[batch'[n].fd] \in {"connected", "refused"}
      BY <2>1, <2>2, <2>3, ReadyHasAnswer
    <3> QED BY <3>1 DEF ConnectedIsOpened
  <2> QED BY <2>2, <2>3 DEF EventsAreOfThisBatch
<1>4. CASE StartSweep
  BY <1>4, TailKeepsEvents DEF StartSweep
<1>5. CASE SweepHead
  <2>1. /\ head \in Fds /\ Close(head) /\ pc' = "sweep" /\ pc = "sweep" /\ batch' = batch
        /\ timed_out' = timed_out \cup {dialed[head]}
    BY <1>5, SweepDrops DEF SweepHead, StartedInOrder
  <2>2. /\ \A f \in Fds : sock'[f] = IF f = head THEN "closed" ELSE sock[f]
        /\ dialed' = dialed
    BY <2>1 DEF Close, TypeOK, KernelTypeOK
  <2> QED BY <2>1, <2>2 DEF EventsAreOfThisBatch
<1>6. CASE EndSweep
  BY <1>6 DEF EndSweep, EventsAreOfThisBatch, kernelVars
<1>7. CASE Handle
  <2> DEFINE fd == batch[1].fd
  <2>1. /\ 1 \in 1 .. Len(batch) /\ fd \in Fds /\ Close(fd) /\ batch' = Tail(batch) /\ batch # <<>>
        /\ pc' = "dispatch" /\ timed_out' = timed_out
    BY <1>7, HandleDrops DEF Handle
  <2>2. \A n \in 2 .. Len(batch) : batch[n].fd # fd
    <3>1. \A n \in 2 .. Len(batch) : n \in 1 .. Len(batch) /\ n # 1
      BY TailOfBatch, <2>1
    <3> QED BY <2>1, <3>1 DEF EventsAreOfThisBatch
  <2> HIDE DEF fd
  <2>3. dialed' = dialed /\ \A f \in Fds : f # fd => sock'[f] = sock[f]
    BY <2>1 DEF Close, TypeOK, KernelTypeOK
  <2> QED BY <2>1, <2>2, <2>3, TailKeepsEvents
<1>8. CASE Meanwhile(World(port))
  <2>1. UNCHANGED <<batch, pc, timed_out>>
    BY <1>8 DEF Meanwhile, progVars
  <2>2. CASE Pulse \/ TimePasses(port)
    BY <2>1, <2>2 DEF Pulse, TimePasses, EventsAreOfThisBatch
  <2>3. ASSUME NEW fd \in Fds, Respond(fd) PROVE EventsAreOfThisBatch'
    <3>1. sock[fd] = "pending" /\ dialed' = dialed /\ \A f \in Fds : f # fd => sock'[f] = sock[f]
      BY <2>3 DEF Respond, TypeOK, KernelTypeOK
    <3> QED BY <2>1, <3>1 DEF EventsAreOfThisBatch
  <2> QED BY <1>8, <2>2, <2>3 DEF Meanwhile, World
<1>9. CASE UNCHANGED vars
  BY <1>9 DEF vars, kernelVars, progVars, EventsAreOfThisBatch
<1> QED BY <1>1, <1>2, <1>3, <1>4, <1>5, <1>6, <1>7, <1>8, <1>9 DEF Next, Program

LEMMA NextAnswers ==
  ASSUME TypeOK, ListIsInFlight, OrderIsOpen, EventsAreOfThisBatch, ConnectedIsOpened,
         AnswersAreTrue, [Next]_vars
  PROVE  AnswersAreTrue'
<1>1. CASE DialResolved
  BY <1>1 DEF DialResolved, AnswersAreTrue
<1>2. CASE SweepHead
  BY <1>2 DEF SweepHead, Close, AnswersAreTrue
<1>3. CASE Handle
  <2> DEFINE e == batch[1]
  <2>1. /\ 1 \in 1 .. Len(batch) /\ e # TimerEvent
        /\ e.fd \in Fds /\ Close(e.fd)
        /\ answered' = IF err(e.fd) = 0 THEN answered \cup {e.port} ELSE answered
        /\ timed_out' = timed_out
    BY <1>3, HandleDrops
  <2>2. /\ e.port = dialed[e.fd] /\ sock[e.fd] # "pending"
        /\ sock[e.fd] = "closed" => e.port \in timed_out
    BY <2>1 DEF EventsAreOfThisBatch
  <2> HIDE DEF e
  <2>3. sock[e.fd] \in SockStates
    BY <2>1 DEF TypeOK, KernelTypeOK
  <2>4. err(e.fd) = 0 => e.port \in opened \cup timed_out
    BY <2>1, <2>2, <2>3 DEF err, ECONNREFUSED, SockStates, ConnectedIsOpened
  <2> QED BY <2>1, <2>4 DEF Close, AnswersAreTrue
<1>4. ASSUME NEW fd \in Fds, Respond(fd), UNCHANGED progVars PROVE AnswersAreTrue'
  BY <1>4 DEF Respond, progVars, AnswersAreTrue
<1>5. ASSUME \/ DialInProgress \/ DialFails \/ Wait \/ StartSweep \/ EndSweep \/ BatchDone
             \/ ((Pulse \/ TimePasses(port)) /\ UNCHANGED progVars) \/ UNCHANGED vars
      PROVE  UNCHANGED <<answered, opened, timed_out>>
  BY <1>5 DEF DialInProgress, Dial, DialFails, Wait, StartSweep, EndSweep, BatchDone, Pulse,
       TimePasses, vars, kernelVars, progVars
<1> QED BY <1>1, <1>2, <1>3, <1>4, <1>5 DEF Next, Program, Meanwhile, World, AnswersAreTrue
-----------------------------------------------------------------------------
(* The theorems.                                                             *)

LEMMA InitIInv == Init => IInv
BY InitTypeOK, InitList, InitStarted, InitEvents DEF IInv, ListInvariant

LEMMA NextIInv == IInv /\ [Next]_vars => IInv'
BY NextTypeOK, NextList, NextStarted, NextConnected, NextEvents, NextAnswers
   DEF IInv, ListInvariant

LEMMA IInvHolds == Spec => []IInv
BY InitIInv, NextIInv, PTL DEF Spec

\* The links describe one list of exactly the open sockets, the counter is its
\* length, and neither insertions at the tail nor removals from the head, the
\* middle or the tail break it, until a stale event is handled
\* (knocker-intrusive.cc:80, 94).
THEOREM ListIsSound == Spec => []ListInvariant
<1>1. IInv => ListInvariant
  BY DEF IInv
<1> QED BY <1>1, IInvHolds, PTL

\* Whatever raced, a port is announced only if it accepted the connection or
\* if the sweep has given it up (knocker-intrusive.cc:243).
THEOREM AnnouncedAcceptedOrGivenUp == Spec => []AnswersAreTrue
<1>1. IInv => AnswersAreTrue
  BY DEF IInv
<1> QED BY <1>1, IInvHolds, PTL
-----------------------------------------------------------------------------
(* The refinement: the table's active entries are the keys of the map.       *)

ActiveFds == {fd \in Fds : active[fd]}

\* The map has as many keys as the list has entries.
LEMMA ActiveAreCounted ==
  ASSUME IInv, ~stale
  PROVE  /\ ActiveFds = InFlight
         /\ IsFiniteSet(ActiveFds) /\ Cardinality(ActiveFds) = in_flight_count
<1>1. ListAgrees
  BY ListInParts DEF IInv, ListInvariant
<1>2. ActiveFds = InFlight
  BY <1>1, PositionsAreFds DEF ActiveFds, ListAgrees, IInv, ListInvariant
<1> DEFINE places == [n \in 1 .. Len(order) |-> order[n]]
<1>3. Len(order) \in Nat
  BY PositionsAreFds DEF IInv, ListInvariant
<1>4. places \in [1 .. Len(order) -> InFlight]
  BY DEF InFlight
<1>5. \A m, n \in 1 .. Len(order) : places[m] = places[n] => m = n
  BY DEF IInv, OrderIsOpen
<1>6. \A f \in InFlight : \E n \in 1 .. Len(order) : places[n] = f
  BY DEF InFlight
<1> HIDE DEF places
<1>7. places \in Bijection(1 .. Len(order), InFlight)
  <2>1. places \in Injection(1 .. Len(order), InFlight)
    BY <1>4, <1>5 DEF Injection, IsInjective
  <2>2. places \in Surjection(1 .. Len(order), InFlight)
    BY <1>4, <1>6 DEF Surjection
  <2> QED BY <2>1, <2>2 DEF Bijection
<1>8. ExistsBijection(1 .. Len(order), InFlight)
  BY <1>7 DEF ExistsBijection
<1>9. Cardinality(InFlight) = Len(order)
  BY <1>3, <1>8, FS_CountingElements
<1>10. IsFiniteSet(InFlight)
  BY <1>3, <1>8, FS_NatBijection
<1> QED BY <1>1, <1>2, <1>9, <1>10 DEF ListAgrees

\* Both scanners see the same kernel.
LEMMA SameCardinality == \A S : HashMapScanner!Cardinality(S) = Cardinality(S)
BY DEF HashMapScanner!Cardinality, Cardinality, HashMapScanner!IsFiniteSet, IsFiniteSet

LEMMA SameEvents ==
  /\ HashMapScanner!TimerEvent = TimerEvent
  /\ HashMapScanner!ReadyEvents = ReadyEvents
  /\ HashMapScanner!Batches = Batches
<1>1. HashMapScanner!TimerEvent = TimerEvent
  BY DEF HashMapScanner!TimerEvent, TimerEvent
<1>2. HashMapScanner!ReadyEvents = ReadyEvents
  BY <1>1 DEF HashMapScanner!ReadyEvents, ReadyEvents
<1> QED BY <1>1, <1>2, SameCardinality DEF HashMapScanner!Batches, Batches

LEMMA SameCalls ==
  /\ HashMapScanner!FreeFds = FreeFds
  /\ HashMapScanner!kernelVars = kernelVars
  /\ \A fd \in Fds : /\ Dial(fd, port) => HashMapScanner!Dial(fd, port)
                     /\ Close(fd) => HashMapScanner!Close(fd)
                     /\ HashMapScanner!err(fd) = err(fd)
<1>1. HashMapScanner!FreeFds = FreeFds
  BY DEF HashMapScanner!FreeFds, FreeFds
<1>2. HashMapScanner!kernelVars = kernelVars
  BY DEF HashMapScanner!kernelVars, kernelVars
<1>3. ASSUME NEW fd \in Fds, Dial(fd, port) PROVE HashMapScanner!Dial(fd, port)
  BY <1>1, <1>3 DEF HashMapScanner!Dial, HashMapScanner!Lowest, Dial, Lowest
<1>4. ASSUME NEW fd \in Fds PROVE HashMapScanner!err(fd) = err(fd)
  BY DEF HashMapScanner!err, err, HashMapScanner!ECONNREFUSED, ECONNREFUSED
<1>5. ASSUME NEW fd \in Fds, Close(fd) PROVE HashMapScanner!Close(fd)
  BY <1>5 DEF HashMapScanner!Close, Close
<1> QED BY <1>1, <1>2, <1>3, <1>4, <1>5

LEMMA SameWorld ==
  Meanwhile(World(port)) => HashMapScanner!Meanwhile(HashMapScanner!World(port))
<1> SUFFICES ASSUME Meanwhile(World(port))
             PROVE  HashMapScanner!Meanwhile(HashMapScanner!World(port))
  OBVIOUS
<1>1. HashMapScanner!World(port)
  BY DEF Meanwhile, World, Respond, Pulse, TimePasses, HashMapScanner!World,
         HashMapScanner!Respond, HashMapScanner!Pulse, HashMapScanner!TimePasses
<1>2. ~HashMapScanner!Exited /\ UNCHANGED HashMapScanner!progVars
  BY DEF Meanwhile, Exited, progVars, listVars, HashMapScanner!Exited, HashMapScanner!progVars
<1> QED BY <1>1, <1>2 DEF HashMapScanner!Meanwhile

\* The condition of the fill loop, and that of the outer loop.
LEMMA SameConditions ==
  ASSUME IInv, ~stale
  PROVE  /\ HashMapScanner!MayDial <=> MayDial
         /\ in_flight_count > 0 <=> ActiveFds # {}
<1>1. IsFiniteSet(ActiveFds) /\ Cardinality(ActiveFds) = in_flight_count
  BY ActiveAreCounted
<1>2. ActiveFds # {} <=> in_flight_count > 0
  BY <1>1, FS_EmptySet, FS_CardinalityType
<1> QED BY <1>1, <1>2, SameCardinality DEF HashMapScanner!MayDial, MayDial, ActiveFds

\* The sweep that stops at the first connection that is not expired leaves no
\* expired one behind.
LEMMA SweepStopsAtTheLast ==
  ASSUME IInv, ~stale, ~HeadExpired
  PROVE  HashMapScanner!Expired = {}
<1> SUFFICES ASSUME NEW fd \in ActiveFds, dialed[fd] < now PROVE FALSE
  BY DEF HashMapScanner!Expired, ActiveFds
<1>1. PICK n \in 1 .. Len(order) : order[n] = fd
  BY ActiveAreCounted DEF InFlight
<1>2. Len(order) \in Nat /\ order[1] \in Fds /\ 1 \in 1 .. Len(order) /\ order # <<>>
  BY <1>1, PositionsAreFds DEF IInv, ListInvariant
<1>3. head = order[1] /\ head # none
  BY <1>2, ListInParts, FdsAreIndices DEF IInv, ListInvariant, ListAgrees, Linked
<1>4. start_time[order[1]] <= start_time[fd]
  <2>1. start_time[order[1]] \in Nat
    BY <1>2, StartTimesAreNaturals DEF IInv, ListInvariant
  <2>2. n = 1 \/ 1 < n
    BY <1>1, <1>2
  <2>3. 1 < n => start_time[order[1]] < start_time[order[n]]
    BY <1>1, <1>2 DEF IInv, StartedInOrder
  <2>4. start_time[fd] \in Nat
    BY StartTimesAreNaturals DEF IInv, ListInvariant, ActiveFds
  <2> QED BY <1>1, <2>1, <2>2, <2>3, <2>4
<1>5. start_time[fd] = dialed[fd]
  BY DEF IInv, StartedInOrder
<1>6. now \in Nat /\ start_time[order[1]] \in Nat /\ start_time[fd] \in Nat
  BY <1>2, StartTimesAreNaturals, PortsAreNaturals DEF IInv, ListInvariant, TypeOK, ActiveFds
<1> QED BY <1>3, <1>4, <1>5, <1>6 DEF HeadExpired

\* A step that handles no stale event is a step of the scanner with the map.
LEMMA StepIsMapStep ==
  ASSUME IInv, ~stale, ~stale', Next
  PROVE  HashMapScanner!Next \/ UNCHANGED HashMapScanner!vars
<1>0. /\ TypeOK /\ ListIsInFlight /\ OrderIsOpen /\ StartedInOrder /\ EventsAreOfThisBatch
      /\ active \in [Fds -> BOOLEAN]
  BY DEF IInv, ListInvariant, TypeOK
<1>1. CASE DialInProgress
  <2>1. PICK fd \in Fds : Dial(fd, port) /\ active' = [active EXCEPT ![fd] = TRUE]
    BY <1>1 DEF DialInProgress
  <2>2. ActiveFds' = ActiveFds \cup {fd}
    BY <1>0, <2>1 DEF ActiveFds
  <2>3. HashMapScanner!Dial(fd, port)
    BY <2>1, SameCalls
  <2>4. HashMapScanner!DialInProgress
    BY <1>1, <2>2, <2>3, SameConditions DEF DialInProgress, HashMapScanner!DialInProgress, ActiveFds
  <2> QED BY <2>4 DEF HashMapScanner!Next, HashMapScanner!Program
<1>2. CASE DialResolved
  <2>1. HashMapScanner!DialResolved
    BY <1>2, SameConditions, SameCalls
       DEF DialResolved, HashMapScanner!DialResolved, listVars
  <2> QED BY <2>1 DEF HashMapScanner!Next, HashMapScanner!Program
<1>3. CASE DialFails
  <2>1. HashMapScanner!DialFails
    BY <1>3, SameConditions, SameCalls
       DEF DialFails, HashMapScanner!DialFails, listVars, kernelVars, HashMapScanner!kernelVars
  <2> QED BY <2>1 DEF HashMapScanner!Next, HashMapScanner!Program
<1>4. CASE Wait
  <2>1. HashMapScanner!Wait
    BY <1>4, SameConditions, SameCalls, SameEvents
       DEF Wait, HashMapScanner!Wait, listVars, kernelVars, HashMapScanner!kernelVars
  <2> QED BY <2>1 DEF HashMapScanner!Next, HashMapScanner!Program
<1>5. CASE StartSweep
  <2>1. HashMapScanner!StartSweep
    BY <1>5, SameEvents DEF StartSweep, HashMapScanner!StartSweep, listVars
  <2> QED BY <2>1 DEF HashMapScanner!Next, HashMapScanner!Program
<1>6. CASE SweepHead
  <2>1. head \in Fds /\ active[head] /\ Drop(head) /\ Close(head)
    BY <1>0, <1>6, SweepDrops
  <2>2. start_time[head] = dialed[head]
    BY <1>0 DEF StartedInOrder
  <2>3. head \in HashMapScanner!Expired
    BY <1>6, <2>1, <2>2 DEF SweepHead, HeadExpired, HashMapScanner!Expired
  <2>4. ActiveFds' = ActiveFds \ {head}
    BY <1>0, <2>1 DEF Drop, ActiveFds
  <2>5. HashMapScanner!Close(head)
    BY <2>1, SameCalls
  <2>6. HashMapScanner!SweepOne
    BY <1>6, <2>2, <2>3, <2>4, <2>5 DEF SweepHead, HashMapScanner!SweepOne, ActiveFds
  <2> QED BY <2>6 DEF HashMapScanner!Next, HashMapScanner!Program
<1>7. CASE EndSweep
  <2>1. HashMapScanner!EndSweep
    BY <1>7, SweepStopsAtTheLast, SameCalls
       DEF EndSweep, HashMapScanner!EndSweep, listVars, kernelVars, HashMapScanner!kernelVars
  <2> QED BY <2>1 DEF HashMapScanner!Next, HashMapScanner!Program
<1>8. CASE Handle
  <2> DEFINE e == Head(batch)
  <2>1. /\ e = batch[1] /\ e.fd \in Fds /\ Drop(e.fd) /\ Close(e.fd)
        /\ answered' = IF err(e.fd) = 0 THEN answered \cup {e.port} ELSE answered
    BY <1>0, <1>8, HandleDrops, TailOfBatch
  <2>2. ActiveFds' = ActiveFds \ {e.fd}
    BY <1>0, <2>1 DEF Drop, ActiveFds
  <2>3. HashMapScanner!Close(e.fd) /\ HashMapScanner!err(e.fd) = err(e.fd)
    BY <2>1, SameCalls
  <2>4. HashMapScanner!Handle
    BY <1>8, <2>1, <2>2, <2>3, SameEvents DEF Handle, HashMapScanner!Handle, ActiveFds
  <2> QED BY <2>4 DEF HashMapScanner!Next, HashMapScanner!Program
<1>9. CASE BatchDone
  <2>1. HashMapScanner!BatchDone
    BY <1>9, SameConditions, SameCalls
       DEF BatchDone, HashMapScanner!BatchDone, listVars, ActiveFds,
           kernelVars, HashMapScanner!kernelVars
  <2> QED BY <2>1 DEF HashMapScanner!Next, HashMapScanner!Program
<1>10. CASE Meanwhile(World(port))
  BY <1>10, SameWorld DEF HashMapScanner!Next
<1>11. CASE UNCHANGED vars
  BY <1>11, SameCalls DEF vars, kernelVars, progVars, listVars, HashMapScanner!vars,
     HashMapScanner!kernelVars, HashMapScanner!progVars
<1> QED
  BY <1>1, <1>2, <1>3, <1>4, <1>5, <1>6, <1>7, <1>8, <1>9, <1>10, <1>11 DEF Next, Program

LEMMA StaleStays ==
  ASSUME IInv, stale, [Next]_vars
  PROVE  stale'
BY DEF IInv, ListInvariant, TypeOK, Next, Program, Meanwhile, DialInProgress, DialResolved,
   DialFails, Wait, StartSweep, SweepHead, EndSweep, Handle, BatchDone, progVars, vars

LEMMA InitIsMapInit == Init => HashMapScanner!Init
<1> SUFFICES ASSUME Init PROVE HashMapScanner!Init
  OBVIOUS
<1>1. {fd \in Fds : active[fd]} = {}
  BY DEF Init
<1> QED BY <1>1 DEF Init, KernelInit, HashMapScanner!Init, HashMapScanner!KernelInit

\* The intrusive list is only an optimisation: up to the first stale event
\* every step of the scanner is one of the scanner with the hash map, for which
\* the sweep closes every expired connection (knocker-intrusive.cc:233).
THEOREM ListReplacesMap == Spec => ImplementsHashMapScanner
<1>1. Init => HashMapScanner!Init
  BY InitIsMapInit
<1>2. IInv /\ [Next]_vars => [HashMapScanner!Next \/ stale']_(HashMapScanner!vars)
  <2> SUFFICES ASSUME IInv, [Next]_vars
               PROVE  [HashMapScanner!Next \/ stale']_(HashMapScanner!vars)
    OBVIOUS
  <2>1. CASE stale'
    BY <2>1
  <2>2. CASE ~stale' /\ Next
    <3>1. ~stale
      BY <2>2, StaleStays
    <3> QED BY <2>2, <3>1, StepIsMapStep
  <2>3. CASE UNCHANGED vars
    BY <2>3 DEF vars, kernelVars, progVars, listVars, HashMapScanner!vars,
       HashMapScanner!kernelVars, HashMapScanner!progVars
  <2> QED BY <2>1, <2>2, <2>3
<1> QED BY <1>1, <1>2, IInvHolds, PTL DEF Spec, ImplementsHashMapScanner
=============================================================================
