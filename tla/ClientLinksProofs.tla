-------------------------- MODULE ClientLinksProofs --------------------------
(***************************************************************************)
(* Proofs about module ClientLinks, for any number of links and of events  *)
(* in a batch.                                                             *)
(*                                                                         *)
(* A handler opens and removes several descriptors of one link in a row,   *)
(* and is in between in states the process never rests in.  So the proofs  *)
(* first say what one opening and one removal do to any state (Base), then *)
(* what a handler as a whole makes of the descriptors of its link (Alone), *)
(* and leave the other links alone (Others).                               *)
(***************************************************************************)
EXTENDS ClientLinks, RegistryProofs, FiniteSetTheorems

TcpCats == {"tcp-read", "tcp-write"}
Dirs    == {"in", "out", "none"}
States  == [reg : Registry, kern : Kernel, left : Int]

(* What comes before the link in the URL of a descriptor of category c. *)
Kind(c) == IF c = "set_timeout" THEN Delays ELSE {c}

Link(s, fd) == s.reg.info[fd].url[2]
Cat(s, fd)  == s.reg.info[fd].cat

(* The descriptors of link l. *)
Own(s, l) == {fd \in Registered(s.reg) : Link(s, fd) = l}

----------------------------------------------------------------------------
(* There is always another descriptor, and another object.                 *)

LEMMA LowestIs ==
  ASSUME NEW S \in SUBSET Nat, S # {} PROVE Lowest(S) \in S
<1>1. \E n \in S : \A m \in S : n <= m
  BY LeastNumber
<1> QED
  BY <1>1 DEF Lowest

LEMMA Counting ==
  ASSUME NEW n \in Nat PROVE IsFiniteSet(1 .. n) /\ Cardinality(1 .. n) = n
<1>1. IsFiniteSet(1 .. n) /\ Cardinality(1 .. n) = IF 1 > n THEN 0 ELSE n - 1 + 1
  BY FS_Interval
<1> QED
  BY <1>1

LEMMA Numbers ==
  /\ NLinks \in Nat /\ NLinks > 0 /\ MaxEvents \in Nat
  /\ IsFiniteSet(Fds) /\ Cardinality(Fds) = 2 * NLinks + 2
  /\ Fds \in SUBSET Nat /\ Objects \in SUBSET Nat
  /\ IsFiniteSet(Objects) /\ Cardinality(Objects) = NObjects
  /\ NObjects \in Nat /\ NObjects > Cardinality(Fds) + 2 * MaxEvents
<1>1. /\ NLinks \in Nat /\ NLinks > 0 /\ MaxEvents \in Nat
      /\ Fds = 1 .. (2 * NLinks + 2) /\ NObjects \in Nat
      /\ NObjects > Cardinality(Fds) + 2 * MaxEvents
  BY ClientLinksAssumption
<1>2. IsFiniteSet(Fds) /\ Cardinality(Fds) = 2 * NLinks + 2
  <2>1. PICK n \in Nat : n = 2 * NLinks + 2
    BY <1>1
  <2> QED
    BY <1>1, <2>1, Counting
<1>3. IsFiniteSet(Objects) /\ Cardinality(Objects) = NObjects
  BY <1>1, Counting DEF Objects
<1> QED
  BY <1>1, <1>2, <1>3 DEF Objects

(* The values of a function are no more than its arguments. *)
LEMMA Image ==
  ASSUME NEW S, IsFiniteSet(S), NEW f, f = [x \in S |-> f[x]]
  PROVE  /\ IsFiniteSet({f[x] : x \in S})
         /\ Cardinality({f[x] : x \in S}) <= Cardinality(S)
<1>1. f \in Surjection(S, {f[x] : x \in S})
  BY DEF Surjection
<1> QED
  BY <1>1, FS_Surjection

(* Every two descriptors of a link are the two sides of one connection:    *)
(* the link has nothing else.                                              *)
Alone(s) ==
  \A f, g \in Registered(s.reg) :
    f # g /\ Link(s, f) = Link(s, g) =>
      /\ Cat(s, f) \in TcpCats /\ Cat(s, g) \in TcpCats /\ Cat(s, f) # Cat(s, g)
      /\ s.kern.sock[f] = s.kern.sock[g]

(* From s to t, only descriptors of link l change. *)
Others(s, t, l) ==
  \A fd \in Fds :
    \/ IsRegistered(s.reg, fd) /\ Link(s, fd) # l
    \/ IsRegistered(t.reg, fd) /\ Link(t, fd) # l
    => s.reg.info[fd] = t.reg.info[fd] /\ s.kern.sock[fd] = t.kern.sock[fd]

LEMMA OthersTrans ==
  ASSUME NEW s, NEW t, NEW q, NEW l, Others(s, t, l), Others(t, q, l)
  PROVE  Others(s, q, l)
BY DEF Others, IsRegistered, Link

(* When at most three descriptors are those of the link a handler is at,   *)
(* another one can be opened.                                              *)
LEMMA RoomForFd ==
  ASSUME NEW s \in States, NEW t \in States, NEW l \in Links,
         Alone(s), Others(s, t, l),
         \A fd \in Registered(t.reg) : Link(t, fd) \in Links,
         \A fd \in Fds : IsRegistered(t.reg, fd) <=> t.kern.sock[fd] # NoSock,
         NEW a, NEW b, NEW c, Own(t, l) \subseteq {a, b, c}
  PROVE  NewFd(t) \in Fds /\ t.kern.sock[NewFd(t)] = NoSock
<1>1. Closed(t.kern) # {}
  <2> SUFFICES ASSUME Closed(t.kern) = {} PROVE FALSE
    OBVIOUS
  <2> DEFINE side(fd) == IF Cat(t, fd) = "tcp-read" THEN "tcp-read" ELSE "tcp-write"
             slot(fd) == IF Link(t, fd) # l THEN <<Link(t, fd), side(fd)>>
                         ELSE IF fd = a THEN <<l, "tcp-read">>
                         ELSE IF fd = b THEN <<l, "tcp-write">> ELSE <<0, "tcp-read">>
             f == [fd \in Fds |-> slot(fd)]
             T == (Links \X TcpCats) \cup {<<0, "tcp-read">>}
  <2>1. Registered(t.reg) = Fds
    BY DEF Closed, Registered
  <2>2. \A fd \in Fds : Link(t, fd) \in Links
    BY <2>1
  <2>3. 0 \notin Links
    BY Numbers DEF Links
  <2>4. f \in [Fds -> T]
    BY <2>2 DEF TcpCats
  <2>5. IsFiniteSet(T) /\ Cardinality(T) < Cardinality(Fds)
    <3>1. IsFiniteSet(Links) /\ Cardinality(Links) = NLinks
      <4>1. NLinks \in Nat
        BY Numbers
      <4> QED
        BY <4>1, Counting DEF Links
    <3>2. IsFiniteSet(TcpCats) /\ Cardinality(TcpCats) = 2
      <4>1. /\ IsFiniteSet({"tcp-read"}) /\ Cardinality({"tcp-read"}) = 1
            /\ TcpCats = {"tcp-read"} \cup {"tcp-write"} /\ "tcp-write" \notin {"tcp-read"}
        BY FS_Singleton DEF TcpCats
      <4>2. Cardinality({"tcp-read"} \cup {"tcp-write"}) = Cardinality({"tcp-read"}) + 1
        BY <4>1, FS_AddElement
      <4>3. IsFiniteSet({"tcp-read"} \cup {"tcp-write"})
        BY <4>1, FS_AddElement
      <4> QED
        BY <4>1, <4>2, <4>3
    <3>3. /\ IsFiniteSet(Links \X TcpCats)
          /\ Cardinality(Links \X TcpCats) = Cardinality(Links) * Cardinality(TcpCats)
      BY <3>1, <3>2, FS_Product
    <3>4. <<0, "tcp-read">> \notin Links \X TcpCats
      BY <2>3
    <3>5. IsFiniteSet(T) /\ Cardinality(T) = Cardinality(Links \X TcpCats) + 1
      BY <3>3, <3>4, FS_AddElement
    <3>6. Cardinality(T) = NLinks * 2 + 1
      BY <3>1, <3>2, <3>3, <3>5
    <3> QED
      BY <3>5, <3>6, Numbers
  <2>6. PICK x \in Fds, y \in Fds : x # y /\ slot(x) = slot(y)
    <3> HIDE DEF slot, T
    <3>1. \E x, y \in Fds : x # y /\ f[x] = f[y]
      <4> HIDE DEF f
      <4>1. IsFiniteSet(Fds) /\ IsFiniteSet(T) /\ Cardinality(T) < Cardinality(Fds)
        BY <2>5, Numbers
      <4> QED
        BY ONLY <2>4, <4>1, FS_PigeonHole
    <3> QED
      BY <3>1
  <2>7. \A fd \in Fds : Link(t, fd) = l => fd \in {a, b, c}
    BY <2>1 DEF Own
  <2>8. CASE Link(t, x) = l \/ Link(t, y) = l
    BY <2>2, <2>3, <2>6, <2>7, <2>8
  <2>9. CASE Link(t, x) # l /\ Link(t, y) # l
    <3>1. Link(t, x) = Link(t, y) /\ side(x) = side(y)
      BY <2>6, <2>9
    <3>2. /\ x \in Registered(s.reg) /\ y \in Registered(s.reg)
          /\ s.reg.info[x] = t.reg.info[x] /\ s.reg.info[y] = t.reg.info[y]
      BY <2>1, <2>9 DEF Others, Registered, IsRegistered
    <3>3. Cat(t, x) \in TcpCats /\ Cat(t, y) \in TcpCats /\ Cat(t, x) # Cat(t, y)
      BY <2>6, <3>1, <3>2 DEF Alone, Cat, Link
    <3> QED
      BY <3>1, <3>3 DEF TcpCats
  <2> QED
    BY <2>8, <2>9
<1>2. Closed(t.kern) \in SUBSET Nat
  BY Numbers DEF Closed
<1>3. NewFd(t) \in Closed(t.kern)
  BY <1>1, <1>2, LowestIs DEF NewFd
<1> QED
  BY <1>3 DEF Closed

(* The events of a batch are as many as fit. *)
Fits(b) == IsFiniteSet(b.err \cup b.cb) /\ Cardinality(b.err \cup b.cb) <= MaxEvents

(* And another object: descriptors and events refer to so many only. *)
LEMMA RoomForObject ==
  ASSUME NEW s \in States, Fits(batch)
  PROVE  /\ NewObject(s) \in Objects
         /\ \A fd \in Fds : s.kern.sock[fd] # NewObject(s)
         /\ \A e \in batch.err \cup batch.cb : e.w[1] # NewObject(s) /\ e.was # NewObject(s)
<1> DEFINE B == batch.err \cup batch.cb
           f == [fd \in Fds |-> s.kern.sock[fd]]
           g == [e \in B |-> e.w[1]]
           h == [e \in B |-> e.was]
           F == {f[fd] : fd \in Fds}
           G == {g[e] : e \in B}
           H == {h[e] : e \in B}
           free == {o \in Objects : /\ \A fd \in Fds : s.kern.sock[fd] # o
                                    /\ \A e \in B : e.w[1] # o /\ e.was # o}
<1>1. IsFiniteSet(B) /\ Cardinality(B) <= MaxEvents
  BY DEF Fits
<1> HIDE DEF B
<1>2. IsFiniteSet(F) /\ Cardinality(F) <= Cardinality(Fds)
  <2>1. f = [x \in Fds |-> f[x]]
    OBVIOUS
  <2> HIDE DEF f
  <2> QED
    BY <2>1, Image, Numbers
<1>3. IsFiniteSet(G) /\ Cardinality(G) <= Cardinality(B)
  <2>1. g = [x \in B |-> g[x]]
    OBVIOUS
  <2> HIDE DEF g
  <2> QED
    BY <1>1, <2>1, Image
<1>4. IsFiniteSet(H) /\ Cardinality(H) <= Cardinality(B)
  <2>1. h = [x \in B |-> h[x]]
    OBVIOUS
  <2> HIDE DEF h
  <2> QED
    BY <1>1, <2>1, Image
<1> HIDE DEF F, G, H
<1>5. IsFiniteSet(F \cup G \cup H) /\ Cardinality(F \cup G \cup H) < NObjects
  <2>1. /\ IsFiniteSet(F \cup G) /\ Cardinality(F \cap G) \in Nat
        /\ Cardinality(F \cup G) = Cardinality(F) + Cardinality(G) - Cardinality(F \cap G)
    BY <1>2, <1>3, FS_Union, FS_Intersection, FS_CardinalityType
  <2>2. /\ IsFiniteSet((F \cup G) \cup H) /\ Cardinality((F \cup G) \cap H) \in Nat
        /\ Cardinality((F \cup G) \cup H)
             = Cardinality(F \cup G) + Cardinality(H) - Cardinality((F \cup G) \cap H)
    BY <1>4, <2>1, FS_Union, FS_Intersection, FS_CardinalityType
  <2>3. /\ Cardinality(F) \in Nat /\ Cardinality(G) \in Nat /\ Cardinality(H) \in Nat
        /\ Cardinality(B) \in Nat /\ Cardinality(Fds) \in Nat
    BY <1>1, <1>2, <1>3, <1>4, Numbers, FS_CardinalityType
  <2> QED
    BY <1>1, <1>2, <1>3, <1>4, <2>1, <2>2, <2>3, Numbers
<1>6. \E o \in Objects : o \notin F \cup G \cup H
  <2> SUFFICES ASSUME Objects \subseteq F \cup G \cup H PROVE FALSE
    OBVIOUS
  <2>1. Cardinality(Objects) <= Cardinality(F \cup G \cup H)
    BY <1>5, FS_Subset
  <2>2. Cardinality(F \cup G \cup H) \in Nat
    BY <1>5, FS_CardinalityType
  <2> QED
    BY <1>5, <2>1, <2>2, Numbers
<1>7. free # {}
  BY <1>6 DEF F, G, H
<1>8. free \in SUBSET Nat
  BY Numbers
<1>9. Lowest(free) \in free
  <2> HIDE DEF free
  <2> QED
    BY <1>7, <1>8, LowestIs
<1>10. NewObject(s) = Lowest(free)
  BY DEF NewObject, B
<1> QED
  BY <1>9, <1>10 DEF B

----------------------------------------------------------------------------
(* One opening and one removal.                                            *)

KernelFields == {"sock", "watch", "ready", "hup", "data", "broken"}

LEMMA KernelIs ==
  ASSUME NEW k, k = [x \in KernelFields |-> k[x]],
         /\ k.sock \in [Fds -> Objects \cup {NoSock}]
         /\ k.watch \in SUBSET (Objects \X Fds \X {"in", "out", "none"})
         /\ k.ready \in SUBSET (Objects \X Fds \X {"in", "out", "none"})
         /\ k.hup \in SUBSET (Objects \X Fds \X {"in", "out", "none"})
         /\ k.data \in SUBSET Objects /\ k.broken \in SUBSET Objects
  PROVE  k \in Kernel
BY DEF Kernel, KernelFields

LEMMA KernelHas ==
  ASSUME NEW k \in Kernel
  PROVE  /\ DOMAIN k = KernelFields /\ k = [x \in KernelFields |-> k[x]]
         /\ k.sock \in [Fds -> Objects \cup {NoSock}]
         /\ k.watch \in SUBSET (Objects \X Fds \X {"in", "out", "none"})
         /\ k.ready \in SUBSET (Objects \X Fds \X {"in", "out", "none"})
         /\ k.hup \in SUBSET (Objects \X Fds \X {"in", "out", "none"})
         /\ k.data \in SUBSET Objects /\ k.broken \in SUBSET Objects
BY DEF Kernel, KernelFields

(* What Open and rm_fd do, field by field. *)
Opened(s, t, fd, o, c, u, dir) ==
  /\ t \in States /\ t.left = s.left
  /\ Added(s.reg, t.reg, fd, c, u)
  /\ t.kern.sock = [s.kern.sock EXCEPT ![fd] = o]
  /\ t.kern.watch = s.kern.watch \cup {<<o, fd, dir>>}
  /\ t.kern.ready \in {s.kern.ready, s.kern.ready \cup {<<o, fd, dir>>}}
  /\ t.kern.hup = IF o \in s.kern.broken THEN s.kern.hup \cup {<<o, fd, dir>>} ELSE s.kern.hup
  /\ t.kern.broken = s.kern.broken

LEMMA OpenFields ==
  ASSUME NEW s \in States, NEW fd \in Fds, NEW o \in Objects, NEW c \in Cats,
         NEW u \in Urls, NEW dir \in Dirs
  PROVE  Opened(s, Open(s, fd, o, c, u, dir), fd, o, c, u, dir)
<1> DEFINE t == Open(s, fd, o, c, u, dir)
           k == s.kern
           isReady == dir = "in" /\ o \in k.data
           isBroken == o \in k.broken
           m == Watch([k EXCEPT !.sock[fd] = o], <<o, fd, dir>>, isReady, isBroken)
<1>1. s.reg \in Registry /\ k \in Kernel /\ s.left \in Int
  BY DEF States
<1>2. Added(s.reg, AddFd(s.reg, fd, c, u), fd, c, u)
  BY <1>1, AddFields
<1>3. t = [s EXCEPT !.reg = AddFd(s.reg, fd, c, u), !.kern = m]
  BY DEF Open
<1>4. /\ m.sock = [k.sock EXCEPT ![fd] = o]
      /\ m.watch = k.watch \cup {<<o, fd, dir>>}
      /\ m.ready = IF isReady THEN k.ready \cup {<<o, fd, dir>>} ELSE k.ready
      /\ m.hup = IF isBroken THEN k.hup \cup {<<o, fd, dir>>} ELSE k.hup
      /\ m.data = k.data /\ m.broken = k.broken
      /\ m = [x \in KernelFields |-> m[x]]
  <2> HIDE DEF isReady, isBroken, k
  <2>1. DOMAIN k = KernelFields /\ k.sock \in [Fds -> Objects \cup {NoSock}]
    BY <1>1, KernelHas
  <2> DEFINE j == [k EXCEPT !.sock[fd] = o]
  <2>2. /\ j.sock = [k.sock EXCEPT ![fd] = o] /\ j.watch = k.watch /\ j.ready = k.ready
        /\ j.hup = k.hup /\ j.data = k.data /\ j.broken = k.broken
        /\ DOMAIN j = KernelFields
    BY <2>1 DEF KernelFields
  <2>3. m = Watch(j, <<o, fd, dir>>, isReady, isBroken)
    OBVIOUS
  <2> HIDE DEF j
  <2>4. /\ m.sock = j.sock /\ m.watch = j.watch \cup {<<o, fd, dir>>}
        /\ m.ready = IF isReady THEN j.ready \cup {<<o, fd, dir>>} ELSE j.ready
        /\ m.hup = IF isBroken THEN j.hup \cup {<<o, fd, dir>>} ELSE j.hup
        /\ m.data = j.data /\ m.broken = j.broken /\ DOMAIN m = KernelFields
    BY <2>2, <2>3 DEF Watch, KernelFields
  <2>5. m = [x \in KernelFields |-> m[x]]
    BY <2>2, <2>3, <2>4 DEF Watch
  <2> QED
    BY <2>2, <2>4, <2>5
<1>5. m \in Kernel
  <2>1. <<o, fd, dir>> \in Objects \X Fds \X {"in", "out", "none"}
    BY DEF Dirs
  <2>2. /\ k.sock \in [Fds -> Objects \cup {NoSock}]
        /\ k.watch \in SUBSET (Objects \X Fds \X {"in", "out", "none"})
        /\ k.ready \in SUBSET (Objects \X Fds \X {"in", "out", "none"})
        /\ k.hup \in SUBSET (Objects \X Fds \X {"in", "out", "none"})
        /\ k.data \in SUBSET Objects /\ k.broken \in SUBSET Objects
    BY <1>1, KernelHas
  <2> HIDE DEF m, k, isReady, isBroken
  <2>3. /\ m.sock \in [Fds -> Objects \cup {NoSock}]
        /\ m.watch \in SUBSET (Objects \X Fds \X {"in", "out", "none"})
        /\ m.ready \in SUBSET (Objects \X Fds \X {"in", "out", "none"})
        /\ m.hup \in SUBSET (Objects \X Fds \X {"in", "out", "none"})
        /\ m.data \in SUBSET Objects /\ m.broken \in SUBSET Objects
    BY <1>4, <2>1, <2>2
  <2> QED
    BY <1>4, <2>3, KernelIs
<1> HIDE DEF m, isReady, isBroken
<1>6. /\ t.reg = AddFd(s.reg, fd, c, u) /\ t.kern = m /\ t.left = s.left /\ t \in States
  <2>1. AddFd(s.reg, fd, c, u) \in Registry
    BY <1>2 DEF Added
  <2> QED
    BY <1>3, <1>5, <2>1 DEF States
<1> HIDE DEF t, k
<1> QED
  BY <1>2, <1>4, <1>6 DEF Opened, t, k, isBroken

Dropped(s, t, fd) ==
  LET o    == s.kern.sock[fd]
      last == \A g \in Fds : s.kern.sock[g] = o => g = fd
      gone == IF last THEN {w \in s.kern.watch : w[1] = o} ELSE {}
  IN  /\ t \in States /\ t.left = s.left
      /\ t.reg = RmFd(s.reg, fd)
      /\ Removed(s.reg, t.reg, fd, s.reg.info[fd].cat, s.reg.info[fd].url)
      /\ t.kern.sock = [s.kern.sock EXCEPT ![fd] = NoSock]
      /\ t.kern.watch = s.kern.watch \ gone /\ t.kern.ready = s.kern.ready \ gone
      /\ t.kern.hup = s.kern.hup \ gone
      /\ t.kern.broken = IF last THEN s.kern.broken \ {o} ELSE s.kern.broken

LEMMA RmFdFields ==
  ASSUME NEW s \in States, NEW fd \in Fds, IsRegistered(s.reg, fd), RegistryInv(s.reg),
         s.kern.sock[fd] # NoSock
  PROVE  Dropped(s, rm_fd(s, fd), fd)
<1> DEFINE t == rm_fd(s, fd)
           o == s.kern.sock[fd]
           last == \A g \in Fds : s.kern.sock[g] = o => g = fd
           gone == IF last THEN {w \in s.kern.watch : w[1] = o} ELSE {}
           k == Close(s.kern, fd)
           away == IF \E g \in Fds : k.sock[g] = o THEN {} ELSE {o}
           m == [k EXCEPT !.data = k.data \ away, !.broken = k.broken \ away]
<1>1. s.reg \in Registry /\ s.kern \in Kernel /\ s.left \in Int /\ o \in Objects
  BY DEF States, Kernel
<1>2. t = [s EXCEPT !.reg = RmFd(s.reg, fd), !.kern = m]
  BY DEF rm_fd
<1>3. /\ k.sock = [s.kern.sock EXCEPT ![fd] = NoSock] /\ k.watch = s.kern.watch \ gone
      /\ k.ready = s.kern.ready \ gone /\ k.hup = s.kern.hup \ gone
      /\ k.data = s.kern.data /\ k.broken = s.kern.broken
      /\ DOMAIN k = KernelFields
  <2>1. DOMAIN s.kern = KernelFields /\ s.kern.sock \in [Fds -> Objects \cup {NoSock}]
    BY <1>1, KernelHas
  <2>2. k = [s.kern EXCEPT !.sock[fd] = NoSock, !.watch = s.kern.watch \ gone,
                          !.ready = s.kern.ready \ gone, !.hup = s.kern.hup \ gone]
    BY Zenon DEF Close, Watches
  <2> HIDE DEF gone, k
  <2> QED
    BY <2>1, <2>2 DEF KernelFields
<1> HIDE DEF k
<1>4. away = IF last THEN {o} ELSE {}
  BY <1>1, <1>3 DEF Kernel
<1> HIDE DEF away
<1>5. /\ m.sock = k.sock /\ m.watch = k.watch /\ m.ready = k.ready /\ m.hup = k.hup
      /\ m.data = k.data \ away /\ m.broken = k.broken \ away
      /\ m = [x \in KernelFields |-> m[x]]
  <2>1. DOMAIN k = KernelFields
    BY <1>3
  <2>2. /\ m.sock = k.sock /\ m.watch = k.watch /\ m.ready = k.ready /\ m.hup = k.hup
        /\ m.data = k.data \ away /\ m.broken = k.broken \ away /\ DOMAIN m = KernelFields
    BY <2>1 DEF KernelFields
  <2>3. m = [x \in KernelFields |-> m[x]]
    BY <2>1
  <2> QED
    BY <2>2, <2>3
<1> HIDE DEF m
<1>6. m \in Kernel
  <2>1. /\ m.sock \in [Fds -> Objects \cup {NoSock}]
        /\ m.watch \in SUBSET (Objects \X Fds \X {"in", "out", "none"})
        /\ m.ready \in SUBSET (Objects \X Fds \X {"in", "out", "none"})
        /\ m.hup \in SUBSET (Objects \X Fds \X {"in", "out", "none"})
        /\ m.data \in SUBSET Objects /\ m.broken \in SUBSET Objects
    BY <1>1, <1>3, <1>5, KernelHas
  <2> QED
    BY <1>5, <2>1, KernelIs
<1>7. RmFd(s.reg, fd) \in Registry
  BY <1>1, RmKeepsRegistry
<1>8. t.reg = RmFd(s.reg, fd) /\ t.kern = m /\ t.left = s.left /\ t \in States
  BY <1>2, <1>6, <1>7 DEF States
<1>9. Removed(s.reg, t.reg, fd, s.reg.info[fd].cat, s.reg.info[fd].url)
  BY <1>1, <1>8, RmFields
<1> HIDE DEF t
<1> QED
  BY <1>3, <1>4, <1>5, <1>8, <1>9 DEF Dropped, t

(* What holds after every single opening and removal, b being the events   *)
(* still to be handled.                                                    *)

(* A descriptor is registered if it is open, under a URL of its kind, and  *)
(* the two sides of a connection are found by theirs.                      *)
Named(s) ==
  /\ \A fd \in Fds : IsRegistered(s.reg, fd) <=> s.kern.sock[fd] # NoSock
  /\ \A fd \in Registered(s.reg) :
       /\ s.reg.info[fd].url \in Kind(Cat(s, fd)) \X Links
       /\ Cat(s, fd) \in TcpCats => s.reg.url[s.reg.info[fd].url] = fd

(* Descriptors of one object are of one link, and none of them is a timer. *)
Apart(s) ==
  \A f, g \in Fds :
    f # g /\ s.kern.sock[f] = s.kern.sock[g] /\ s.kern.sock[f] # NoSock =>
      Link(s, f) = Link(s, g) /\ Cat(s, f) # "set_timeout" /\ Cat(s, g) # "set_timeout"

(* What the kernel watches, and knows to be reset, is open. *)
IsOpen(s, o) == \E fd \in Fds : s.kern.sock[fd] = o

Watched(s) ==
  /\ \A w \in s.kern.watch : IsOpen(s, w[1])
  /\ s.kern.ready \subseteq s.kern.watch /\ s.kern.hup \subseteq s.kern.watch
  /\ \A o \in s.kern.broken : IsOpen(s, o)

(* No error is about a timer. *)
TimersQuiet(s, b) ==
  \A fd \in Registered(s.reg) : Cat(s, fd) = "set_timeout" =>
    /\ s.kern.sock[fd] \notin s.kern.broken
    /\ \A w \in s.kern.hup : w[1] # s.kern.sock[fd]
    /\ \A e \in b.err : e.w[1] # s.kern.sock[fd]

(* A number that has become another object's since is blacklisted. *)
Fresh(s, b) ==
  \A e \in b.err \cup b.cb :
    \/ IsBlacklisted(s.reg, e.fd) \/ e.was = NoSock
    \/ e.fd \in Fds /\ s.kern.sock[e.fd] = e.was

Base(s, b) ==
  /\ s \in States /\ RegistryInv(s.reg)
  /\ Named(s) /\ Apart(s) /\ Watched(s) /\ TimersQuiet(s, b) /\ Fresh(s, b)

LEMMA StateHas ==
  ASSUME NEW s \in States
  PROVE  /\ s.reg \in Registry /\ s.kern \in Kernel
         /\ s.reg.info \in [Fds -> Info \cup {NoInfo}]
         /\ s.reg.url \in [Urls -> Fds \cup {NoFd}]
         /\ s.kern.sock \in [Fds -> Objects \cup {NoSock}]
         /\ s.kern.watch \in SUBSET (Objects \X Fds \X {"in", "out", "none"})
         /\ s.kern.hup \in SUBSET (Objects \X Fds \X {"in", "out", "none"})
         /\ s.reg.black \in Seq(Fds)
<1>1. s.reg \in Registry /\ s.kern \in Kernel
  BY DEF States
<1> QED
  BY <1>1 DEF Registry, Kernel

LEMMA Names ==
  /\ Cats = CatNames /\ TcpCats \in SUBSET Cats /\ "set_timeout" \notin TcpCats
  /\ \A c \in Cats : Kind(c) \X Links \in SUBSET Urls
  /\ \A c \in TcpCats, d \in Cats : c # d => Kind(c) \cap Kind(d) = {}
  /\ \A u \in Urls : u[2] \in Links
  /\ NoSock \notin Objects /\ NoFd \notin Fds
BY ClientLinksAssumption, EvtCoreAssumption
   DEF CatNames, TcpCats, Kind, Delays, NoSock

LEMMA OpenBase ==
  ASSUME NEW s, NEW b, Base(s, b),
         NEW fd \in Fds, s.kern.sock[fd] = NoSock,
         NEW o \in Objects, NEW c \in Cats, NEW k \in Kind(c), NEW l \in Links,
         NEW dir \in Dirs,
         \A g \in Registered(s.reg) : Cat(s, g) = c /\ c \in TcpCats => Link(s, g) # l,
         \/ /\ \A g \in Fds : s.kern.sock[g] # o
            /\ \A e \in b.err : e.w[1] # o
         \/ /\ c # "set_timeout"
            /\ \A g \in Fds : s.kern.sock[g] = o => Link(s, g) = l /\ Cat(s, g) # "set_timeout"
  PROVE  LET t == Open(s, fd, o, c, <<k, l>>, dir)
         IN  /\ Opened(s, t, fd, o, c, <<k, l>>, dir) /\ Base(t, b)
             /\ Others(s, t, l) /\ Own(t, l) = Own(s, l) \cup {fd}
<1> DEFINE t == Open(s, fd, o, c, <<k, l>>, dir)
           u == <<k, l>>
<1>1. s \in States /\ u \in Urls /\ u[2] = l
  BY Names DEF Base
<1>2. Opened(s, t, fd, o, c, u, dir)
  BY <1>1, OpenFields
<1> HIDE DEF t
<1>3. t \in States /\ Added(s.reg, t.reg, fd, c, u)
  BY <1>2 DEF Opened
<1>4. ~ IsRegistered(s.reg, fd) /\ fd \notin Own(s, l)
  BY DEF Base, Named, Own, Registered
<1>5. RegistryInv(t.reg)
  <2>1. t.reg = AddFd(s.reg, fd, c, u)
    <3>1. s.kern \in Kernel
      BY <1>1, StateHas
    <3> QED
      BY <1>1 DEF t, Open, States
  <2>2. RegistryInv(s.reg) /\ s.reg \in Registry
    BY <1>1, StateHas DEF Base
  <2> QED
    BY <1>1, <1>4, <2>1, <2>2, AddKeepsRegistry
<1>6. /\ t.reg.info[fd] = [cat |-> c, url |-> u] /\ t.kern.sock[fd] = o
      /\ \A g \in Fds : g # fd => t.reg.info[g] = s.reg.info[g]
                                  /\ t.kern.sock[g] = s.kern.sock[g]
      /\ t.reg.url = [s.reg.url EXCEPT ![u] = fd] /\ t.reg.black = s.reg.black
  BY <1>1, <1>2, <1>3, StateHas DEF Opened, Added
<1>7. /\ Cat(t, fd) = c /\ Link(t, fd) = l /\ IsRegistered(t.reg, fd) /\ o # NoSock
      /\ \A g \in Fds : g # fd => /\ Cat(t, g) = Cat(s, g) /\ Link(t, g) = Link(s, g)
                                  /\ IsRegistered(t.reg, g) <=> IsRegistered(s.reg, g)
  <2>1. [cat |-> c, url |-> u] # NoInfo
    BY EvtCoreAssumption DEF NoInfo
  <2> QED
    BY <1>1, <1>6, <2>1, Names DEF Cat, Link, IsRegistered
<1>8. Named(t)
  <2>1. ASSUME NEW g \in Registered(t.reg)
        PROVE  /\ t.reg.info[g].url \in Kind(Cat(t, g)) \X Links
               /\ Cat(t, g) \in TcpCats => t.reg.url[t.reg.info[g].url] = g
    <3>1. CASE g = fd
      <4>1. t.reg.info[g].url = u /\ Cat(t, g) = c /\ u \in Kind(c) \X Links
        BY <1>6, <1>7, <3>1
      <4>2. s.reg.url \in [Urls -> Fds \cup {NoFd}]
        BY <1>1, StateHas
      <4>3. t.reg.url[u] = fd
        BY <1>1, <1>6, <4>2
      <4> HIDE DEF u
      <4> QED
        BY <3>1, <4>1, <4>3
    <3>2. CASE g # fd
      <4>1. /\ g \in Registered(s.reg) /\ Cat(t, g) = Cat(s, g)
            /\ t.reg.info[g] = s.reg.info[g]
        BY <1>6, <1>7, <3>2 DEF Registered
      <4>2. /\ s.reg.info[g].url \in Kind(Cat(s, g)) \X Links
            /\ Cat(s, g) \in TcpCats => s.reg.url[s.reg.info[g].url] = g
        BY <4>1 DEF Base, Named
      <4>3. ASSUME Cat(s, g) \in TcpCats PROVE s.reg.info[g].url # u
        <5>1. Link(s, g) = l => Cat(s, g) # c
          BY <4>1, <4>3
        <5>2. Cat(s, g) # c => Kind(Cat(s, g)) \cap Kind(c) = {}
          BY <4>3, Names
        <5> QED
          BY <4>2, <5>1, <5>2 DEF Link
      <4>4. s.reg.info[g].url \in Urls
        BY <4>1, <1>1, StateHas DEF Registered, IsRegistered, Info
      <4>5. Cat(s, g) \in TcpCats => t.reg.url[s.reg.info[g].url] = g
        BY <1>1, <1>6, <4>2, <4>3, <4>4, StateHas
      <4> QED
        BY <4>1, <4>2, <4>5
    <3> QED
      BY <3>1, <3>2
  <2>2. \A g \in Fds : IsRegistered(t.reg, g) <=> t.kern.sock[g] # NoSock
    BY <1>6, <1>7 DEF Base, Named
  <2> QED
    BY <2>1, <2>2 DEF Named
<1>9. Apart(t)
  BY <1>6, <1>7 DEF Apart, Base
<1>10. Watched(t)
  <2>1. /\ \A p \in Objects : IsOpen(s, p) => IsOpen(t, p)
        /\ IsOpen(t, o)
    BY <1>6, Names DEF IsOpen
  <2>2. \A w \in s.kern.watch : w[1] \in Objects
    BY <1>1, StateHas
  <2>3. s.kern.broken \in SUBSET Objects
    BY <1>1, StateHas, KernelHas
  <2> QED
    BY <1>2, <2>1, <2>2, <2>3 DEF Watched, Opened, Base
<1>11. TimersQuiet(t, b)
  <2> SUFFICES ASSUME NEW g \in Registered(t.reg), Cat(t, g) = "set_timeout"
               PROVE  /\ t.kern.sock[g] \notin t.kern.broken
                      /\ \A w \in t.kern.hup : w[1] # t.kern.sock[g]
                      /\ \A e \in b.err : e.w[1] # t.kern.sock[g]
    BY DEF TimersQuiet
  <2>1. /\ t.kern.broken = s.kern.broken
        /\ t.kern.hup = IF o \in s.kern.broken THEN s.kern.hup \cup {<<o, fd, dir>>}
                                               ELSE s.kern.hup
    BY <1>2 DEF Opened
  <2>2. CASE g = fd
    <3>1. t.kern.sock[g] = o /\ (\A f \in Fds : s.kern.sock[f] # o)
          /\ (\A e \in b.err : e.w[1] # o)
      BY <1>6, <1>7, <2>2
    <3>2. o \notin s.kern.broken /\ \A w \in s.kern.hup : w[1] # o
      BY <3>1 DEF Base, Watched, IsOpen
    <3> QED
      BY <2>1, <3>1, <3>2
  <2>3. CASE g # fd
    <3>1. g \in Registered(s.reg) /\ Cat(s, g) = "set_timeout" /\ t.kern.sock[g] = s.kern.sock[g]
      BY <1>6, <1>7, <2>3 DEF Registered
    <3>2. /\ s.kern.sock[g] \notin s.kern.broken
          /\ \A w \in s.kern.hup : w[1] # s.kern.sock[g]
          /\ \A e \in b.err : e.w[1] # s.kern.sock[g]
      BY <3>1 DEF Base, TimersQuiet
    <3>3. s.kern.sock[g] # o
      BY <3>1 DEF Registered
    <3> QED
      BY <2>1, <3>1, <3>2, <3>3
  <2> QED
    BY <2>2, <2>3
<1>12. Fresh(t, b)
  <2>1. \A n : IsBlacklisted(s.reg, n) <=> IsBlacklisted(t.reg, n)
    BY <1>6 DEF IsBlacklisted
  <2> QED
    BY <1>6, <2>1 DEF Fresh, Base
<1>13. Others(s, t, l)
  BY <1>4, <1>6, <1>7 DEF Others
<1>14. Own(t, l) = Own(s, l) \cup {fd}
  BY <1>7 DEF Own, Registered
<1> QED
  BY <1>2, <1>3, <1>5, <1>8, <1>9, <1>10, <1>11, <1>12, <1>13, <1>14 DEF Base, t

LEMMA RmBase ==
  ASSUME NEW s, NEW b, Base(s, b), NEW fd \in Registered(s.reg)
  PROVE  LET t == rm_fd(s, fd)
         IN  /\ Dropped(s, t, fd) /\ Base(t, b)
             /\ Others(s, t, Link(s, fd))
             /\ \A l \in Links : Own(t, l) = Own(s, l) \ {fd}
             /\ IsBlacklisted(t.reg, fd) /\ ~ IsRegistered(t.reg, fd)
<1> DEFINE t == rm_fd(s, fd)
           o == s.kern.sock[fd]
           u == s.reg.info[fd].url
<1>1. /\ s \in States /\ fd \in Fds /\ IsRegistered(s.reg, fd) /\ o # NoSock
      /\ RegistryInv(s.reg)
  BY DEF Base, Named, Registered
<1>2. Dropped(s, t, fd)
  BY <1>1, RmFdFields
<1> HIDE DEF t
<1>3. /\ t \in States /\ t.reg = RmFd(s.reg, fd)
      /\ Removed(s.reg, t.reg, fd, Cat(s, fd), u)
      /\ t.kern.sock = [s.kern.sock EXCEPT ![fd] = NoSock]
  BY <1>2 DEF Dropped, Cat
<1>4. RegistryInv(t.reg)
  BY <1>1, <1>3, StateHas, RmKeepsRegistry
<1>5. /\ t.reg.info[fd] = NoInfo /\ t.kern.sock[fd] = NoSock
      /\ \A g \in Fds : g # fd => t.reg.info[g] = s.reg.info[g]
                                  /\ t.kern.sock[g] = s.kern.sock[g]
      /\ t.reg.url = [s.reg.url EXCEPT ![u] = NoFd] /\ u \in Urls
      /\ t.reg.black = Append(s.reg.black, fd)
  BY <1>1, <1>3, StateHas DEF Removed
<1>6. /\ ~ IsRegistered(t.reg, fd)
      /\ \A g \in Fds : g # fd => /\ Cat(t, g) = Cat(s, g) /\ Link(t, g) = Link(s, g)
                                  /\ IsRegistered(t.reg, g) <=> IsRegistered(s.reg, g)
  BY <1>5 DEF Cat, Link, IsRegistered
<1>7. \A n : IsBlacklisted(t.reg, n) <=> IsBlacklisted(s.reg, n) \/ n = fd
  <2>1. PICK x \in Seq(Fds) : x = s.reg.black
    BY <1>1, StateHas
  <2>2. /\ Len(x) \in Nat /\ DOMAIN x = 1 .. Len(x)
        /\ DOMAIN Append(x, fd) = 1 .. (Len(x) + 1) /\ Append(x, fd)[Len(x) + 1] = fd
        /\ \A i \in 1 .. Len(x) : Append(x, fd)[i] = x[i]
    BY <1>1
  <2> QED
    BY <1>5, <2>1, <2>2 DEF IsBlacklisted
<1>8. Named(t)
  <2>1. ASSUME NEW g \in Registered(t.reg)
        PROVE  /\ t.reg.info[g].url \in Kind(Cat(t, g)) \X Links
               /\ Cat(t, g) \in TcpCats => t.reg.url[t.reg.info[g].url] = g
    <3>1. /\ g # fd /\ g \in Registered(s.reg) /\ Cat(t, g) = Cat(s, g)
          /\ t.reg.info[g] = s.reg.info[g]
      BY <1>5, <1>6 DEF Registered
    <3>2. /\ s.reg.info[g].url \in Kind(Cat(s, g)) \X Links
          /\ Cat(s, g) \in TcpCats => s.reg.url[s.reg.info[g].url] = g
          /\ u \in Kind(Cat(s, fd)) \X Links /\ (Cat(s, fd) \in TcpCats => s.reg.url[u] = fd)
      BY <3>1 DEF Base, Named
    <3>3. Cat(s, g) \in Cats /\ Cat(s, fd) \in Cats /\ s.reg.info[g].url \in Urls
      BY <1>1, <3>1, StateHas DEF Registered, IsRegistered, Info, Cat
    <3>4. ASSUME Cat(s, g) \in TcpCats PROVE s.reg.info[g].url # u
      <4>1. CASE Cat(s, fd) = Cat(s, g)
        BY <3>1, <3>2, <3>4, <4>1
      <4>2. CASE Cat(s, fd) # Cat(s, g)
        <5>1. Kind(Cat(s, g)) \cap Kind(Cat(s, fd)) = {}
          BY <3>3, <3>4, <4>2, Names
        <5> QED
          BY <3>2, <5>1
      <4> QED
        BY <4>1, <4>2
    <3>5. Cat(s, g) \in TcpCats => t.reg.url[s.reg.info[g].url] = g
      BY <1>1, <1>5, <3>2, <3>3, <3>4, StateHas
    <3> QED
      BY <3>1, <3>2, <3>5
  <2>2. \A g \in Fds : IsRegistered(t.reg, g) <=> t.kern.sock[g] # NoSock
    BY <1>5, <1>6 DEF Base, Named
  <2> QED
    BY <2>1, <2>2 DEF Named
<1>9. Apart(t)
  BY <1>5, <1>6 DEF Apart, Base
<1> DEFINE last == \A g \in Fds : s.kern.sock[g] = o => g = fd
           gone == IF last THEN {w \in s.kern.watch : w[1] = o} ELSE {}
<1>10. /\ t.kern.watch = s.kern.watch \ gone /\ t.kern.ready = s.kern.ready \ gone
       /\ t.kern.hup = s.kern.hup \ gone
       /\ t.kern.broken = IF last THEN s.kern.broken \ {o} ELSE s.kern.broken
  BY <1>2, Zenon DEF Dropped
<1>11. Watched(t)
  <2>1. ASSUME NEW p \in Objects, IsOpen(s, p), p # o \/ ~ last PROVE IsOpen(t, p)
    BY <1>1, <1>5, <2>1 DEF IsOpen
  <2>2. /\ s.kern.ready \subseteq s.kern.watch /\ s.kern.hup \subseteq s.kern.watch
        /\ \A w \in s.kern.watch : w[1] \in Objects /\ IsOpen(s, w[1])
        /\ \A p \in s.kern.broken : p \in Objects /\ IsOpen(s, p)
    BY <1>1, StateHas, KernelHas DEF Base, Watched
  <2>3. \A w \in t.kern.watch : IsOpen(t, w[1])
    BY <1>10, <2>1, <2>2
  <2>4. \A p \in t.kern.broken : IsOpen(t, p)
    BY <1>10, <2>1, <2>2
  <2>5. t.kern.ready \subseteq t.kern.watch /\ t.kern.hup \subseteq t.kern.watch
    BY <1>10, <2>2
  <2> QED
    BY <2>3, <2>4, <2>5 DEF Watched
<1>12. TimersQuiet(t, b)
  <2>1. t.kern.hup \subseteq s.kern.hup /\ t.kern.broken \subseteq s.kern.broken
    BY <1>10
  <2> QED
    BY <1>5, <1>6, <2>1 DEF TimersQuiet, Base, Registered
<1>13. Fresh(t, b)
  BY <1>5, <1>7 DEF Fresh, Base
<1>14. Others(s, t, Link(s, fd))
  BY <1>1, <1>5, <1>6 DEF Others
<1>15. \A l \in Links : Own(t, l) = Own(s, l) \ {fd}
  BY <1>6 DEF Own, Registered
<1> QED
  BY <1>2, <1>3, <1>4, <1>6, <1>7, <1>8, <1>9, <1>11, <1>12, <1>13, <1>14, <1>15 DEF Base, t

(* Nothing but the data and the failures left changes. *)
Quietly(s, t) ==
  /\ t \in States /\ t.reg = s.reg
  /\ t.kern.sock = s.kern.sock /\ t.kern.watch = s.kern.watch
  /\ t.kern.ready = s.kern.ready /\ t.kern.hup = s.kern.hup
  /\ t.kern.broken = s.kern.broken

LEMMA QuietBase ==
  ASSUME NEW s, NEW t, NEW b, Base(s, b), Quietly(s, t)
  PROVE  Base(t, b) /\ \A l \in Links : Others(s, t, l) /\ Own(t, l) = Own(s, l)
<1>1. \A n : IsBlacklisted(t.reg, n) <=> IsBlacklisted(s.reg, n)
  BY DEF Quietly
<1>2. Named(t) /\ Apart(t) /\ Watched(t)
  BY DEF Base, Quietly, Named, Apart, Watched, IsOpen, Cat, Link
<1>3. TimersQuiet(t, b) /\ Fresh(t, b)
  BY <1>1 DEF Base, Quietly, TimersQuiet, Fresh, Cat
<1> QED
  BY <1>2, <1>3 DEF Base, Quietly, Others, Own, Link

LEMMA ReadQuietly ==
  ASSUME NEW s \in States, NEW o
  PROVE  Quietly(s, Read(s, o)) /\ Read(s, o).left = s.left
<1>1. s.kern \in Kernel
  BY StateHas
<1> QED
  BY <1>1 DEF Read, Quietly, States, Kernel

(* A connection whose category watches nothing any more but errors. *)
Mute(s, fd) ==
  LET o == s.kern.sock[fd]
  IN  [s EXCEPT !.kern = Muted(s.kern, <<o, fd, "in">>, <<o, fd, "none">>)]

MutedTo(s, t, o, fd) ==
  /\ t \in States /\ t.reg = s.reg /\ t.left = s.left
  /\ t.kern.sock = s.kern.sock /\ t.kern.broken = s.kern.broken
  /\ t.kern.watch = (s.kern.watch \ {<<o, fd, "in">>}) \cup {<<o, fd, "none">>}
  /\ t.kern.ready = s.kern.ready \ {<<o, fd, "in">>}
  /\ t.kern.hup = IF <<o, fd, "in">> \in s.kern.hup
                  THEN (s.kern.hup \ {<<o, fd, "in">>}) \cup {<<o, fd, "none">>}
                  ELSE s.kern.hup

LEMMA MuteBase ==
  ASSUME NEW s, NEW b, Base(s, b), NEW fd \in Registered(s.reg), Cat(s, fd) # "set_timeout"
  PROVE  LET t == Mute(s, fd)
         IN  /\ MutedTo(s, t, s.kern.sock[fd], fd) /\ Base(t, b)
             /\ \A l \in Links : Others(s, t, l) /\ Own(t, l) = Own(s, l)
<1> DEFINE t == Mute(s, fd)
           o == s.kern.sock[fd]
           k == Muted(s.kern, <<o, fd, "in">>, <<o, fd, "none">>)
<1>1. /\ s \in States /\ s.kern \in Kernel /\ fd \in Fds /\ o \in Objects /\ o # NoSock
      /\ s.reg \in Registry /\ s.left \in Int
  BY StateHas DEF Base, Named, Registered, States
<1>2. /\ k.sock = s.kern.sock /\ k.broken = s.kern.broken /\ k.data = s.kern.data
      /\ k.watch = (s.kern.watch \ {<<o, fd, "in">>}) \cup {<<o, fd, "none">>}
      /\ k.ready = s.kern.ready \ {<<o, fd, "in">>}
      /\ k.hup = IF <<o, fd, "in">> \in s.kern.hup
                 THEN (s.kern.hup \ {<<o, fd, "in">>}) \cup {<<o, fd, "none">>}
                 ELSE s.kern.hup
      /\ k = [x \in KernelFields |-> k[x]]
  <2>1. DOMAIN s.kern = KernelFields
    BY <1>1, KernelHas
  <2> HIDE DEF o
  <2>2. DOMAIN k = KernelFields
    BY <2>1 DEF Muted
  <2>3. k = [x \in KernelFields |-> k[x]]
    BY <2>1 DEF Muted
  <2> QED
    BY <2>1, <2>3 DEF Muted, KernelFields
<1> HIDE DEF k
<1>3. k \in Kernel
  <2>1. /\ s.kern.sock \in [Fds -> Objects \cup {NoSock}]
        /\ s.kern.watch \in SUBSET (Objects \X Fds \X {"in", "out", "none"})
        /\ s.kern.ready \in SUBSET (Objects \X Fds \X {"in", "out", "none"})
        /\ s.kern.hup \in SUBSET (Objects \X Fds \X {"in", "out", "none"})
        /\ s.kern.data \in SUBSET Objects /\ s.kern.broken \in SUBSET Objects
    BY <1>1, KernelHas
  <2>2. <<o, fd, "none">> \in Objects \X Fds \X {"in", "out", "none"}
    BY <1>1
  <2>3. /\ k.watch \in SUBSET (Objects \X Fds \X {"in", "out", "none"})
        /\ k.ready \in SUBSET (Objects \X Fds \X {"in", "out", "none"})
        /\ k.hup \in SUBSET (Objects \X Fds \X {"in", "out", "none"})
    BY <1>2, <2>1, <2>2
  <2> QED
    BY <1>2, <2>1, <2>3, KernelIs
<1>4. MutedTo(s, t, o, fd)
  <2>1. t.kern = k /\ t.reg = s.reg /\ t.left = s.left /\ t \in States
    BY <1>1, <1>3 DEF Mute, States, k
  <2> QED
    BY <1>2, <2>1 DEF MutedTo
<1> HIDE DEF t
<1>5. \A n : IsBlacklisted(t.reg, n) <=> IsBlacklisted(s.reg, n)
  BY <1>4 DEF MutedTo
<1>6. Named(t) /\ Apart(t)
  BY <1>4 DEF Base, MutedTo, Named, Apart, Cat, Link
<1>7. Watched(t)
  <2>1. IsOpen(s, o) /\ \A p : IsOpen(t, p) <=> IsOpen(s, p)
    BY <1>1, <1>4 DEF IsOpen, MutedTo
  <2> QED
    BY <1>4, <2>1 DEF MutedTo, Watched, Base
<1>8. TimersQuiet(t, b)
  <2> SUFFICES ASSUME NEW g \in Registered(t.reg), Cat(t, g) = "set_timeout"
               PROVE  /\ t.kern.sock[g] \notin t.kern.broken
                      /\ \A w \in t.kern.hup : w[1] # t.kern.sock[g]
                      /\ \A e \in b.err : e.w[1] # t.kern.sock[g]
    BY DEF TimersQuiet
  <2>1. /\ g \in Registered(s.reg) /\ Cat(s, g) = "set_timeout" /\ g # fd
        /\ t.kern.sock[g] = s.kern.sock[g]
    BY <1>4 DEF MutedTo, Cat
  <2>2. s.kern.sock[g] # o
    BY <1>1, <2>1 DEF Base, Apart, Registered
  <2>3. /\ s.kern.sock[g] \notin s.kern.broken
        /\ \A w \in s.kern.hup : w[1] # s.kern.sock[g]
        /\ \A e \in b.err : e.w[1] # s.kern.sock[g]
    BY <2>1 DEF Base, TimersQuiet
  <2> QED
    BY <1>4, <2>1, <2>2, <2>3 DEF MutedTo
<1>9. Fresh(t, b)
  BY <1>4, <1>5 DEF Fresh, Base, MutedTo
<1>10. \A l \in Links : Others(s, t, l) /\ Own(t, l) = Own(s, l)
  BY <1>4 DEF MutedTo, Others, Own, Link
<1> QED
  BY <1>4, <1>6, <1>7, <1>8, <1>9, <1>10 DEF Base, MutedTo, t

----------------------------------------------------------------------------
(* The steps of a handler.                                                 *)

(* What epoll watches is what it was told to, under the number it was told *)
(* of, but for the connections whose first descriptor is gone; and an      *)
(* error still to be reported has a reason.                                *)
Calm(s) ==
  /\ \A w \in s.kern.watch :
       IF w[3] = "none" THEN Established(s, w[1])
       ELSE s.kern.sock[w[2]] = w[1] /\ (w[3] = "out" => Cat(s, w[2]) = "tcp-write")
  /\ \A w \in s.kern.hup :
       w[3] # "none" /\ (w[1] \in s.kern.broken \/ Established(s, w[1]))

(* An established connection was reset. *)
Troubled(s) == \E o \in s.kern.broken : Established(s, o)

(* A handler that was called in s0 for link l has come to s. *)
At(s0, s, l) ==
  /\ s0 \in States /\ Alone(s0) /\ l \in Links
  /\ Base(s, batch) /\ Fits(batch) /\ Others(s0, s, l)

(* From s to t, only fd changes. *)
Only(s, t, fd) ==
  \A g \in Fds \ {fd} : /\ t.reg.info[g] = s.reg.info[g]
                        /\ t.kern.sock[g] = s.kern.sock[g]

(* No other descriptor is of fd's object. *)
Sole(s, fd) == \A g \in Fds : s.kern.sock[g] = s.kern.sock[fd] => g = fd

LEMMA AtHas ==
  ASSUME NEW s0, NEW s, NEW l, At(s0, s, l)
  PROVE  /\ s \in States /\ s.kern \in Kernel /\ Base(s, batch)
         /\ s.kern.sock \in [Fds -> Objects \cup {NoSock}] /\ NoSock \notin Objects
         /\ s.kern.watch \in SUBSET (Objects \X Fds \X {"in", "out", "none"})
         /\ s.kern.hup \subseteq s.kern.watch
         /\ s.kern.broken \in SUBSET Objects
         /\ \A fd \in Fds : IsRegistered(s.reg, fd) <=> s.kern.sock[fd] # NoSock
         /\ \A fd \in Registered(s.reg) : Link(s, fd) \in Links /\ Cat(s, fd) \in Cats
         /\ \A fd \in Own(s, l) : /\ fd \in Fds /\ fd \in Registered(s.reg)
                                  /\ s.kern.sock[fd] \in Objects
<1>1. s \in States /\ Named(s) /\ Watched(s)
  BY DEF At, Base
<1>2. /\ s.kern \in Kernel /\ s.kern.sock \in [Fds -> Objects \cup {NoSock}]
      /\ s.kern.watch \in SUBSET (Objects \X Fds \X {"in", "out", "none"})
      /\ s.reg.info \in [Fds -> Info \cup {NoInfo}]
  BY <1>1, StateHas
<1>3. \A fd \in Registered(s.reg) : Cat(s, fd) \in Cats
  BY <1>2 DEF Registered, IsRegistered, Info, Cat
<1>4. \A fd \in Registered(s.reg) : Link(s, fd) \in Links
  <2>1. \A fd \in Registered(s.reg) : s.reg.info[fd].url \in Kind(Cat(s, fd)) \X Links
    BY <1>1 DEF Named
  <2> QED
    BY <2>1 DEF Link
<1> QED
  BY <1>1, <1>2, <1>3, <1>4, KernelHas, Names DEF Named, Watched, Own, Registered, At

(* What is gained by opening fd, of category c, on an object that is new.  *)
Gained(s0, s, t, l, fd, c) ==
  /\ At(s0, t, l) /\ fd \in Fds /\ fd \notin Own(s, l) /\ ~ IsRegistered(s.reg, fd)
  /\ Own(t, l) = Own(s, l) \cup {fd} /\ Cat(t, fd) = c /\ Only(s, t, fd)
  /\ Sole(t, fd) /\ t.left = s.left
  /\ Calm(s) => Calm(t)

LEMMA OpenNew ==
  ASSUME NEW s0, NEW s, NEW l, At(s0, s, l),
         NEW a, NEW b, Own(s, l) \subseteq {a, b},
         NEW c \in {"set_timeout", "socks5"}, NEW k \in Kind(c)
  PROVE  Gained(s0, s, Open(s, NewFd(s), NewObject(s), c, <<k, l>>, "in"), l, NewFd(s), c)
<1> DEFINE fd == NewFd(s)
           o == NewObject(s)
           t == Open(s, fd, o, c, <<k, l>>, "in")
<1>1. /\ s \in States /\ s0 \in States /\ l \in Links /\ Alone(s0) /\ Others(s0, s, l)
      /\ Base(s, batch) /\ Fits(batch)
  BY DEF At, Base
<1>2. fd \in Fds /\ s.kern.sock[fd] = NoSock
  <2>1. \A g \in Registered(s.reg) : Link(s, g) \in Links
    BY AtHas
  <2>2. \A g \in Fds : IsRegistered(s.reg, g) <=> s.kern.sock[g] # NoSock
    BY AtHas
  <2>3. Own(s, l) \subseteq {a, b, b}
    OBVIOUS
  <2> QED
    BY <1>1, <2>1, <2>2, <2>3, RoomForFd
<1>3. /\ o \in Objects /\ \A g \in Fds : s.kern.sock[g] # o
      /\ \A e \in batch.err : e.w[1] # o
  BY <1>1, RoomForObject
<1>4. c \in Cats /\ c \notin TcpCats /\ "in" \in Dirs /\ c # "tcp-write"
  BY Names DEF TcpCats, Dirs, CatNames
<1> HIDE DEF fd, o
<1>5. /\ Opened(s, t, fd, o, c, <<k, l>>, "in") /\ Base(t, batch)
      /\ Others(s, t, l) /\ Own(t, l) = Own(s, l) \cup {fd}
  BY <1>1, <1>2, <1>3, <1>4, OpenBase
<1> HIDE DEF t
<1>6. At(s0, t, l)
  BY <1>1, <1>5, OthersTrans DEF At
<1>7. ~ IsRegistered(s.reg, fd) /\ fd \notin Own(s, l)
  BY <1>2, AtHas DEF Own, Registered
<1>8. /\ t.reg.info[fd] = [cat |-> c, url |-> <<k, l>>] /\ t.kern.sock[fd] = o
      /\ Only(s, t, fd) /\ t.left = s.left
  <2>1. s.reg.info \in [Fds -> Info \cup {NoInfo}] /\ s.kern.sock \in [Fds -> Objects \cup {NoSock}]
    BY <1>1, StateHas
  <2>2. /\ t.reg.info = [s.reg.info EXCEPT ![fd] = [cat |-> c, url |-> <<k, l>>]]
        /\ t.kern.sock = [s.kern.sock EXCEPT ![fd] = o] /\ t.left = s.left
    BY <1>5 DEF Opened, Added
  <2> QED
    BY <1>2, <2>1, <2>2 DEF Only
<1>9. Cat(t, fd) = c
  BY <1>8 DEF Cat
<1>10. Sole(t, fd)
  BY <1>3, <1>8 DEF Sole, Only
<1>11. ASSUME Calm(s) PROVE Calm(t)
  <2>1. /\ t.kern.watch = s.kern.watch \cup {<<o, fd, "in">>}
        /\ t.kern.broken = s.kern.broken /\ t.kern.hup = s.kern.hup
    <3>1. o \notin s.kern.broken
      BY <1>1, <1>3 DEF Base, Watched, IsOpen
    <3> QED
      BY <1>5, <3>1 DEF Opened
  <2>2. \A p : Established(s, p) => Established(t, p)
    BY <1>7, <1>8 DEF Established, IsRegistered, Only
  <2>3. \A w \in s.kern.watch : w[1] \in Objects /\ w[2] \in Fds
    BY AtHas
  <2>4. NoSock \notin Objects
    BY Names
  <2>5. \A w \in s.kern.watch : s.kern.sock[w[2]] = w[1] =>
           t.kern.sock[w[2]] = w[1] /\ Cat(t, w[2]) = Cat(s, w[2])
    BY <1>2, <1>8, <2>3, <2>4 DEF Only, Cat
  <2>6. ASSUME NEW w \in t.kern.watch
        PROVE  IF w[3] = "none" THEN Established(t, w[1])
               ELSE t.kern.sock[w[2]] = w[1] /\ (w[3] = "out" => Cat(t, w[2]) = "tcp-write")
    <3>1. CASE w \in s.kern.watch
      BY <1>11, <2>2, <2>5, <3>1 DEF Calm
    <3>2. CASE w = <<o, fd, "in">>
      BY <1>8, <3>2
    <3> QED
      BY <2>1, <3>1, <3>2
  <2> QED
    BY <1>11, <2>1, <2>2, <2>6 DEF Calm
<1> QED
  BY <1>2, <1>5, <1>6, <1>7, <1>8, <1>9, <1>10, <1>11 DEF Gained, fd, o, t

(* And what is lost by removing one.  If it was the only one of its        *)
(* object, nothing is left of that.                                        *)
Lost(s0, s, t, l, fd) ==
  /\ At(s0, t, l) /\ Own(t, l) = Own(s, l) \ {fd} /\ Only(s, t, fd)
  /\ ~ IsRegistered(t.reg, fd) /\ t.left = s.left
  /\ Sole(s, fd) /\ Calm(s) => Calm(t)
  /\ Cat(s, fd) = "set_timeout" /\ Troubled(s) => Troubled(t)

LEMMA RmOne ==
  ASSUME NEW s0, NEW s, NEW l, At(s0, s, l), NEW fd \in Own(s, l)
  PROVE  Lost(s0, s, rm_fd(s, fd), l, fd)
<1> DEFINE t == rm_fd(s, fd)
           o == s.kern.sock[fd]
<1>1. /\ s \in States /\ l \in Links /\ Base(s, batch)
      /\ s0 \in States /\ Alone(s0) /\ Fits(batch) /\ Others(s0, s, l)
  BY DEF At, Base
<1>2. /\ fd \in Fds /\ fd \in Registered(s.reg) /\ o \in Objects /\ NoSock \notin Objects
      /\ Link(s, fd) = l
  BY AtHas DEF Own
<1>3. /\ Dropped(s, t, fd) /\ Base(t, batch) /\ Others(s, t, Link(s, fd))
      /\ \A m \in Links : Own(t, m) = Own(s, m) \ {fd}
      /\ ~ IsRegistered(t.reg, fd)
  BY <1>1, <1>2, RmBase
<1> HIDE DEF t
<1>4. At(s0, t, l) /\ Own(t, l) = Own(s, l) \ {fd}
  BY <1>1, <1>2, <1>3, OthersTrans DEF At
<1>5. Only(s, t, fd) /\ t.left = s.left /\ t.kern.sock[fd] = NoSock
  <2>1. s.reg.info \in [Fds -> Info \cup {NoInfo}] /\ s.kern.sock \in [Fds -> Objects \cup {NoSock}]
    BY <1>1, StateHas
  <2>2. /\ t.reg.info = [s.reg.info EXCEPT ![fd] = NoInfo]
        /\ t.kern.sock = [s.kern.sock EXCEPT ![fd] = NoSock] /\ t.left = s.left
    BY <1>3 DEF Dropped, Removed
  <2> QED
    BY <1>2, <2>1, <2>2 DEF Only
<1>6. ASSUME NEW p \in Objects, Established(s, p), p # o \/ Cat(s, fd) \notin TcpCats
      PROVE  Established(t, p)
  <2>1. PICK g \in Fds : /\ s.kern.sock[g] = p /\ IsRegistered(s.reg, g)
                         /\ s.reg.info[g].cat \in TcpCats
    BY <1>6 DEF Established, TcpCats
  <2>2. g # fd
    BY <1>6, <2>1 DEF Cat
  <2> QED
    BY <1>5, <2>1, <2>2 DEF Only, Established, IsRegistered, TcpCats
<1>7. ASSUME Sole(s, fd), Calm(s) PROVE Calm(t)
  <2>1. /\ t.kern.watch = s.kern.watch \ {w \in s.kern.watch : w[1] = o}
        /\ t.kern.hup = s.kern.hup \ {w \in s.kern.watch : w[1] = o}
        /\ t.kern.broken = s.kern.broken \ {o}
    BY <1>3, <1>7, Zenon DEF Dropped, Sole
  <2>2. /\ \A w \in s.kern.watch : w[1] \in Objects /\ w[2] \in Fds
        /\ s.kern.hup \subseteq s.kern.watch
    BY AtHas
  <2>3. ASSUME NEW w \in t.kern.watch
        PROVE  IF w[3] = "none" THEN Established(t, w[1])
               ELSE t.kern.sock[w[2]] = w[1] /\ (w[3] = "out" => Cat(t, w[2]) = "tcp-write")
    <3>1. w \in s.kern.watch /\ w[1] # o /\ w[1] \in Objects /\ w[2] \in Fds
      BY <2>1, <2>2
    <3>2. CASE w[3] = "none"
      BY <1>6, <1>7, <3>1, <3>2 DEF Calm
    <3>3. CASE w[3] # "none"
      <4>1. s.kern.sock[w[2]] = w[1] /\ (w[3] = "out" => Cat(s, w[2]) = "tcp-write")
        BY <1>7, <3>1, <3>3 DEF Calm
      <4>2. w[2] # fd
        BY <3>1, <4>1
      <4> QED
        BY <1>5, <3>1, <3>3, <4>1, <4>2 DEF Only, Cat
    <3> QED
      BY <3>2, <3>3
  <2>4. ASSUME NEW w \in t.kern.hup
        PROVE  w[3] # "none" /\ (w[1] \in t.kern.broken \/ Established(t, w[1]))
    <3>1. w \in s.kern.hup /\ w[1] # o /\ w[1] \in Objects
      BY <2>1, <2>2
    <3>2. w[3] # "none" /\ (w[1] \in s.kern.broken \/ Established(s, w[1]))
      BY <1>7, <3>1 DEF Calm
    <3> QED
      BY <1>6, <2>1, <3>1, <3>2
  <2> QED
    BY <2>3, <2>4 DEF Calm
<1>8. ASSUME Cat(s, fd) = "set_timeout", Troubled(s) PROVE Troubled(t)
  <2>1. PICK p \in s.kern.broken : Established(s, p)
    BY <1>8 DEF Troubled
  <2>2. p \in Objects
    BY AtHas
  <2>3. p # o
    <3>1. PICK g \in Fds : /\ s.kern.sock[g] = p /\ IsRegistered(s.reg, g)
                           /\ s.reg.info[g].cat \in TcpCats
      BY <2>1 DEF Established, TcpCats
    <3>2. g # fd
      BY <1>8, <3>1 DEF Cat, TcpCats
    <3> QED
      BY <1>1, <1>2, <1>8, <2>2, <3>1, <3>2 DEF Base, Apart
  <2>4. p \in t.kern.broken
    BY <1>3, <2>1, <2>3, Zenon DEF Dropped
  <2> QED
    BY <1>6, <2>1, <2>2, <2>3, <2>4 DEF Troubled
<1> QED
  BY <1>3, <1>4, <1>5, <1>7, <1>8 DEF Lost, t

LEMMA SoleOf ==
  ASSUME NEW s0, NEW s, NEW l, At(s0, s, l), NEW f \in Own(s, l),
         \A g \in Own(s, l) \ {f} : Cat(s, g) = "set_timeout"
  PROVE  Sole(s, f)
<1> SUFFICES ASSUME NEW g \in Fds, s.kern.sock[g] = s.kern.sock[f], g # f PROVE FALSE
  BY DEF Sole
<1>1. /\ f \in Fds /\ f \in Registered(s.reg) /\ s.kern.sock[f] \in Objects /\ NoSock \notin Objects
      /\ Link(s, f) = l /\ Apart(s) /\ (IsRegistered(s.reg, g) <=> s.kern.sock[g] # NoSock)
  BY AtHas DEF Own, Base, At
<1>2. Link(s, g) = l /\ Cat(s, g) # "set_timeout"
  BY <1>1 DEF Apart
<1>3. g \in Own(s, l)
  BY <1>1, <1>2 DEF Own, Registered
<1> QED
  BY <1>2, <1>3

LEMMA TimerIsSole ==
  ASSUME NEW s0, NEW s, NEW l, At(s0, s, l), NEW f \in Own(s, l), Cat(s, f) = "set_timeout"
  PROVE  Sole(s, f)
<1>1. f \in Fds /\ s.kern.sock[f] \in Objects /\ NoSock \notin Objects /\ Apart(s)
  BY AtHas DEF Base, At
<1> QED
  BY <1>1 DEF Sole, Apart

(* What a link has beside X: one more attempt, or the two sides of a       *)
(* connection.                                                             *)
Ends(t, l, X) ==
  \/ \E g \in Own(t, l) \ X :
       Own(t, l) = X \cup {g} /\ Cat(t, g) \in {"set_timeout", "socks5"}
  \/ \E r, w \in Own(t, l) \ X :
       /\ Own(t, l) = X \cup {r, w} /\ r # w
       /\ Cat(t, r) = "tcp-read" /\ Cat(t, w) = "tcp-write"
       /\ t.kern.sock[r] = t.kern.sock[w]

(* What the exchange on fd can come to. *)
Came(s0, s, t, l, fd) ==
  /\ At(s0, t, l) /\ Ends(t, l, Own(s, l) \ {fd})
  /\ \A g \in Own(s, l) \ {fd} : Cat(t, g) = Cat(s, g)
  /\ t.left = s.left \/ (left > 0 /\ t.left = s.left - 1)
  /\ Calm(s) => Calm(t) \/ Troubled(t)

(* The connection at fd is the one attempt of its link, but for the timer  *)
(* that starts it.                                                         *)
Tries(s0, s, l, fd) ==
  /\ At(s0, s, l) /\ fd \in Own(s, l) /\ Cat(s, fd) = "socks5"
  /\ \E a : /\ Own(s, l) \subseteq {fd, a}
            /\ \A g \in Own(s, l) \ {fd} : Cat(s, g) = "set_timeout"

LEMMA Failing ==
  ASSUME NEW s0, NEW s, NEW l, NEW fd, Tries(s0, s, l, fd)
  PROVE  LET t == on_socks5_failed(s, fd)
         IN  Came(s0, s, t, l, fd) /\ t.left = s.left /\ (Calm(s) => Calm(t))
<1> DEFINE p == set_timeout(s, "failed", LinkOf(s, fd))
           t == on_socks5_failed(s, fd)
           n == NewFd(s)
<1>1. PICK a : /\ Own(s, l) \subseteq {fd, a}
               /\ \A g \in Own(s, l) \ {fd} : Cat(s, g) = "set_timeout"
  BY DEF Tries
<1>2. At(s0, s, l) /\ fd \in Own(s, l) /\ Cat(s, fd) = "socks5" /\ LinkOf(s, fd) = l
  BY DEF Tries, Own, LinkOf, Link
<1>3. Gained(s0, s, p, l, n, "set_timeout")
  <2>1. "failed" \in Kind("set_timeout")
    BY DEF Kind, Delays
  <2>2. p = Open(s, NewFd(s), NewObject(s), "set_timeout", <<"failed", l>>, "in")
    BY <1>2 DEF set_timeout
  <2> HIDE DEF p
  <2> QED
    BY <1>1, <1>2, <2>1, <2>2, OpenNew
<1>4. t = rm_fd(p, fd)
  BY DEF on_socks5_failed
<1> HIDE DEF p, t, n
<1>5. /\ At(s0, p, l) /\ n # fd /\ n \notin Own(s, l) /\ n \in Fds
      /\ Own(p, l) = Own(s, l) \cup {n} /\ Cat(p, n) = "set_timeout"
      /\ \A g \in Own(s, l) : Cat(p, g) = Cat(s, g)
      /\ p.left = s.left /\ (Calm(s) => Calm(p))
  <2>1. Own(s, l) \subseteq Fds
    BY DEF Own, Registered
  <2> QED
    BY <1>2, <1>3, <2>1 DEF Gained, Only, Cat
<1>6. fd \in Own(p, l) /\ Sole(p, fd)
  BY <1>1, <1>2, <1>5, SoleOf
<1>7. Lost(s0, p, t, l, fd)
  BY <1>4, <1>5, <1>6, RmOne
<1>8. /\ At(s0, t, l) /\ Own(t, l) = (Own(s, l) \ {fd}) \cup {n}
      /\ \A g \in Own(p, l) \ {fd} : Cat(t, g) = Cat(p, g)
      /\ t.left = s.left /\ (Calm(s) => Calm(t))
  <2>1. Own(p, l) \subseteq Fds
    BY DEF Own, Registered
  <2> QED
    BY <1>5, <1>6, <1>7, <2>1 DEF Lost, Only, Cat
<1>9. Ends(t, l, Own(s, l) \ {fd})
  BY <1>5, <1>8 DEF Ends
<1> QED
  BY <1>5, <1>8, <1>9 DEF Came, t

LEMMA Succeeding ==
  ASSUME NEW s0, NEW s, NEW l, NEW fd, Tries(s0, s, l, fd)
  PROVE  LET t == on_socks5_success(s, fd)
         IN  Came(s0, s, t, l, fd) /\ t.left = s.left
<1> DEFINE o == s.kern.sock[fd]
           q == Mute(s, fd)
           w == NewFd(q)
           x == Open(q, w, o, "tcp-write", <<"tcp-write", l>>, "out")
           r == NewFd(x)
           y == Open(x, r, o, "tcp-read", <<"tcp-read", l>>, "in")
           t == on_socks5_success(s, fd)
           X == Own(s, l) \ {fd}
<1>1. PICK a : /\ Own(s, l) \subseteq {fd, a}
               /\ \A g \in Own(s, l) \ {fd} : Cat(s, g) = "set_timeout"
  BY DEF Tries
<1>2. /\ At(s0, s, l) /\ fd \in Own(s, l) /\ Cat(s, fd) = "socks5" /\ LinkOf(s, fd) = l
      /\ Sole(s, fd)
  <2>1. At(s0, s, l) /\ fd \in Own(s, l) /\ Cat(s, fd) = "socks5" /\ LinkOf(s, fd) = l
    BY DEF Tries, Own, LinkOf, Link
  <2> QED
    BY <1>1, <2>1, SoleOf
<1>3. t = rm_fd(y, fd)
  BY <1>2 DEF on_socks5_success, Mute
<1>4. /\ s0 \in States /\ Alone(s0) /\ l \in Links /\ Fits(batch) /\ Others(s0, s, l)
      /\ Base(s, batch) /\ fd \in Fds /\ fd \in Registered(s.reg) /\ o \in Objects
      /\ NoSock \notin Objects
  BY <1>2, AtHas DEF At
<1>5. /\ MutedTo(s, q, o, fd) /\ Base(q, batch) /\ Others(s, q, l) /\ Own(q, l) = Own(s, l)
  BY <1>2, <1>4, MuteBase
<1> HIDE DEF t, q
<1>6. At(s0, q, l) /\ q.reg = s.reg /\ q.kern.sock = s.kern.sock /\ q.left = s.left
  BY <1>4, <1>5, OthersTrans DEF At, MutedTo
<1>7. /\ "tcp-read" \in Cats /\ "tcp-write" \in Cats /\ "tcp-read" \in TcpCats
      /\ "tcp-write" \in TcpCats /\ "tcp-write" \in Kind("tcp-write")
      /\ "tcp-read" \in Kind("tcp-read") /\ "in" \in Dirs /\ "out" \in Dirs
      /\ "set_timeout" \notin TcpCats /\ "socks5" \notin TcpCats
  BY Names DEF TcpCats, Kind, Dirs
<1>8. w \in Fds /\ q.kern.sock[w] = NoSock
  <2>1. \A g \in Registered(q.reg) : Link(q, g) \in Links
    BY <1>6, AtHas
  <2>2. \A g \in Fds : IsRegistered(q.reg, g) <=> q.kern.sock[g] # NoSock
    BY <1>6, AtHas
  <2>3. Own(q, l) \subseteq {fd, a, a} /\ q \in States
    BY <1>1, <1>5 DEF Base
  <2>4. Others(s0, q, l)
    BY <1>6 DEF At
  <2> QED
    BY <1>4, <2>1, <2>2, <2>3, <2>4, RoomForFd
<1> HIDE DEF w
<1>9. /\ Opened(q, x, w, o, "tcp-write", <<"tcp-write", l>>, "out") /\ Base(x, batch)
      /\ Others(q, x, l) /\ Own(x, l) = Own(q, l) \cup {w}
  <2>1. \A g \in Registered(q.reg) : Cat(q, g) = "tcp-write" => Link(q, g) # l
    <3>1. \A g \in Own(q, l) : Cat(q, g) \in {"set_timeout", "socks5"}
      BY <1>1, <1>2, <1>5, <1>6 DEF Cat
    <3> QED
      BY <3>1 DEF Own
  <2>2. \A g \in Fds : q.kern.sock[g] = o => Link(q, g) = l /\ Cat(q, g) # "set_timeout"
    BY <1>2, <1>6 DEF Sole, Cat, Link, Own
  <2> QED
    BY <1>4, <1>5, <1>7, <1>8, <2>1, <2>2, OpenBase
<1> HIDE DEF x
<1>10. At(s0, x, l)
  BY <1>6, <1>9, OthersTrans DEF At
<1>11. /\ x.kern.sock[w] = o /\ Cat(x, w) = "tcp-write" /\ Link(x, w) = l
       /\ Only(q, x, w) /\ x.left = s.left /\ IsRegistered(x.reg, w)
  <2>1. /\ s.reg.info \in [Fds -> Info \cup {NoInfo}]
        /\ s.kern.sock \in [Fds -> Objects \cup {NoSock}]
    BY <1>4, StateHas DEF Base
  <2>2. /\ x.reg.info = [s.reg.info EXCEPT ![w] = [cat |-> "tcp-write", url |-> <<"tcp-write", l>>]]
        /\ x.kern.sock = [s.kern.sock EXCEPT ![w] = o] /\ x.left = q.left
    BY <1>6, <1>9 DEF Opened, Added
  <2>3. x.kern.sock[w] = o /\ Only(q, x, w) /\ x.left = s.left
    BY <1>6, <1>8, <2>1, <2>2 DEF Only
  <2>4. x.reg.info[w] = [cat |-> "tcp-write", url |-> <<"tcp-write", l>>]
    BY <1>8, <2>1, <2>2
  <2>5. Cat(x, w) = "tcp-write" /\ Link(x, w) = l
    BY <2>4 DEF Cat, Link
  <2>6. IsRegistered(x.reg, w)
    BY <1>4, <1>8, <1>10, <2>3, AtHas
  <2> QED
    BY <2>3, <2>5, <2>6
<1>12. w \notin Own(s, l) /\ w # fd
  BY <1>4, <1>6, <1>8, AtHas DEF Own, Registered
<1>13. r \in Fds /\ x.kern.sock[r] = NoSock
  <2>1. \A g \in Registered(x.reg) : Link(x, g) \in Links
    BY <1>10, AtHas
  <2>2. \A g \in Fds : IsRegistered(x.reg, g) <=> x.kern.sock[g] # NoSock
    BY <1>10, AtHas
  <2>3. Own(x, l) \subseteq {fd, a, w} /\ x \in States
    BY <1>1, <1>5, <1>9 DEF Base
  <2>4. Others(s0, x, l)
    BY <1>10 DEF At
  <2> QED
    BY <1>4, <2>1, <2>2, <2>3, <2>4, RoomForFd
<1> HIDE DEF r
<1>14. r # w /\ s.kern.sock[r] = NoSock
  BY <1>4, <1>6, <1>11, <1>13 DEF Only
<1>15. /\ Opened(x, y, r, o, "tcp-read", <<"tcp-read", l>>, "in") /\ Base(y, batch)
       /\ Others(x, y, l) /\ Own(y, l) = Own(x, l) \cup {r}
  <2>1. \A g \in Registered(x.reg) : Cat(x, g) = "tcp-read" => Link(x, g) # l
    <3>1. \A g \in Own(s, l) : Cat(x, g) \in {"set_timeout", "socks5"} \/ g = w
      BY <1>1, <1>2, <1>6, <1>11 DEF Cat, Only, Own, Registered
    <3> QED
      BY <1>5, <1>9, <1>11, <3>1 DEF Own
  <2>2. \A g \in Fds : x.kern.sock[g] = o => Link(x, g) = l /\ Cat(x, g) # "set_timeout"
    BY <1>2, <1>6, <1>11 DEF Sole, Cat, Link, Own, Only
  <2> QED
    BY <1>4, <1>7, <1>9, <1>13, <2>1, <2>2, OpenBase
<1> HIDE DEF y
<1>16. At(s0, y, l)
  BY <1>10, <1>15, OthersTrans DEF At
<1>17. /\ y.kern.sock[r] = o /\ Cat(y, r) = "tcp-read" /\ Only(x, y, r) /\ y.left = s.left
       /\ IsRegistered(y.reg, r)
  <2>1. /\ x.reg.info \in [Fds -> Info \cup {NoInfo}]
        /\ x.kern.sock \in [Fds -> Objects \cup {NoSock}]
    BY <1>9, StateHas DEF Base
  <2>2. /\ y.reg.info = [x.reg.info EXCEPT ![r] = [cat |-> "tcp-read", url |-> <<"tcp-read", l>>]]
        /\ y.kern.sock = [x.kern.sock EXCEPT ![r] = o] /\ y.left = x.left
    BY <1>15 DEF Opened, Added
  <2>3. y.kern.sock[r] = o /\ Only(x, y, r) /\ y.left = s.left
    BY <1>11, <1>13, <2>1, <2>2 DEF Only
  <2>4. y.reg.info[r] = [cat |-> "tcp-read", url |-> <<"tcp-read", l>>]
    BY <1>13, <2>1, <2>2
  <2>5. IsRegistered(y.reg, r)
    BY <1>4, <1>13, <1>16, <2>3, AtHas
  <2> QED
    BY <2>3, <2>4, <2>5 DEF Cat
<1>18. r \notin Own(s, l) /\ r # fd
  BY <1>2, <1>4, <1>14, AtHas DEF Own, Registered
<1>19. fd \in Own(y, l) /\ Own(y, l) = Own(s, l) \cup {w, r}
  BY <1>2, <1>5, <1>9, <1>15
<1>20. Lost(s0, y, t, l, fd) /\ Dropped(y, t, fd)
  <2>1. /\ y \in States /\ fd \in Registered(y.reg) /\ Base(y, batch)
    BY <1>15, <1>19 DEF Base, Own
  <2>2. Dropped(y, t, fd)
    BY <1>3, <2>1, RmBase
  <2> QED
    BY <1>3, <1>16, <1>19, <2>2, RmOne
<1>21. /\ At(s0, t, l) /\ Own(t, l) = X \cup {r, w} /\ t.left = s.left
       /\ r \in Own(t, l) \ X /\ w \in Own(t, l) \ X
  BY <1>12, <1>17, <1>18, <1>19, <1>20 DEF Lost
<1>22. \A g \in Fds \ {fd, w, r} : /\ t.reg.info[g] = s.reg.info[g]
                                   /\ t.kern.sock[g] = s.kern.sock[g]
  BY <1>6, <1>11, <1>17, <1>20 DEF Lost, Only
<1>23. /\ t.kern.sock[r] = o /\ t.kern.sock[w] = o
       /\ Cat(t, r) = "tcp-read" /\ Cat(t, w) = "tcp-write"
       /\ t.reg.info[r] = y.reg.info[r]
  BY <1>8, <1>11, <1>12, <1>13, <1>14, <1>17, <1>18, <1>20 DEF Lost, Only, Cat
<1>24. Ends(t, l, X)
  BY <1>14, <1>21, <1>23 DEF Ends
<1>25. \A g \in X : Cat(t, g) = Cat(s, g)
  BY <1>4, <1>12, <1>18, <1>22, AtHas DEF Cat, Own, Registered
<1>26. t.kern.broken = s.kern.broken /\ t.kern.watch = y.kern.watch /\ t.kern.hup = y.kern.hup
  <2>1. y.kern.sock[fd] = o /\ y.kern.sock[w] = o
    BY <1>4, <1>6, <1>8, <1>11, <1>12, <1>14, <1>17, <1>18 DEF Only
  <2>2. ~ \A g \in Fds : y.kern.sock[g] = y.kern.sock[fd] => g = fd
    BY <1>8, <1>12, <2>1
  <2>3. /\ t.kern.broken = y.kern.broken
        /\ t.kern.watch = y.kern.watch \ {} /\ t.kern.hup = y.kern.hup \ {}
    BY <1>20, <2>2, Zenon DEF Dropped
  <2>4. y.kern.broken = s.kern.broken
    BY <1>5, <1>9, <1>15 DEF Opened, MutedTo
  <2> QED
    BY <2>3, <2>4
<1>27. t.kern.watch = (s.kern.watch \ {<<o, fd, "in">>})
                        \cup {<<o, fd, "none">>, <<o, w, "out">>, <<o, r, "in">>}
  <2>1. /\ q.kern.watch = (s.kern.watch \ {<<o, fd, "in">>}) \cup {<<o, fd, "none">>}
        /\ x.kern.watch = q.kern.watch \cup {<<o, w, "out">>}
        /\ y.kern.watch = x.kern.watch \cup {<<o, r, "in">>}
    BY <1>5, <1>9, <1>15 DEF Opened, MutedTo
  <2> QED
    BY <1>26, <2>1
<1>28. Established(t, o)
  <2>1. IsRegistered(t.reg, r)
    BY <1>17, <1>23 DEF IsRegistered
  <2> QED
    BY <1>13, <1>23, <2>1 DEF Established, Cat
<1>29. CASE o \in s.kern.broken
  <2>1. Troubled(t)
    BY <1>26, <1>28, <1>29 DEF Troubled
  <2> QED
    BY <1>21, <1>24, <1>25, <2>1 DEF Came, t
<1>30. ASSUME o \notin s.kern.broken, Calm(s) PROVE Calm(t)
  <2>1. ~ Established(s, o)
    BY <1>2 DEF Established, Sole, Cat
  <2>2. \A v \in s.kern.hup : v[1] # o
    BY <1>30, <2>1 DEF Calm
  <2>3. t.kern.hup = s.kern.hup
    <3>1. <<o, fd, "in">> \notin s.kern.hup
      BY <2>2
    <3>2. q.kern.hup = s.kern.hup /\ q.kern.broken = s.kern.broken
      BY <1>5, <3>1 DEF MutedTo
    <3>3. x.kern.hup = q.kern.hup /\ x.kern.broken = q.kern.broken
      BY <1>9, <1>30, <3>2 DEF Opened
    <3>4. y.kern.hup = x.kern.hup
      BY <1>15, <1>30, <3>2, <3>3 DEF Opened
    <3> QED
      BY <1>26, <3>2, <3>3, <3>4
  <2>4. ASSUME NEW p \in Objects, Established(s, p) PROVE Established(t, p)
    <3>1. PICK g \in Fds : /\ s.kern.sock[g] = p /\ IsRegistered(s.reg, g)
                           /\ s.reg.info[g].cat \in TcpCats
      BY <2>4 DEF Established, TcpCats
    <3>2. s.kern.sock[w] = NoSock
      BY <1>6, <1>8
    <3>3. g # fd /\ g # w /\ g # r
      BY <1>2, <1>4, <1>7, <1>14, <3>1, <3>2 DEF Cat
    <3> QED
      BY <1>22, <3>1, <3>3 DEF Established, IsRegistered, TcpCats
  <2>5. ASSUME NEW v \in t.kern.watch
        PROVE  IF v[3] = "none" THEN Established(t, v[1])
               ELSE t.kern.sock[v[2]] = v[1] /\ (v[3] = "out" => Cat(t, v[2]) = "tcp-write")
    <3>1. CASE v \in {<<o, fd, "none">>, <<o, w, "out">>, <<o, r, "in">>}
      BY <1>23, <1>28, <3>1
    <3>2. CASE v \in s.kern.watch \ {<<o, fd, "in">>}
      <4>1. /\ v[1] \in Objects /\ v[2] \in Fds /\ v[3] \in {"in", "out", "none"}
            /\ v = <<v[1], v[2], v[3]>>
        <5>1. v \in Objects \X Fds \X {"in", "out", "none"}
          BY <1>2, <3>2, AtHas
        <5> QED
          BY <5>1
      <4>2. CASE v[3] = "none"
        BY <1>30, <2>4, <3>2, <4>1, <4>2 DEF Calm
      <4>3. CASE v[3] # "none"
        <5>1. s.kern.sock[v[2]] = v[1] /\ (v[3] = "out" => Cat(s, v[2]) = "tcp-write")
          BY <1>30, <3>2, <4>3 DEF Calm
        <5>2. v[2] # fd
          <6>1. v[2] = fd => v[3] # "out"
            BY <1>2, <5>1
          <6> QED
            BY <3>2, <4>1, <4>3, <5>1, <6>1
        <5>3. s.kern.sock[w] = NoSock
          BY <1>6, <1>8
        <5>4. v[2] # w /\ v[2] # r
          BY <1>4, <1>14, <4>1, <5>1, <5>3
        <5>5. t.kern.sock[v[2]] = v[1] /\ Cat(t, v[2]) = Cat(s, v[2])
          BY <1>22, <4>1, <5>1, <5>2, <5>4 DEF Cat
        <5> QED
          BY <4>3, <5>1, <5>5
      <4> QED
        BY <4>2, <4>3
    <3> QED
      BY <1>27, <3>1, <3>2
  <2>6. ASSUME NEW v \in t.kern.hup
        PROVE  v[3] # "none" /\ (v[1] \in t.kern.broken \/ Established(t, v[1]))
    <3>1. v \in s.kern.hup /\ v \in s.kern.watch /\ v[1] \in Objects
      BY <1>2, <2>3, AtHas
    <3>2. v[3] # "none" /\ (v[1] \in s.kern.broken \/ Established(s, v[1]))
      BY <1>30, <3>1 DEF Calm
    <3> QED
      BY <1>26, <2>4, <3>1, <3>2
  <2> QED
    BY <2>5, <2>6 DEF Calm
<1> QED
  BY <1>21, <1>24, <1>25, <1>29, <1>30 DEF Came, t

LEMMA Exchanging ==
  ASSUME NEW s0, NEW s, NEW l, NEW fd, Tries(s0, s, l, fd), s.left = left,
         NEW t \in socks5(s, fd)
  PROVE  Came(s0, s, t, l, fd)
<1>1. At(s0, s, l) /\ fd \in Own(s, l) /\ Cat(s, fd) = "socks5"
  BY DEF Tries
<1>2. CASE t = s
  <2>1. Ends(s, l, Own(s, l) \ {fd})
    BY <1>1 DEF Ends
  <2> QED
    BY <1>1, <1>2, <2>1 DEF Came
<1>3. CASE t = on_socks5_success(s, fd)
  BY <1>3, Succeeding
<1>4. CASE left > 0 /\ t = [on_socks5_failed(s, fd) EXCEPT !.left = @ - 1]
  <2> DEFINE p == on_socks5_failed(s, fd)
  <2>1. Came(s0, s, p, l, fd) /\ p.left = s.left /\ (Calm(s) => Calm(p))
    BY Failing
  <2>2. t = [p EXCEPT !.left = p.left - 1]
    BY <1>4
  <2> HIDE DEF p
  <2>3. p \in States /\ Base(p, batch) /\ At(s0, p, l)
    BY <2>1 DEF Came, At, Base
  <2>4. Quietly(p, t) /\ t.left = s.left - 1 /\ t.reg = p.reg /\ t.kern = p.kern
    BY <2>1, <2>2, <2>3 DEF Quietly, States
  <2>5. Base(t, batch) /\ Others(p, t, l) /\ Own(t, l) = Own(p, l)
    BY <2>3, <2>4, QuietBase DEF At
  <2>6. At(s0, t, l)
    BY <2>3, <2>5, OthersTrans DEF At
  <2>7. Ends(t, l, Own(s, l) \ {fd}) /\ \A g \in Own(s, l) \ {fd} : Cat(t, g) = Cat(s, g)
    <3>1. \A g : Cat(t, g) = Cat(p, g)
      BY <2>4 DEF Cat
    <3> QED
      BY <2>1, <2>4, <2>5, <3>1 DEF Came, Ends
  <2>8. Calm(s) => Calm(t)
    BY <2>1, <2>4 DEF Calm, Established, Cat
  <2> QED
    BY <1>4, <2>4, <2>6, <2>7, <2>8 DEF Came
<1> QED
  BY <1>2, <1>3, <1>4 DEF socks5

(* The handler is done: its link has an attempt or a connection, and       *)
(* nothing else.                                                           *)
Done(s0, s, t, l) ==
  /\ At(s0, t, l) /\ Ends(t, l, {})
  /\ t.left = s.left \/ (left > 0 /\ t.left = s.left - 1)
  /\ Calm(s) => Calm(t) \/ Troubled(t)

(* A timer that has expired. *)
LEMMA Retriggering ==
  ASSUME NEW s0, NEW s, NEW l, At(s0, s, l), s.left = left,
         NEW fd, Own(s, l) = {fd}, Cat(s, fd) = "set_timeout",
         NEW u \in reinit_socks5(s, l)
  PROVE  Done(s0, s, rm_fd(u, fd), l)
<1> DEFINE n == NewFd(s)
           q == socks5_create_dns_client(s, l)
           t == rm_fd(u, fd)
<1>1. Gained(s0, s, q, l, n, "socks5")
  <2>1. "socks5" \in Kind("socks5") /\ Own(s, l) \subseteq {fd, fd}
    BY DEF Kind
  <2>2. q = Open(s, NewFd(s), NewObject(s), "socks5", <<"socks5", l>>, "in")
    BY DEF socks5_create_dns_client
  <2> HIDE DEF q
  <2> QED
    BY <2>1, <2>2, OpenNew
<1>2. u \in socks5(q, n)
  BY DEF reinit_socks5
<1> HIDE DEF n, q
<1>3. /\ At(s0, q, l) /\ Own(q, l) = {fd, n} /\ n # fd /\ Cat(q, n) = "socks5"
      /\ Cat(q, fd) = "set_timeout" /\ q.left = s.left /\ (Calm(s) => Calm(q))
  <2>1. fd \in Fds
    BY DEF Own, Registered
  <2> QED
    BY <1>1, <2>1 DEF Gained, Only, Cat
<1>4. Tries(s0, q, l, n)
  BY <1>3 DEF Tries
<1>5. Came(s0, q, u, l, n)
  BY <1>2, <1>3, <1>4, Exchanging
<1>6. At(s0, u, l) /\ Ends(u, l, {fd}) /\ Cat(u, fd) = "set_timeout" /\ fd \in Own(u, l)
  <2>1. Own(q, l) \ {n} = {fd}
    BY <1>3
  <2>2. At(s0, u, l) /\ Ends(u, l, {fd}) /\ Cat(u, fd) = "set_timeout"
    BY <1>3, <1>5, <2>1 DEF Came
  <2> QED
    BY <2>2 DEF Ends
<1>7. Lost(s0, u, t, l, fd) /\ Sole(u, fd)
  BY <1>6, RmOne, TimerIsSole
<1> HIDE DEF t
<1>8. /\ Own(t, l) = Own(u, l) \ {fd}
      /\ \A g \in Own(t, l) : Cat(t, g) = Cat(u, g) /\ t.kern.sock[g] = u.kern.sock[g]
  <2>1. Own(u, l) \subseteq Fds
    BY DEF Own, Registered
  <2> QED
    BY <1>7, <2>1 DEF Lost, Only, Cat
<1>9. Ends(t, l, {})
  <2>1. CASE \E g \in Own(u, l) \ {fd} :
               Own(u, l) = {fd} \cup {g} /\ Cat(u, g) \in {"set_timeout", "socks5"}
    BY <1>8, <2>1 DEF Ends
  <2>2. CASE \E r, w \in Own(u, l) \ {fd} :
               /\ Own(u, l) = {fd} \cup {r, w} /\ r # w
               /\ Cat(u, r) = "tcp-read" /\ Cat(u, w) = "tcp-write"
               /\ u.kern.sock[r] = u.kern.sock[w]
    <3>1. PICK r, w \in Own(u, l) \ {fd} :
               /\ Own(u, l) = {fd} \cup {r, w} /\ r # w
               /\ Cat(u, r) = "tcp-read" /\ Cat(u, w) = "tcp-write"
               /\ u.kern.sock[r] = u.kern.sock[w]
      BY <2>2
    <3>2. Own(t, l) = {r, w} /\ r \in Own(t, l) /\ w \in Own(t, l)
      BY <1>8, <3>1
    <3>3. /\ Cat(t, r) = "tcp-read" /\ Cat(t, w) = "tcp-write"
          /\ t.kern.sock[r] = t.kern.sock[w]
      BY <1>8, <3>1, <3>2
    <3> QED
      BY <3>1, <3>2, <3>3 DEF Ends
  <2> QED
    BY <1>6, <2>1, <2>2 DEF Ends
<1>10. t.left = s.left \/ (left > 0 /\ t.left = s.left - 1)
  BY <1>3, <1>5, <1>7 DEF Came, Lost
<1>11. Calm(s) => Calm(t) \/ Troubled(t)
  BY <1>3, <1>5, <1>6, <1>7 DEF Came, Lost
<1> QED
  BY <1>7, <1>9, <1>10, <1>11 DEF Done, Lost, t

(* After a handler, the descriptors of its link go together again. *)
LEMMA AloneAgain ==
  ASSUME NEW s0, NEW t, NEW l, At(s0, t, l),
         \A f, g \in Own(t, l) : f # g =>
           /\ Cat(t, f) \in TcpCats /\ Cat(t, g) \in TcpCats /\ Cat(t, f) # Cat(t, g)
           /\ t.kern.sock[f] = t.kern.sock[g]
  PROVE  Alone(t)
<1> SUFFICES ASSUME NEW f \in Registered(t.reg), NEW g \in Registered(t.reg),
                    f # g, Link(t, f) = Link(t, g)
             PROVE  /\ Cat(t, f) \in TcpCats /\ Cat(t, g) \in TcpCats /\ Cat(t, f) # Cat(t, g)
                    /\ t.kern.sock[f] = t.kern.sock[g]
  BY DEF Alone
<1>1. CASE Link(t, f) = l
  BY <1>1 DEF Own
<1>2. CASE Link(t, f) # l
  <2>1. /\ f \in Fds /\ g \in Fds /\ IsRegistered(t.reg, f) /\ IsRegistered(t.reg, g)
        /\ Link(t, g) # l /\ Others(s0, t, l) /\ Alone(s0)
    BY <1>2 DEF Registered, At
  <2>2. /\ s0.reg.info[f] = t.reg.info[f] /\ s0.kern.sock[f] = t.kern.sock[f]
        /\ s0.reg.info[g] = t.reg.info[g] /\ s0.kern.sock[g] = t.kern.sock[g]
    BY <1>2, <2>1 DEF Others
  <2>3. f \in Registered(s0.reg) /\ g \in Registered(s0.reg) /\ Link(s0, f) = Link(s0, g)
    BY <2>1, <2>2 DEF Registered, IsRegistered, Link
  <2> QED
    BY <2>1, <2>2, <2>3 DEF Alone, Cat
<1> QED
  BY <1>1, <1>2

LEMMA EndsAlone ==
  ASSUME NEW s0, NEW t, NEW l, At(s0, t, l), Ends(t, l, {})
  PROVE  Alone(t)
<1>1. \A f, g \in Own(t, l) : f # g =>
         /\ Cat(t, f) \in TcpCats /\ Cat(t, g) \in TcpCats /\ Cat(t, f) # Cat(t, g)
         /\ t.kern.sock[f] = t.kern.sock[g]
  BY DEF Ends, TcpCats
<1> QED
  BY <1>1, AloneAgain

(* A side of a connection is what is found by its URL. *)
LEMMA Sides ==
  ASSUME NEW s, Base(s, batch), NEW l \in Links, NEW c \in TcpCats
  PROVE  LET r == FromUrl(s.reg, <<c, l>>)
         IN  /\ r # NoFd => r \in Own(s, l) /\ Cat(s, r) = c
             /\ \A g \in Own(s, l) : Cat(s, g) = c => r = g /\ r # NoFd
<1> DEFINE u == <<c, l>>
           r == FromUrl(s.reg, u)
<1>1. s \in States /\ Named(s) /\ UrlsLive(s.reg) /\ s.reg.url \in [Urls -> Fds \cup {NoFd}]
  BY StateHas DEF Base, RegistryInv
<1>2. u \in Urls /\ c \in Cats /\ Kind(c) = {c} /\ NoFd \notin Fds /\ NoFd \notin Urls
  <2>1. Kind(c) = {c} /\ c \in Cats /\ NoFd \notin Fds
    BY Names DEF Kind
  <2> QED
    BY <2>1, Names, EvtCoreAssumption
<1> HIDE DEF u
<1>3. ASSUME r # NoFd PROVE r \in Own(s, l) /\ Cat(s, r) = c
  <2>1. r \in Fds /\ s.reg.info[r].url = u
    BY <1>1, <1>2, <1>3 DEF FromUrl, UrlsLive
  <2>2. r \in Registered(s.reg)
    BY <1>2, <2>1 DEF Registered, IsRegistered, NoInfo
  <2>3. u \in Kind(Cat(s, r)) \X Links
    BY <1>1, <2>1, <2>2 DEF Named
  <2>4. c \in Kind(Cat(s, r)) /\ Link(s, r) = l
    BY <2>1, <2>3 DEF u, Link
  <2>5. Cat(s, r) \in Cats
    BY <1>1, <2>2, StateHas DEF Registered, IsRegistered, Info, Cat
  <2>6. Cat(s, r) = c
    BY <1>2, <2>4, <2>5, Names
  <2> QED
    BY <2>2, <2>4, <2>6 DEF Own
<1>4. ASSUME NEW g \in Own(s, l), Cat(s, g) = c PROVE r = g /\ r # NoFd
  <2>1. g \in Registered(s.reg) /\ g \in Fds /\ Link(s, g) = l
    BY DEF Own, Registered
  <2>2. s.reg.info[g].url \in {c} \X Links /\ s.reg.url[s.reg.info[g].url] = g
    BY <1>1, <1>2, <1>4, <2>1 DEF Named
  <2>3. s.reg.info[g].url = u
    BY <2>1, <2>2 DEF Link, u
  <2> QED
    BY <1>2, <2>1, <2>2, <2>3 DEF FromUrl
<1> QED
  BY <1>3, <1>4 DEF u

(* Both sides of a connection are removed, and its object goes. *)
LEMMA RmBoth ==
  ASSUME NEW s, NEW l, At(s, s, l), NEW r \in Own(s, l), NEW w \in Own(s, l),
         Cat(s, r) = "tcp-read", Cat(s, w) = "tcp-write"
  PROVE  LET t == rm_fd(rm_fd(s, r), w)
         IN  At(s, t, l) /\ Own(t, l) = {} /\ t.left = s.left /\ (Calm(s) => Calm(t))
<1> DEFINE p == rm_fd(s, r)
           t == rm_fd(p, w)
           o == s.kern.sock[r]
<1>1. /\ s \in States /\ Base(s, batch) /\ Alone(s) /\ Apart(s) /\ r # w
      /\ r \in Fds /\ w \in Fds /\ r \in Registered(s.reg) /\ w \in Registered(s.reg)
      /\ Link(s, r) = l /\ Link(s, w) = l /\ o \in Objects /\ NoSock \notin Objects
  BY AtHas DEF At, Base, Own
<1>2. s.kern.sock[w] = o
  BY <1>1 DEF Alone
<1>3. Own(s, l) = {r, w}
  <2> SUFFICES ASSUME NEW g \in Own(s, l), g # r, g # w PROVE FALSE
    OBVIOUS
  <2>1. g \in Registered(s.reg) /\ Link(s, g) = l
    BY DEF Own
  <2>2. Cat(s, g) \in TcpCats /\ Cat(s, g) # Cat(s, r) /\ Cat(s, g) # Cat(s, w)
    BY <1>1, <2>1 DEF Alone
  <2> QED
    BY <2>2 DEF TcpCats
<1>4. \A g \in Fds : s.kern.sock[g] = o => g \in {r, w}
  <2> SUFFICES ASSUME NEW g \in Fds, s.kern.sock[g] = o, g # r PROVE g \in Own(s, l)
    BY <1>3
  <2>1. IsRegistered(s.reg, g) /\ Link(s, g) = l
    BY <1>1, AtHas DEF Apart
  <2> QED
    BY <2>1 DEF Own, Registered
<1>5. Lost(s, s, p, l, r) /\ Dropped(s, p, r)
  <2>1. Dropped(s, p, r)
    BY <1>1, RmBase
  <2> QED
    BY <2>1, RmOne
<1> HIDE DEF p
<1>6. /\ At(s, p, l) /\ Own(p, l) = {w} /\ p.left = s.left /\ p.kern.sock[w] = o
      /\ w \in Registered(p.reg) /\ Base(p, batch)
  BY <1>1, <1>2, <1>3, <1>5 DEF Lost, Only, At, Own
<1>7. Lost(s, p, t, l, w) /\ Dropped(p, t, w)
  <2>1. Dropped(p, t, w)
    BY <1>6, RmBase
  <2> QED
    BY <1>6, <2>1, RmOne
<1> HIDE DEF t
<1>8. At(s, t, l) /\ Own(t, l) = {} /\ t.left = s.left
  BY <1>6, <1>7 DEF Lost
<1>9. \A g \in Fds \ {r, w} : /\ t.reg.info[g] = s.reg.info[g]
                              /\ t.kern.sock[g] = s.kern.sock[g]
  BY <1>5, <1>7 DEF Lost, Only
<1>10. /\ p.kern.watch = s.kern.watch /\ p.kern.hup = s.kern.hup
       /\ p.kern.broken = s.kern.broken
  <2>1. ~ \A g \in Fds : s.kern.sock[g] = s.kern.sock[r] => g = r
    BY <1>1, <1>2
  <2>2. /\ p.kern.watch = s.kern.watch \ {} /\ p.kern.hup = s.kern.hup \ {}
        /\ p.kern.broken = s.kern.broken
    BY <1>5, <2>1, Zenon DEF Dropped
  <2> QED
    BY <2>2
<1>11. /\ t.kern.watch = s.kern.watch \ {v \in s.kern.watch : v[1] = o}
       /\ t.kern.hup = s.kern.hup \ {v \in s.kern.watch : v[1] = o}
       /\ t.kern.broken = s.kern.broken \ {o}
  <2>1. p.kern.sock[r] = NoSock
    BY <1>1, <1>5, AtHas DEF Dropped
  <2>2. \A g \in Fds : p.kern.sock[g] = p.kern.sock[w] => g = w
    <3>1. \A g \in Fds : g # r => p.kern.sock[g] = s.kern.sock[g]
      BY <1>5 DEF Lost, Only
    <3> QED
      BY <1>1, <1>4, <1>6, <2>1, <3>1
  <2>3. /\ t.kern.watch = p.kern.watch \ {v \in p.kern.watch : v[1] = p.kern.sock[w]}
        /\ t.kern.hup = p.kern.hup \ {v \in p.kern.watch : v[1] = p.kern.sock[w]}
        /\ t.kern.broken = p.kern.broken \ {p.kern.sock[w]}
    BY <1>7, <2>2, Zenon DEF Dropped
  <2> QED
    BY <1>6, <1>10, <2>3
<1>12. ASSUME NEW x \in Objects, Established(s, x), x # o PROVE Established(t, x)
  <2>1. PICK g \in Fds : /\ s.kern.sock[g] = x /\ IsRegistered(s.reg, g)
                         /\ s.reg.info[g].cat \in TcpCats
    BY <1>12 DEF Established, TcpCats
  <2>2. g # r /\ g # w
    BY <1>2, <1>12, <2>1
  <2> QED
    BY <1>9, <2>1, <2>2 DEF Established, IsRegistered, TcpCats
<1>13. ASSUME Calm(s) PROVE Calm(t)
  <2>1. /\ \A v \in s.kern.watch : v[1] \in Objects /\ v[2] \in Fds
        /\ s.kern.hup \subseteq s.kern.watch
    BY AtHas
  <2>2. ASSUME NEW v \in t.kern.watch
        PROVE  IF v[3] = "none" THEN Established(t, v[1])
               ELSE t.kern.sock[v[2]] = v[1] /\ (v[3] = "out" => Cat(t, v[2]) = "tcp-write")
    <3>1. v \in s.kern.watch /\ v[1] # o /\ v[1] \in Objects /\ v[2] \in Fds
      BY <1>11, <2>1
    <3>2. CASE v[3] = "none"
      BY <1>12, <1>13, <3>1, <3>2 DEF Calm
    <3>3. CASE v[3] # "none"
      <4>1. s.kern.sock[v[2]] = v[1] /\ (v[3] = "out" => Cat(s, v[2]) = "tcp-write")
        BY <1>13, <3>1, <3>3 DEF Calm
      <4>2. v[2] # r /\ v[2] # w
        BY <1>2, <3>1, <4>1
      <4> QED
        BY <1>9, <3>1, <3>3, <4>1, <4>2 DEF Cat
    <3> QED
      BY <3>2, <3>3
  <2>3. ASSUME NEW v \in t.kern.hup
        PROVE  v[3] # "none" /\ (v[1] \in t.kern.broken \/ Established(t, v[1]))
    <3>1. v \in s.kern.hup /\ v[1] # o /\ v[1] \in Objects
      BY <1>11, <2>1
    <3>2. v[3] # "none" /\ (v[1] \in s.kern.broken \/ Established(s, v[1]))
      BY <1>13, <3>1 DEF Calm
    <3> QED
      BY <1>11, <1>12, <3>1, <3>2
  <2> QED
    BY <2>2, <2>3 DEF Calm
<1> QED
  BY <1>8, <1>13 DEF t, p

LEMMA RmAlone ==
  ASSUME NEW s, NEW l, At(s, s, l), NEW f \in Own(s, l)
  PROVE  LET q == rm_fd(s, f)
         IN  At(s, q, l) /\ Alone(q) /\ q.left = s.left
<1> DEFINE q == rm_fd(s, f)
<1>1. Lost(s, s, q, l, f)
  BY RmOne
<1> HIDE DEF q
<1>2. Own(q, l) \subseteq Own(s, l) /\ f \notin Own(q, l) /\ Own(s, l) \subseteq Fds
  BY <1>1 DEF Lost, Own, Registered
<1>3. \A g \in Own(q, l) : Cat(q, g) = Cat(s, g) /\ q.kern.sock[g] = s.kern.sock[g]
  BY <1>1, <1>2 DEF Lost, Only, Cat
<1>4. \A x, y \in Own(s, l) : x # y =>
         /\ Cat(s, x) \in TcpCats /\ Cat(s, y) \in TcpCats /\ Cat(s, x) # Cat(s, y)
         /\ s.kern.sock[x] = s.kern.sock[y]
  BY DEF Alone, Own, At
<1> QED
  BY <1>1, <1>2, <1>3, <1>4, AloneAgain DEF Lost, q

(* donar_client_stream_repair.  It sets a timer if the link was up, and in *)
(* any case leaves it without halves of two connections.                   *)
LEMMA Repairing ==
  ASSUME NEW s, NEW l, At(s, s, l), NEW fd \in Own(s, l)
  PROVE  LET t == donar_client_stream_repair(s, fd)
         IN  /\ At(s, t, l) /\ Alone(t) /\ t.left = s.left
             /\ \A r, w \in Own(s, l) : Cat(s, r) = "tcp-read" /\ Cat(s, w) = "tcp-write" =>
                  Ends(t, l, {}) /\ (Calm(s) => Calm(t))
<1> DEFINE t == donar_client_stream_repair(s, fd)
           r == FromUrl(s.reg, <<"tcp-read", l>>)
           w == FromUrl(s.reg, <<"tcp-write", l>>)
           up == \E f, g \in Own(s, l) : Cat(s, f) = "tcp-read" /\ Cat(s, g) = "tcp-write"
<1>1. /\ r # NoFd => r \in Own(s, l) /\ Cat(s, r) = "tcp-read"
      /\ w # NoFd => w \in Own(s, l) /\ Cat(s, w) = "tcp-write"
      /\ up => r # NoFd /\ w # NoFd
  <2>1. Base(s, batch) /\ l \in Links /\ "tcp-read" \in TcpCats /\ "tcp-write" \in TcpCats
    BY DEF At, TcpCats
  <2> QED
    BY <2>1, Sides
<1>2. LinkOf(s, fd) = l /\ Alone(s)
  BY DEF LinkOf, Own, Link, At
<1>3. t = CASE r # NoFd /\ w # NoFd -> set_timeout(rm_fd(rm_fd(s, r), w), "broke", l)
            [] r # NoFd /\ w = NoFd -> rm_fd(s, r)
            [] r = NoFd /\ w # NoFd -> rm_fd(s, w)
            [] OTHER -> s
  BY <1>2 DEF donar_client_stream_repair
<1> HIDE DEF t, r, w
<1>4. \A f \in Own(s, l) : LET q == rm_fd(s, f)
                            IN  At(s, q, l) /\ Alone(q) /\ q.left = s.left
  BY RmAlone
<1>5. CASE r # NoFd /\ w # NoFd
  <2> DEFINE q == rm_fd(rm_fd(s, r), w)
  <2>1. At(s, q, l) /\ Own(q, l) = {} /\ q.left = s.left /\ (Calm(s) => Calm(q))
    BY <1>1, <1>5, RmBoth
  <2>2. t = Open(q, NewFd(q), NewObject(q), "set_timeout", <<"broke", l>>, "in")
    BY <1>3, <1>5 DEF set_timeout
  <2> HIDE DEF q
  <2>3. "broke" \in Kind("set_timeout") /\ Own(q, l) \subseteq {r, w}
    BY <2>1 DEF Kind, Delays
  <2>4. Gained(s, q, t, l, NewFd(q), "set_timeout")
    BY <2>1, <2>2, <2>3, OpenNew
  <2>5. At(s, t, l) /\ Ends(t, l, {}) /\ t.left = s.left /\ (Calm(s) => Calm(t))
    <3>1. Own(t, l) = {NewFd(q)} /\ Cat(t, NewFd(q)) = "set_timeout"
      BY <2>1, <2>4 DEF Gained
    <3> QED
      BY <2>1, <2>4, <3>1 DEF Gained, Ends
  <2>6. Alone(t)
    BY <2>5, EndsAlone
  <2> QED
    BY <2>5, <2>6 DEF t
<1>6. CASE ~ (r # NoFd /\ w # NoFd)
  <2>1. At(s, t, l) /\ Alone(t) /\ t.left = s.left
    BY <1>1, <1>2, <1>3, <1>4, <1>6
  <2>2. ~ up
    BY <1>1, <1>6
  <2> QED
    BY <2>1, <2>2 DEF t
<1> QED
  BY <1>5, <1>6

----------------------------------------------------------------------------
(* The invariant.                                                          *)

Events  == [w : Objects \X Fds \X {"in", "out", "none"}, fd : Fds,
            was : Objects \cup {NoSock}]
Batches == [err : SUBSET Events, cb : SUBSET Events]

(* Link l has an attempt, or its two descriptors. *)
Served(s, l) ==
  \/ \E g \in Own(s, l) : Cat(s, g) \in {"set_timeout", "socks5"}
  \/ \E r, w \in Own(s, l) : Cat(s, r) = "tcp-read" /\ Cat(s, w) = "tcp-write"

(* As long as no established link was reset, an error is about a           *)
(* descriptor that was open when it was reported.                          *)
Peace(s, b) ==
  /\ Calm(s)
  /\ \A e \in b.err : e.was = e.w[1]
  /\ \A l \in Links : Served(s, l)

IInv ==
  /\ batch \in Batches /\ Fits(batch)
  /\ left \in 0 .. MaxFailures /\ reset \in BOOLEAN /\ fate \in {"run", "exit"}
  /\ Base(State, batch) /\ Alone(State)
  /\ Troubled(State) => reset
  /\ ~ reset => Peace(State, batch)

LEMMA StateIs ==
  ASSUME NEW t \in States, reg' = t.reg, kern' = t.kern, left' = t.left
  PROVE  State' = t
BY DEF State, States

LEMMA AtState ==
  ASSUME IInv, NEW l \in Links
  PROVE  At(State, State, l)
BY DEF IInv, At, Base, Others

(* With fewer events, there is less to hold. *)
LEMMA FewerEvents ==
  ASSUME NEW s, NEW b, NEW c, Base(s, b), Fits(b), c.err \subseteq b.err, c.cb \subseteq b.cb
  PROVE  Base(s, c) /\ Fits(c)
<1>1. Base(s, c)
  BY DEF Base, TimersQuiet, Fresh
<1>2. c.err \cup c.cb \subseteq b.err \cup b.cb
  OBVIOUS
<1>3. /\ IsFiniteSet(b.err \cup b.cb) /\ Cardinality(b.err \cup b.cb) <= MaxEvents
      /\ Cardinality(b.err \cup b.cb) \in Nat /\ MaxEvents \in Nat
  BY Numbers, FS_CardinalityType DEF Fits
<1>4. /\ IsFiniteSet(c.err \cup c.cb)
      /\ Cardinality(c.err \cup c.cb) <= Cardinality(b.err \cup b.cb)
  BY <1>2, <1>3, FS_Subset
<1>5. Cardinality(c.err \cup c.cb) \in Nat
  BY <1>4, FS_CardinalityType
<1> QED
  BY <1>1, <1>3, <1>4, <1>5 DEF Fits

LEMMA OthersServed ==
  ASSUME NEW s, NEW t, NEW l, NEW m \in Links, Others(s, t, l), m # l, Served(s, m)
  PROVE  Served(t, m)
<1>1. \A g \in Own(s, m) : g \in Own(t, m) /\ Cat(t, g) = Cat(s, g)
  <2> SUFFICES ASSUME NEW g \in Own(s, m) PROVE g \in Own(t, m) /\ Cat(t, g) = Cat(s, g)
    OBVIOUS
  <2>1. g \in Fds /\ IsRegistered(s.reg, g) /\ Link(s, g) = m
    BY DEF Own, Registered
  <2>2. s.reg.info[g] = t.reg.info[g]
    BY <2>1 DEF Others
  <2> QED
    BY <2>1, <2>2 DEF Own, Registered, IsRegistered, Link, Cat
<1> QED
  BY <1>1 DEF Served

LEMMA EndsServed ==
  ASSUME NEW t, NEW l, Ends(t, l, {})
  PROVE  Served(t, l)
BY DEF Ends, Served

(* The process, or the outside world, has brought it to state t, which     *)
(* differs from the one before in link l only.                             *)
LEMMA Settles ==
  ASSUME IInv, NEW l \in Links, NEW t, At(State, t, l), Alone(t),
         t.left = left \/ (left > 0 /\ t.left = left - 1),
         Become(t), batch' \in Batches, batch'.err \subseteq batch.err,
         batch'.cb \subseteq batch.cb, fate' \in {"run", "exit"},
         ~ reset => Served(t, l) /\ (Calm(t) \/ Troubled(t))
  PROVE  IInv'
<1>1. t \in States /\ Base(t, batch) /\ Others(State, t, l)
  BY DEF At, Base
<1>2. State' = t
  BY <1>1, StateIs DEF Become
<1>3. Base(t, batch') /\ Fits(batch')
  BY <1>1, FewerEvents DEF At
<1>4. left' \in 0 .. MaxFailures
  BY ClientLinksAssumption DEF IInv, Become
<1>5. reset' = (reset \/ Troubled(t)) /\ reset' \in BOOLEAN
  BY DEF IInv, Become, Troubled
<1>6. ASSUME ~ reset' PROVE Peace(t, batch')
  <2>1. ~ reset /\ Calm(t) /\ Served(t, l) /\ Peace(State, batch)
    BY <1>5, <1>6 DEF IInv
  <2>2. ASSUME NEW m \in Links PROVE Served(t, m)
    <3>1. Served(State, m)
      BY <2>1 DEF Peace
    <3> QED
      BY <1>1, <2>1, <3>1, OthersServed
  <2>3. \A e \in batch'.err : e.was = e.w[1]
    BY <2>1 DEF Peace
  <2> QED
    BY <2>1, <2>2, <2>3 DEF Peace
<1>7. /\ Base(State', batch') /\ Alone(State') /\ (Troubled(State') => reset')
      /\ (~ reset' => Peace(State', batch'))
  BY <1>2, <1>3, <1>5, <1>6
<1> QED
  BY <1>3, <1>4, <1>5, <1>7 DEF IInv, Fits, Base, Alone, Troubled, Peace, Events, Batches

LEMMA Still ==
  ASSUME IInv, UNCHANGED <<reg, kern, left, reset>>
  PROVE  Become(State) /\ Alone(State) /\ State.left = left
         /\ (~ reset => Calm(State) /\ \A l \in Links : Served(State, l))
<1>1. reset = (reset \/ Troubled(State))
  BY DEF IInv
<1> QED
  BY <1>1 DEF IInv, Become, Troubled, State, Peace

LEMMA StillSettles ==
  ASSUME IInv, UNCHANGED <<reg, kern, left, reset>>, batch' \in Batches,
         batch'.err \subseteq batch.err, batch'.cb \subseteq batch.cb,
         fate' \in {"run", "exit"}
  PROVE  IInv'
<1>1. PICK l \in Links : TRUE
  <2>1. 1 \in Links
    BY Numbers DEF Links
  <2> QED
    BY <2>1
<1> QED
  BY <1>1, Still, AtState, Settles

(* The link of a descriptor with an event that is not ignored. *)
LEMMA OwnLink ==
  ASSUME IInv, NEW fd \in Registered(reg)
  PROVE  /\ Link(State, fd) \in Links /\ fd \in Own(State, Link(State, fd))
         /\ LinkOf(State, fd) = Link(State, fd) /\ reg.info[fd].cat = Cat(State, fd)
         /\ Cat(State, fd) \in CatNames
<1>1. fd \in Registered(State.reg) /\ State.reg = reg
  BY DEF State
<1>2. Named(State) /\ State \in States
  BY DEF IInv, Base
<1>3. Link(State, fd) \in Links
  <2>1. State.reg.info[fd].url \in Kind(Cat(State, fd)) \X Links
    BY <1>1, <1>2 DEF Named
  <2> QED
    BY <2>1 DEF Link
<1>4. Cat(State, fd) \in CatNames
  BY <1>1, <1>2, StateHas, Names DEF Registered, IsRegistered, Info, Cat
<1> QED
  BY <1>1, <1>3, <1>4 DEF Own, LinkOf, Link, Cat

LEMMA EventIs ==
  ASSUME IInv, NEW e \in batch.err \cup batch.cb, ~ Ignored(reg, e.fd)
  PROVE  e \in Events /\ e.fd \in Registered(reg)
         /\ (e.was = NoSock \/ kern.sock[e.fd] = e.was)
<1>1. e \in Events
  BY DEF IInv, Batches
<1>2. e.fd \in Fds
  BY <1>1 DEF Events
<1>3. Fresh(State, batch) /\ State.reg = reg /\ State.kern = kern
  BY DEF IInv, Base, State
<1> QED
  BY <1>1, <1>2, <1>3 DEF Fresh, Ignored, Registered

(* An attempt is the one descriptor of its link. *)
LEMMA OneAlone ==
  ASSUME NEW s, Alone(s), NEW l, NEW fd \in Own(s, l), Cat(s, fd) \notin TcpCats
  PROVE  Own(s, l) = {fd}
BY DEF Alone, Own

LEMMA ErrorStep ==
  ASSUME IInv, HandleError
  PROVE  IInv'
<1>1. PICK e \in batch.err :
        /\ batch' = [batch EXCEPT !.err = @ \ {e}]
        /\ IF Ignored(reg, e.fd) THEN UNCHANGED <<reg, kern, left, reset>>
           ELSE LET c == reg.info[e.fd].cat
                IN  \/ c \in {"tcp-read", "tcp-write"}
                         /\ Become(donar_client_stream_repair(State, e.fd))
                    \/ c = "socks5" /\ Become(on_socks5_failed(State, e.fd))
                    \/ c = "set_timeout" /\ Become(rm_fd(State, e.fd))
  BY DEF HandleError
<1>2. /\ batch' \in Batches /\ batch'.err \subseteq batch.err
      /\ batch'.cb \subseteq batch.cb /\ fate' \in {"run", "exit"}
  <2>1. batch \in Batches /\ fate \in {"run", "exit"} /\ fate' = fate
    BY DEF IInv, HandleError
  <2> QED
    BY <1>1, <2>1 DEF Batches
<1>3. CASE Ignored(reg, e.fd)
  BY <1>1, <1>2, <1>3, StillSettles
<1>4. CASE ~ Ignored(reg, e.fd)
  <2> DEFINE fd == e.fd
             l == Link(State, fd)
  <2>1. /\ e \in Events /\ fd \in Registered(reg)
        /\ e.was = NoSock \/ kern.sock[fd] = e.was
    BY <1>4, EventIs
  <2>2. /\ l \in Links /\ fd \in Own(State, l) /\ LinkOf(State, fd) = l
        /\ reg.info[fd].cat = Cat(State, fd)
    BY <2>1, OwnLink
  <2>3. At(State, State, l) /\ Alone(State) /\ State.left = left
    BY <2>2, AtState DEF IInv, State
  <2>4. ~ reset => Calm(State) /\ Served(State, l)
    BY <2>2 DEF IInv, Peace
  <2> HIDE DEF l
  <2>5. CASE /\ Cat(State, fd) \in {"tcp-read", "tcp-write"}
             /\ Become(donar_client_stream_repair(State, fd))
    <3> DEFINE t == donar_client_stream_repair(State, fd)
    <3>1. /\ At(State, t, l) /\ Alone(t) /\ t.left = left
          /\ \A r, w \in Own(State, l) : Cat(State, r) = "tcp-read" /\ Cat(State, w) = "tcp-write" =>
               Ends(t, l, {}) /\ (Calm(State) => Calm(t))
      BY <2>2, <2>3, Repairing
    <3> HIDE DEF t
    <3>2. ASSUME ~ reset PROVE Served(t, l) /\ Calm(t)
      <4>1. \A g \in Own(State, l) : Cat(State, g) \in TcpCats
        BY <2>2, <2>3, <2>5 DEF Alone, Own, TcpCats
      <4>2. \E r, w \in Own(State, l) : Cat(State, r) = "tcp-read" /\ Cat(State, w) = "tcp-write"
        BY <2>4, <3>2, <4>1 DEF Served, TcpCats
      <4>3. Ends(t, l, {}) /\ Calm(t)
        BY <2>4, <3>1, <3>2, <4>2
      <4> QED
        BY <4>3, EndsServed
    <3>3. Become(t)
      BY <2>5 DEF t
    <3> QED
      BY <1>2, <2>2, <3>1, <3>2, <3>3, Settles
  <2>6. CASE Cat(State, fd) = "socks5" /\ Become(on_socks5_failed(State, fd))
    <3> DEFINE t == on_socks5_failed(State, fd)
    <3>1. Own(State, l) = {fd}
      BY <2>2, <2>3, <2>6, OneAlone DEF TcpCats
    <3>2. Tries(State, State, l, fd)
      BY <2>2, <2>3, <2>6, <3>1 DEF Tries
    <3>3. Came(State, State, t, l, fd) /\ t.left = left /\ (Calm(State) => Calm(t))
      BY <2>3, <3>2, Failing
    <3>4. Become(t)
      BY <2>6
    <3> HIDE DEF t
    <3>5. At(State, t, l) /\ Ends(t, l, {})
      <4>1. Own(State, l) \ {fd} = {}
        BY <3>1
      <4> QED
        BY <3>3, <4>1 DEF Came
    <3>6. Alone(t) /\ Served(t, l)
      BY <3>5, EndsAlone, EndsServed
    <3> QED
      BY <1>2, <2>2, <2>4, <3>3, <3>4, <3>5, <3>6, Settles
  <2>7. CASE Cat(State, fd) = "set_timeout" /\ Become(rm_fd(State, fd))
    <3> DEFINE t == rm_fd(State, fd)
    <3>1. At(State, t, l) /\ Alone(t) /\ t.left = left
      BY <2>2, <2>3, RmAlone
    <3>2. Become(t)
      BY <2>7
    <3> HIDE DEF t
    <3>3. reset
      <4> SUFFICES ASSUME ~ reset PROVE FALSE
        BY DEF IInv
      <4>1. e.was = e.w[1] /\ e.w[1] \in Objects
        BY <2>1 DEF IInv, Peace, Events
      <4>2. kern.sock[fd] = e.w[1]
        BY <2>1, <4>1, Names
      <4>3. TimersQuiet(State, batch) /\ State.reg = reg /\ State.kern = kern
        BY DEF IInv, Base, State
      <4> QED
        BY <2>1, <2>7, <4>2, <4>3 DEF TimersQuiet
    <3> QED
      BY <1>2, <2>2, <3>1, <3>2, <3>3, Settles
  <2> QED
    BY <1>1, <1>4, <2>2, <2>5, <2>6, <2>7
<1> QED
  BY <1>3, <1>4

LEMMA EventStep ==
  ASSUME IInv, HandleEvent
  PROVE  IInv'
<1>1. PICK e \in batch.cb :
        /\ batch' = [batch EXCEPT !.cb = @ \ {e}]
        /\ IF Ignored(reg, e.fd) THEN UNCHANGED <<reg, kern, left, reset, fate>>
           ELSE LET c == reg.info[e.fd].cat
                    o == kern.sock[e.fd]
                IN  \/ /\ c = "set_timeout" /\ fate' = fate
                       /\ \E t \in set_timeout_handle(State, e.fd) : Become(t)
                    \/ /\ c = "set_timeout" /\ o \in kern.data /\ fate' = "exit"
                       /\ UNCHANGED <<reg, kern, left, reset>>
                    \/ /\ c = "socks5" /\ fate' = fate
                       /\ \E t \in socks5(Read(State, o), e.fd) : Become(t)
                    \/ /\ c \in {"tcp-read", "tcp-write"}
                       /\ UNCHANGED <<reg, kern, left, reset, fate>>
  BY Zenon DEF HandleEvent
<1> DEFINE fd == e.fd
           o == kern.sock[fd]
<1>2. fate' \in {"run", "exit"}
  BY <1>1 DEF IInv
<1>3. /\ batch' \in Batches /\ batch'.err \subseteq batch.err
      /\ batch'.cb \subseteq batch.cb
  <2>1. batch \in Batches
    BY DEF IInv
  <2> QED
    BY <1>1, <2>1 DEF Batches
<1>4. CASE UNCHANGED <<reg, kern, left, reset>>
  BY <1>2, <1>3, <1>4, StillSettles
<1>5. ASSUME ~ Ignored(reg, fd),
             \/ /\ reg.info[fd].cat = "set_timeout"
                /\ \E t \in set_timeout_handle(State, fd) : Become(t)
             \/ /\ reg.info[fd].cat = "socks5"
                /\ \E t \in socks5(Read(State, o), fd) : Become(t)
      PROVE  IInv'
  <2> DEFINE l == Link(State, fd)
             s == Read(State, o)
  <2>1. fd \in Registered(reg)
    BY <1>5, EventIs
  <2>2. /\ l \in Links /\ fd \in Own(State, l) /\ LinkOf(State, fd) = l
        /\ reg.info[fd].cat = Cat(State, fd)
    BY <2>1, OwnLink
  <2>3. At(State, State, l) /\ Alone(State) /\ State.left = left /\ State \in States
        /\ Base(State, batch) /\ State.kern = kern
    BY <2>2, AtState DEF IInv, State, Base
  <2>4. ~ reset => Calm(State) /\ Served(State, l)
    BY <2>2 DEF IInv, Peace
  <2>5. Quietly(State, s) /\ s.left = left
    BY <2>3, ReadQuietly
  <2> HIDE DEF l, s
  <2>6. Base(s, batch) /\ Others(State, s, l) /\ Own(s, l) = Own(State, l)
    BY <2>2, <2>3, <2>5, QuietBase
  <2>7. At(State, s, l) /\ \A g : Cat(s, g) = Cat(State, g)
    BY <2>3, <2>5, <2>6 DEF At, Quietly, Cat
  <2>8. Calm(State) => Calm(s)
    BY <2>5 DEF Calm, Quietly, Established, Cat
  <2>9. ASSUME NEW t, Done(State, s, t, l), Become(t) PROVE IInv'
    <3>1. At(State, t, l) /\ Ends(t, l, {}) /\ (t.left = left \/ (left > 0 /\ t.left = left - 1))
      BY <2>5, <2>9 DEF Done
    <3>2. Alone(t) /\ Served(t, l)
      BY <3>1, EndsAlone, EndsServed
    <3>3. ~ reset => Calm(t) \/ Troubled(t)
      BY <2>4, <2>8, <2>9 DEF Done
    <3> QED
      BY <1>2, <1>3, <2>2, <2>9, <3>1, <3>2, <3>3, Settles
  <2>10. CASE Cat(State, fd) = "socks5"
    <3>1. PICK t \in socks5(s, fd) : Become(t)
      BY <1>5, <2>2, <2>10 DEF s
    <3>2. Own(s, l) = {fd}
      BY <2>2, <2>3, <2>6, <2>10, OneAlone DEF TcpCats
    <3>3. Tries(State, s, l, fd)
      BY <2>7, <2>10, <3>2 DEF Tries
    <3>4. Came(State, s, t, l, fd)
      BY <2>5, <3>1, <3>3, Exchanging
    <3>5. Own(s, l) \ {fd} = {}
      BY <3>2
    <3>6. Done(State, s, t, l)
      BY <3>4, <3>5 DEF Came, Done
    <3> QED
      BY <2>9, <3>1, <3>6
  <2>11. CASE Cat(State, fd) = "set_timeout"
    <3>1. PICK t \in set_timeout_handle(State, fd) : Become(t)
      BY <1>5, <2>2, <2>11
    <3>2. CASE t = State
      BY <1>2, <1>3, <2>2, <2>3, <2>4, <3>1, <3>2, Settles
    <3>3. CASE \E u \in reinit_socks5(s, l) : t = rm_fd(u, fd)
      <4>1. PICK u \in reinit_socks5(s, l) : t = rm_fd(u, fd)
        BY <3>3
      <4>2. Own(s, l) = {fd} /\ Cat(s, fd) = "set_timeout"
        BY <2>2, <2>3, <2>6, <2>7, <2>11, OneAlone DEF TcpCats
      <4>3. Done(State, s, t, l)
        BY <2>5, <2>7, <4>1, <4>2, Retriggering
      <4> QED
        BY <2>9, <3>1, <4>3
    <3>4. t = State \/ \E u \in reinit_socks5(s, l) : t = rm_fd(u, fd)
      BY <2>2, <2>3, <3>1 DEF set_timeout_handle, s
    <3> QED
      BY <3>2, <3>3, <3>4
  <2> QED
    BY <1>5, <2>2, <2>10, <2>11
<1> QED
  BY <1>1, <1>4, <1>5

LEMMA TcpFailsStep ==
  ASSUME IInv, TcpFails
  PROVE  IInv'
<1>1. PICK fd \in Registered(reg) :
        /\ reg.info[fd].cat \in {"tcp-read", "tcp-write"}
        /\ kern.sock[fd] \in kern.broken
        /\ Become(rm_fd(State, fd))
  BY DEF TcpFails
<1>2. PICK l \in Links : At(State, State, l) /\ fd \in Own(State, l)
  BY OwnLink, AtState
<1>3. reset
  <2>1. Established(State, kern.sock[fd])
    BY <1>1 DEF Established, Registered, State
  <2> QED
    BY <1>1, <2>1 DEF IInv, Troubled, State
<1> DEFINE t == rm_fd(State, fd)
<1>4. At(State, t, l) /\ Alone(t) /\ t.left = State.left
  BY <1>2, RmAlone
<1>5. Become(t) /\ State.left = left
  BY <1>1 DEF State
<1> HIDE DEF t
<1>6. /\ batch' \in Batches /\ batch'.err \subseteq batch.err
      /\ batch'.cb \subseteq batch.cb /\ fate' \in {"run", "exit"}
  BY DEF IInv, TcpFails
<1> QED
  BY <1>2, <1>3, <1>4, <1>5, <1>6, Settles

(* What the outside world does to the kernel's object o. *)
Outside(s, t, o) ==
  /\ t \in States /\ t.reg = s.reg
  /\ t.kern.sock = s.kern.sock /\ t.kern.watch = s.kern.watch
  /\ t.kern.ready \subseteq s.kern.watch
  /\ t.kern.hup \subseteq s.kern.hup \cup Watches(s.kern, o)
  /\ t.kern.broken \subseteq s.kern.broken \cup {o}
  /\ IsOpen(s, o)
  /\ \/ t.kern.hup = s.kern.hup /\ t.kern.broken = s.kern.broken
     \/ \A g \in Registered(s.reg) : Cat(s, g) = "set_timeout" => s.kern.sock[g] # o

LEMMA OutsideBase ==
  ASSUME NEW s, NEW t, NEW b, Base(s, b), NEW o, Outside(s, t, o)
  PROVE  Base(t, b) /\ \A l : Others(s, t, l) /\ Own(t, l) = Own(s, l)
<1>1. \A n : IsBlacklisted(t.reg, n) <=> IsBlacklisted(s.reg, n)
  BY DEF Outside
<1>2. Named(t) /\ Apart(t)
  BY DEF Base, Outside, Named, Apart, Cat, Link
<1>3. Watched(t)
  BY DEF Base, Outside, Watched, IsOpen, Watches
<1>4. TimersQuiet(t, b)
  BY DEF Base, Outside, TimersQuiet, Cat, Watches
<1>5. Fresh(t, b)
  BY <1>1 DEF Base, Outside, Fresh
<1> QED
  BY <1>2, <1>3, <1>4, <1>5 DEF Base, Outside, Others, Own, Link

LEMMA OutsideSettles ==
  ASSUME IInv, NEW t, NEW o, Outside(State, t, o), Become(t),
         t.left = left \/ (left > 0 /\ t.left = left - 1),
         UNCHANGED <<batch, fate>>,
         ~ reset /\ Calm(State) => Calm(t) \/ Troubled(t)
  PROVE  IInv'
<1>1. Base(State, batch) /\ Alone(State) /\ Fits(batch) /\ State \in States
  BY DEF IInv, Base
<1>2. Base(t, batch) /\ \A l : Others(State, t, l) /\ Own(t, l) = Own(State, l)
  BY <1>1, OutsideBase
<1>3. PICK l \in Links : TRUE
  <2>1. 1 \in Links
    BY Numbers DEF Links
  <2> QED
    BY <2>1
<1>4. At(State, t, l)
  BY <1>1, <1>2 DEF At
<1>5. Alone(t) /\ \A g : Cat(t, g) = Cat(State, g)
  BY <1>1 DEF Outside, Alone, Cat, Link
<1>6. ~ reset => Served(t, l) /\ (Calm(t) \/ Troubled(t))
  BY <1>2, <1>5 DEF IInv, Peace, Served
<1>7. /\ batch' \in Batches /\ batch'.err \subseteq batch.err
      /\ batch'.cb \subseteq batch.cb /\ fate' \in {"run", "exit"}
  BY DEF IInv
<1> QED
  BY <1>3, <1>4, <1>5, <1>6, <1>7, Settles

(* A timer expires, or Tor answers: there is something to read. *)
LEMMA DataStep ==
  ASSUME IInv, NEW fd \in Registered(reg),
         kern' = [kern EXCEPT !.data = @ \cup {kern.sock[fd]},
                              !.ready = @ \cup Ins(kern, kern.sock[fd])],
         UNCHANGED <<reg, batch, left, reset, fate>>
  PROVE  IInv'
<1> DEFINE o == kern.sock[fd]
           t == [reg |-> reg, kern |-> kern', left |-> left]
<1>1. /\ State \in States /\ State.reg = reg /\ State.kern = kern /\ State.left = left
      /\ kern \in Kernel /\ reg \in Registry /\ left \in Int
      /\ Named(State) /\ Watched(State)
  BY StateHas DEF IInv, Base, State, States
<1>2. o \in Objects /\ fd \in Fds
  BY <1>1, StateHas DEF Named, Registered
<1>3. /\ kern'.sock = kern.sock /\ kern'.watch = kern.watch /\ kern'.hup = kern.hup
      /\ kern'.broken = kern.broken /\ kern'.ready = kern.ready \cup Ins(kern, o)
  BY <1>1 DEF Kernel
<1>4. Ins(kern, o) \subseteq kern.watch
  BY DEF Ins, Watches
<1>5. kern' \in Kernel
  <2>1. kern.ready \cup Ins(kern, o) \in SUBSET (Objects \X Fds \X {"in", "out", "none"})
    BY <1>1, <1>4, KernelHas
  <2>2. kern.data \cup {o} \in SUBSET Objects
    BY <1>1, <1>2, KernelHas
  <2> HIDE DEF o
  <2>3. kern' = [kern EXCEPT !.data = kern.data \cup {o}, !.ready = kern.ready \cup Ins(kern, o)]
    BY DEF o
  <2> QED
    BY <1>1, <2>1, <2>2, <2>3 DEF Kernel
<1>6. t \in States /\ t.reg = reg /\ t.kern = kern' /\ t.left = left
  BY <1>1, <1>5 DEF States
<1> HIDE DEF t, o
<1>7. Outside(State, t, o)
  <2>1. IsOpen(State, o)
    BY <1>1, <1>2 DEF IsOpen, o
  <2>2. kern.ready \subseteq kern.watch
    BY <1>1 DEF Watched
  <2> QED
    BY <1>1, <1>3, <1>4, <1>6, <2>1, <2>2 DEF Outside
<1>8. /\ Calm(State) => Calm(t)
      /\ Troubled(t) <=> Troubled(State)
  BY <1>1, <1>3, <1>6 DEF Calm, Troubled, Established, Cat
<1>9. Become(t)
  <2>1. reset = (reset \/ Troubled(t))
    BY <1>8 DEF IInv
  <2> QED
    BY <1>6, <2>1 DEF Become, Troubled
<1> QED
  BY <1>6, <1>7, <1>8, <1>9, OutsideSettles

LEMMA TorClosesStep ==
  ASSUME IInv, TorCloses
  PROVE  IInv'
<1>1. PICK o \in Objects :
        /\ Established(State, o)
        /\ kern' = [kern EXCEPT !.hup = @ \cup {w \in Watches(kern, o) : w[3] # "none"}]
  BY DEF TorCloses
<1> DEFINE t == [reg |-> reg, kern |-> kern', left |-> left - 1]
           ws == {w \in Watches(kern, o) : w[3] # "none"}
<1>2. /\ State \in States /\ State.reg = reg /\ State.kern = kern /\ State.left = left
      /\ kern \in Kernel /\ reg \in Registry /\ left \in Int /\ NoSock \notin Objects
      /\ Apart(State) /\ Watched(State)
  BY StateHas, Names DEF IInv, Base, State, States
<1>3. /\ kern'.sock = kern.sock /\ kern'.watch = kern.watch /\ kern'.ready = kern.ready
      /\ kern'.broken = kern.broken /\ kern'.hup = kern.hup \cup ws
  BY <1>1, <1>2 DEF Kernel
<1>4. ws \subseteq Watches(kern, o) /\ Watches(kern, o) \subseteq kern.watch
  BY DEF Watches
<1>5. kern' \in Kernel
  <2>1. kern.hup \cup ws \in SUBSET (Objects \X Fds \X {"in", "out", "none"})
    BY <1>2, <1>4, KernelHas
  <2>2. kern' = [kern EXCEPT !.hup = kern.hup \cup ws]
    BY <1>1
  <2> HIDE DEF ws
  <2> QED
    BY <1>2, <2>1, <2>2 DEF Kernel
<1>6. t \in States /\ t.reg = reg /\ t.kern = kern' /\ t.left = left - 1
  BY <1>2, <1>5 DEF States
<1> HIDE DEF t
<1>7. Outside(State, t, o)
  <2>1. PICK f \in Fds : kern.sock[f] = o /\ Cat(State, f) \in TcpCats
    BY <1>1, <1>2 DEF Established, Cat, TcpCats
  <2>2. \A g \in Registered(State.reg) : Cat(State, g) = "set_timeout" => State.kern.sock[g] # o
    BY <1>2, <2>1 DEF Apart, Registered, TcpCats
  <2>3. IsOpen(State, o) /\ kern.ready \subseteq kern.watch
    BY <1>2, <2>1 DEF IsOpen, Watched
  <2> QED
    BY <1>2, <1>3, <1>4, <1>6, <2>2, <2>3 DEF Outside
<1>8. Troubled(t) <=> Troubled(State)
  BY <1>2, <1>3, <1>6 DEF Troubled, Established
<1>9. ASSUME Calm(State) PROVE Calm(t)
  <2>1. \A p : Established(t, p) <=> Established(State, p)
    BY <1>2, <1>3, <1>6 DEF Established
  <2>2. \A w \in t.kern.hup : w[3] # "none" /\ (w[1] \in t.kern.broken \/ Established(t, w[1]))
    BY <1>1, <1>2, <1>3, <1>6, <1>9, <2>1 DEF Calm, Watches
  <2> QED
    BY <1>2, <1>3, <1>6, <1>9, <2>1, <2>2 DEF Calm, Cat
<1>10. Become(t)
  <2>1. reset = (reset \/ Troubled(t))
    BY <1>8 DEF IInv
  <2> QED
    BY <1>6, <2>1 DEF Become, Troubled, TorCloses
<1> QED
  BY <1>6, <1>7, <1>9, <1>10, OutsideSettles DEF TorCloses

LEMMA TorResetsStep ==
  ASSUME IInv, TorResets
  PROVE  IInv'
<1>1. PICK fd \in Registered(reg) :
        /\ reg.info[fd].cat # "set_timeout"
        /\ LET o == kern.sock[fd]
           IN  Become([State EXCEPT !.left = @ - 1, !.kern.broken = @ \cup {o},
                                    !.kern.hup = @ \cup Watches(kern, o)])
  BY DEF TorResets
<1> DEFINE o == kern.sock[fd]
           k == [kern EXCEPT !.broken = @ \cup {o}, !.hup = @ \cup Watches(kern, o)]
           t == [reg |-> reg, kern |-> k, left |-> left - 1]
<1>2. /\ State \in States /\ State.reg = reg /\ State.kern = kern /\ State.left = left
      /\ kern \in Kernel /\ reg \in Registry /\ left \in Int /\ NoSock \notin Objects
      /\ Apart(State) /\ Watched(State) /\ Named(State)
  BY StateHas, Names DEF IInv, Base, State, States
<1>3. o \in Objects /\ fd \in Fds
  BY <1>2, StateHas DEF Named, Registered
<1>4. /\ k.sock = kern.sock /\ k.watch = kern.watch /\ k.ready = kern.ready
      /\ k.broken = kern.broken \cup {o} /\ k.hup = kern.hup \cup Watches(kern, o)
  BY <1>2 DEF Kernel
<1>5. Watches(kern, o) \subseteq kern.watch
  BY DEF Watches
<1>6. k \in Kernel
  <2>1. kern.hup \cup Watches(kern, o) \in SUBSET (Objects \X Fds \X {"in", "out", "none"})
    BY <1>2, <1>5, KernelHas
  <2>2. kern.broken \cup {o} \in SUBSET Objects
    BY <1>2, <1>3, KernelHas
  <2> HIDE DEF o
  <2> QED
    BY <1>2, <2>1, <2>2 DEF Kernel
<1>7. Become(t)
  <2>1. [State EXCEPT !.left = @ - 1, !.kern.broken = @ \cup {o},
                      !.kern.hup = @ \cup Watches(kern, o)] = t
    <3> DEFINE u == [State EXCEPT !.left = @ - 1, !.kern.broken = @ \cup {o},
                                  !.kern.hup = @ \cup Watches(kern, o)]
               h == Watches(kern, o)
               x == [State EXCEPT !.left = left - 1]
               y == [x EXCEPT !.kern.broken = @ \cup {o}]
    <3>1. u = [y EXCEPT !.kern.hup = @ \cup h]
      BY <1>2
    <3> HIDE DEF o, h
    <3>2. x = [reg |-> reg, kern |-> kern, left |-> left - 1]
      BY DEF State
    <3> HIDE DEF x
    <3> DEFINE z == [kern EXCEPT !.broken = @ \cup {o}]
    <3>3. y = [reg |-> reg, kern |-> z, left |-> left - 1]
      BY <3>2
    <3>4. [z EXCEPT !.hup = @ \cup h]
            = [kern EXCEPT !.broken = @ \cup {o}, !.hup = @ \cup h]
      <4>1. DOMAIN kern = KernelFields
        BY <1>2, KernelHas
      <4>2. z.hup = kern.hup /\ DOMAIN z = KernelFields
        BY <4>1 DEF KernelFields
      <4> QED
        BY <4>1, <4>2 DEF KernelFields
    <3> HIDE DEF y, z
    <3>5. [y EXCEPT !.kern.hup = @ \cup h]
            = [reg |-> reg, kern |-> [z EXCEPT !.hup = @ \cup h], left |-> left - 1]
      BY <3>3
    <3> QED
      BY <3>1, <3>4, <3>5 DEF h
  <2> QED
    BY <1>1, <2>1
<1>8. t \in States /\ t.reg = reg /\ t.kern = k /\ t.left = left - 1
  BY <1>2, <1>6 DEF States
<1> HIDE DEF t, k
<1>9. \A g \in Fds : Cat(State, g) = "set_timeout" => kern.sock[g] # o
  BY <1>1, <1>2, <1>3 DEF Apart, Cat
<1>10. Outside(State, t, o)
  <2>1. IsOpen(State, o) /\ kern.ready \subseteq kern.watch
    BY <1>2, <1>3 DEF IsOpen, Watched
  <2> QED
    BY <1>2, <1>4, <1>5, <1>8, <1>9, <2>1 DEF Outside, Registered
<1>11. \A p : Established(t, p) <=> Established(State, p)
  BY <1>2, <1>4, <1>8 DEF Established
<1>12. ASSUME Calm(State), ~ Established(State, o) PROVE Calm(t)
  <2>1. \A w \in Watches(kern, o) : w[3] # "none" /\ w[1] \in t.kern.broken
    BY <1>2, <1>4, <1>8, <1>12 DEF Calm, Watches
  <2>2. \A w \in t.kern.hup : w[3] # "none" /\ (w[1] \in t.kern.broken \/ Established(t, w[1]))
    BY <1>2, <1>4, <1>8, <1>11, <1>12, <2>1 DEF Calm
  <2> QED
    BY <1>2, <1>4, <1>8, <1>11, <1>12, <2>2 DEF Calm, Cat
<1>13. Established(State, o) => Troubled(t)
  BY <1>4, <1>8, <1>11 DEF Troubled
<1> QED
  BY <1>7, <1>8, <1>10, <1>12, <1>13, OutsideSettles DEF TorResets

LEMMA WatchesFinite ==
  IsFiniteSet(Objects \X Fds \X {"in", "out", "none"})
<1> DEFINE D == {"in", "out", "none"}
           P == (Objects \X Fds) \X D
           f == [x \in P |-> <<x[1][1], x[1][2], x[2]>>]
<1>1. IsFiniteSet(D)
  <2>1. IsFiniteSet({"in"})
    BY FS_Singleton
  <2>2. IsFiniteSet({"in"} \cup {"out"})
    BY <2>1, FS_AddElement
  <2>3. IsFiniteSet(({"in"} \cup {"out"}) \cup {"none"})
    BY <2>2, FS_AddElement
  <2>4. D = ({"in"} \cup {"out"}) \cup {"none"}
    OBVIOUS
  <2> QED
    BY <2>3, <2>4
<1>2. IsFiniteSet(Objects \X Fds)
  BY Numbers, FS_Product
<1>3. IsFiniteSet(P)
  <2> HIDE DEF D
  <2> QED
    BY <1>1, <1>2, FS_Product
<1>4. IsFiniteSet({f[x] : x \in P})
  <2>1. f = [x \in P |-> f[x]]
    OBVIOUS
  <2> HIDE DEF f, P
  <2> QED
    BY <1>3, <2>1, Image
<1>5. Objects \X Fds \X D \subseteq {f[x] : x \in P}
  <2> SUFFICES ASSUME NEW y \in Objects \X Fds \X D PROVE y \in {f[x] : x \in P}
    BY Zenon
  <2>1. y[1] \in Objects /\ y[2] \in Fds /\ y[3] \in D /\ y = <<y[1], y[2], y[3]>>
    OBVIOUS
  <2>2. <<<<y[1], y[2]>>, y[3]>> \in P /\ f[<<<<y[1], y[2]>>, y[3]>>] = y
    BY <2>1
  <2> HIDE DEF f, P
  <2> QED
    BY <2>2
<1> HIDE DEF f, P
<1> QED
  BY <1>4, <1>5, FS_Subset

LEMMA PollStep ==
  ASSUME IInv, Poll
  PROVE  IInv'
<1>1. PICK ws \in SUBSET (kern.ready \cup kern.hup) :
        /\ Cardinality(ws) <= MaxEvents
        /\ batch' = BatchOf(kern, ws) /\ kern' = Reported(kern, ws)
  BY DEF Poll
<1> DEFINE t == [reg |-> ClearBlacklist(reg), kern |-> Reported(kern, ws), left |-> left]
           b == BatchOf(kern, ws)
<1>2. /\ State \in States /\ State.reg = reg /\ State.kern = kern /\ State.left = left
      /\ kern \in Kernel /\ reg \in Registry /\ left \in Int /\ NoSock \notin Objects
      /\ RegistryInv(reg) /\ Named(State) /\ Apart(State) /\ Watched(State)
      /\ TimersQuiet(State, batch) /\ Alone(State)
  BY StateHas, Names DEF IInv, Base, State, States
<1>3. ws \subseteq kern.watch /\ ws \subseteq Objects \X Fds \X {"in", "out", "none"}
  BY <1>2, KernelHas DEF Watched
<1>4. /\ t.kern.sock = kern.sock /\ t.kern.watch = kern.watch
      /\ t.kern.ready = kern.ready \ ws /\ t.kern.hup = kern.hup \ ws
      /\ t.kern.broken = kern.broken /\ t.kern = Reported(kern, ws)
      /\ t.reg = ClearBlacklist(reg) /\ t.left = left
  BY <1>2 DEF Reported, Kernel
<1>5. /\ t.reg.info = reg.info /\ t.reg.list = reg.list /\ t.reg.url = reg.url
      /\ t.reg.key = reg.key /\ t.reg.black = <<>> /\ t.reg \in Registry
  <2>1. <<>> \in Seq(Fds)
    OBVIOUS
  <2>2. t.reg = [reg EXCEPT !.black = <<>>]
    BY DEF ClearBlacklist
  <2> HIDE DEF t
  <2> QED
    BY <1>2, <2>1, <2>2 DEF Registry
<1>6. t.kern \in Kernel
  <2>1. /\ kern.ready \ ws \in SUBSET (Objects \X Fds \X {"in", "out", "none"})
        /\ kern.hup \ ws \in SUBSET (Objects \X Fds \X {"in", "out", "none"})
    BY <1>2, KernelHas
  <2> QED
    BY <1>2, <1>4, <2>1 DEF Reported, Kernel
<1>7. t \in States
  BY <1>2, <1>5, <1>6 DEF States
<1>8. State' = t
  <2>1. kern' = t.kern /\ reg' = t.reg /\ left' = t.left
    BY <1>1, <1>4 DEF Poll
  <2> QED
    BY <1>7, <2>1, StateIs
<1> HIDE DEF t
<1>9. \A g : /\ Cat(t, g) = Cat(State, g) /\ Link(t, g) = Link(State, g)
             /\ IsRegistered(t.reg, g) <=> IsRegistered(State.reg, g)
  BY <1>2, <1>5 DEF Cat, Link, IsRegistered
<1>10. RegistryInv(t.reg)
  BY <1>2, <1>5 DEF RegistryInv, ListsAgree, UrlsLive, Registered, IsRegistered
<1>11. Named(t) /\ Apart(t) /\ Alone(t)
  <2>1. Registered(t.reg) = Registered(reg)
    BY <1>5 DEF Registered, IsRegistered
  <2>2. Named(t)
    BY <1>2, <1>4, <1>5, <1>9, <2>1 DEF Named
  <2>3. Apart(t)
    BY <1>2, <1>4, <1>9 DEF Apart
  <2>4. Alone(t)
    BY <1>2, <1>4, <1>9, <2>1 DEF Alone
  <2> QED
    BY <2>2, <2>3, <2>4
<1>12. Watched(t)
  BY <1>2, <1>4 DEF Watched, IsOpen
<1>13. /\ b.err = {Event(kern, w) : w \in ws \cap kern.hup}
       /\ b.cb = {Event(kern, w) : w \in ws \ kern.hup}
       /\ b.err \cup b.cb = {Event(kern, w) : w \in ws}
       /\ b = [err |-> b.err, cb |-> b.cb]
  BY DEF BatchOf
<1>14. \A w \in ws : /\ Event(kern, w) \in Events /\ Event(kern, w).w = w
                     /\ Event(kern, w).fd = w[2] /\ Event(kern, w).was = kern.sock[w[2]]
                     /\ w[1] \in Objects /\ w[2] \in Fds
  BY <1>2, <1>3, KernelHas DEF Event, Events
<1>15. b \in Batches
  <2>1. b.err \in SUBSET Events /\ b.cb \in SUBSET Events
    BY <1>13, <1>14
  <2> HIDE DEF b
  <2> QED
    BY <1>13, <2>1 DEF Batches
<1>16. Fits(b)
  <2> DEFINE f == [w \in ws |-> Event(kern, w)]
  <2>1. IsFiniteSet(ws)
    BY <1>3, WatchesFinite, FS_Subset
  <2>2. f = [w \in ws |-> f[w]] /\ b.err \cup b.cb = {f[w] : w \in ws}
    BY <1>13
  <2> HIDE DEF f, b
  <2>3. /\ IsFiniteSet({f[w] : w \in ws})
        /\ Cardinality({f[w] : w \in ws}) <= Cardinality(ws)
    BY <2>1, <2>2, Image
  <2>4. Cardinality({f[w] : w \in ws}) \in Nat /\ Cardinality(ws) \in Nat /\ MaxEvents \in Nat
    BY <2>1, <2>3, Numbers, FS_CardinalityType
  <2> QED
    BY <1>1, <2>2, <2>3, <2>4 DEF Fits
<1>17. TimersQuiet(t, b)
  <2> SUFFICES ASSUME NEW g \in Registered(t.reg), Cat(t, g) = "set_timeout"
               PROVE  /\ t.kern.sock[g] \notin t.kern.broken
                      /\ \A w \in t.kern.hup : w[1] # t.kern.sock[g]
                      /\ \A e \in b.err : e.w[1] # t.kern.sock[g]
    BY DEF TimersQuiet
  <2>1. /\ kern.sock[g] \notin kern.broken
        /\ \A w \in kern.hup : w[1] # kern.sock[g]
    BY <1>2, <1>9 DEF TimersQuiet, Registered
  <2>2. \A e \in b.err : e.w[1] # kern.sock[g]
    BY <1>13, <1>14, <2>1
  <2> QED
    BY <1>4, <2>1, <2>2
<1>18. Fresh(t, b)
  <2>1. \A e \in b.err \cup b.cb : e.fd \in Fds /\ e.was = kern.sock[e.fd]
    BY <1>13, <1>14
  <2> QED
    BY <1>4, <2>1 DEF Fresh
<1>19. Base(t, b)
  BY <1>7, <1>10, <1>11, <1>12, <1>17, <1>18 DEF Base
<1>20. \A p : Established(t, p) <=> Established(State, p)
  BY <1>2, <1>4, <1>5 DEF Established, IsRegistered
<1>21. Troubled(t) => reset
  BY <1>2, <1>4, <1>20 DEF Troubled, IInv
<1>22. ASSUME ~ reset PROVE Peace(t, b)
  <2>1. Calm(State) /\ \A l \in Links : Served(State, l)
    BY <1>22 DEF IInv, Peace
  <2>2. Calm(t)
    BY <1>2, <1>4, <1>9, <1>20, <2>1 DEF Calm
  <2>3. \A e \in b.err : e.was = e.w[1]
    BY <1>2, <1>3, <1>13, <1>14, <2>1 DEF Calm
  <2>4. \A l \in Links : Served(t, l)
    <3>1. \A l : Own(t, l) = Own(State, l)
      BY <1>2, <1>9 DEF Own, Registered
    <3> QED
      BY <1>9, <2>1, <3>1 DEF Served
  <2> QED
    BY <2>2, <2>3, <2>4 DEF Peace
<1>23. /\ batch' \in Batches /\ Fits(batch') /\ Base(State', batch') /\ Alone(State')
       /\ (Troubled(State') => reset') /\ (~ reset' => Peace(State', batch'))
  <2>1. batch' = b /\ reset' = reset
    BY <1>1 DEF Poll
  <2> HIDE DEF b
  <2> QED
    BY <1>8, <1>11, <1>15, <1>16, <1>19, <1>21, <1>22, <2>1
<1>24. left' \in 0 .. MaxFailures /\ reset' \in BOOLEAN /\ fate' \in {"run", "exit"}
  BY DEF IInv, Poll
<1> QED
  BY <1>23, <1>24 DEF IInv, Fits, Base, Alone, Troubled, Peace, Events, Batches

LEMMA Starts == Init => IInv
<1> SUFFICES ASSUME Init PROVE IInv
  OBVIOUS
<1> DEFINE fdinfo(fd) == IF fd \in Links THEN [cat |-> "set_timeout", url |-> <<"start", fd>>]
                         ELSE NoInfo
           at(u) == IF u[1] = "start" THEN u[2] ELSE NoFd
<1>1. /\ Links \subseteq Fds /\ Links \subseteq Objects /\ "set_timeout" \in Cats
      /\ \A l \in Links : <<"start", l>> \in Urls
      /\ NoSock \notin Objects /\ NoFd \notin Fds /\ NoFd \notin Cats /\ NoFd \notin Urls
      /\ \A u \in Urls : u[2] \in Links
  <2>1. Links \subseteq Fds /\ Links \subseteq Objects
    <3>1. /\ NLinks \in Nat /\ NObjects \in Nat /\ MaxEvents \in Nat
          /\ Fds = 1 .. (2 * NLinks + 2) /\ NObjects > Cardinality(Fds) + 2 * MaxEvents
          /\ Cardinality(Fds) = 2 * NLinks + 2
      BY Numbers, ClientLinksAssumption
    <3> QED
      BY <3>1 DEF Links, Objects
  <2>2. "start" \in Delays
    BY DEF Delays
  <2> QED
    BY <2>1, <2>2, Names, EvtCoreAssumption, ClientLinksAssumption DEF CatNames
<1>2. /\ reg.info = [fd \in Fds |-> fdinfo(fd)]
      /\ reg.list = [c \in Cats |-> IF c = "set_timeout" THEN [l \in Links |-> l] ELSE <<>>]
      /\ reg.url = [u \in Urls |-> at(u)] /\ reg.key = [u \in Urls |-> at(u)]
      /\ reg.black = <<>>
      /\ reg = [info |-> reg.info, list |-> reg.list, url |-> reg.url, key |-> reg.key,
                black |-> reg.black]
  BY <1>1 DEF Init, EmptyRegistry
<1>3. /\ kern.sock = [fd \in Fds |-> IF fd \in Links THEN fd ELSE NoSock]
      /\ kern.watch = {<<l, l, "in">> : l \in Links}
      /\ kern.ready = {} /\ kern.hup = {} /\ kern.data = {} /\ kern.broken = {}
      /\ kern = [sock |-> kern.sock, watch |-> kern.watch, ready |-> kern.ready,
                 hup |-> kern.hup, data |-> kern.data, broken |-> kern.broken]
  BY DEF Init
<1>4. batch = [err |-> {}, cb |-> {}] /\ left = MaxFailures /\ reset = FALSE /\ fate = "run"
  BY DEF Init, EmptyBatch
<1>5. /\ State.reg = reg /\ State.kern = kern /\ State.left = left
      /\ \A fd \in Links : /\ reg.info[fd].cat = "set_timeout" /\ reg.info[fd] # NoInfo
                           /\ reg.info[fd].url = <<"start", fd>> /\ kern.sock[fd] = fd
      /\ \A fd \in Fds \ Links : reg.info[fd] = NoInfo /\ kern.sock[fd] = NoSock
  <2>1. ASSUME NEW fd \in Links
        PROVE  /\ reg.info[fd].cat = "set_timeout" /\ reg.info[fd] # NoInfo
               /\ reg.info[fd].url = <<"start", fd>> /\ kern.sock[fd] = fd
    <3>1. reg.info[fd] = [cat |-> "set_timeout", url |-> <<"start", fd>>] /\ kern.sock[fd] = fd
      BY <1>1, <1>2, <1>3
    <3> QED
      BY <1>1, <3>1 DEF NoInfo
  <2>2. \A fd \in Fds \ Links : reg.info[fd] = NoInfo /\ kern.sock[fd] = NoSock
    BY <1>2, <1>3
  <2> QED
    BY <2>1, <2>2 DEF State
<1>6. /\ Registered(reg) = Links
      /\ \A fd \in Fds : IsRegistered(reg, fd) <=> fd \in Links
      /\ \A fd \in Links : Cat(State, fd) = "set_timeout" /\ Link(State, fd) = fd
  BY <1>1, <1>5 DEF Registered, IsRegistered, Cat, Link
<1>7. reg \in Registry
  <2>1. reg.info \in [Fds -> Info \cup {NoInfo}]
    BY <1>1, <1>2 DEF Info
  <2>2. reg.list \in [Cats -> Seq(Fds)]
    <3>1. [l \in Links |-> l] \in Seq(Fds)
      BY <1>1, Numbers DEF Links
    <3>2. <<>> \in Seq(Fds)
      OBVIOUS
    <3> QED
      BY <1>2, <3>1, <3>2
  <2>3. reg.url \in [Urls -> Fds \cup {NoFd}] /\ reg.key \in [Urls -> Fds \cup {NoFd}]
    BY <1>1, <1>2
  <2>4. reg.black \in Seq(Fds)
    BY <1>2
  <2> QED
    BY <1>2, <2>1, <2>2, <2>3, <2>4 DEF Registry
<1>8. kern \in Kernel
  <2>1. kern.sock \in [Fds -> Objects \cup {NoSock}]
    BY <1>1, <1>3
  <2>2. kern.watch \in SUBSET (Objects \X Fds \X {"in", "out", "none"})
    BY <1>1, <1>3
  <2> QED
    BY <1>3, <2>1, <2>2 DEF Kernel
<1>9. State \in States /\ left \in 0 .. MaxFailures
  BY <1>4, <1>7, <1>8, ClientLinksAssumption DEF State, States
<1>10. RegistryInv(reg)
  <2>1. ListsAgree(reg)
    <3>1. \A c \in Cats : reg.list[c] = IF c = "set_timeout" THEN [l \in Links |-> l] ELSE <<>>
      BY <1>2
    <3>2. \A fd \in Links : reg.info[fd].cat = "set_timeout"
      BY <1>5
    <3>3. reg.list["set_timeout"] = [l \in Links |-> l]
      BY <1>1, <3>1
    <3>4. ASSUME NEW c \in Cats, NEW i \in DOMAIN reg.list[c]
          PROVE  c = "set_timeout" /\ i \in Links /\ reg.list[c][i] = i
      <4>1. CASE c = "set_timeout"
        BY <3>3, <4>1
      <4>2. CASE c # "set_timeout"
        <5>1. reg.list[c] = <<>>
          BY <3>1, <4>2
        <5>2. DOMAIN reg.list[c] = {}
          BY <5>1
        <5> QED
          BY <5>2
      <4> QED
        BY <4>1, <4>2
    <3> QED
      BY <1>1, <1>6, <3>2, <3>3, <3>4 DEF ListsAgree
  <2>2. UrlsLive(reg)
    <3> SUFFICES ASSUME NEW u \in Urls
                 PROVE  /\ reg.url[u] # NoFd => /\ reg.info[reg.url[u]].url = u
                                                /\ reg.info[reg.key[u]].url = u
                        /\ reg.url[u] = NoFd <=> reg.key[u] = NoFd
      BY DEF UrlsLive
    <3>1. reg.url[u] = at(u) /\ reg.key[u] = at(u)
      BY <1>2
    <3>2. u[2] \in Links /\ u = <<u[1], u[2]>>
      BY ClientLinksAssumption
    <3>3. u[1] = "start" => reg.info[u[2]].url = u
      BY <1>5, <3>2
    <3> QED
      BY <3>1, <3>3
  <2> QED
    BY <2>1, <2>2 DEF RegistryInv
<1>11. Named(State)
  <2>1. ASSUME NEW fd \in Links
        PROVE  /\ State.reg.info[fd].url \in Kind(Cat(State, fd)) \X Links
               /\ Cat(State, fd) \notin TcpCats
    <3>1. State.reg.info[fd].url = <<"start", fd>> /\ Cat(State, fd) = "set_timeout"
      BY <1>5, <1>6
    <3> QED
      BY <3>1 DEF Kind, Delays, TcpCats
  <2>2. \A fd \in Fds : kern.sock[fd] # NoSock <=> fd \in Links
    BY <1>1, <1>5
  <2> QED
    BY <1>5, <1>6, <2>1, <2>2 DEF Named
<1>12. Apart(State) /\ Alone(State)
  BY <1>5, <1>6 DEF Apart, Alone
<1>13. Watched(State) /\ Calm(State) /\ ~ Troubled(State)
  BY <1>1, <1>3, <1>5 DEF Watched, IsOpen, Calm, Troubled
<1>14. TimersQuiet(State, batch) /\ Fresh(State, batch)
  BY <1>3, <1>4, <1>5 DEF TimersQuiet, Fresh
<1>15. Fits(batch) /\ batch \in Batches
  <2>1. batch.err \cup batch.cb = {}
    BY <1>4
  <2>2. batch \in Batches
    BY <1>4 DEF Batches
  <2> QED
    BY <2>1, <2>2, FS_EmptySet, Numbers DEF Fits
<1>16. Peace(State, batch)
  <2>1. \A l \in Links : l \in Own(State, l)
    BY <1>5, <1>6 DEF Own
  <2>2. \A l \in Links : Served(State, l)
    BY <1>6, <2>1 DEF Served
  <2> QED
    BY <1>4, <1>13, <2>2 DEF Peace
<1> QED
  BY <1>4, <1>5, <1>9, <1>10, <1>11, <1>12, <1>13, <1>14, <1>15, <1>16 DEF IInv, Base

LEMMA NextKeeps ==
  ASSUME IInv, [Next]_vars
  PROVE  IInv'
<1>1. CASE UNCHANGED vars
  <2>1. UNCHANGED <<reg, kern, left, reset>> /\ batch' = batch /\ fate' = fate
    BY <1>1 DEF vars
  <2> QED
    BY <2>1, StillSettles DEF IInv
<1>2. CASE Poll
  BY <1>2, PollStep
<1>3. CASE HandleError
  BY <1>3, ErrorStep
<1>4. CASE HandleEvent
  BY <1>4, EventStep
<1>5. CASE TcpFails
  BY <1>5, TcpFailsStep
<1>6. ASSUME NEW l \in Links, TimerExpires(l) PROVE IInv'
  BY <1>6, DataStep, Zenon DEF TimerExpires
<1>7. CASE TorAnswers
  BY <1>7, DataStep, Zenon DEF TorAnswers
<1>8. CASE TorCloses
  BY <1>8, TorClosesStep
<1>9. CASE TorResets
  BY <1>9, TorResetsStep
<1> QED
  BY <1>1, <1>2, <1>3, <1>4, <1>5, <1>6, <1>7, <1>8, <1>9 DEF Next, Step, Env

LEMMA Invariant == Spec => []IInv
<1>1. Init => IInv
  BY Starts
<1>2. IInv /\ [Next]_vars => IInv'
  BY NextKeeps
<1> QED
  BY <1>1, <1>2, PTL DEF Spec

----------------------------------------------------------------------------
(* The theorems.                                                           *)

(* However many links there are, and events in a batch: a handler always   *)
(* finds a descriptor and an object to open, and what it makes of the      *)
(* registry, the kernel and the batch is of their types.                   *)
THEOREM TypeCorrect == Spec => []TypeOK
<1>1. IInv => TypeOK
  <2> SUFFICES ASSUME IInv PROVE TypeOK
    OBVIOUS
  <2>1. State \in States /\ State.reg = reg /\ State.kern = kern
    BY DEF IInv, Base, State
  <2>2. reg \in Registry /\ kern \in Kernel
    BY <2>1, StateHas
  <2>3. batch \in Batches
    BY DEF IInv
  <2> QED
    BY <2>2, <2>3 DEF IInv, TypeOK, Batches, Events
<1> QED
  BY <1>1, Invariant, PTL

(* No handler of the client, failing where it may, leaves a freed fdinfo   *)
(* to be found, leaks a descriptor, or closes one that is registered.      *)
THEOREM RegistryIsConsistent == Spec => []RegistryConsistent
<1>1. IInv => RegistryConsistent
  BY DEF IInv, Base, Named, State, RegistryConsistent
<1> QED
  BY <1>1, Invariant, PTL

(* In whatever order the events of timers, of connections and of           *)
(* descriptors that are gone come, a link has one attempt, or one          *)
(* descriptor for each side of its connection, and never both.             *)
THEOREM OneAttemptEach == Spec => []OneAttempt
<1>1. IInv => OneAttempt
  <2> SUFFICES ASSUME IInv, NEW l \in Links
               PROVE  /\ Cardinality(Of(l, "set_timeout") \cup Of(l, "socks5")) <= 1
                      /\ Of(l, "set_timeout") \cup Of(l, "socks5") # {} =>
                           Of(l, "tcp-read") \cup Of(l, "tcp-write") = {}
                      /\ Cardinality(Of(l, "tcp-read")) <= 1
                      /\ Cardinality(Of(l, "tcp-write")) <= 1
    BY DEF OneAttempt
  <2>1. ASSUME NEW S, \A x, y \in S : x = y PROVE Cardinality(S) <= 1
    <3>1. CASE S = {}
      BY <3>1, FS_EmptySet
    <3>2. CASE \E x \in S : S = {x}
      <4>1. PICK x \in S : S = {x}
        BY <3>2
      <4>2. Cardinality({x}) = 1
        BY FS_Singleton
      <4> QED
        BY <4>1, <4>2
    <3> QED
      BY <2>1, <3>1, <3>2
  <2>2. Alone(State)
    BY DEF IInv
  <2>3. \A c : \A f \in Of(l, c) :
          /\ f \in Registered(State.reg) /\ Link(State, f) = l /\ Cat(State, f) = c
    BY DEF Of, State, Link, Cat
  <2>4. \A x, y \in Of(l, "set_timeout") \cup Of(l, "socks5") : x = y
    BY <2>2, <2>3 DEF Alone, TcpCats
  <2>5. ASSUME NEW x \in Of(l, "set_timeout") \cup Of(l, "socks5"),
               NEW y \in Of(l, "tcp-read") \cup Of(l, "tcp-write")
        PROVE  FALSE
    BY <2>2, <2>3 DEF Alone, TcpCats
  <2>6. /\ \A x, y \in Of(l, "tcp-read") : x = y
        /\ \A x, y \in Of(l, "tcp-write") : x = y
    BY <2>2, <2>3 DEF Alone
  <2> HIDE DEF Of
  <2> QED
    BY <2>1, <2>4, <2>5, <2>6
<1> QED
  BY <1>1, Invariant, PTL

(* An event that said something of an open descriptor is handled for the   *)
(* object it was about, or ignored: evt_core_fd_bl misses none.            *)
THEOREM EventsAreFresh == Spec => []BatchFresh
<1>1. IInv => BatchFresh
  BY DEF IInv, Base, Fresh, State, BatchFresh, Ignored
<1> QED
  BY <1>1, Invariant, PTL

(* As long as Tor resets no established link, every link is up or has an   *)
(* attempt under way, whichever handlers fail, and whenever Tor closes it. *)
THEOREM NoLinkIsLost == Spec => []NoLinkLost
<1>1. IInv => NoLinkLost
  <2> SUFFICES ASSUME IInv, ~ reset, NEW l \in Links
               PROVE  Up(l) \/ Of(l, "set_timeout") \cup Of(l, "socks5") # {}
    BY DEF NoLinkLost
  <2>1. Served(State, l)
    BY DEF IInv, Peace
  <2>2. \A g \in Own(State, l) : g \in Of(l, Cat(State, g))
    BY DEF Own, Of, Link, Cat, State
  <2> QED
    BY <2>1, <2>2 DEF Served, Up
<1> QED
  BY <1>1, Invariant, PTL

=============================================================================
